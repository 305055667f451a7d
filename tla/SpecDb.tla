-------------------------------- MODULE SpecDb --------------------------------
(***************************************************************************)
(* The GPU table (gpu_specs/mod.rs): remote entries merged into the        *)
(* built-in ones, and the lookup of the name a driver or a provider gives. *)
(*                                                                         *)
(* A name is the sequence of its words in lower case, a parenthesised      *)
(* annotation being one word.  A spec is [name, aliases, tflops], the      *)
(* aliases a set; its other figures take no part.                          *)
(***************************************************************************)
EXTENDS Lists, FiniteSets

CONSTANTS
  Vocabulary,  \* the words that names are made of
  Builtin      \* fallback_specs.json: a sequence of specs

\* Names are split at white space, so no word is empty.
ASSUME VocabularyAssumption ==
  /\ {"4070", "super", "(community)"} \subseteq Vocabulary
  /\ \A word \in Vocabulary : Len(word) \in Nat \ {0}

Variants == {"ti", "super", "max", "pro", "ultra", "nvl", "mobile", "laptop", "sff"}
Brands == {"nvidia", "geforce", "tesla", "quadro", "apple", "gpu", "generation"}

\* Words with a meaning of their own: annotations and memory sizes say nothing
\* of the model, "4070s" is short for "4070 super", and a bus may be numbered.
Ignored == Brands \cup {"(spot)", "(community)", "80gb", "40g"}
Short == [word \in {"4070s"} |-> <<"4070", "super">>]
Numbered == {<<"sxm", "sxm4">>, <<"sxm", "sxm5">>, <<"pcie", "pcie4">>}

Words(word) ==
  CASE word \in Ignored -> <<>>
    [] word \in DOMAIN Short -> Short[word]
    [] OTHER -> <<word>>

Normalized(name) == FoldLeft(LAMBDA words, word : words \o Words(word), <<>>, name)

TokenMatches(spec, query) == spec = query \/ <<spec, query>> \in Numbered

\* A word of the spec takes the first word of the query that it matches and
\* no earlier one took; the words taken, or {0} when there was none left.
Take(taken, word, query) ==
  LET hits == {i \in DOMAIN query \ taken : TokenMatches(word, query[i])}
  IN IF hits = {} \/ 0 \in taken THEN {0} ELSE taken \cup {Min(hits)}

Taken(spec, query) == FoldLeft(LAMBDA taken, word : Take(taken, word, query), {}, spec)

Letters(spec) == Total([i \in DOMAIN spec |-> Len(spec[i])])

\* Mutant of MatchScore: words of the query that the spec lacks are forgiven.
MatchScoreForgiving(spec, query) ==
  IF spec = <<>> \/ 0 \in Taken(spec, query) THEN 0 ELSE Letters(spec)

\* 0 is no match; a variant in the query has to be in the spec.
MatchScore(spec, query) ==
  LET taken == Taken(spec, query)
  IN IF \/ spec = <<>> \/ 0 \in taken
        \/ \E i \in DOMAIN query \ taken : query[i] \in Variants
     THEN 0 ELSE Letters(spec)

Names(spec) == {spec.name} \cup spec.aliases

Specs ==
  {spec \in [name : Seq(Vocabulary), aliases : SUBSET Seq(Vocabulary), tflops : Nat] :
     IsFiniteSet(spec.aliases)}

\* No built-in name is made up of words that say nothing.
ASSUME BuiltinAssumption ==
  /\ Builtin \in Seq(Specs)
  /\ \A i \in DOMAIN Builtin : \A name \in Names(Builtin[i]) : Normalized(name) # <<>>

SpecScore(spec, query) ==
  Max({MatchScore(Normalized(n), query) : n \in Names(spec)})

\* The best score, the last of equals; 0 when nothing matches.
BestOf(scores) ==
  LET best == {i \in DOMAIN scores : /\ scores[i] > 0
                                     /\ \A j \in DOMAIN scores : scores[j] <= scores[i]}
  IN IF best = {} THEN 0 ELSE Max(best)

Scores(db, query) == [i \in DOMAIN db |-> SpecScore(db[i], query)]

\* find; an empty name matches nothing.
Found(db, name) == BestOf(Scores(db, Normalized(name)))

IsValid(spec) == spec.name # <<>> /\ spec.tflops > 0

\* Mutant of MergeOne: the remote entry takes the slot with the aliases it has.
MergeOneBare(db, spec) ==
  LET same == {i \in DOMAIN db : db[i].name = spec.name}
  IN CASE ~IsValid(spec) -> db
       [] IsValid(spec) /\ same = {} -> Append(db, spec)
       [] OTHER -> [db EXCEPT ![Min(same)] = spec]

\* A remote entry replaces the one of its name, whose aliases it inherits.
MergeOne(db, spec) ==
  LET same == {i \in DOMAIN db : db[i].name = spec.name}
  IN CASE ~IsValid(spec) -> db
       [] IsValid(spec) /\ same = {} -> Append(db, spec)
       [] OTHER -> [db EXCEPT ![Min(same)] = [spec EXCEPT !.aliases = @ \cup db[Min(same)].aliases]]

\* SpecDb::load: the built-in table with what load_remote_specs returned.
Merged(remote) == FoldLeft(MergeOne, Builtin, remote)
==============================================================================
