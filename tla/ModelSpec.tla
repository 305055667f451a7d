------------------------------- MODULE ModelSpec -------------------------------
(***************************************************************************)
(* What `calibrate plan` takes a model to be (plan/model/resolver.rs), by  *)
(* what is on the disk, what the Hub answers and what --params-b says.     *)
(*                                                                         *)
(* Counts are in parameters of a small model; a config is the record of    *)
(* the fields of HfConfig, Missing where it has none.  One that is there   *)
(* but cannot be read to its end, or does not parse, is "bad".             *)
(***************************************************************************)
EXTENDS Integers, Sequences, SequencesExt, FiniteSetsExt, FiniteSets

CONSTANTS
  Defaults,  \* the values HfConfig assumes: layers, hidden, heads, vocab
  Guesses    \* infer_spec_from_params: architectures by size, smallest first

ASSUME DefaultsAssumption == Defaults \in [{"layers", "hidden", "heads", "vocab"} -> Nat]
ASSUME GuessesAssumption ==
  /\ Guesses # <<>>
  /\ Guesses \in Seq([below : Nat, layers : Nat, hidden : Nat, ffn : Nat, heads : Nat \ {0},
                       kvHeads : Nat, vocab : Nat])

Missing == -1

\* The fields of a config are unsigned.
IsConfig(c) ==
  {c.layers, c.hidden, c.heads, c.kvHeads, c.headDim, c.ffn, c.vocab, c.experts,
   c.perToken, c.moeFfn, c.params} \subseteq Nat \cup {Missing}

Or(value, default) == IF value = Missing THEN default ELSE value

\* Multimodal configs nest the language model.
Effective(c) == IF c.text # <<>> /\ c.layers = Missing THEN c.text[1] ELSE c

Layers(c) == Or(c.layers, Defaults.layers)
Hidden(c) == Or(c.hidden, Defaults.hidden)
Heads(c) == Max({1, Or(c.heads, Defaults.heads)})
KvHeads(c) == Or(c.kvHeads, Heads(c))
HeadDim(c) == Or(c.headDim, Hidden(c) \div Heads(c))
Ffn(c) == Or(c.ffn, 4 * Hidden(c))
Vocab(c) == Or(c.vocab, Defaults.vocab)

\* formula_params with the given number of experts run and of experts held.
Formula(c, run) ==
  LET h == Hidden(c)
      q == Heads(c) * HeadDim(c)
      kv == KvHeads(c) * HeadDim(c)
      attention == 2 * h * q + 2 * h * kv
      mats == IF c.gated THEN 3 ELSE 2
      embedding == Vocab(c) * h * (IF c.tied THEN 1 ELSE 2)
      mlp == IF c.experts > 1
               THEN run * mats * h * Or(c.moeFfn, Ffn(c)) + h * c.experts
               ELSE mats * h * Ffn(c)
  IN embedding + Layers(c) * (attention + mlp + 2 * h) + h

TotalParams(c) == Formula(c, c.experts)
ActiveParams(c) == Formula(c, Min({Or(c.perToken, 2), c.experts}))

\* The count that into_spec goes by.
Known(c, exact) ==
  CASE exact # <<>> -> exact[1].count
    [] exact = <<>> /\ c.params # Missing -> c.params
    [] OTHER -> TotalParams(c)

\* An exact count keeps the share of the active experts.
ActiveShare(c, total) ==
  IF TotalParams(c) > 0 THEN (total * ActiveParams(c)) \div TotalParams(c) ELSE total

IntoSpec(c, exact) ==
  [params |-> Known(c, exact), active |-> ActiveShare(c, Known(c, exact)),
   source |-> IF exact = <<>> THEN "formula" ELSE exact[1].source,
   layers |-> Layers(c), hidden |-> Hidden(c), ffn |-> Ffn(c), heads |-> Heads(c),
   kvHeads |-> KvHeads(c), headDim |-> HeadDim(c), vocab |-> Vocab(c), tied |-> c.tied,
   estimated |-> c.layers = Missing]

\* infer_spec_from_params: the first architecture made for models this small.
Inferred(exact) ==
  LET fits == {i \in DOMAIN Guesses : exact.count < Guesses[i].below}
      g == Guesses[IF fits = {} THEN Len(Guesses) ELSE Min(fits)]
  IN [params |-> exact.count, active |-> exact.count, source |-> exact.source,
      layers |-> g.layers, hidden |-> g.hidden, ffn |-> g.ffn, heads |-> g.heads,
      kvHeads |-> g.kvHeads, headDim |-> g.hidden \div g.heads, vocab |-> g.vocab,
      tied |-> FALSE, estimated |-> TRUE]

\* The parameters that the headers of the files list.
Parameters(headers) == UNION {{i} \X (1..headers[i]) : i \in DOMAIN headers}

\* local_safetensors_total: the counts in the headers of the files that are
\* there; a header that cannot be read voids the sum.
LocalTotal(headers) ==
  IF headers = <<>> \/ Missing \in ToSet(headers) THEN <<>>
  ELSE <<[count |-> Cardinality(Parameters(headers)), source |-> "local"]>>

Failed == <<>>
GuessOrFail(exact) == IF exact = <<>> THEN Failed ELSE <<Inferred(exact[1])>>

\* The path names something on the disk.
ResolveLocal(disk, override) ==
  CASE disk.config = "none" -> GuessOrFail(override)
    [] disk.config = "bad" -> Failed
    [] disk.config = "ok" ->
         <<IntoSpec(Effective(disk.cfg),
                    IF override # <<>> THEN override ELSE LocalTotal(disk.headers))>>

\* Mutant of HubTotal: the Hub's count is asked for whatever the user says.
HubTotalOverrides(hub, override) ==
  IF hub.model = "ok" /\ hub.total > 0
    THEN <<[count |-> hub.total, source |-> "hub"]>> ELSE override

\* The Hub is asked for the count unless the user gave one.
HubTotal(hub, override) ==
  IF override = <<>> /\ hub.model = "ok" /\ hub.total > 0
    THEN <<[count |-> hub.total, source |-> "hub"]>> ELSE override

\* An answer with a config is an error unless its body can be read and parsed.
ResolveHub(hub, override) ==
  LET exact == HubTotal(hub, override)
  IN CASE override = <<>> /\ hub.model \in {"not_found", "unreachable"} -> Failed
       [] hub.config = "ok" -> <<IntoSpec(Effective(hub.cfg), exact)>>
       [] hub.config = "bad" -> Failed
       [] OTHER -> GuessOrFail(exact)   \* gated, another status or unreachable

\* resolve: a spec, or Failed.
Resolve(w) ==
  CASE w.onDisk -> ResolveLocal(w.disk, w.override)
    [] ~w.onDisk /\ w.offline -> GuessOrFail(w.override)
    [] OTHER -> ResolveHub(w.hub, w.override)
==============================================================================
