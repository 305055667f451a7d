----------------------------- MODULE PlannerProofs -----------------------------
(***************************************************************************)
(* Planner, for every number of processes, whatever they do to each        *)
(* other's cache files and however they crash: the specs a load returns    *)
(* are those of the source it was asked for, a source whose answer was     *)
(* recorded is left alone for its time, and every wanted provider is       *)
(* accounted for in the report.                                            *)
(*                                                                         *)
(* Advice, for every vocabulary, request, model and list of offers: no     *)
(* variant of a GPU passes for another, the recommendation is the best of  *)
(* what is offered, and parameters are only called exact if they were      *)
(* counted.  Names are lists of words, and how much of a query each word   *)
(* takes is a fold over the name; the ranking places a row by how many     *)
(* come before it.                                                         *)
(*                                                                         *)
(* Why it is inductive: a cache, wherever it is (in either file, half      *)
(* written or in a process), has no specs or those of the source it names  *)
(* (`Labelled`), and once a fetch has been answered it names the process's *)
(* own source, unless the answer was empty.                                *)
(***************************************************************************)
EXTENDS Planner, Advice, ListTheorems, TLAPS

\* What a cache, a loader and the loads of all processes are.
Strings == {"fetch", "open", "write", "rename", "done"}
Sources == Urls \cup {None}

CacheType == [fetchedAt : Nat, attemptAt : Nat, url : Sources, specs : Sources]

LoaderType ==
  [at : Strings, url : Urls, now : Nat, cache : CacheType, answer : Answers,
   alone : BOOLEAN, readable : BOOLEAN, file : {"tmp", "renamed", "replaced"}, mixed : BOOLEAN]

SpecTypes ==
  /\ clock \in Nat
  /\ specFile \in CacheType
  /\ specTmp \in [there : BOOLEAN, data : CacheType]
  /\ loader \in [Processes -> LoaderType]

\* A cache has no specs or those of the source it names.
Labelled(c) == c.specs \in {None, c.url}

\* What each stage of a load knows of the cache it holds.
Honest(r) ==
  /\ r.at # "done" => Labelled(r.cache)
  /\ r.at \in {"open", "write", "rename"} => r.cache.url = r.url \/ r.answer = "empty"
  /\ r.at = "done" => r.cache.specs \in {None, r.url} \/ r.answer = "empty"

\* Every cache is labelled and every load is honest.
Provenance ==
  /\ SpecTypes
  /\ Labelled(specFile) /\ Labelled(specTmp.data)
  /\ \A p \in Processes : Honest(loader[p])

------------------------------------------------------------------------------
(* The operators.                                                          *)

\* The cache that a missing file stands for.
LEMMA NoCacheType == NoCache \in CacheType /\ Labelled(NoCache)
BY DEF NoCache, CacheType, Sources, Labelled, None

\* A load that is over, with specs or without.
LEMMA ReturnedHonest ==
  ASSUME NEW r \in LoaderType, NEW specs \in Sources,
         specs \in {None, r.url} \/ r.answer = "empty"
  PROVE  Returned(r, specs) \in LoaderType /\ Honest(Returned(r, specs))
<1>1. [NoCache EXCEPT !.specs = specs] \in CacheType
  BY NoCacheType DEF CacheType
<1>2. Returned(r, specs) \in LoaderType
  BY <1>1 DEF Returned, LoaderType, Strings
<1>3. /\ Returned(r, specs).at = "done" /\ Returned(r, specs).cache.specs = specs
      /\ Returned(r, specs).url = r.url /\ Returned(r, specs).answer = r.answer
  BY <1>1 DEF Returned, LoaderType, NoCache
<1> QED
  BY <1>2, <1>3 DEF Honest

\* Whatever the source answers, the cache is labelled with what it holds.
LEMMA AnsweredHonest ==
  ASSUME NEW r \in LoaderType, NEW answer \in Answers \ {None}, Labelled(r.cache)
  PROVE  Answered(r, answer) \in LoaderType /\ Honest(Answered(r, answer))
<1> DEFINE marked == [r.cache EXCEPT !.attemptAt = r.now]
<1>1. marked \in CacheType /\ marked.specs = r.cache.specs /\ marked.url = r.cache.url
  BY DEF LoaderType, CacheType
<1>2. r.url \in Sources /\ r.now \in Nat
  BY DEF LoaderType, Sources
<1>3. CASE answer = "specs"
  <2> DEFINE c == [marked EXCEPT !.fetchedAt = r.now, !.url = r.url, !.specs = r.url]
  <2>1. c \in CacheType /\ c.specs = r.url /\ c.url = r.url
    BY <1>1, <1>2 DEF CacheType
  <2>2. Answered(r, answer) = [r EXCEPT !.at = "open", !.answer = answer, !.cache = c]
    BY <1>3 DEF Answered
  <2> HIDE DEF c
  <2> QED
    BY ZenonT(40), <2>1, <2>2, <1>3 DEF LoaderType, Honest, Labelled, Strings
<1>4. CASE answer = "empty"
  <2>1. Answered(r, answer) = [r EXCEPT !.at = "open", !.answer = answer, !.cache = marked]
    BY <1>4 DEF Answered
  <2> HIDE DEF marked
  <2> QED
    BY <2>1, <1>1, <1>4 DEF LoaderType, Honest, Labelled, Strings
<1>5. CASE answer = "failed"
  <2> DEFINE c == IF marked.url = r.url THEN marked ELSE [marked EXCEPT !.url = r.url, !.specs = None]
  <2>1. c \in CacheType /\ c.specs \in {None, c.url} /\ c.url = r.url
    BY <1>1, <1>2 DEF CacheType, Sources, Labelled
  <2>2. Answered(r, answer) = [r EXCEPT !.at = "open", !.answer = answer, !.cache = c]
    BY <1>5 DEF Answered
  <2> HIDE DEF c
  <2> QED
    BY <2>1, <2>2, <1>5 DEF LoaderType, Honest, Labelled, Strings
<1> QED
  BY <1>3, <1>4, <1>5 DEF Answers

------------------------------------------------------------------------------
(* The steps of a load.                                                    *)

\* No load has started.
LEMMA InitProvenance == PlanInit => Provenance
<1> SUFFICES ASSUME PlanInit PROVE Provenance
  OBVIOUS
<1>1. SpecTypes
  BY NoCacheType, SpecAssumption
  DEF PlanInit, SpecInit, SpecTypes, NoTmp, LoaderType, Strings, Answers, None
<1> QED
  BY <1>1, NoCacheType DEF PlanInit, SpecInit, Provenance, NoTmp, Honest, NoCache, None

\* A load reads the cache file.
LEMMA LoadStartProvenance ==
  ASSUME Provenance, NEW p \in Processes, NEW url \in Urls, NEW offline \in BOOLEAN,
         NEW readable \in BOOLEAN, LoadStart(p, url, offline, readable)
  PROVE  Provenance'
<1> DEFINE cache == IF readable THEN specFile ELSE NoCache
           same == cache.url = url
           alone == \A q \in Others(p) : ~Busy(q)
           mine == [at |-> "fetch", url |-> url, now |-> clock, cache |-> cache,
                    answer |-> None, alone |-> alone, readable |-> readable,
                    file |-> "tmp", mixed |-> FALSE]
           specs == IF same THEN cache.specs ELSE None
<1>1. UNCHANGED <<clock, specFile, specTmp>>
  BY DEF LoadStart
<1>0. cache \in CacheType /\ Labelled(cache)
  BY NoCacheType DEF Provenance, SpecTypes
<1>2. mine \in LoaderType /\ Honest(mine)
  <2> HIDE DEF cache
  <2> QED BY <1>0 DEF Provenance, SpecTypes, LoaderType, Strings, Answers, Honest
<1>3. specs \in Sources /\ specs \in {None, mine.url}
  <2> HIDE DEF cache
  <2> QED BY <1>0 DEF CacheType, Labelled, Sources
<1>4. Returned(mine, specs) \in LoaderType /\ Honest(Returned(mine, specs))
  <2> HIDE DEF mine, specs
  <2> QED
    BY <1>2, <1>3, ReturnedHonest
<1>5. loader' = [q \in Processes |-> IF q # p THEN [loader[q] EXCEPT !.alone = @ /\ ~Busy(q)]
                                     ELSE loader'[p]]
      /\ loader'[p] \in {Returned(mine, specs), mine}
  BY DEF LoadStart
<1>6. ASSUME NEW q \in Processes PROVE loader'[q] \in LoaderType /\ Honest(loader'[q])
  <2>1. CASE q = p
    <3> HIDE DEF mine, specs
    <3> QED BY <2>1, <1>2, <1>4, <1>5
  <2>2. CASE q # p
    <3>1. loader'[q] = [loader[q] EXCEPT !.alone = @ /\ ~Busy(q)]
      BY <1>5, <2>2
    <3>2. loader[q] \in LoaderType /\ Honest(loader[q])
      BY DEF Provenance, SpecTypes
    <3> QED
      BY <3>1, <3>2 DEF LoaderType, Honest
  <2> QED
    BY <2>1, <2>2
<1>7. loader' \in [Processes -> LoaderType]
  BY <1>5, <1>6
<1> QED
  BY <1>1, <1>6, <1>7 DEF Provenance, SpecTypes

\* One process's load moves on, and neither file changes.
LEMMA UpdateProvenance ==
  ASSUME Provenance, NEW p \in Processes, NEW r \in LoaderType, Honest(r), Update(p, r),
         UNCHANGED <<clock, specFile, specTmp>>
  PROVE  Provenance'
<1>1. loader' \in [Processes -> LoaderType]
  BY DEF Provenance, SpecTypes, Update
<1>2. \A q \in Processes : Honest(loader'[q])
  BY DEF Provenance, SpecTypes, Update
<1> QED
  BY <1>1, <1>2 DEF Provenance, SpecTypes

\* A source answers, or the cache is used.
LEMMA FetchProvenance ==
  ASSUME Provenance, NEW p \in Processes, Fetch(p)
  PROVE  Provenance'
<1>1. PICK answer \in Answers \ {None} : Update(p, Answered(loader[p], answer))
  BY DEF Fetch
<1>2. loader[p] \in LoaderType /\ Labelled(loader[p].cache)
  BY DEF Fetch, Provenance, SpecTypes, Honest
<1> QED
  BY <1>1, <1>2, AnsweredHonest, UpdateProvenance DEF Fetch

\* The temporary file is emptied.
LEMMA OpenTmpProvenance ==
  ASSUME Provenance, NEW p \in Processes, OpenTmp(p)
  PROVE  Provenance'
<1>1. /\ specTmp' \in [there : BOOLEAN, data : CacheType] /\ Labelled(specTmp'.data)
  BY NoCacheType DEF OpenTmp
<1>2. ASSUME NEW q \in Processes PROVE loader'[q] \in LoaderType /\ Honest(loader'[q])
  <2>1. loader[q] \in LoaderType /\ Honest(loader[q])
    BY DEF Provenance, SpecTypes
  <2>2. CASE q = p
    <3>1. loader'[q] = [loader[p] EXCEPT !.at = "write", !.file = "tmp", !.mixed = Filling # {}]
      BY <2>2 DEF OpenTmp
    <3> QED
      BY <3>1, <2>1, <2>2 DEF OpenTmp, LoaderType, Honest, Strings
  <2>3. CASE q # p
    <3>1. loader'[q] = [loader[q] EXCEPT !.mixed = @ \/ q \in Filling]
      BY <2>3 DEF OpenTmp
    <3> QED
      BY <3>1, <2>1 DEF LoaderType, Honest
  <2> QED
    BY <2>2, <2>3
<1>3. loader' \in [Processes -> LoaderType]
  BY <1>2 DEF OpenTmp
<1> QED
  BY <1>1, <1>2, <1>3 DEF OpenTmp, Provenance, SpecTypes

\* The temporary file is written.
LEMMA WriteTmpProvenance ==
  ASSUME Provenance, NEW p \in Processes, WriteTmp(p)
  PROVE  Provenance'
<1> DEFINE r == [loader[p] EXCEPT !.at = "rename"]
<1>1. loader[p] \in LoaderType /\ Honest(loader[p]) /\ loader[p].at = "write"
  BY DEF WriteTmp, Provenance, SpecTypes
<1>2. r \in LoaderType /\ Honest(r) /\ Update(p, r)
  BY <1>1 DEF WriteTmp, LoaderType, Honest, Strings
<1>3. loader' \in [Processes -> LoaderType] /\ \A q \in Processes : Honest(loader'[q])
  <2> HIDE DEF r
  <2> QED BY <1>2 DEF Update, Provenance, SpecTypes
<1>4. PICK data \in {loader[p].cache} \cup (IF loader[p].mixed THEN {NoCache} ELSE {}) :
        CASE loader[p].file = "tmp" ->
               specTmp' = [specTmp EXCEPT !.data = data] /\ UNCHANGED specFile
          [] loader[p].file = "renamed" -> specFile' = data /\ UNCHANGED specTmp
          [] loader[p].file = "replaced" -> UNCHANGED <<specFile, specTmp>>
  BY DEF WriteTmp
<1>5. data \in CacheType /\ Labelled(data)
  BY <1>1, <1>4, NoCacheType DEF LoaderType, Honest
<1>6. /\ specFile' \in CacheType /\ Labelled(specFile')
      /\ specTmp' \in [there : BOOLEAN, data : CacheType] /\ Labelled(specTmp'.data)
  BY <1>1, <1>4, <1>5 DEF LoaderType, Provenance, SpecTypes
<1> QED
  BY <1>3, <1>6 DEF WriteTmp, Provenance, SpecTypes

\* The temporary file becomes the cache file.
LEMMA RenameProvenance ==
  ASSUME Provenance, NEW p \in Processes, Rename(p)
  PROVE  Provenance'
<1>1. /\ specFile' \in CacheType /\ Labelled(specFile')
      /\ specTmp' \in [there : BOOLEAN, data : CacheType] /\ Labelled(specTmp'.data)
  <2>1. /\ specTmp \in [there : BOOLEAN, data : CacheType] /\ Labelled(specTmp.data)
        /\ specFile \in CacheType /\ Labelled(specFile)
    BY DEF Provenance, SpecTypes
  <2>2. \/ specFile' = specTmp.data /\ specTmp' = NoTmp
        \/ specFile' = specFile /\ specTmp' = specTmp
    BY DEF Rename
  <2>3. NoTmp \in [there : BOOLEAN, data : CacheType] /\ NoTmp.data = NoCache
    BY NoCacheType DEF NoTmp
  <2>4. CASE specFile' = specTmp.data /\ specTmp' = NoTmp
    BY <2>1, <2>3, <2>4, NoCacheType
  <2>5. CASE specFile' = specFile /\ specTmp' = specTmp
    BY <2>1, <2>5
  <2> QED
    BY <2>2, <2>4, <2>5
<1>2. ASSUME NEW q \in Processes PROVE loader'[q] \in LoaderType /\ Honest(loader'[q])
  <2>1. loader[q] \in LoaderType /\ Honest(loader[q])
    BY DEF Provenance, SpecTypes
  <2>2. CASE q = p
    <3>1. loader'[q] = Returned(loader[q], loader[q].cache.specs)
      BY <2>2 DEF Rename
    <3>2. loader[q].cache.specs \in Sources
          /\ (loader[q].cache.specs \in {None, loader[q].url} \/ loader[q].answer = "empty")
      BY <2>1, <2>2 DEF Rename, LoaderType, CacheType, Honest, Labelled
    <3> QED
      BY <3>1, <3>2, <2>1, ReturnedHonest
  <2>3. CASE q # p
    <3>1. loader'[q] \in {loader[q], [loader[q] EXCEPT !.file = IF @ = "tmp" THEN "renamed" ELSE "replaced"]}
      BY <2>3 DEF Rename
    <3> QED
      BY <3>1, <2>1 DEF LoaderType, Honest
  <2> QED
    BY <2>2, <2>3
<1>3. loader' \in [Processes -> LoaderType]
  BY <1>2 DEF Rename
<1> QED
  BY <1>1, <1>2, <1>3 DEF Rename, Provenance, SpecTypes

\* A load that cannot save what it has returns it, and may leave a torn file.
LEMMA SaveFailsProvenance ==
  ASSUME Provenance, NEW p \in Processes, SaveFails(p)
  PROVE  Provenance'
<1> DEFINE r == Returned(loader[p], loader[p].cache.specs)
<1>1. loader[p] \in LoaderType /\ Honest(loader[p]) /\ loader[p].at \in {"open", "write", "rename"}
  BY DEF SaveFails, Provenance, SpecTypes
<1>2. loader[p].cache.specs \in Sources
      /\ (loader[p].cache.specs \in {None, loader[p].url} \/ loader[p].answer = "empty")
  BY <1>1 DEF LoaderType, CacheType, Honest, Labelled
<1>3. r \in LoaderType /\ Honest(r) /\ Update(p, r)
  BY <1>1, <1>2, ReturnedHonest DEF SaveFails
<1>4. loader' \in [Processes -> LoaderType] /\ \A q \in Processes : Honest(loader'[q])
  <2> HIDE DEF r
  <2> QED BY <1>3 DEF Update, Provenance, SpecTypes
<1>5. /\ specFile' \in CacheType /\ Labelled(specFile')
      /\ specTmp' \in [there : BOOLEAN, data : CacheType] /\ Labelled(specTmp'.data)
  <2>1. /\ specTmp \in [there : BOOLEAN, data : CacheType] /\ Labelled(specTmp.data)
        /\ specFile \in CacheType /\ Labelled(specFile)
    BY DEF Provenance, SpecTypes
  <2>2. \/ specTmp' = [specTmp EXCEPT !.data = NoCache] /\ specFile' = specFile
        \/ specFile' = NoCache /\ specTmp' = specTmp
        \/ specFile' = specFile /\ specTmp' = specTmp
    BY <1>1 DEF SaveFails
  <2> QED
    BY <2>1, <2>2, NoCacheType
<1> QED
  BY <1>4, <1>5 DEF SaveFails, Provenance, SpecTypes

\* A process dies wherever it is.
LEMMA CrashProvenance ==
  ASSUME Provenance, NEW p \in Processes, Crash(p)
  PROVE  Provenance'
<1>1. loader[p] \in LoaderType
  BY DEF Provenance, SpecTypes
<1>2. Returned(loader[p], None) \in LoaderType /\ Honest(Returned(loader[p], None))
  BY <1>1, ReturnedHonest DEF Sources
<1> QED
  BY <1>2, UpdateProvenance DEF Crash

\* Every step keeps the caches labelled.
LEMMA NextProvenance == Provenance /\ [PlanNext]_<<specVars, planVars>> => Provenance'
<1> SUFFICES ASSUME Provenance, [PlanNext]_<<specVars, planVars>> PROVE Provenance'
  OBVIOUS
<1>1. ASSUME UNCHANGED specVars PROVE Provenance'
  BY <1>1 DEF specVars, Provenance, SpecTypes
<1>2. CASE Tick
  BY <1>2 DEF Tick, Provenance, SpecTypes
<1>3. ASSUME NEW p \in Processes, \E url \in Urls, offline, readable \in BOOLEAN :
                                     LoadStart(p, url, offline, readable)
      PROVE  Provenance'
  BY <1>3, LoadStartProvenance
<1>4. ASSUME NEW p \in Processes, \/ Fetch(p) \/ OpenTmp(p) \/ WriteTmp(p) \/ Rename(p)
                                 \/ SaveFails(p) \/ Crash(p)
      PROVE  Provenance'
  BY <1>4, FetchProvenance, OpenTmpProvenance, WriteTmpProvenance, RenameProvenance,
     SaveFailsProvenance, CrashProvenance
<1>5. ASSUME NEW p \in Processes, PlanSpecs(p) PROVE Provenance'
  BY <1>5, <1>1, <1>3 DEF PlanSpecs
<1>6. ASSUME NEW p \in Processes,
             \/ \E l \in Lines[p], readable \in SUBSET Providers :
                  PlanStart(p, l.wanted, l.refresh, l.offline, readable)
             \/ \E v \in Providers : \/ OpenPrices(p, v) \/ KeepPrices(p, v)
                                     \/ \E readable \in BOOLEAN : FallBack(p, v, readable)
             \/ Join(p) \/ FillPrices(p) \/ PlanReport(p) \/ PlanCrash(p)
      PROVE  Provenance'
  BY <1>6, <1>1 DEF PlanStart, OpenPrices, KeepPrices, FallBack, Join, FillPrices, PlanReport, PlanCrash
<1>7. CASE UNCHANGED <<specVars, planVars>>
  BY <1>7, <1>1
<1> QED
  BY <1>2, <1>3, <1>4, <1>5, <1>6, <1>7 DEF PlanNext

\* However many processes load specs at once, for whichever sources, crash and
\* tear each other's temporary file, no load returns the specs of a source it
\* was not asked for, unless its own has answered with an empty table
\* (load_remote_specs).
THEOREM SpecsCorrectness == PlanSpec => []SpecsAreOfTheSource
<1>1. PlanInit => Provenance
  BY InitProvenance
<1>2. Provenance /\ [PlanNext]_<<specVars, planVars>> => Provenance'
  BY NextProvenance
<1>3. Provenance => SpecsAreOfTheSource
  BY DEF Provenance, Honest, SpecsAreOfTheSource
<1> QED
  BY <1>1, <1>2, <1>3, PTL DEF PlanSpec

------------------------------------------------------------------------------
(* The back-off.  A load that was alone from its start to its rename leaves *)
(* in the file exactly what it has put down, and nobody changes the file    *)
(* before the next load is over: a process that still has the file open     *)
(* under its new name was there before the rename (`Settled`).              *)

\* The newest attempt that nobody else was next to.
LatestType == [url : Sources, now : Nat, answer : Answers \cup {Unsaved}, alone : BOOLEAN]

\* Nobody is busy next to a process that is alone.
Solitude ==
  \A p \in Processes : Busy(p) /\ loader[p].alone => \A q \in Others(p) : ~Busy(q)

\* The cache tells of the attempt it was put down for.
Recorded(c, url, now, answer) ==
  answer \in {"specs", "failed"} =>
    /\ c.url = url /\ c.attemptAt = now
    /\ answer = "specs" => c.fetchedAt = now

\* A process that fetches has found the cache neither fresh nor backing off.
Due(r) == r.cache.url = r.url => /\ r.now - r.cache.fetchedAt >= SpecTtl
                                 /\ r.now - r.cache.attemptAt >= RetryAfter

\* What a process that is alone knows of the files.
Undisturbed(p) ==
  loader[p].alone =>
    /\ loader[p].at = "fetch" /\ loader[p].readable => loader[p].cache = specFile
    /\ loader[p].at = "write" => ~loader[p].mixed /\ loader[p].file = "tmp" /\ specTmp.there
    /\ loader[p].at = "rename" => specTmp.there /\ specTmp.data = loader[p].cache

\* A load asks only when it is due, and then puts down what was answered.
Progress(r) ==
  /\ r.at = "fetch" => Due(r)
  /\ r.at \in {"open", "write", "rename"} => Recorded(r.cache, r.url, r.now, r.answer)

\* The cache file tells of the newest attempt, if that was alone.
Settled ==
  latest.alone =>
    /\ Recorded(specFile, latest.url, latest.now, latest.answer)
    /\ \A p \in Processes : loader[p].at = "write" => loader[p].file = "tmp"

\* What NoEarlyRetry needs to be inductive.
BackOff ==
  /\ Provenance /\ latest \in LatestType
  /\ Solitude /\ Settled
  /\ \A p \in Processes : Undisturbed(p) /\ Progress(loader[p])

\* Nobody has asked yet.
LEMMA InitBackOff == PlanInit => BackOff
<1> SUFFICES ASSUME PlanInit PROVE BackOff
  OBVIOUS
<1>1. Provenance
  BY InitProvenance
<1>2. latest \in LatestType /\ Settled
  BY DEF PlanInit, SpecInit, LatestType, Settled, Sources, Answers, None
<1>3. \A p \in Processes : loader[p].at = "done"
  BY DEF PlanInit, SpecInit
<1> QED
  BY <1>1, <1>2, <1>3 DEF BackOff, Solitude, Busy, Undisturbed, Progress

\* A load that is not due does not ask.
LEMMA LoadStartBackOff ==
  ASSUME BackOff, NEW p \in Processes, NEW url \in Urls, NEW offline \in BOOLEAN,
         NEW readable \in BOOLEAN, LoadStart(p, url, offline, readable)
  PROVE  BackOff'
<1>1. Provenance'
  BY LoadStartProvenance DEF BackOff
<1>2. UNCHANGED <<clock, specFile, specTmp, latest>> /\ ~Busy(p)
  BY DEF LoadStart
<1> DEFINE cache == IF readable THEN specFile ELSE NoCache
           same == cache.url = url
           fresh == same /\ Age(cache.fetchedAt) < SpecTtl
           backingOff == same /\ Age(cache.attemptAt) < RetryAfter
           alone == \A q \in Others(p) : ~Busy(q)
           mine == [at |-> "fetch", url |-> url, now |-> clock, cache |-> cache,
                    answer |-> None, alone |-> alone, readable |-> readable,
                    file |-> "tmp", mixed |-> FALSE]
           specs == IF same THEN cache.specs ELSE None
<1>3. loader' = [q \in Processes |-> IF q # p THEN [loader[q] EXCEPT !.alone = @ /\ ~Busy(q)]
                                     ELSE IF fresh \/ offline \/ backingOff
                                       THEN Returned(mine, specs) ELSE mine]
  BY DEF LoadStart
<1>4. loader'[p].at = "done" \/ (loader'[p] = mine /\ ~fresh /\ ~backingOff)
  <2>1. CASE fresh \/ offline \/ backingOff
    BY <1>3, <2>1 DEF Returned
  <2>2. CASE ~(fresh \/ offline \/ backingOff)
    BY <1>3, <2>2
  <2> QED
    BY <2>1, <2>2
<1>5. ASSUME NEW q \in Processes, q # p
      PROVE  /\ loader'[q] = [loader[q] EXCEPT !.alone = @ /\ ~Busy(q)]
             /\ loader[q] \in LoaderType
  BY <1>3, <1>5 DEF BackOff, Provenance, SpecTypes
<1>6. ASSUME NEW q \in Processes, q # p
      PROVE  /\ Busy(q)' = Busy(q) /\ (Busy(q) => ~loader'[q].alone)
             /\ Progress(loader'[q]) /\ Undisturbed(q)'
             /\ loader'[q].at = loader[q].at /\ loader'[q].file = loader[q].file
  <2>1. /\ loader'[q].at = loader[q].at /\ loader'[q].file = loader[q].file
        /\ loader'[q].cache = loader[q].cache /\ loader'[q].url = loader[q].url
        /\ loader'[q].now = loader[q].now /\ loader'[q].answer = loader[q].answer
        /\ loader'[q].alone = (loader[q].alone /\ ~Busy(q))
    BY <1>5, <1>6 DEF LoaderType
  <2>2. Progress(loader[q])
    BY DEF BackOff
  <2>3. Busy(q)' = Busy(q)
    BY <2>1 DEF Busy
  <2>4. Progress(loader'[q])
    BY <2>1, <2>2 DEF Progress, Due, Recorded
  <2>5. Undisturbed(q)'
    BY <2>1 DEF Undisturbed, Busy
  <2> QED
    BY <2>1, <2>3, <2>4, <2>5
<1>7. Progress(loader'[p]) /\ Undisturbed(p)'
  <2>1. CASE loader'[p].at = "done"
    BY <2>1 DEF Progress, Undisturbed
  <2>2. CASE loader'[p] = mine /\ ~fresh /\ ~backingOff
    <3>1. cache.fetchedAt \in Nat /\ cache.attemptAt \in Nat /\ clock \in Nat
      BY NoCacheType DEF BackOff, Provenance, SpecTypes, CacheType
    <3>2. Due(mine)
      BY <2>2, <3>1, SpecAssumption DEF Due, Age
    <3> QED
      BY <2>2, <3>2, <1>2 DEF Progress, Undisturbed
  <2> QED
    BY <1>4, <2>1, <2>2
<1>8. Solitude'
  <2> SUFFICES ASSUME NEW r \in Processes, Busy(r)', loader'[r].alone, NEW q \in Others(r)'
               PROVE  ~Busy(q)'
    BY DEF Solitude
  <2>1. q \in Processes /\ q # r
    BY DEF Others
  <2>2. r = p
    BY <1>6
  <2>3. loader'[p] = mine /\ mine.alone = alone
    BY <1>4, <2>2 DEF Busy
  <2>4. ~Busy(q)
    BY <2>1, <2>2, <2>3 DEF Others
  <2> QED
    BY <1>6, <2>1, <2>2, <2>4
<1>9. Settled'
  <2>1. loader'[p].at # "write"
    BY <1>4
  <2> QED
    BY <1>2, <1>6, <2>1 DEF Settled, BackOff
<1> QED
  BY <1>1, <1>2, <1>6, <1>7, <1>8, <1>9 DEF BackOff

\* Next to a busy process nobody who is busy is alone, and what that one knows
\* of its own progress it keeps.
LEMMA OthersBackOff ==
  ASSUME BackOff, NEW p \in Processes, Busy(p), NEW q \in Processes, q # p,
         loader'[q].alone = loader[q].alone, loader'[q].at = loader[q].at,
         loader'[q].cache = loader[q].cache, loader'[q].url = loader[q].url,
         loader'[q].now = loader[q].now, loader'[q].answer = loader[q].answer
  PROVE  /\ Busy(q)' = Busy(q) /\ (Busy(q) => ~loader'[q].alone)
         /\ Progress(loader'[q]) /\ Undisturbed(q)'
<1>1. Busy(q)' = Busy(q)
  BY DEF Busy
<1>2. Busy(q) => ~loader'[q].alone
  BY DEF BackOff, Solitude, Others
<1>3. Progress(loader'[q])
  BY DEF BackOff, Progress, Due, Recorded
<1>4. Undisturbed(q)'
  BY <1>2 DEF Undisturbed, Busy
<1> QED
  BY <1>1, <1>2, <1>3, <1>4

\* A step of p that leaves p as lonely as it was keeps everybody lonely.
LEMMA SolitudeKept ==
  ASSUME BackOff, NEW p \in Processes, Busy(p),
         Busy(p)' => loader'[p].alone = loader[p].alone,
         \A q \in Processes \ {p} : Busy(q)' = Busy(q) /\ (Busy(q) => ~loader'[q].alone)
  PROVE  Solitude'
<1> SUFFICES ASSUME NEW r \in Processes, Busy(r)', loader'[r].alone, NEW q \in Others(r)'
             PROVE  ~Busy(q)'
  BY DEF Solitude
<1>1. q \in Processes \ {r}
  BY DEF Others
<1>2. r = p
  OBVIOUS
<1>3. ~Busy(q)
  BY <1>1, <1>2 DEF BackOff, Solitude, Others
<1> QED
  BY <1>1, <1>2, <1>3

\* The answer is put down in the process.
LEMMA FetchBackOff ==
  ASSUME BackOff, NEW p \in Processes, Fetch(p)
  PROVE  BackOff'
<1>1. Provenance'
  BY FetchProvenance DEF BackOff
<1>2. PICK answer \in Answers \ {None} : Update(p, Answered(loader[p], answer))
  BY DEF Fetch
<1>3. loader[p] \in LoaderType
  BY DEF BackOff, Provenance, SpecTypes
<1> DEFINE r == loader[p]
           marked == [r.cache EXCEPT !.attemptAt = r.now]
<1>4. \E c : /\ loader'[p] = [r EXCEPT !.at = "open", !.answer = answer, !.cache = c]
             /\ Recorded(c, r.url, r.now, answer)
  <2>1. r.cache \in CacheType
    BY <1>3 DEF LoaderType
  <2>2. loader'[p] = Answered(r, answer)
    BY <1>2 DEF Update, BackOff, Provenance, SpecTypes
  <2>3. CASE answer = "specs"
    <3> DEFINE c == [marked EXCEPT !.fetchedAt = r.now, !.url = r.url, !.specs = r.url]
    <3>1. loader'[p] = [r EXCEPT !.at = "open", !.answer = answer, !.cache = c]
      BY <2>2, <2>3 DEF Answered
    <3>2. Recorded(c, r.url, r.now, answer)
      BY <2>1 DEF Recorded, CacheType
    <3> QED
      BY <3>1, <3>2
  <2>4. CASE answer = "empty"
    <3>1. loader'[p] = [r EXCEPT !.at = "open", !.answer = answer, !.cache = marked]
      BY <2>2, <2>4 DEF Answered
    <3>2. Recorded(marked, r.url, r.now, answer)
      BY <2>4 DEF Recorded
    <3> QED
      BY <3>1, <3>2
  <2>5. CASE answer = "failed"
    <3> DEFINE c == IF marked.url = r.url THEN marked
                    ELSE [marked EXCEPT !.url = r.url, !.specs = None]
    <3>1. loader'[p] = [r EXCEPT !.at = "open", !.answer = answer, !.cache = c]
      BY <2>2, <2>5 DEF Answered
    <3>2. Recorded(c, r.url, r.now, answer)
      BY <2>1, <2>5 DEF Recorded, CacheType
    <3> QED
      BY <3>1, <3>2
  <2> QED
    BY <2>3, <2>4, <2>5 DEF Answers
<1>5. /\ loader'[p].at = "open" /\ loader'[p].alone = loader[p].alone
      /\ Progress(loader'[p]) /\ Undisturbed(p)'
  BY <1>3, <1>4 DEF LoaderType, Progress, Undisturbed
<1>6. Busy(p) /\ Busy(p)'
  BY <1>5 DEF Fetch, Busy
<1>7. ASSUME NEW q \in Processes, q # p PROVE loader'[q] = loader[q]
  BY <1>2, <1>7 DEF Update, BackOff, Provenance, SpecTypes
<1>8. ASSUME NEW q \in Processes, q # p
      PROVE  /\ Busy(q)' = Busy(q) /\ (Busy(q) => ~loader'[q].alone)
             /\ Progress(loader'[q]) /\ Undisturbed(q)'
  BY <1>6, <1>7, <1>8, OthersBackOff
<1>9. Solitude'
  BY <1>5, <1>6, <1>8, SolitudeKept
<1>10. Settled' /\ (latest \in LatestType)'
  BY <1>5, <1>7 DEF Fetch, Settled, BackOff
<1> QED
  BY <1>1, <1>5, <1>8, <1>9, <1>10 DEF BackOff

\* Opening the temporary file may disturb another that writes it.
LEMMA OpenTmpBackOff ==
  ASSUME BackOff, NEW p \in Processes, OpenTmp(p)
  PROVE  BackOff'
<1>1. Provenance'
  BY OpenTmpProvenance DEF BackOff
<1>2. /\ \A q \in Processes : loader[q] \in LoaderType
      /\ Busy(p)
  BY DEF BackOff, Provenance, SpecTypes, OpenTmp, Busy
<1>3. loader'[p] = [loader[p] EXCEPT !.at = "write", !.file = "tmp", !.mixed = Filling # {}]
  BY DEF OpenTmp
<1>4. ASSUME NEW q \in Processes, q # p
      PROVE  loader'[q] = [loader[q] EXCEPT !.mixed = @ \/ q \in Filling]
  BY <1>4 DEF OpenTmp
<1>5. /\ loader'[p].at = "write" /\ loader'[p].file = "tmp"
      /\ loader'[p].alone = loader[p].alone /\ loader'[p].mixed = (Filling # {})
      /\ loader'[p].cache = loader[p].cache /\ loader'[p].url = loader[p].url
      /\ loader'[p].now = loader[p].now /\ loader'[p].answer = loader[p].answer
  BY <1>2, <1>3 DEF LoaderType
<1>6. loader[p].alone => Filling = {}
  <2>1. loader[p].at = "open"
    BY DEF OpenTmp
  <2> QED
    BY <1>2, <2>1 DEF BackOff, Solitude, Others, Filling, Busy
<1>7. Progress(loader'[p])
  BY <1>5 DEF OpenTmp, BackOff, Progress
<1>8. Undisturbed(p)'
  BY <1>5, <1>6 DEF OpenTmp, Undisturbed
<1>9. ASSUME NEW q \in Processes, q # p
      PROVE  /\ Busy(q)' = Busy(q) /\ (Busy(q) => ~loader'[q].alone)
             /\ Progress(loader'[q]) /\ Undisturbed(q)'
             /\ loader'[q].at = loader[q].at /\ loader'[q].file = loader[q].file
  <2>1. /\ loader'[q].alone = loader[q].alone /\ loader'[q].at = loader[q].at
        /\ loader'[q].cache = loader[q].cache /\ loader'[q].url = loader[q].url
        /\ loader'[q].now = loader[q].now /\ loader'[q].answer = loader[q].answer
        /\ loader'[q].file = loader[q].file
    BY ZenonT(40), <1>2, <1>4, <1>9 DEF LoaderType
  <2> QED
    BY <2>1, <1>2, <1>9, OthersBackOff
<1>10. Solitude'
  BY <1>2, <1>5, <1>9, SolitudeKept
<1>11. Settled' /\ (latest \in LatestType)'
  <2>1. latest' = latest /\ specFile' = specFile
    BY DEF OpenTmp
  <2>2. latest \in LatestType /\ Settled
    BY DEF BackOff
  <2>3. latest.alone => \A q \in Processes : loader'[q].at = "write" => loader'[q].file = "tmp"
    BY <2>2, <1>5, <1>9 DEF Settled
  <2> QED
    BY <2>1, <2>2, <2>3 DEF Settled
<1> QED
  BY <1>1, <1>7, <1>8, <1>9, <1>10, <1>11 DEF BackOff

\* Writing it leaves the cache file as it is.
LEMMA WriteTmpBackOff ==
  ASSUME BackOff, NEW p \in Processes, WriteTmp(p)
  PROVE  BackOff'
<1>1. Provenance'
  BY WriteTmpProvenance DEF BackOff
<1>2. /\ loader[p] \in LoaderType /\ Busy(p) /\ loader[p].at = "write"
      /\ specTmp \in [there : BOOLEAN, data : CacheType]
  BY DEF BackOff, Provenance, SpecTypes, WriteTmp, Busy
<1>3. /\ loader'[p] = [loader[p] EXCEPT !.at = "rename"]
      /\ \A q \in Processes : q # p => loader'[q] = loader[q]
  BY DEF WriteTmp, Update, BackOff, Provenance, SpecTypes
<1>4. /\ loader'[p].at = "rename" /\ loader'[p].alone = loader[p].alone
      /\ loader'[p].cache = loader[p].cache /\ loader'[p].url = loader[p].url
      /\ loader'[p].now = loader[p].now /\ loader'[p].answer = loader[p].answer
  BY <1>2, <1>3 DEF LoaderType
<1>5. PICK data \in {loader[p].cache} \cup (IF loader[p].mixed THEN {NoCache} ELSE {}) :
        CASE loader[p].file = "tmp" ->
               specTmp' = [specTmp EXCEPT !.data = data] /\ UNCHANGED specFile
          [] loader[p].file = "renamed" -> specFile' = data /\ UNCHANGED specTmp
          [] loader[p].file = "replaced" -> UNCHANGED <<specFile, specTmp>>
  BY DEF WriteTmp
<1>6. loader[p].alone => specTmp'.there /\ specTmp'.data = loader[p].cache
  <2> SUFFICES ASSUME loader[p].alone PROVE specTmp'.there /\ specTmp'.data = loader[p].cache
    OBVIOUS
  <2>1. ~loader[p].mixed /\ loader[p].file = "tmp" /\ specTmp.there
    BY <1>2 DEF BackOff, Undisturbed
  <2>2. specTmp' = [specTmp EXCEPT !.data = loader[p].cache]
    BY <1>5, <2>1
  <2> QED
    BY <1>2, <2>1, <2>2
<1>7. Progress(loader'[p]) /\ Undisturbed(p)'
  BY <1>2, <1>4, <1>6 DEF BackOff, Progress, Undisturbed
<1>8. ASSUME NEW q \in Processes, q # p
      PROVE  /\ Busy(q)' = Busy(q) /\ (Busy(q) => ~loader'[q].alone)
             /\ Progress(loader'[q]) /\ Undisturbed(q)'
  BY <1>2, <1>3, <1>8, OthersBackOff
<1>9. Solitude'
  BY <1>2, <1>4, <1>8, SolitudeKept
<1>10. latest.alone => UNCHANGED specFile
  BY <1>2, <1>5 DEF BackOff, Settled
<1>11. Settled' /\ (latest \in LatestType)'
  <2>1. UNCHANGED latest
    BY DEF WriteTmp
  <2>2. ASSUME latest.alone, NEW q \in Processes, loader'[q].at = "write"
        PROVE  loader'[q].file = "tmp"
    BY ZenonT(40), <1>3, <1>4, <2>2 DEF BackOff, Settled
  <2> QED
    BY <1>10, <2>1, <2>2 DEF BackOff, Settled
<1> QED
  BY <1>1, <1>7, <1>8, <1>9, <1>11 DEF BackOff

\* With the rename the cache file tells of the attempt.
LEMMA RenameBackOff ==
  ASSUME BackOff, NEW p \in Processes, Rename(p)
  PROVE  BackOff'
<1>1. Provenance'
  BY RenameProvenance DEF BackOff
<1>2. /\ \A q \in Processes : loader[q] \in LoaderType
      /\ Busy(p) /\ loader[p].at = "rename"
  BY DEF BackOff, Provenance, SpecTypes, Rename, Busy
<1>3. loader'[p].at = "done"
  BY DEF Rename, Returned, BackOff, Provenance, SpecTypes, LoaderType
<1>4. ASSUME NEW q \in Processes, q # p
      PROVE  loader'[q] \in {loader[q], [loader[q] EXCEPT !.file = IF @ = "tmp" THEN "renamed" ELSE "replaced"]}
  BY <1>4 DEF Rename
<1>5. ASSUME NEW q \in Processes, q # p
      PROVE  /\ Busy(q)' = Busy(q) /\ (Busy(q) => ~loader'[q].alone)
             /\ Progress(loader'[q]) /\ Undisturbed(q)'
             /\ loader'[q].at = loader[q].at
  <2>1. /\ loader'[q].alone = loader[q].alone /\ loader'[q].at = loader[q].at
        /\ loader'[q].cache = loader[q].cache /\ loader'[q].url = loader[q].url
        /\ loader'[q].now = loader[q].now /\ loader'[q].answer = loader[q].answer
    BY <1>2, <1>4, <1>5 DEF LoaderType
  <2> QED
    BY <2>1, <1>2, <1>5, OthersBackOff
<1>6. Progress(loader'[p]) /\ Undisturbed(p)'
  BY <1>3 DEF Progress, Undisturbed
<1>7. Solitude'
  BY <1>2, <1>3, <1>5, SolitudeKept DEF Busy
<1>8. latest' = [url |-> loader[p].url, now |-> loader[p].now,
                 answer |-> loader[p].answer, alone |-> loader[p].alone]
  BY DEF Rename
<1>9. latest' \in LatestType
  BY <1>2, <1>8 DEF LoaderType, LatestType, Sources
<1>10. Settled'
  <2> SUFFICES ASSUME loader[p].alone
               PROVE  /\ Recorded(specFile', loader[p].url, loader[p].now, loader[p].answer)
                      /\ \A q \in Processes : loader'[q].at # "write"
    BY <1>8 DEF Settled
  <2>1. specFile' = loader[p].cache
    BY <1>2 DEF Rename, BackOff, Undisturbed
  <2>2. Recorded(loader[p].cache, loader[p].url, loader[p].now, loader[p].answer)
    BY <1>2 DEF BackOff, Progress
  <2>3. \A q \in Processes : q # p => ~Busy(q)
    BY <1>2 DEF BackOff, Solitude, Others
  <2> QED
    BY <2>1, <2>2, <2>3, <1>3, <1>5 DEF Busy
<1> QED
  BY <1>1, <1>5, <1>6, <1>7, <1>9, <1>10 DEF BackOff

\* Without a rename nothing is known of the attempt, and nothing is claimed.
LEMMA SaveFailsBackOff ==
  ASSUME BackOff, NEW p \in Processes, SaveFails(p)
  PROVE  BackOff'
<1>1. Provenance'
  BY SaveFailsProvenance DEF BackOff
<1>2. loader[p] \in LoaderType /\ Busy(p)
  BY DEF BackOff, Provenance, SpecTypes, SaveFails, Busy
<1>3. /\ loader'[p] = Returned(loader[p], loader[p].cache.specs)
      /\ \A q \in Processes : q # p => loader'[q] = loader[q]
  BY DEF SaveFails, Update, BackOff, Provenance, SpecTypes
<1>4. loader'[p].at = "done"
  BY <1>2, <1>3 DEF Returned, LoaderType
<1>5. ASSUME NEW q \in Processes, q # p
      PROVE  /\ Busy(q)' = Busy(q) /\ (Busy(q) => ~loader'[q].alone)
             /\ Progress(loader'[q]) /\ Undisturbed(q)'
  BY <1>2, <1>3, <1>5, OthersBackOff
<1>6. Progress(loader'[p]) /\ Undisturbed(p)'
  BY <1>4 DEF Progress, Undisturbed
<1>7. Solitude'
  BY <1>2, <1>4, <1>5, SolitudeKept DEF Busy
<1>8. latest' = [url |-> loader[p].url, now |-> loader[p].now,
                 answer |-> Unsaved, alone |-> loader[p].alone]
  BY DEF SaveFails
<1>9. latest' \in LatestType
  BY <1>2, <1>8 DEF LoaderType, LatestType, Sources
<1>10. Settled'
  <2>1. ASSUME loader[p].alone, NEW q \in Processes PROVE loader'[q].at # "write"
    <3>1. q # p => ~Busy(q)
      BY <1>2, <2>1 DEF BackOff, Solitude, Others
    <3> QED
      BY <3>1, <1>3, <1>4 DEF Busy
  <2>2. Recorded(specFile', latest'.url, latest'.now, latest'.answer)
    BY <1>8 DEF Recorded, Unsaved
  <2> QED
    BY <1>8, <2>1, <2>2 DEF Settled
<1> QED
  BY <1>1, <1>5, <1>6, <1>7, <1>9, <1>10 DEF BackOff

\* A process that dies is no longer busy.
LEMMA CrashBackOff ==
  ASSUME BackOff, NEW p \in Processes, Crash(p)
  PROVE  BackOff'
<1>1. Provenance'
  BY CrashProvenance DEF BackOff
<1>2. loader[p] \in LoaderType /\ Busy(p)
  BY DEF BackOff, Provenance, SpecTypes, Crash
<1>3. /\ loader'[p] = Returned(loader[p], None)
      /\ \A q \in Processes : q # p => loader'[q] = loader[q]
  BY DEF Crash, Update, BackOff, Provenance, SpecTypes
<1>4. loader'[p].at = "done"
  BY <1>2, <1>3 DEF Returned, LoaderType
<1>5. ASSUME NEW q \in Processes, q # p
      PROVE  /\ Busy(q)' = Busy(q) /\ (Busy(q) => ~loader'[q].alone)
             /\ Progress(loader'[q]) /\ Undisturbed(q)'
  BY <1>2, <1>3, <1>5, OthersBackOff
<1>6. Progress(loader'[p]) /\ Undisturbed(p)'
  BY <1>4 DEF Progress, Undisturbed
<1>7. Solitude'
  BY <1>2, <1>4, <1>5, SolitudeKept DEF Busy
<1>8. latest' = [latest EXCEPT !.alone = FALSE] /\ latest \in LatestType
  BY DEF Crash, BackOff
<1>9. latest' \in LatestType /\ Settled'
  BY <1>8 DEF LatestType, Settled
<1> QED
  BY <1>1, <1>5, <1>6, <1>7, <1>9 DEF BackOff

\* Every step keeps the back-off.
LEMMA NextBackOff == BackOff /\ [PlanNext]_<<specVars, planVars>> => BackOff'
<1> SUFFICES ASSUME BackOff, [PlanNext]_<<specVars, planVars>> PROVE BackOff'
  OBVIOUS
<1>1. Provenance'
  BY NextProvenance DEF BackOff
<1>2. ASSUME UNCHANGED <<specFile, specTmp, loader, latest>> PROVE BackOff'
  <2>1. Settled'
    BY <1>2 DEF BackOff, Settled
  <2>2. Solitude'
    BY <1>2 DEF BackOff, Solitude, Busy
  <2>3. \A p \in Processes : Undisturbed(p)' /\ Progress(loader'[p])
    BY <1>2 DEF BackOff, Undisturbed
  <2> QED
    BY <1>1, <1>2, <2>1, <2>2, <2>3 DEF BackOff
<1>3. ASSUME NEW p \in Processes, \E url \in Urls, offline, readable \in BOOLEAN :
                                     LoadStart(p, url, offline, readable)
      PROVE  BackOff'
  BY <1>3, LoadStartBackOff
<1>4. ASSUME NEW p \in Processes, \/ Fetch(p) \/ OpenTmp(p) \/ WriteTmp(p) \/ Rename(p)
                                 \/ SaveFails(p) \/ Crash(p)
      PROVE  BackOff'
  BY <1>4, FetchBackOff, OpenTmpBackOff, WriteTmpBackOff, RenameBackOff,
     SaveFailsBackOff, CrashBackOff
<1>5. ASSUME NEW p \in Processes, PlanSpecs(p) PROVE BackOff'
  BY <1>5, <1>2, <1>3 DEF PlanSpecs, specVars
<1>6. ASSUME NEW p \in Processes,
             \/ \E l \in Lines[p], readable \in SUBSET Providers :
                  PlanStart(p, l.wanted, l.refresh, l.offline, readable)
             \/ \E v \in Providers : \/ OpenPrices(p, v) \/ KeepPrices(p, v)
                                     \/ \E readable \in BOOLEAN : FallBack(p, v, readable)
             \/ Join(p) \/ FillPrices(p) \/ PlanReport(p) \/ PlanCrash(p)
      PROVE  UNCHANGED specVars
  BY <1>6 DEF PlanStart, OpenPrices, KeepPrices, FallBack, Join, FillPrices, PlanReport, PlanCrash
<1>7. CASE Tick
  BY <1>2, <1>7 DEF Tick
<1>8. CASE UNCHANGED <<specVars, planVars>>
  BY <1>2, <1>8 DEF specVars
<1> QED
  BY <1>2, <1>3, <1>4, <1>5, <1>6, <1>7, <1>8 DEF PlanNext, specVars

\* A load that asks has read the file that tells of the newest attempt.
LEMMA BackOffSuffices == BackOff => NoEarlyRetry
<1> SUFFICES ASSUME BackOff, NEW p \in Processes, loader[p].at = "fetch", AfterAlone(p)
             PROVE  /\ latest.answer = "specs" => loader[p].now - latest.now >= SpecTtl
                    /\ latest.answer = "failed" => loader[p].now - latest.now >= RetryAfter
  BY DEF NoEarlyRetry
<1>1. loader[p].cache = specFile /\ Due(loader[p])
  BY DEF BackOff, Undisturbed, Progress, AfterAlone
<1>2. Recorded(specFile, loader[p].url, latest.now, latest.answer)
  BY DEF BackOff, Settled, AfterAlone
<1> QED
  BY <1>1, <1>2 DEF Due, Recorded

\* However many processes share the cache, crash, cut each other's files off or
\* fail to save them: a load that could read the cache and had it to itself
\* asks a source no sooner than a day after an answer, or six hours after a
\* failure, that a load which had it to itself has recorded (load_remote_specs).
THEOREM RetryCorrectness == PlanSpec => []NoEarlyRetry
<1>1. PlanInit => BackOff
  BY InitBackOff
<1>2. BackOff /\ [PlanNext]_<<specVars, planVars>> => BackOff'
  BY NextBackOff
<1>3. BackOff => NoEarlyRetry
  BY BackOffSuffices
<1> QED
  BY <1>1, <1>2, <1>3, PTL DEF PlanSpec

------------------------------------------------------------------------------
(* Prices.  `PricesAreAccounted` speaks of the report.  Before it, a       *)
(* provider may also be one whose answer is still to be looked at          *)
(* (`Told`); nothing is left to be looked at when the report is made.      *)

\* What a plan is.
AnswerType == {NotAsked, "asked", "ok", "empty", "error", "panicked"}
FileType == [at : Nat, empty : BOOLEAN]

PlanType ==
  [at : {"idle", "fetching", "collecting", "filling", "specs", "done"},
   refresh : BOOLEAN, offline : BOOLEAN, wanted : Seq(Providers),
   answer : [Providers -> AnswerType], next : Providers \cup {None},
   age : [Providers -> Nat], bare : SUBSET Providers, noted : SUBSET Providers]

PlanTypes ==
  /\ clock \in Nat
  /\ priceFile \in [Providers -> FileType]
  /\ plan \in [Processes -> PlanType]

\* A list that is in use is as new as it seems, and a live answer is the one.
Dated(r) ==
  /\ \A v \in Heard(r) : r.age[v] > PriceTtl /\ r.age[v] > DefaultTtl => v \in r.noted
  /\ \A v \in Heard(r) : r.refresh /\ ~r.offline /\ v \notin Live(r) => v \in r.noted
  /\ \A v \in Live(r) \cap Heard(r) : r.age[v] = 0 /\ (v \notin r.bare <=> r.answer[v] = "ok")

\* Until the report, nobody wanted is forgotten.
Told(r) ==
  /\ Dated(r)
  /\ \A v \in Range(r.wanted) : v \in Heard(r) \cup r.noted \cup Asked(r)
  /\ r.at = "fetching" => \A v \in Asked(r) : r.age[v] = Unread
  /\ r.at # "fetching" => \A v \in Asked(r) : r.answer[v] # "asked"

\* The report leaves nothing out.
Reported(r) ==
  /\ Dated(r)
  /\ \A v \in Range(r.wanted) : v \in Heard(r) \cup r.noted \/ r.answer[v] = "panicked"
  /\ Live(r) \subseteq Heard(r)

\* What a plan tells, up to the report and from it on.
Accounts(r) ==
  /\ r.at \in {"fetching", "collecting", "filling"} => Told(r)
  /\ r.at \in {"specs", "done"} => Reported(r)

\* What PricesAreAccounted needs to be inductive.
Accounting == PlanTypes /\ \A p \in Processes : Accounts(plan[p])

------------------------------------------------------------------------------
(* The record of a plan.                                                   *)

\* A plan that has not started has nothing to account for.
LEMMA IdleAccounts == IdlePlan \in PlanType /\ Accounts(IdlePlan)
<1>1. <<>> \in Seq(Providers)
  OBVIOUS
<1>2. Unread \in Nat
  BY PriceAssumption DEF Unread
<1> QED
  BY <1>1, <1>2 DEF IdlePlan, PlanType, AnswerType, Accounts, NotAsked, None

\* Cached listings are no older than is asked for.
LEMMA CachedType ==
  ASSUME PlanTypes, NEW v \in Providers, NEW max
  PROVE  /\ Cached(v, max) \in Nat
         /\ Cached(v, max) # Unread => ~(Cached(v, max) > max)
<1>1. priceFile[v].at \in Nat /\ clock \in Nat /\ Unread \in Nat
  BY PriceAssumption DEF PlanTypes, FileType, Unread
<1>2. Age(priceFile[v].at) \in Nat
  BY <1>1 DEF Age
<1> QED
  BY <1>1, <1>2 DEF Cached

\* A file that is not there is a file.
LEMMA NoPricesType == NoPrices \in FileType
BY PriceAssumption DEF NoPrices, FileType, Unread

\* One process's plan moves on.
LEMMA PlanUpdateAccounting ==
  ASSUME Accounting, NEW p \in Processes, NEW r \in PlanType, Accounts(r), PlanUpdate(p, r),
         clock' \in Nat, priceFile' \in [Providers -> FileType]
  PROVE  Accounting'
<1>1. plan' \in [Processes -> PlanType]
  BY DEF Accounting, PlanTypes, PlanUpdate
<1>2. \A q \in Processes : Accounts(plan'[q])
  BY DEF Accounting, PlanTypes, PlanUpdate
<1> QED
  BY <1>1, <1>2 DEF Accounting, PlanTypes

------------------------------------------------------------------------------
(* The steps of a plan.                                                    *)

\* No plan has started.
LEMMA InitAccounting == PlanInit => Accounting
<1> SUFFICES ASSUME PlanInit PROVE Accounting
  OBVIOUS
<1>1. clock \in Nat /\ Unread \in Nat
  BY SpecAssumption, PriceAssumption DEF PlanInit, SpecInit, Unread
<1>2. PlanTypes
  BY <1>1, IdleAccounts, NoPricesType DEF PlanInit, PlanTypes
<1> QED
  BY <1>2, IdleAccounts DEF PlanInit, Accounting

\* A plan asks the providers it wants.
LEMMA PlanStartAccounting ==
  ASSUME Accounting, NEW p \in Processes, NEW l \in Lines[p], NEW readable \in SUBSET Providers,
         PlanStart(p, l.wanted, l.refresh, l.offline, readable)
  PROVE  Accounting'
<1> DEFINE
      wanted == Range(l.wanted)
      age == [v \in Providers |->
        CASE v \notin wanted \cap readable \/ (l.refresh /\ ~l.offline) -> Unread
          [] v \in wanted \cap readable /\ l.offline -> Cached(v, MaxClock)
          [] OTHER -> Cached(v, PriceTtl)]
      ask == IF l.offline THEN {} ELSE {v \in wanted : age[v] = Unread}
      old == {v \in wanted : age[v] = Unread \/ age[v] > DefaultTtl}
      answer == [v \in Providers |-> IF v \in ask THEN "asked" ELSE NotAsked]
      noted == IF l.offline THEN old ELSE {}
      bare == {v \in Providers : age[v] # Unread /\ priceFile[v].empty}
      r == [IdlePlan EXCEPT
             !.at = "fetching", !.refresh = l.refresh, !.offline = l.offline,
             !.wanted = l.wanted, !.answer = answer, !.age = age, !.noted = noted,
             !.bare = bare]
<1>1. l.wanted \in Seq(Providers) /\ l.refresh \in BOOLEAN /\ l.offline \in BOOLEAN
  BY LinesAssumption
<1>2. wanted \subseteq Providers
  BY <1>1 DEF Range
<1>3. ASSUME NEW v \in Providers
      PROVE  /\ age[v] \in Nat
             /\ v \notin wanted \/ (l.refresh /\ ~l.offline) => age[v] = Unread
             /\ ~l.offline /\ age[v] # Unread => ~(age[v] > PriceTtl)
  <2>1. Unread \in Nat
    BY PriceAssumption DEF Unread
  <2>2. PlanTypes
    BY DEF Accounting
  <2>3. /\ Cached(v, MaxClock) \in Nat /\ Cached(v, PriceTtl) \in Nat
        /\ Cached(v, PriceTtl) # Unread => ~(Cached(v, PriceTtl) > PriceTtl)
    BY <2>2, CachedType
  <2>4. CASE v \notin wanted \cap readable \/ (l.refresh /\ ~l.offline)
    <3>1. age[v] = Unread
      BY <2>4
    <3> HIDE DEF age
    <3> QED
      BY <2>1, <3>1
  <2>5. CASE v \in wanted \cap readable /\ l.offline
    BY <2>3, <2>5
  <2>6. CASE v \in wanted \cap readable /\ ~l.refresh /\ ~l.offline
    BY <2>3, <2>6
  <2> QED
    BY <1>1, <2>4, <2>5, <2>6
<1>4. age \in [Providers -> Nat]
  BY <1>3
<1>5. PlanUpdate(p, r) /\ UNCHANGED <<clock, priceFile>>
  BY DEF PlanStart, specVars
<1> HIDE DEF wanted, age
<1>6. answer \in [Providers -> AnswerType] /\ noted \subseteq Providers /\ bare \subseteq Providers
  BY <1>2 DEF AnswerType
<1> HIDE DEF answer, noted, bare
<1>7. r \in PlanType
  BY <1>1, <1>4, <1>6, IdleAccounts DEF PlanType
<1>8. /\ r.at = "fetching" /\ r.refresh = l.refresh /\ r.offline = l.offline
      /\ Range(r.wanted) = wanted /\ r.answer = answer /\ r.age = age /\ r.noted = noted
  BY IdleAccounts DEF PlanType, wanted
<1> HIDE DEF r
<1>9. Asked(r) = ask /\ Live(r) = {}
  BY <1>2, <1>8 DEF Asked, Live, answer, NotAsked
<1>10. Heard(r) = {v \in Providers : age[v] # Unread}
  BY <1>8 DEF Heard
<1>11. \A v \in wanted : v \in Heard(r) \cup noted \cup ask
  BY <1>2, <1>10 DEF noted
<1>12. \A v \in Heard(r) : age[v] > PriceTtl /\ age[v] > DefaultTtl => v \in noted
  BY <1>3, <1>10 DEF noted
<1>13. \A v \in Heard(r) : l.refresh /\ ~l.offline => FALSE
  BY <1>3, <1>10
<1>14. \A v \in ask : age[v] = Unread
  OBVIOUS
<1>15. Told(r)
  BY <1>8, <1>9, <1>11, <1>12, <1>13, <1>14 DEF Told, Dated
<1> QED
  BY <1>5, <1>7, <1>8, <1>15, PlanUpdateAccounting DEF Accounts, Accounting, PlanTypes

\* A provider has answered, failed or panicked.
LEMMA JoinAccounting ==
  ASSUME Accounting, NEW p \in Processes, Join(p)
  PROVE  Accounting'
<1> DEFINE o == plan[p]
<1>1. PICK given \in [Asked(o) -> {"ok", "empty", "error", "panicked"}] :
        PlanUpdate(p, [o EXCEPT !.at = "collecting", !.answer =
          [v \in Providers |-> IF v \in Asked(o) THEN given[v] ELSE NotAsked]])
  BY DEF Join
<1> DEFINE answer == [v \in Providers |-> IF v \in Asked(o) THEN given[v] ELSE NotAsked]
           r == [o EXCEPT !.at = "collecting", !.answer = answer]
<1>2. o \in PlanType /\ o.at = "fetching" /\ Told(o)
  BY DEF Join, Accounting, PlanTypes, Accounts
<1>3. \A v \in Asked(o) : given[v] \in {"ok", "empty", "error", "panicked"}
  OBVIOUS
<1>4. answer \in [Providers -> AnswerType]
  BY <1>3 DEF AnswerType
<1>5. /\ r \in PlanType /\ r.at = "collecting" /\ r.answer = answer /\ r.age = o.age
      /\ r.wanted = o.wanted /\ r.noted = o.noted /\ r.refresh = o.refresh /\ r.offline = o.offline
  <2> HIDE DEF answer
  <2> QED BY <1>2, <1>4 DEF PlanType
<1>6. Asked(r) = Asked(o) /\ Live(r) \subseteq Asked(o)
  <2>1. \A v \in Asked(o) : answer[v] # NotAsked
    BY <1>3 DEF NotAsked, Asked
  <2>2. \A v \in Providers \ Asked(o) : answer[v] = NotAsked
    OBVIOUS
  <2> HIDE DEF r, answer
  <2> QED
    BY <1>5, <2>1, <2>2 DEF Asked, Live, NotAsked
<1>7. \A v \in Asked(o) : answer[v] # "asked"
  BY <1>3 DEF Asked
<1> HIDE DEF r, answer
<1>8. Heard(r) = Heard(o) /\ Heard(o) \cap Asked(o) = {}
  BY <1>2, <1>5 DEF Heard, Told
<1>9. Live(o) \subseteq Asked(o)
  BY DEF Live, Asked, NotAsked
<1>10. Dated(r)
  BY <1>2, <1>5, <1>6, <1>8, <1>9 DEF Told, Dated
<1>11. Told(r)
  BY <1>2, <1>5, <1>6, <1>7, <1>8, <1>10 DEF Told
<1> QED
  BY <1>1, <1>5, <1>11, PlanUpdateAccounting DEF Accounts, Accounting, PlanTypes, Join, specVars, r, answer

\* A live answer takes its place among the lists.
LEMMA FetchedTold ==
  ASSUME NEW o \in PlanType, o.at = "collecting", Told(o), NEW v \in Live(o)
  PROVE  /\ Fetched(o, v) \in PlanType /\ Told(Fetched(o, v))
         /\ Fetched(o, v).at = "collecting"
<1> DEFINE r == Fetched(o, v)
           bare == IF o.answer[v] = "empty" THEN o.bare \cup {v} ELSE o.bare \ {v}
<1>1. v \in Providers /\ v \in Asked(o) /\ o.answer[v] \in {"ok", "empty"}
  BY DEF Live, Asked, NotAsked
<1>2. bare \in SUBSET Providers /\ [o.age EXCEPT ![v] = 0] \in [Providers -> Nat]
  BY <1>1 DEF PlanType
<1>3. bare \ {v} = o.bare \ {v} /\ (v \notin bare <=> o.answer[v] = "ok")
  BY <1>1
<1>4. r = [o EXCEPT !.age = [o.age EXCEPT ![v] = 0], !.bare = bare]
  BY <1>1 DEF Fetched, PlanType
<1> HIDE DEF bare, r
<1>5. /\ r \in PlanType /\ r.at = "collecting" /\ r.answer = o.answer /\ r.wanted = o.wanted
      /\ r.noted = o.noted /\ r.refresh = o.refresh /\ r.offline = o.offline
      /\ r.age = [o.age EXCEPT ![v] = 0] /\ r.bare = bare
  BY <1>2, <1>4 DEF PlanType
<1>6. Asked(r) = Asked(o) /\ Live(r) = Live(o)
  BY <1>5 DEF Asked, Live
<1>7. r.age[v] = 0 /\ \A u \in Providers \ {v} : r.age[u] = o.age[u]
  BY <1>1, <1>5 DEF PlanType
<1>8. Heard(r) \ {v} = Heard(o) \ {v} /\ Heard(o) \subseteq Heard(r) \cup {v} /\ v \in Heard(r)
  <2>1. Unread # 0
    BY PriceAssumption DEF Unread
  <2> QED
    BY <1>1, <1>7, <2>1 DEF Heard
<1>9. Dated(r)
  <2>1. ASSUME NEW u \in Heard(r), r.age[u] > PriceTtl, r.age[u] > DefaultTtl PROVE u \in r.noted
    <3>1. u # v
      BY <2>1, <1>7, PriceAssumption
    <3> QED
      BY <3>1, <2>1, <1>5, <1>7, <1>8 DEF Told, Dated, Heard
  <2>2. ASSUME NEW u \in Heard(r), r.refresh, ~r.offline, u \notin Live(r) PROVE u \in r.noted
    BY <2>2, <1>5, <1>6, <1>8 DEF Told, Dated
  <2>3. ASSUME NEW u \in Live(r) \cap Heard(r)
        PROVE  r.age[u] = 0 /\ (u \notin r.bare <=> r.answer[u] = "ok")
    <3>1. CASE u = v
      BY <3>1, <1>3, <1>5, <1>7
    <3>2. CASE u # v
      <4>1. u \in Live(o) \cap Heard(o) /\ u \in Providers
        BY <2>3, <3>2, <1>6, <1>8 DEF Live
      <4>2. o.age[u] = 0 /\ (u \notin o.bare <=> o.answer[u] = "ok")
        BY <4>1 DEF Told, Dated
      <4> QED
        BY <4>1, <4>2, <3>2, <1>3, <1>5, <1>7
    <3> QED
      BY <3>1, <3>2
  <2> QED
    BY <2>1, <2>2, <2>3 DEF Dated
<1>10. Told(r)
  BY <1>1, <1>5, <1>6, <1>8, <1>9 DEF Told
<1> QED
  BY <1>5, <1>10 DEF r

\* An answer is taken, and its file opened.
LEMMA OpenPricesAccounting ==
  ASSUME Accounting, NEW p \in Processes, NEW v \in Providers, OpenPrices(p, v)
  PROVE  Accounting'
<1> DEFINE o == plan[p]
           f == Fetched(o, v)
           r == [f EXCEPT !.at = "filling", !.next = v]
<1>1. o \in PlanType /\ o.at = "collecting" /\ Told(o) /\ v \in Live(o)
  BY DEF OpenPrices, Accounting, PlanTypes, Accounts
<1>2. f \in PlanType /\ Told(f) /\ f.at = "collecting"
  BY <1>1, FetchedTold
<1>3. PlanUpdate(p, r) /\ priceFile' = [priceFile EXCEPT ![v] = NoPrices] /\ clock' = clock
  BY DEF OpenPrices, specVars
<1> HIDE DEF f
<1>4. /\ r \in PlanType /\ r.at = "filling" /\ r.answer = f.answer /\ r.wanted = f.wanted
      /\ r.noted = f.noted /\ r.age = f.age /\ r.bare = f.bare
      /\ r.refresh = f.refresh /\ r.offline = f.offline
  BY <1>2 DEF PlanType
<1> HIDE DEF r
<1>5. Accounts(r)
  BY <1>2, <1>4 DEF Accounts, Told, Dated, Heard, Asked, Live
<1>6. priceFile' \in [Providers -> FileType] /\ clock' \in Nat
  BY <1>3, NoPricesType DEF Accounting, PlanTypes
<1> QED
  BY <1>3, <1>4, <1>5, <1>6, PlanUpdateAccounting

\* An answer is taken, and its file left as it is.
LEMMA KeepPricesAccounting ==
  ASSUME Accounting, NEW p \in Processes, NEW v \in Providers, KeepPrices(p, v)
  PROVE  Accounting'
<1> DEFINE r == Fetched(plan[p], v)
<1>1. plan[p] \in PlanType /\ plan[p].at = "collecting" /\ Told(plan[p]) /\ v \in Live(plan[p])
  BY DEF KeepPrices, Accounting, PlanTypes, Accounts
<1>2. r \in PlanType /\ Told(r) /\ r.at = "collecting"
  BY <1>1, FetchedTold
<1>3. PlanUpdate(p, r) /\ UNCHANGED <<clock, priceFile>>
  BY DEF KeepPrices, specVars
<1> HIDE DEF r
<1> QED
  BY <1>2, <1>3, PlanUpdateAccounting DEF Accounts, Accounting, PlanTypes

\* The file of an answer is filled, or left torn.
LEMMA FillPricesAccounting ==
  ASSUME Accounting, NEW p \in Processes, FillPrices(p)
  PROVE  Accounting'
<1> DEFINE r == [plan[p] EXCEPT !.at = "collecting", !.next = None]
<1>1. plan[p] \in PlanType /\ plan[p].at = "filling" /\ Told(plan[p])
  BY DEF FillPrices, Accounting, PlanTypes, Accounts
<1>2. /\ r \in PlanType /\ r.at = "collecting" /\ r.answer = plan[p].answer
      /\ r.wanted = plan[p].wanted /\ r.noted = plan[p].noted /\ r.age = plan[p].age
      /\ r.bare = plan[p].bare /\ r.refresh = plan[p].refresh /\ r.offline = plan[p].offline
  BY <1>1 DEF PlanType
<1>3. PlanUpdate(p, r) /\ clock' = clock
  BY DEF FillPrices, specVars
<1> HIDE DEF r
<1>4. Accounts(r)
  BY <1>1, <1>2 DEF Accounts, Told, Dated, Heard, Asked, Live
<1>5. clock' \in Nat
  BY <1>3 DEF Accounting, PlanTypes
<1>6. priceFile' \in [Providers -> FileType]
  <2> DEFINE full == [at |-> clock, empty |-> plan[p].next \in plan[p].bare]
  <2>1. full \in FileType
    BY DEF FileType, Accounting, PlanTypes
  <2>2. PICK file \in {NoPrices, full} : priceFile' = [priceFile EXCEPT ![plan[p].next] = file]
    BY DEF FillPrices
  <2>3. file \in FileType
    <3> HIDE DEF full
    <3> QED BY <2>1, <2>2, NoPricesType
  <2> QED
    BY <2>2, <2>3 DEF Accounting, PlanTypes
<1> QED
  BY <1>2, <1>3, <1>4, <1>5, <1>6, PlanUpdateAccounting

\* A failure is put down, and what its cache has is listed.
LEMMA FallBackAccounting ==
  ASSUME Accounting, NEW p \in Processes, NEW v \in Providers, NEW readable \in BOOLEAN,
         FallBack(p, v, readable)
  PROVE  Accounting'
<1> DEFINE o == plan[p]
           age == IF readable THEN Cached(v, MaxClock) ELSE Unread
           empty == age # Unread /\ priceFile[v].empty
           bare == IF empty THEN o.bare \cup {v} ELSE o.bare \ {v}
           r == [o EXCEPT !.age = [o.age EXCEPT ![v] = age], !.bare = bare,
                          !.noted = o.noted \cup {v}]
<1>1. o \in PlanType /\ o.at = "collecting" /\ Told(o) /\ v \in Asked(o) /\ o.answer[v] = "error"
  BY DEF FallBack, Turn, Left, Accounting, PlanTypes, Accounts
<1>2. age \in Nat
  <2>1. Unread \in Nat
    BY PriceAssumption DEF Unread
  <2> QED
    BY <2>1, CachedType DEF Accounting
<1>3. PlanUpdate(p, r) /\ UNCHANGED <<clock, priceFile>>
  BY <1>1 DEF FallBack, FromFile, specVars, PlanType
<1>4. bare \in SUBSET Providers /\ bare \ {v} = o.bare \ {v}
  BY <1>1 DEF PlanType
<1> HIDE DEF age, empty, bare
<1>5. /\ r \in PlanType /\ r.at = o.at /\ r.answer = o.answer /\ r.wanted = o.wanted
      /\ r.noted = o.noted \cup {v} /\ r.refresh = o.refresh /\ r.offline = o.offline
      /\ r.age = [o.age EXCEPT ![v] = age] /\ r.bare = bare
  <2>1. [o.age EXCEPT ![v] = age] \in [Providers -> Nat] /\ o.noted \cup {v} \in SUBSET Providers
    BY <1>1, <1>2 DEF PlanType
  <2> QED
    BY <1>1, <1>4, <2>1 DEF PlanType
<1> HIDE DEF r
<1>6. \A u \in Providers \ {v} : r.age[u] = o.age[u]
  BY <1>1, <1>5 DEF PlanType
<1>7. Live(r) = Live(o) /\ Asked(r) = Asked(o) /\ v \notin Live(o)
  BY <1>1, <1>5 DEF Live, Asked
<1>8. Heard(r) \ {v} = Heard(o) \ {v}
  BY <1>6 DEF Heard
<1>9. Dated(r)
  <2>1. ASSUME NEW u \in Heard(r), u # v
        PROVE  u \in Heard(o) /\ u \in Providers /\ r.age[u] = o.age[u]
    BY <2>1, <1>6, <1>8 DEF Heard
  <2>2. ASSUME NEW u \in Live(r) \cap Heard(r)
        PROVE  r.age[u] = 0 /\ (u \notin r.bare <=> r.answer[u] = "ok")
    <3>1. u # v /\ u \in Live(o)
      BY <2>2, <1>7
    <3>2. o.age[u] = 0 /\ (u \notin o.bare <=> o.answer[u] = "ok")
      BY <2>1, <2>2, <3>1, <1>1 DEF Told, Dated
    <3> QED
      BY <2>1, <2>2, <3>1, <3>2, <1>4, <1>5
  <2> QED
    BY <1>1, <1>5, <1>7, <2>1, <2>2 DEF Told, Dated
<1>10. Told(r)
  BY <1>1, <1>5, <1>7, <1>8, <1>9 DEF Told
<1> QED
  BY <1>1, <1>3, <1>5, <1>10, PlanUpdateAccounting DEF Accounts, Accounting, PlanTypes

\* Nothing is left to be looked at, and the report is complete.
LEMMA PlanSpecsAccounting ==
  ASSUME Accounting, Provenance, NEW p \in Processes, PlanSpecs(p)
  PROVE  Accounting'
<1> DEFINE o == plan[p]
<1>1. o \in PlanType /\ o.at = "collecting" /\ Told(o) /\ Left(o) = {}
  BY DEF PlanSpecs, Accounting, PlanTypes, Accounts
<1>2. Reported(o)
  <2>1. ASSUME NEW v \in Asked(o)
        PROVE  /\ v \in Live(o) => v \in Heard(o)
               /\ o.answer[v] = "error" => v \in o.noted
               /\ v \in Live(o) \/ o.answer[v] \in {"error", "panicked"}
    BY <1>1, <2>1 DEF Left, Told, Heard, Asked, Live, PlanType, AnswerType
  <2>2. Live(o) \subseteq Asked(o)
    BY DEF Live, Asked, NotAsked
  <2> QED
    BY <1>1, <2>1, <2>2 DEF Reported, Told
<1>3. PICK at \in {"specs", "done"} : PlanUpdate(p, [o EXCEPT !.at = at])
  BY DEF PlanSpecs
<1> DEFINE r == [o EXCEPT !.at = at]
<1>4. /\ r \in PlanType /\ r.at \in {"specs", "done"} /\ r.answer = o.answer /\ r.wanted = o.wanted
      /\ r.noted = o.noted /\ r.refresh = o.refresh /\ r.offline = o.offline /\ r.age = o.age
      /\ r.bare = o.bare
  BY <1>1 DEF PlanType
<1>5. clock' = clock /\ priceFile' = priceFile
  BY DEF PlanSpecs, LoadStart, specVars
<1> HIDE DEF r
<1>6. Accounts(r)
  BY <1>2, <1>4 DEF Accounts, Reported, Dated, Heard, Live
<1> QED
  BY <1>3, <1>4, <1>5, <1>6, PlanUpdateAccounting DEF Accounting, PlanTypes, r

\* The report is made.
LEMMA PlanReportAccounting ==
  ASSUME Accounting, NEW p \in Processes, PlanReport(p)
  PROVE  Accounting'
<1> DEFINE r == [plan[p] EXCEPT !.at = "done"]
<1>1. plan[p] \in PlanType /\ Reported(plan[p])
  BY DEF PlanReport, Accounting, PlanTypes, Accounts
<1>2. /\ r \in PlanType /\ r.at = "done" /\ r.answer = plan[p].answer
      /\ r.wanted = plan[p].wanted /\ r.noted = plan[p].noted /\ r.age = plan[p].age
      /\ r.bare = plan[p].bare /\ r.refresh = plan[p].refresh /\ r.offline = plan[p].offline
  BY <1>1 DEF PlanType
<1>3. PlanUpdate(p, r) /\ UNCHANGED <<clock, priceFile>>
  BY DEF PlanReport, specVars
<1> HIDE DEF r
<1>4. Accounts(r)
  BY <1>1, <1>2 DEF Accounts, Reported, Dated, Heard, Live
<1> QED
  BY <1>2, <1>3, <1>4, PlanUpdateAccounting DEF Accounting, PlanTypes

\* Every step keeps the accounts.
LEMMA NextAccounting ==
  Accounting /\ Provenance /\ [PlanNext]_<<specVars, planVars>> => Accounting'
<1> SUFFICES ASSUME Accounting, Provenance, [PlanNext]_<<specVars, planVars>> PROVE Accounting'
  OBVIOUS
<1>1. clock' \in Nat
  BY NextProvenance DEF Provenance, SpecTypes
<1>2. ASSUME UNCHANGED planVars PROVE Accounting'
  BY <1>1, <1>2 DEF planVars, Accounting, PlanTypes
<1>3. ASSUME NEW p \in Processes, PlanUpdate(p, IdlePlan), UNCHANGED priceFile
      PROVE  Accounting'
  BY <1>1, <1>3, IdleAccounts, PlanUpdateAccounting DEF Accounting, PlanTypes
<1>4. ASSUME NEW p \in Processes,
             \/ \E l \in Lines[p], readable \in SUBSET Providers :
                  PlanStart(p, l.wanted, l.refresh, l.offline, readable)
             \/ \E v \in Providers : \/ OpenPrices(p, v) \/ KeepPrices(p, v)
                                     \/ \E readable \in BOOLEAN : FallBack(p, v, readable)
             \/ Join(p) \/ FillPrices(p) \/ PlanSpecs(p) \/ PlanReport(p)
      PROVE  Accounting'
  BY <1>4, PlanStartAccounting, OpenPricesAccounting, KeepPricesAccounting,
     FallBackAccounting, JoinAccounting, FillPricesAccounting, PlanSpecsAccounting, PlanReportAccounting
<1>5. ASSUME NEW p \in Processes,
             \/ PlanCrash(p)
             \/ Crash(p) /\ PlanUpdate(p, IdlePlan) /\ UNCHANGED priceFile
             \/ Free(p) /\ PlanUpdate(p, IdlePlan) /\ UNCHANGED priceFile
      PROVE  Accounting'
  BY <1>3, <1>5 DEF PlanCrash
<1> QED
  BY <1>2, <1>4, <1>5 DEF PlanNext

\* The report of any number of processes that ask any providers at the same
\* time, crash, tear each other's cache files and cannot read or write them:
\* every wanted provider has listings, a note, or a list in use that is empty
\* because the provider said so, unless its task panicked; and nothing stale is
\* in use without a note (fetch_all).
THEOREM PriceCorrectness == PlanSpec => []PricesAreAccounted
<1>1. PlanInit => Provenance /\ Accounting
  BY InitProvenance, InitAccounting
<1>2. Provenance /\ Accounting /\ [PlanNext]_<<specVars, planVars>> => (Provenance /\ Accounting)'
  BY NextProvenance, NextAccounting
<1>3. Accounting => PricesAreAccounted
  <2> SUFFICES ASSUME Accounting, NEW p \in Processes, plan[p].at \in {"specs", "done"}
               PROVE  LET r == plan[p] IN
                 /\ \A v \in Range(r.wanted) :
                      \/ v \in Listed(r) \cup r.noted \cup (Heard(r) \cap r.bare)
                      \/ r.answer[v] = "panicked"
                 /\ \A v \in Live(r) : r.age[v] = 0 /\ (v \in Listed(r) <=> r.answer[v] = "ok")
                 /\ \A v \in Heard(r) : r.age[v] > PriceTtl /\ r.age[v] > DefaultTtl => v \in r.noted
                 /\ \A v \in Heard(r) : r.refresh /\ ~r.offline /\ v \notin Live(r) => v \in r.noted
                 /\ PriceSource(r) = "live" => \A v \in Listed(r) : r.answer[v] = "ok"
    BY DEF PricesAreAccounted
  <2> DEFINE r == plan[p]
  <2>1. Reported(r)
    BY DEF Accounting, Accounts
  <2> HIDE DEF r
  <2>2. \A v \in Range(r.wanted) :
          \/ v \in Listed(r) \cup r.noted \cup (Heard(r) \cap r.bare)
          \/ r.answer[v] = "panicked"
    BY <2>1 DEF Reported, Listed
  <2>3. \A v \in Live(r) : r.age[v] = 0 /\ (v \in Listed(r) <=> r.answer[v] = "ok")
    BY <2>1 DEF Reported, Dated, Listed
  <2>4. PriceSource(r) = "live" => Heard(r) \subseteq Live(r)
    BY DEF PriceSource
  <2>5. PriceSource(r) = "live" => \A v \in Listed(r) : r.answer[v] = "ok"
    BY <2>3, <2>4 DEF Listed
  <2> QED
    BY <2>1, <2>2, <2>3, <2>5 DEF Reported, Dated, r
<1> QED
  BY <1>1, <1>2, <1>3, PTL DEF PlanSpec

------------------------------------------------------------------------------
(* Names.                                                                  *)

\* A word stands for words.
LEMMA WordsAreWords ==
  ASSUME NEW word \in Vocabulary
  PROVE  Words(word) \in Seq(Vocabulary)
<1>1. "4070" \in Vocabulary /\ "super" \in Vocabulary
  BY VocabularyAssumption
<1>2. word \in DOMAIN Short => word = "4070s" /\ Short[word] = <<"4070", "super">>
  BY DEF Short
<1>3. "4070s" \notin Ignored
  BY Zenon DEF Ignored, Brands
<1>4. CASE word \in Ignored
  <2>1. word \notin DOMAIN Short
    BY <1>2, <1>3, <1>4
  <2>2. Words(word) = <<>>
    BY <1>4, <2>1, Zenon DEF Words
  <2> QED
    BY <2>2
<1>5. CASE word \in DOMAIN Short
  <2>1. word \notin Ignored
    BY <1>2, <1>3, <1>5
  <2>2. Words(word) = Short[word]
    BY <1>5, <2>1, Zenon DEF Words
  <2>3. Words(word) = <<"4070", "super">>
    BY <1>2, <1>5, <2>2
  <2> QED
    BY <1>1, <2>3
<1>6. CASE word \notin Ignored /\ word \notin DOMAIN Short
  <2>1. Words(word) = <<word>>
    BY <1>6, Zenon DEF Words
  <2> QED
    BY <2>1
<1> QED
  BY <1>4, <1>5, <1>6

\* A name is normalised word by word.
LEMMA NormalRuns ==
  ASSUME NEW name \in Seq(Vocabulary)
  PROVE  \E run \in [0..Len(name) -> Seq(Vocabulary)] :
           /\ run[0] = <<>> /\ \A k \in 1..Len(name) : run[k] = run[k - 1] \o Words(name[k])
           /\ Normalized(name) = run[Len(name)]
<1> DEFINE n == Len(name)
           A == Seq(Vocabulary)
           Is(it) == it = [S \in SUBSET (1..n) |->
                             IF S = {} THEN <<>> ELSE it[S \ {Max(S)}] \o Words(name[Max(S)])]
           step == [x \in A \X (1..n) |-> x[1] \o Words(name[x[2]])]
           it == CHOOSE i : Is(i)
           run == [k \in 0..n |-> it[1..k]]
<1>1. n \in Nat /\ DOMAIN name = 1..n /\ \A k \in 1..n : Words(name[k]) \in A
  <2>1. \A k \in 1..n : name[k] \in Vocabulary
    OBVIOUS
  <2> QED
    BY <2>1, WordsAreWords
<1>2. \A a, b \in A : a \o b \in A
  OBVIOUS
<1> HIDE DEF A
<1>3. Is(it)
  <2>1. step \in [A \X (1..n) -> A] /\ <<>> \in A
    BY <1>1, <1>2 DEF A
  <2>2. PICK i : Folds(i, n, A, <<>>, step)
    <3> HIDE DEF step
    <3>1. Foldable(n, A, <<>>, step)
      BY <1>1, <2>1 DEF Foldable
    <3> QED
      BY <3>1, FoldExists
  <2>3. ASSUME NEW S \in SUBSET (1..n), S # {}
        PROVE  i[S] = i[S \ {Max(S)}] \o Words(name[Max(S)])
    <3>1. Max(S) \in S
      BY <1>1, <2>3, MaxOfSome
    <3>2. Max(S) \in 1..n /\ i[S \ {Max(S)}] \in A
      BY <2>2, <3>1 DEF Folds
    <3> QED
      BY <2>2, <2>3, <3>2 DEF Folds
  <2>4. Is(i)
    BY <2>2, <2>3 DEF Folds
  <2> QED
    BY <2>4
<1>4. Normalized(name) = it[1..n]
  BY <1>1 DEF Normalized, FoldLeft, MapThenFoldSet
<1> HIDE DEF it
<1>5. run[0] = <<>>
  <2>1. {} \in SUBSET (1..n) /\ 1..0 = {}
    OBVIOUS
  <2> QED
    BY <1>1, <1>3, <2>1
<1>6. ASSUME NEW k \in 1..n PROVE run[k] = run[k - 1] \o Words(name[k])
  <2>1. it[1..k] = it[1..(k - 1)] \o Words(name[k])
    BY <1>1, <1>3, Initial
  <2>2. k \in 0..n /\ k - 1 \in 0..n
    BY <1>1
  <2> QED
    BY <2>1, <2>2
<1>7. \A k \in 0..n : run[k] \in A
  <2> DEFINE T == {j \in 0..n : run[j] \in A}
  <2>1. 0 \in T
    <3>1. 0 \in 0..n /\ <<>> \in A
      BY <1>1 DEF A
    <3> QED
      BY <1>5, <3>1
  <2>2. ASSUME NEW k \in 0..n, k < n, k \in T PROVE k + 1 \in T
    <3>1. k + 1 \in 1..n /\ k + 1 \in 0..n /\ (k + 1) - 1 = k
      BY <1>1, <2>2
    <3>2. run[k + 1] = run[k] \o Words(name[k + 1])
      BY <1>6, <3>1
    <3> HIDE DEF run
    <3> QED
      BY <1>1, <1>2, <2>2, <3>1, <3>2
  <2>3. n \in Nat
    BY <1>1
  <2> HIDE DEF T, n, run
  <2>4. \A k \in 0..n : k \in T
    BY <2>1, <2>2, <2>3, Upto
  <2> QED
    BY <2>4 DEF T
<1>8. run \in [0..n -> A]
  BY <1>7
<1>9. Normalized(name) = run[n]
  BY <1>1, <1>4
<1> HIDE DEF run
<1> QED
  BY <1>5, <1>6, <1>8, <1>9 DEF A

\* A normalized name is a name.
LEMMA NormalizedIsName ==
  ASSUME NEW name \in Seq(Vocabulary)
  PROVE  Normalized(name) \in Seq(Vocabulary)
<1>1. PICK run \in [0..Len(name) -> Seq(Vocabulary)] : Normalized(name) = run[Len(name)]
  BY NormalRuns
<1>2. Len(name) \in 0..Len(name)
  OBVIOUS
<1> QED
  BY <1>1, <1>2

\* runpod.rs: the annotation of a community listing says nothing of the GPU.
LEMMA NoteIsIgnored ==
  ASSUME NEW name \in Seq(Vocabulary), NEW note \in Vocabulary, Words(note) = <<>>
  PROVE  Normalized(Append(name, note)) = Normalized(name)
<1> DEFINE long == Append(name, note)
           n == Len(name)
<1>1. /\ n \in Nat /\ long \in Seq(Vocabulary) /\ Len(long) = n + 1 /\ long[n + 1] = note
      /\ \A k \in 1..n : long[k] = name[k]
  OBVIOUS
<1>2. PICK p \in [0..n -> Seq(Vocabulary)] :
        /\ p[0] = <<>> /\ \A k \in 1..n : p[k] = p[k - 1] \o Words(name[k])
        /\ Normalized(name) = p[n]
  BY NormalRuns
<1> HIDE DEF long
<1>3. PICK q \in [0..Len(long) -> Seq(Vocabulary)] :
        /\ q[0] = <<>> /\ \A k \in 1..Len(long) : q[k] = q[k - 1] \o Words(long[k])
        /\ Normalized(long) = q[Len(long)]
  BY <1>1, NormalRuns
<1> DEFINE T == {k \in 0..n : p[k] = q[k]}
<1>4. 0 \in T
  BY <1>1, <1>2, <1>3
<1>5. ASSUME NEW k \in 0..n, k < n, k \in T PROVE k + 1 \in T
  <2>1. k + 1 \in 1..n /\ k + 1 \in 0..n /\ (k + 1) - 1 = k /\ k + 1 \in 1..Len(long)
    <3>1. n \in Nat /\ Len(long) = n + 1
      BY <1>1
    <3> QED
      BY <1>5, <3>1
  <2>2. p[k + 1] = p[k] \o Words(name[k + 1]) /\ q[k + 1] = q[k] \o Words(name[k + 1])
    BY <1>1, <1>2, <1>3, <2>1
  <2> QED
    BY <1>5, <2>1, <2>2
<1> HIDE DEF T, n
<1>6. p[n] = q[n]
  <2>1. \A k \in 0..n : k \in T
    BY <1>1, <1>4, <1>5, Upto
  <2>2. n \in T
    BY <1>1, <2>1
  <2> QED
    BY <2>2 DEF T
<1>7. q[n + 1] = q[n] \o <<>> /\ q[n] \in Seq(Vocabulary)
  <2>1. n + 1 \in 1..Len(long) /\ (n + 1) - 1 = n /\ n \in 0..Len(long)
    BY <1>1
  <2> QED
    BY <1>1, <1>3, <2>1
<1>8. q[n + 1] = q[n]
  BY <1>7
<1> QED
  BY <1>1, <1>2, <1>3, <1>6, <1>8 DEF long

\* A community listing has the name of the secure one.
LEMMA CommunityIsIgnored ==
  ASSUME NEW name \in Seq(Vocabulary)
  PROVE  /\ Append(name, "(community)") \in Seq(Vocabulary)
         /\ Normalized(Append(name, "(community)")) = Normalized(name)
<1>1. PICK note : note = "(community)"
  OBVIOUS
<1>2. note \in Vocabulary
  BY <1>1, VocabularyAssumption
<1>3. note \in Ignored /\ note # "4070s"
  BY <1>1, Zenon DEF Ignored
<1>4. note \notin DOMAIN Short
  BY <1>3 DEF Short
<1>5. Words(note) = <<>>
  BY <1>3, <1>4, Zenon DEF Words
<1>6. Append(name, note) \in Seq(Vocabulary) /\ Normalized(Append(name, note)) = Normalized(name)
  BY <1>2, <1>5, NoteIsIgnored
<1> QED
  BY <1>1, <1>6, Zenon

------------------------------------------------------------------------------
(* Matches.                                                                *)

\* What is taken of a query is a set of indices.
LEMMA TakeType ==
  ASSUME NEW query \in Seq(Vocabulary), NEW taken \in SUBSET Nat, NEW word
  PROVE  Take(taken, word, query) \in SUBSET Nat
<1> DEFINE hits == {i \in DOMAIN query \ taken : TokenMatches(word, query[i])}
<1>1. hits \in SUBSET Nat
  OBVIOUS
<1> HIDE DEF hits
<1>2. hits # {} => Min(hits) \in Nat
  BY <1>1, MinOfSome
<1>3. CASE hits = {} \/ 0 \in taken
  <2>1. Take(taken, word, query) = {0}
    BY <1>3 DEF Take, hits
  <2> QED
    BY <2>1
<1>4. CASE ~(hits = {} \/ 0 \in taken)
  <2>1. Take(taken, word, query) = taken \cup {Min(hits)}
    BY <1>4 DEF Take, hits
  <2> QED
    BY <1>2, <1>4, <2>1
<1> QED
  BY <1>3, <1>4

\* The words of a spec take theirs one after the other.
LEMMA TakenRuns ==
  ASSUME NEW spec \in Seq(Vocabulary), NEW query \in Seq(Vocabulary)
  PROVE  \E run \in [0..Len(spec) -> SUBSET Nat] :
           /\ run[0] = {} /\ \A k \in 1..Len(spec) : run[k] = Take(run[k - 1], spec[k], query)
           /\ Taken(spec, query) = run[Len(spec)]
<1> DEFINE n == Len(spec)
           A == SUBSET Nat
           Is(it) == it = [S \in SUBSET (1..n) |->
                             IF S = {} THEN {} ELSE Take(it[S \ {Max(S)}], spec[Max(S)], query)]
           step == [x \in A \X (1..n) |-> Take(x[1], spec[x[2]], query)]
           it == CHOOSE i : Is(i)
           run == [k \in 0..n |-> it[1..k]]
<1>1. n \in Nat /\ DOMAIN spec = 1..n
  OBVIOUS
<1>2. \A a \in A, k \in 1..n : Take(a, spec[k], query) \in A
  BY TakeType
<1> HIDE DEF A
<1>3. Is(it)
  <2>1. step \in [A \X (1..n) -> A] /\ {} \in A
    BY <1>1, <1>2 DEF A
  <2>2. PICK i : Folds(i, n, A, {}, step)
    <3> HIDE DEF step
    <3>1. Foldable(n, A, {}, step)
      BY <1>1, <2>1 DEF Foldable
    <3> QED
      BY <3>1, FoldExists
  <2>3. ASSUME NEW S \in SUBSET (1..n), S # {}
        PROVE  i[S] = Take(i[S \ {Max(S)}], spec[Max(S)], query)
    <3>1. Max(S) \in S
      BY <1>1, <2>3, MaxOfSome
    <3>2. Max(S) \in 1..n /\ i[S \ {Max(S)}] \in A
      BY <2>2, <3>1 DEF Folds
    <3> QED
      BY <2>2, <2>3, <3>2 DEF Folds
  <2>4. Is(i)
    BY <2>2, <2>3 DEF Folds
  <2> QED
    BY <2>4
<1>4. Taken(spec, query) = it[1..n]
  BY <1>1 DEF Taken, FoldLeft, MapThenFoldSet
<1> HIDE DEF it
<1>5. run[0] = {}
  <2>1. {} \in SUBSET (1..n) /\ 1..0 = {}
    OBVIOUS
  <2> QED
    BY <1>1, <1>3, <2>1
<1>6. ASSUME NEW k \in 1..n PROVE run[k] = Take(run[k - 1], spec[k], query)
  <2>1. it[1..k] = Take(it[1..(k - 1)], spec[k], query)
    BY <1>1, <1>3, Initial
  <2>2. k \in 0..n /\ k - 1 \in 0..n
    BY <1>1
  <2> QED
    BY <2>1, <2>2
<1>7. \A k \in 0..n : run[k] \in A
  <2> DEFINE T == {j \in 0..n : run[j] \in A}
  <2>1. 0 \in T
    <3>1. 0 \in 0..n /\ {} \in A
      BY <1>1 DEF A
    <3> QED
      BY <1>5, <3>1
  <2>2. ASSUME NEW k \in 0..n, k < n, k \in T PROVE k + 1 \in T
    <3>1. k + 1 \in 1..n /\ k + 1 \in 0..n /\ (k + 1) - 1 = k
      BY <1>1, <2>2
    <3>2. run[k + 1] = Take(run[k], spec[k + 1], query)
      BY <1>6, <3>1
    <3> HIDE DEF run
    <3> QED
      BY <1>1, <1>2, <2>2, <3>1, <3>2
  <2>3. n \in Nat
    BY <1>1
  <2> HIDE DEF T, n, run
  <2>4. \A k \in 0..n : k \in T
    BY <2>1, <2>2, <2>3, Upto
  <2> QED
    BY <2>4 DEF T
<1>8. run \in [0..n -> A]
  BY <1>7
<1>9. Taken(spec, query) = run[n]
  BY <1>1, <1>4
<1> HIDE DEF run
<1> QED
  BY <1>5, <1>6, <1>8, <1>9 DEF A

\* When a spec matches, its words and those taken go together.
LEMMA TakenMatch ==
  ASSUME NEW spec \in Seq(Vocabulary), NEW query \in Seq(Vocabulary), 0 \notin Taken(spec, query)
  PROVE  /\ Taken(spec, query) \in SUBSET (DOMAIN query)
         /\ \A i \in Taken(spec, query) : \E j \in DOMAIN spec : TokenMatches(spec[j], query[i])
         /\ \A j \in DOMAIN spec : \E i \in Taken(spec, query) : TokenMatches(spec[j], query[i])
<1> DEFINE n == Len(spec)
<1>1. PICK run \in [0..n -> SUBSET Nat] :
        /\ run[0] = {} /\ \A k \in 1..n : run[k] = Take(run[k - 1], spec[k], query)
        /\ Taken(spec, query) = run[n]
  BY TakenRuns
<1>2. n \in Nat /\ DOMAIN spec = 1..n
  OBVIOUS
<1> HIDE DEF n
<1> DEFINE Good(k) == /\ run[k] \in SUBSET (DOMAIN query)
                      /\ \A i \in run[k] : \E j \in 1..k : TokenMatches(spec[j], query[i])
                      /\ \A j \in 1..k : \E i \in run[k] : TokenMatches(spec[j], query[i])
           T == {k \in 0..n : 0 \in run[k] \/ Good(k)}
<1>3. 0 \in T
  <2>1. 0 \in 0..n /\ 1..0 = {}
    BY <1>2
  <2> QED
    BY <1>1, <2>1
<1>4. ASSUME NEW k \in 0..n, k < n, k \in T PROVE k + 1 \in T
  <2> DEFINE hits == {i \in DOMAIN query \ run[k] : TokenMatches(spec[k + 1], query[i])}
  <2>1. /\ k + 1 \in 1..n /\ k + 1 \in 0..n /\ (k + 1) - 1 = k
        /\ 1..(k + 1) = (1..k) \cup {k + 1}
    BY <1>2, <1>4
  <2>2. run[k + 1] = Take(run[k], spec[k + 1], query)
    BY <1>1, <2>1
  <2>3. CASE hits = {} \/ 0 \in run[k]
    <3>1. run[k + 1] = {0}
      BY <2>2, <2>3 DEF Take
    <3> QED
      BY <2>1, <3>1
  <2>4. CASE ~(hits = {} \/ 0 \in run[k])
    <3>1. run[k + 1] = run[k] \cup {Min(hits)}
      BY <2>2, <2>4 DEF Take
    <3>2. Min(hits) \in hits
      <4>1. hits \in SUBSET Nat
        OBVIOUS
      <4> HIDE DEF hits
      <4> QED
        BY <2>4, <4>1, MinOfSome
    <3>3. Min(hits) \in DOMAIN query /\ TokenMatches(spec[k + 1], query[Min(hits)])
      BY <3>2
    <3> HIDE DEF hits
    <3>4. Good(k)
      BY <1>4, <2>4
    <3>5. Good(k + 1)
      BY <2>1, <3>1, <3>3, <3>4
    <3> QED
      BY <2>1, <3>5
  <2> QED
    BY <2>3, <2>4
<1> HIDE DEF T
<1>5. n \in T
  <2>1. \A k \in 0..n : k \in T
    BY <1>2, <1>3, <1>4, Upto
  <2> QED
    BY <1>2, <2>1
<1>6. Good(n)
  BY <1>1, <1>5 DEF T
<1> QED
  BY <1>1, <1>2, <1>6

\* A name matches itself, word by word.
LEMMA SelfTaken ==
  ASSUME NEW name \in Seq(Vocabulary)
  PROVE  Taken(name, name) = DOMAIN name
<1> DEFINE n == Len(name)
<1>1. PICK run \in [0..n -> SUBSET Nat] :
        /\ run[0] = {} /\ \A k \in 1..n : run[k] = Take(run[k - 1], name[k], name)
        /\ Taken(name, name) = run[n]
  BY TakenRuns
<1>2. n \in Nat /\ DOMAIN name = 1..n
  OBVIOUS
<1> HIDE DEF n
<1> DEFINE T == {k \in 0..n : run[k] = 1..k}
<1>3. 0 \in T
  <2>1. 0 \in 0..n /\ 1..0 = {}
    BY <1>2
  <2> QED
    BY <1>1, <2>1
<1>4. ASSUME NEW k \in 0..n, k < n, k \in T PROVE k + 1 \in T
  <2> DEFINE hits == {i \in DOMAIN name \ run[k] : TokenMatches(name[k + 1], name[i])}
  <2>1. /\ k + 1 \in 1..n /\ k + 1 \in 0..n /\ (k + 1) - 1 = k /\ run[k] = 1..k
        /\ 1..(k + 1) = (1..k) \cup {k + 1} /\ k + 1 \notin 1..k /\ 0 \notin 1..k
    BY <1>2, <1>4
  <2>2. run[k + 1] = Take(run[k], name[k + 1], name)
    BY <1>1, <2>1
  <2>3. k + 1 \in hits
    BY <1>2, <2>1 DEF TokenMatches
  <2>4. \A i \in hits : k + 1 <= i
    BY <1>2, <2>1
  <2>5. Min(hits) = k + 1
    <3>1. hits \in SUBSET Nat
      BY <1>2
    <3> HIDE DEF hits
    <3>2. Min(hits) \in hits /\ Min(hits) <= k + 1
      BY <2>3, <3>1, MinOfSome
    <3>3. Min(hits) \in Nat /\ k + 1 \in Nat /\ k + 1 <= Min(hits)
      BY <1>2, <2>1, <2>4, <3>1, <3>2
    <3> QED
      BY <3>2, <3>3
  <2>6. run[k + 1] = run[k] \cup {Min(hits)}
    BY <2>1, <2>2, <2>3 DEF Take
  <2> HIDE DEF hits
  <2> QED
    BY <2>1, <2>5, <2>6
<1> HIDE DEF T
<1>5. n \in T
  <2>1. \A k \in 0..n : k \in T
    BY <1>2, <1>3, <1>4, Upto
  <2> QED
    BY <1>2, <2>1
<1> QED
  BY <1>1, <1>2, <1>5 DEF T

\* gpu_specs/mod.rs:164: a spec that matches has the variants of the query.
LEMMA MatchHasVariants ==
  ASSUME NEW spec \in Seq(Vocabulary), NEW query \in Seq(Vocabulary), MatchScore(spec, query) # 0
  PROVE  ToSet(query) \cap Variants = ToSet(spec) \cap Variants
<1> DEFINE taken == Taken(spec, query)
<1>1. 0 \notin taken /\ \A i \in DOMAIN query \ taken : query[i] \notin Variants
  BY DEF MatchScore
<1>2. /\ taken \in SUBSET (DOMAIN query)
      /\ \A i \in taken : \E j \in DOMAIN spec : TokenMatches(spec[j], query[i])
      /\ \A j \in DOMAIN spec : \E i \in taken : TokenMatches(spec[j], query[i])
  BY <1>1, TakenMatch
<1>3. \A a, b : <<a, b>> \in Numbered => a \notin Variants /\ b \notin Variants
  BY Zenon DEF Numbered, Variants
<1>4. \A a, b : TokenMatches(a, b) /\ (a \in Variants \/ b \in Variants) => a = b
  BY <1>3 DEF TokenMatches
<1> HIDE DEF taken
<1>5. ASSUME NEW x \in ToSet(query) \cap Variants PROVE x \in ToSet(spec)
  <2>1. PICK i \in DOMAIN query : x = query[i]
    BY <1>5 DEF ToSet
  <2>2. i \in taken
    BY <1>1, <1>5, <2>1
  <2>3. PICK j \in DOMAIN spec : TokenMatches(spec[j], query[i])
    BY <1>2, <2>2
  <2>4. spec[j] = x
    BY <1>4, <1>5, <2>1, <2>3
  <2> QED
    BY <2>4 DEF ToSet
<1>6. ASSUME NEW x \in ToSet(spec) \cap Variants PROVE x \in ToSet(query)
  <2>1. PICK j \in DOMAIN spec : x = spec[j]
    BY <1>6 DEF ToSet
  <2>2. PICK i \in taken : TokenMatches(spec[j], query[i])
    BY <1>2
  <2>3. i \in DOMAIN query /\ query[i] = x
    BY <1>2, <1>4, <1>6, <2>1, <2>2
  <2> QED
    BY <2>3 DEF ToSet
<1> QED
  BY <1>5, <1>6

\* A name that is not empty has letters.
LEMMA LettersCount ==
  ASSUME NEW name \in Seq(Vocabulary)
  PROVE  Letters(name) \in Nat /\ (name # <<>> => Letters(name) > 0)
<1> DEFINE lens == [i \in DOMAIN name |-> Len(name[i])]
<1>1. /\ lens \in Seq(Int) /\ Len(lens) = Len(name)
      /\ \A k \in 1..Len(lens) : lens[k] \in Int /\ lens[k] > 0
  <2>1. DOMAIN name = 1..Len(name) /\ Len(name) \in Nat
    OBVIOUS
  <2>2. ASSUME NEW i \in 1..Len(name) PROVE Len(name[i]) \in Nat \ {0}
    <3>1. name[i] \in Vocabulary
      BY <2>2
    <3> QED
      BY <3>1, VocabularyAssumption
  <2>3. \A i \in 1..Len(name) : Len(name[i]) \in Int /\ Len(name[i]) > 0
    BY <2>2
  <2> QED
    BY <2>1, <2>3
<1>2. Letters(name) = Total(lens)
  BY DEF Letters
<1>3. lens = <<>> => name = <<>>
  BY <1>1
<1> HIDE DEF lens
<1>4. Total(lens) \in Int /\ Total(lens) >= 0
  <2>1. \A k \in 1..Len(lens) : lens[k] >= 0
    BY <1>1
  <2> QED
    BY <1>1, <2>1, TotalIsNumber, TotalSign
<1>5. lens # <<>> => Total(lens) > 0
  BY <1>1, TotalIsPositive
<1> QED
  BY <1>2, <1>3, <1>4, <1>5

\* A score is a number.
LEMMA MatchScoreType ==
  ASSUME NEW spec \in Seq(Vocabulary), NEW query
  PROVE  MatchScore(spec, query) \in Nat
<1>1. Letters(spec) \in Nat
  BY LettersCount
<1>2. MatchScore(spec, query) \in {0, Letters(spec)}
  BY DEF MatchScore
<1> QED
  BY <1>1, <1>2

\* A name matches itself.
LEMMA SelfMatches ==
  ASSUME NEW name \in Seq(Vocabulary), name # <<>>
  PROVE  MatchScore(name, name) > 0
<1>1. Taken(name, name) = DOMAIN name /\ 0 \notin DOMAIN name
  BY SelfTaken
<1>2. MatchScore(name, name) = Letters(name)
  BY <1>1 DEF MatchScore
<1> QED
  BY <1>2, LettersCount

------------------------------------------------------------------------------
(* Lookups.                                                                *)

\* The score of a spec is that of one of its names, and of none a higher one.
LEMMA SpecScoreIsOf ==
  ASSUME NEW spec \in Specs, NEW query
  PROVE  /\ SpecScore(spec, query) \in Nat
         /\ \E name \in Names(spec) : SpecScore(spec, query) = MatchScore(Normalized(name), query)
         /\ \A name \in Names(spec) : MatchScore(Normalized(name), query) <= SpecScore(spec, query)
<1> DEFINE N == Names(spec)
           score == [name \in N |-> MatchScore(Normalized(name), query)]
           T == {MatchScore(Normalized(name), query) : name \in N}
<1>1. N \in SUBSET Seq(Vocabulary) /\ N # {} /\ IsFiniteSet(N)
  <2>1. spec.name \in Seq(Vocabulary) /\ spec.aliases \in SUBSET Seq(Vocabulary) /\ IsFiniteSet(spec.aliases)
    BY DEF Specs
  <2>2. IsFiniteSet({spec.name})
    BY FS_Singleton
  <2>3. IsFiniteSet({spec.name} \cup spec.aliases)
    BY <2>1, <2>2, FS_Union
  <2> QED
    BY <2>1, <2>3 DEF Names
<1> HIDE DEF N
<1>2. score \in Surjection(N, T)
  BY DEF Surjection
<1>3. T \in SUBSET Nat
  BY <1>1, NormalizedIsName, MatchScoreType
<1>4. T # {}
  BY <1>1
<1>5. SpecScore(spec, query) = Max(T)
  BY DEF SpecScore, N
<1>6. \A x : x \in T <=> \E name \in N : x = MatchScore(Normalized(name), query)
  OBVIOUS
<1> HIDE DEF T, score
<1>7. IsFiniteSet(T)
  BY <1>1, <1>2, FS_Surjection
<1>8. Max(T) \in T /\ \A y \in T : Max(T) >= y
  BY <1>3, <1>4, <1>7, MaxOfFinite
<1>9. \A y \in T : y <= Max(T)
  BY <1>3, <1>8
<1> QED
  BY <1>3, <1>5, <1>6, <1>8, <1>9 DEF N

\* Where something scores, one of the best is found.
LEMMA BestIsFound ==
  ASSUME NEW n \in Nat, NEW scores \in [1..n -> Nat]
  PROVE  /\ BestOf(scores) # 0 => BestOf(scores) \in 1..n /\ scores[BestOf(scores)] > 0
         /\ (\E i \in 1..n : scores[i] > 0) => BestOf(scores) # 0
<1> DEFINE best == {i \in 1..n : scores[i] > 0 /\ \A j \in 1..n : scores[j] <= scores[i]}
<1>1. BestOf(scores) = IF best = {} THEN 0 ELSE Max(best)
  BY DEF BestOf
<1>2. best \in SUBSET (1..n)
  OBVIOUS
<1>3. best # {} => Max(best) \in best
  <2> HIDE DEF best
  <2> QED
    BY <1>2, MaxOfSome
<1>4. ASSUME NEW i \in 1..n, scores[i] > 0 PROVE best # {}
  <2>1. n # 0
    OBVIOUS
  <2>2. PICK k \in 1..n : \A j \in 1..n : scores[j] <= scores[k]
    BY <2>1, Highest
  <2>3. scores[i] <= scores[k] /\ scores[i] \in Nat /\ scores[k] \in Nat
    BY <2>2
  <2>4. scores[k] > 0
    BY <1>4, <2>3
  <2> QED
    BY <2>2, <2>4
<1>5. best # {} => Max(best) \in 1..n /\ scores[Max(best)] > 0 /\ Max(best) # 0
  BY <1>3
<1> HIDE DEF best
<1> QED
  BY <1>1, <1>4, <1>5

\* What is found matches, and a name of the table is found.
LEMMA FoundMatches ==
  ASSUME NEW db \in Seq(Specs), NEW name \in Seq(Vocabulary)
  PROVE  /\ Found(db, name) # 0 =>
              /\ Found(db, name) \in DOMAIN db
              /\ \E n \in Names(db[Found(db, name)]) :
                   MatchScore(Normalized(n), Normalized(name)) # 0
         /\ Normalized(name) # <<>> /\ (\E i \in DOMAIN db : name \in Names(db[i])) =>
              Found(db, name) # 0
<1> DEFINE q == Normalized(name)
           n == Len(db)
           scores == Scores(db, q)
<1>1. n \in Nat /\ DOMAIN db = 1..n /\ (\A i \in 1..n : db[i] \in Specs) /\ q \in Seq(Vocabulary)
  BY NormalizedIsName
<1> HIDE DEF q, n
<1>2. scores = [i \in 1..n |-> SpecScore(db[i], q)]
  BY <1>1 DEF Scores
<1>3. scores \in [1..n -> Nat]
  BY <1>1, <1>2, SpecScoreIsOf
<1>4. Found(db, name) = BestOf(scores)
  BY DEF Found, q
<1> HIDE DEF scores
<1>5. ASSUME Found(db, name) # 0
      PROVE  /\ Found(db, name) \in DOMAIN db
             /\ \E other \in Names(db[Found(db, name)]) : MatchScore(Normalized(other), q) # 0
  <2> DEFINE i == Found(db, name)
  <2>1. i \in 1..n /\ scores[i] > 0
    BY <1>1, <1>3, <1>4, <1>5, BestIsFound
  <2> HIDE DEF i
  <2>2. SpecScore(db[i], q) # 0
    BY <1>2, <1>3, <2>1
  <2>3. PICK other \in Names(db[i]) : SpecScore(db[i], q) = MatchScore(Normalized(other), q)
    BY <1>1, <2>1, SpecScoreIsOf
  <2>4. MatchScore(Normalized(other), q) # 0
    BY <2>2, <2>3
  <2> QED
    BY <1>1, <2>1, <2>4 DEF i
<1>6. ASSUME q # <<>>, NEW i \in DOMAIN db, name \in Names(db[i])
      PROVE  Found(db, name) # 0
  <2>1. MatchScore(q, q) > 0 /\ MatchScore(q, q) \in Nat
    BY <1>1, <1>6, SelfMatches, MatchScoreType
  <2>2. MatchScore(q, q) <= SpecScore(db[i], q) /\ SpecScore(db[i], q) \in Nat
    <3>1. db[i] \in Specs
      BY <1>1
    <3>2. /\ \A m \in Names(db[i]) : MatchScore(Normalized(m), q) <= SpecScore(db[i], q)
          /\ SpecScore(db[i], q) \in Nat
      BY <3>1, SpecScoreIsOf
    <3> QED
      BY <1>6, <3>2 DEF q
  <2>3. scores[i] > 0 /\ i \in 1..n
    BY <1>1, <1>2, <2>1, <2>2
  <2> QED
    BY <1>1, <1>3, <1>4, <2>3, BestIsFound
<1> QED
  BY <1>5, <1>6 DEF q

------------------------------------------------------------------------------
(* The table.                                                              *)

\* Every entry of a table has one in the other with all of its names.
Keeps(db, next) == \A i \in DOMAIN db : \E j \in DOMAIN next : Names(db[i]) \subseteq Names(next[j])

\* A remote entry takes no name away.
LEMMA MergeOneKeeps ==
  ASSUME NEW db \in Seq(Specs), NEW spec \in Specs
  PROVE  MergeOne(db, spec) \in Seq(Specs) /\ Keeps(db, MergeOne(db, spec))
<1> DEFINE n == Len(db)
           same == {i \in DOMAIN db : db[i].name = spec.name}
<1>1. n \in Nat /\ DOMAIN db = 1..n /\ \A i \in 1..n : db[i] \in Specs
  OBVIOUS
<1>2. CASE ~IsValid(spec)
  <2>1. MergeOne(db, spec) = db
    BY <1>2 DEF MergeOne
  <2> QED
    BY <2>1 DEF Keeps
<1>3. CASE IsValid(spec) /\ same = {}
  <2>1. MergeOne(db, spec) = Append(db, spec)
    BY <1>3 DEF MergeOne
  <2>2. /\ Append(db, spec) \in Seq(Specs)
        /\ \A i \in DOMAIN db : i \in DOMAIN Append(db, spec) /\ Append(db, spec)[i] = db[i]
    BY <1>1
  <2> QED
    BY <2>1, <2>2 DEF Keeps
<1>4. CASE IsValid(spec) /\ same # {}
  <2> DEFINE slot == Min(same)
             new == [spec EXCEPT !.aliases = @ \cup db[slot].aliases]
             next == [db EXCEPT ![slot] = new]
  <2>1. slot \in same
    <3>1. same \in SUBSET Nat
      BY <1>1
    <3> HIDE DEF same
    <3> QED
      BY <1>4, <3>1, MinOfSome
  <2>2. slot \in 1..n /\ db[slot] \in Specs /\ db[slot].name = spec.name
    BY <1>1, <2>1
  <2>3. MergeOne(db, spec) = next
    <3>1. ~(~IsValid(spec)) /\ ~(IsValid(spec) /\ same = {})
      BY <1>4
    <3> QED
      BY <3>1, Zenon DEF MergeOne
  <2> HIDE DEF slot, same
  <2>4. /\ spec \in [name : Seq(Vocabulary), aliases : SUBSET Seq(Vocabulary), tflops : Nat]
        /\ IsFiniteSet(spec.aliases)
        /\ db[slot].aliases \in SUBSET Seq(Vocabulary) /\ IsFiniteSet(db[slot].aliases)
    BY <2>2 DEF Specs
  <2>5. /\ new.name = spec.name /\ new.aliases = spec.aliases \cup db[slot].aliases
        /\ new \in [name : Seq(Vocabulary), aliases : SUBSET Seq(Vocabulary), tflops : Nat]
    BY <2>4
  <2>6. IsFiniteSet(new.aliases)
    BY <2>4, <2>5, FS_Union
  <2>7. new \in Specs
    BY <2>5, <2>6 DEF Specs
  <2>8. Names(db[slot]) \subseteq Names(new)
    BY <2>2, <2>5 DEF Names
  <2> HIDE DEF new
  <2>9. next \in Seq(Specs) /\ DOMAIN next = 1..n
    BY <1>1, <2>2, <2>7
  <2>10. \A i \in 1..n : next[i] = IF i = slot THEN new ELSE db[i]
    BY <1>1, <2>2
  <2>11. Keeps(db, next)
    BY <1>1, <2>8, <2>9, <2>10 DEF Keeps
  <2> QED
    BY <2>3, <2>9, <2>11
<1> QED
  BY <1>2, <1>3, <1>4

\* gpu_specs/mod.rs: the merged table has every name that the built-in one has.
LEMMA MergedKeeps ==
  ASSUME NEW remote \in Seq(Specs)
  PROVE  Merged(remote) \in Seq(Specs) /\ Keeps(Builtin, Merged(remote))
<1> DEFINE n == Len(remote)
           A == Seq(Specs)
           Is(it) == it = [S \in SUBSET (1..n) |->
                             IF S = {} THEN Builtin ELSE MergeOne(it[S \ {Max(S)}], remote[Max(S)])]
           step == [x \in A \X (1..n) |-> MergeOne(x[1], remote[x[2]])]
           it == CHOOSE i : Is(i)
<1>1. n \in Nat /\ DOMAIN remote = 1..n /\ Builtin \in A
  BY BuiltinAssumption
<1>2. \A a \in A, k \in 1..n : MergeOne(a, remote[k]) \in A /\ Keeps(a, MergeOne(a, remote[k]))
  BY MergeOneKeeps
<1>3. \A a, b, c \in A : Keeps(a, b) /\ Keeps(b, c) => Keeps(a, c)
  BY Zenon DEF Keeps
<1>4. \A a \in A : Keeps(a, a)
  BY DEF Keeps
<1> HIDE DEF A
<1>5. Is(it)
  <2>1. step \in [A \X (1..n) -> A]
    BY <1>1, <1>2
  <2>2. PICK i : Folds(i, n, A, Builtin, step)
    <3> HIDE DEF step
    <3>1. Foldable(n, A, Builtin, step)
      BY <1>1, <2>1 DEF Foldable
    <3> QED
      BY <3>1, FoldExists
  <2>3. ASSUME NEW S \in SUBSET (1..n), S # {}
        PROVE  i[S] = MergeOne(i[S \ {Max(S)}], remote[Max(S)])
    <3>1. Max(S) \in S
      BY <1>1, <2>3, MaxOfSome
    <3>2. Max(S) \in 1..n /\ i[S \ {Max(S)}] \in A
      BY <2>2, <3>1 DEF Folds
    <3> QED
      BY <2>2, <2>3, <3>2 DEF Folds
  <2>4. Is(i)
    BY <2>2, <2>3 DEF Folds
  <2> QED
    BY <2>4
<1>6. Merged(remote) = it[1..n]
  BY <1>1 DEF Merged, FoldLeft, MapThenFoldSet
<1> HIDE DEF it
<1>7. \A k \in 1..n : it[1..k] = MergeOne(it[1..(k - 1)], remote[k])
  BY <1>1, <1>5, Initial
<1> DEFINE T == {k \in 0..n : it[1..k] \in A /\ Keeps(Builtin, it[1..k])}
<1>8. 0 \in T
  <2>1. {} \in SUBSET (1..n) /\ 1..0 = {} /\ 0 \in 0..n
    BY <1>1
  <2>2. it[1..0] = Builtin
    BY <1>5, <2>1
  <2> QED
    BY <1>1, <1>4, <2>1, <2>2
<1>9. ASSUME NEW k \in 0..n, k < n, k \in T PROVE k + 1 \in T
  <2>1. k + 1 \in 1..n /\ k + 1 \in 0..n /\ (k + 1) - 1 = k
    BY <1>1, <1>9
  <2>2. it[1..(k + 1)] = MergeOne(it[1..k], remote[k + 1])
    BY <1>7, <2>1
  <2>3. it[1..k] \in A /\ Keeps(Builtin, it[1..k])
    BY <1>9
  <2> QED
    BY <1>1, <1>2, <1>3, <2>1, <2>2, <2>3
<1> HIDE DEF T, n
<1>10. n \in T
  <2>1. \A k \in 0..n : k \in T
    BY <1>1, <1>8, <1>9, Upto
  <2> QED
    BY <1>1, <2>1
<1> QED
  BY <1>6, <1>10 DEF T, A

\* No remote list takes away a name that the built-in table knows.
LEMMA BuiltinIsFound ==
  ASSUME NEW remote \in Seq(Specs), NEW i \in DOMAIN Builtin, NEW name \in Names(Builtin[i])
  PROVE  Found(Merged(remote), name) # 0
<1>1. Merged(remote) \in Seq(Specs) /\ Keeps(Builtin, Merged(remote))
  BY MergedKeeps
<1>2. name \in Seq(Vocabulary) /\ Normalized(name) # <<>>
  <2>1. Builtin[i] \in Specs /\ Normalized(name) # <<>>
    BY BuiltinAssumption
  <2> QED
    BY <2>1 DEF Specs, Names
<1>3. \E j \in DOMAIN Merged(remote) : name \in Names(Merged(remote)[j])
  BY <1>1 DEF Keeps
<1> QED
  BY <1>1, <1>2, <1>3, FoundMatches

------------------------------------------------------------------------------
(* Counts.                                                                 *)

\* The parameters in the headers of some files are finitely many.
LEMMA CountIsNatural ==
  ASSUME NEW h \in Seq(Nat \cup {Missing})
  PROVE  Cardinality(Parameters(h)) \in Nat
<1> DEFINE Of(i) == {i} \X (1..h[i])
           F == [i \in DOMAIN h |-> Of(i)]
           T == {Of(i) : i \in DOMAIN h}
<1>1. IsFiniteSet(DOMAIN h) /\ \A i \in DOMAIN h : h[i] \in Int
  <2>1. DOMAIN h = 1..Len(h) /\ Len(h) \in Nat /\ \A i \in 1..Len(h) : h[i] \in Int
    BY DEF Missing
  <2>2. IsFiniteSet(1..Len(h))
    BY <2>1, FS_Interval
  <2> QED
    BY <2>1, <2>2
<1>2. IsFiniteSet(T)
  <2>1. F \in Surjection(DOMAIN h, T)
    BY DEF Surjection
  <2> QED
    BY <1>1, <2>1, FS_Surjection
<1>3. \A S \in T : IsFiniteSet(S)
  <2> SUFFICES ASSUME NEW i \in DOMAIN h PROVE IsFiniteSet(Of(i))
    OBVIOUS
  <2>1. IsFiniteSet({i})
    BY FS_Singleton
  <2>2. 1 \in Int /\ h[i] \in Int
    BY <1>1
  <2>3. IsFiniteSet(1..h[i])
    BY <2>2, FS_Interval
  <2> QED
    BY <2>1, <2>3, FS_Product
<1>4. Parameters(h) = UNION T
  BY DEF Parameters
<1> HIDE DEF T
<1>5. IsFiniteSet(Parameters(h))
  BY <1>2, <1>3, <1>4, FS_UNION
<1> QED
  BY <1>5, FS_CardinalityType

\* The larger of two numbers, and the smaller one.
LEMMA MaxOfTwo ==
  ASSUME NEW a \in Int, NEW b \in Int
  PROVE  Max({a, b}) \in {a, b} /\ Max({a, b}) >= a /\ Max({a, b}) >= b
BY DEF Max

\* The smaller of two numbers is at most the second.
LEMMA MinOfTwo ==
  ASSUME NEW a \in Nat, NEW b \in Nat
  PROVE  Min({a, b}) \in Nat /\ Min({a, b}) <= b
BY DEF Min

\* What is raised to one is positive.
LEMMA AtLeastOne ==
  ASSUME NEW x \in Nat
  PROVE  Max({1, x}) \in Nat \ {0}
<1>1. 1 \in Int /\ x \in Int
  OBVIOUS
<1>2. Max({1, x}) \in {1, x} /\ Max({1, x}) >= 1
  BY <1>1, MaxOfTwo
<1> QED
  BY <1>2

\* What the formula is made of is never negative.
LEMMA DimensionsAreNatural ==
  ASSUME NEW c, IsConfig(c)
  PROVE  /\ Layers(c) \in Nat /\ Hidden(c) \in Nat /\ Heads(c) \in Nat \ {0}
         /\ KvHeads(c) \in Nat /\ HeadDim(c) \in Nat /\ Ffn(c) \in Nat /\ Vocab(c) \in Nat
         /\ Or(c.moeFfn, Ffn(c)) \in Nat /\ Or(c.perToken, 2) \in Nat
         /\ c.experts \in Int /\ c.params \in Nat \cup {Missing}
<1>1. /\ c.layers \in Nat \cup {Missing} /\ c.hidden \in Nat \cup {Missing}
      /\ c.heads \in Nat \cup {Missing} /\ c.kvHeads \in Nat \cup {Missing}
      /\ c.headDim \in Nat \cup {Missing} /\ c.ffn \in Nat \cup {Missing}
      /\ c.vocab \in Nat \cup {Missing} /\ c.experts \in Nat \cup {Missing}
      /\ c.perToken \in Nat \cup {Missing} /\ c.moeFfn \in Nat \cup {Missing}
      /\ c.params \in Nat \cup {Missing}
  BY DEF IsConfig
<1>2. /\ Defaults.layers \in Nat /\ Defaults.hidden \in Nat
      /\ Defaults.heads \in Nat /\ Defaults.vocab \in Nat
  BY DefaultsAssumption
<1>3. \A v \in Nat \cup {Missing} : \A d \in Nat : Or(v, d) \in Nat
  BY DEF Or, Missing
<1>4. Layers(c) \in Nat /\ Hidden(c) \in Nat /\ Vocab(c) \in Nat
  BY <1>1, <1>2, <1>3 DEF Layers, Hidden, Vocab
<1>5. Heads(c) \in Nat \ {0}
  <2>1. Or(c.heads, Defaults.heads) \in Nat
    BY <1>1, <1>2, <1>3
  <2>2. Heads(c) = Max({1, Or(c.heads, Defaults.heads)})
    BY DEF Heads
  <2> HIDE DEF Or
  <2>3. Heads(c) \in {1, Or(c.heads, Defaults.heads)} /\ Heads(c) >= 1
    BY <2>1, <2>2, MaxOfTwo
  <2> QED
    BY <2>1, <2>3
<1>6. KvHeads(c) \in Nat
  BY <1>1, <1>3, <1>5 DEF KvHeads
<1>7. HeadDim(c) \in Nat
  <2>1. Hidden(c) \div Heads(c) \in Nat
    BY <1>4, <1>5
  <2> QED
    BY <1>1, <1>3, <2>1 DEF HeadDim
<1>8. Ffn(c) \in Nat
  <2>1. 4 * Hidden(c) \in Nat
    BY <1>4
  <2> QED
    BY <1>1, <1>3, <2>1 DEF Ffn
<1>9. Or(c.moeFfn, Ffn(c)) \in Nat /\ Or(c.perToken, 2) \in Nat
  BY <1>1, <1>3, <1>8
<1> QED
  BY <1>1, <1>4, <1>5, <1>6, <1>7, <1>8, <1>9 DEF Missing

\* A product grows with its factor.
LEMMA ProductGrows == \A a, b, k \in Nat : a <= b => k * a \in Nat /\ k * a <= k * b
OBVIOUS

\* What the experts that run hold, with their router, beside all of them.
LEMMA ExpertsGrow ==
  ASSUME NEW size \in Nat, NEW h \in Nat, NEW n \in Nat, NEW run \in Nat, run <= n
  PROVE  /\ run * size + h * n \in Nat /\ n * size + h * n \in Nat
         /\ run * size + h * n <= n * size + h * n
<1>1. size * run \in Nat /\ size * run <= size * n /\ size * n \in Nat /\ h * n \in Nat
  BY ProductGrows
<1>2. size * run = run * size /\ size * n = n * size
  OBVIOUS
<1> QED
  BY <1>1, <1>2

\* A model of layers grows with what is in a layer.
LEMMA LayersGrow ==
  ASSUME NEW embedding \in Nat, NEW layers \in Nat, NEW attention \in Nat, NEW h \in Nat,
         NEW m \in Nat, NEW n \in Nat, m <= n
  PROVE  LET of(mlp) == embedding + layers * (attention + mlp + 2 * h) + h
         IN  of(m) \in Nat /\ of(n) \in Nat /\ of(m) <= of(n)
<1> DEFINE x == attention + m + 2 * h
           y == attention + n + 2 * h
<1>1. x \in Nat /\ y \in Nat /\ x <= y
  OBVIOUS
<1> HIDE DEF x, y
<1>2. layers * x \in Nat /\ layers * y \in Nat /\ layers * x <= layers * y
  BY <1>1, ProductGrows
<1>3. /\ embedding + layers * x + h \in Nat /\ embedding + layers * y + h \in Nat
      /\ embedding + layers * x + h <= embedding + layers * y + h
  BY <1>2
<1> QED
  BY <1>3 DEF x, y

\* No more parameters are active than there are.
LEMMA ActiveAreSome ==
  ASSUME NEW c, IsConfig(c)
  PROVE  TotalParams(c) \in Nat /\ ActiveParams(c) \in Nat /\ ActiveParams(c) <= TotalParams(c)
<1> DEFINE h == Hidden(c)
           q == Heads(c) * HeadDim(c)
           kv == KvHeads(c) * HeadDim(c)
           attention == 2 * h * q + 2 * h * kv
           mats == IF c.gated THEN 3 ELSE 2
           embedding == Vocab(c) * h * (IF c.tied THEN 1 ELSE 2)
           mlp(run) == IF c.experts > 1
                         THEN run * mats * h * Or(c.moeFfn, Ffn(c)) + h * c.experts
                         ELSE mats * h * Ffn(c)
           few == Min({Or(c.perToken, 2), c.experts})
           of(m) == embedding + Layers(c) * (attention + m + 2 * h) + h
<1>1. /\ Layers(c) \in Nat /\ h \in Nat /\ Heads(c) \in Nat
      /\ KvHeads(c) \in Nat /\ HeadDim(c) \in Nat /\ Ffn(c) \in Nat /\ Vocab(c) \in Nat
      /\ Or(c.moeFfn, Ffn(c)) \in Nat /\ Or(c.perToken, 2) \in Nat
      /\ c.experts \in Int
  BY DimensionsAreNatural
<1>2. \A a, b \in Nat : a * b \in Nat /\ a + b \in Nat
  OBVIOUS
<1>3. attention \in Nat /\ embedding \in Nat /\ mats \in Nat
  <2>1. q \in Nat /\ kv \in Nat /\ 2 * h \in Nat /\ Vocab(c) * h \in Nat /\ mats \in Nat
    BY <1>1, <1>2
  <2>2. 2 * h * q \in Nat /\ 2 * h * kv \in Nat
    BY <1>2, <2>1
  <2>3. (IF c.tied THEN 1 ELSE 2) \in Nat
    OBVIOUS
  <2> HIDE DEF q, kv, h, mats
  <2> QED
    BY <1>2, <2>1, <2>2, <2>3
<1>4. mlp(few) \in Nat /\ mlp(c.experts) \in Nat /\ mlp(few) <= mlp(c.experts)
  <2>1. CASE c.experts > 1
    <3> DEFINE size == mats * h * Or(c.moeFfn, Ffn(c))
    <3>1. size \in Nat
      <4> HIDE DEF mats, h
      <4>1. mats * h \in Nat
        BY <1>1, <1>2, <1>3
      <4> QED
        BY <1>1, <1>2, <4>1
    <3>2. few \in Nat /\ few <= c.experts /\ c.experts \in Nat
      <4>1. c.experts \in Nat
        BY <1>1, <2>1
      <4> DEFINE k == Or(c.perToken, 2)
      <4>2. k \in Nat
        BY <1>1
      <4> HIDE DEF k
      <4>3. Min({k, c.experts}) \in Nat /\ Min({k, c.experts}) <= c.experts
        BY <4>1, <4>2, MinOfTwo
      <4> QED
        BY <4>1, <4>3 DEF k
    <3>3. \A run \in Nat : run * mats * h * Or(c.moeFfn, Ffn(c)) = run * size
      <4> HIDE DEF mats, h
      <4> QED
        BY <1>1, <1>3
    <3> HIDE DEF size, few, mats, h
    <3>4. /\ few * size + h * c.experts \in Nat /\ c.experts * size + h * c.experts \in Nat
          /\ few * size + h * c.experts <= c.experts * size + h * c.experts
      BY <1>1, <3>1, <3>2, ExpertsGrow
    <3> QED
      BY <2>1, <3>2, <3>3, <3>4
  <2>2. CASE ~(c.experts > 1)
    <3>1. mats * h * Ffn(c) \in Nat
      <4> HIDE DEF mats, h
      <4>1. mats * h \in Nat
        BY <1>1, <1>2, <1>3
      <4> QED
        BY <1>1, <1>2, <4>1
    <3> HIDE DEF mats, h
    <3> QED
      BY <2>2, <3>1
  <2> QED
    BY <2>1, <2>2
<1>5. TotalParams(c) = of(mlp(c.experts)) /\ ActiveParams(c) = of(mlp(few))
  BY DEF TotalParams, ActiveParams, Formula
<1> HIDE DEF attention, embedding, mlp, few, h
<1>6. /\ of(mlp(few)) \in Nat /\ of(mlp(c.experts)) \in Nat
      /\ of(mlp(few)) <= of(mlp(c.experts))
  BY <1>1, <1>3, <1>4, LayersGrow
<1> QED
  BY <1>5, <1>6

\* The share of a count is no more than the count.
LEMMA ShareIsPart ==
  ASSUME NEW n \in Nat, NEW a \in Nat, NEW t \in Nat, t > 0, a <= t
  PROVE  (n * a) \div t <= n
<1>1. n * a \in Nat /\ n * a <= n * t
  BY ProductGrows
<1>2. \A x \in Nat : x <= n * t => x \div t <= n
  OBVIOUS
<1> QED
  BY <1>1, <1>2

\* A spec made from a config has the count it was given, and its active part.
LEMMA ConfigSpec ==
  ASSUME NEW c, IsConfig(c), NEW exact, exact # <<>> => exact[1].count \in Nat
  PROVE  LET spec == IntoSpec(c, exact) IN
         /\ exact # <<>> => spec.params = exact[1].count /\ spec.source = exact[1].source
         /\ exact = <<>> => spec.source = "formula"
         /\ spec.active <= spec.params
<1> DEFINE n == Known(c, exact)
<1>1. n \in Nat
  BY DimensionsAreNatural, ActiveAreSome DEF Known
<1>2. ActiveShare(c, n) <= n
  <2> HIDE DEF n
  <2> QED
    BY <1>1, ActiveAreSome, ShareIsPart DEF ActiveShare
<1> QED
  BY <1>2 DEF IntoSpec, Known

\* The conclusions of CountsAreHonest about the spec that is found.
CountsOf(w, spec) ==
  /\ w.override # <<>> => spec.params = w.override[1].count
  /\ spec.source = "hub" => spec.params = w.count
  /\ spec.source = "local" /\ Len(w.disk.headers) = w.files => spec.params = w.count
  /\ spec.active <= spec.params

\* The figures that the cost is worked out with are numbers.
Sized(spec) == spec.active \in Nat /\ spec.layers \in Nat /\ spec.heads \in Nat /\ spec.headDim \in Nat

\* An exact count is labelled by where it is from.
Exact(w, exact) ==
  /\ w.override # <<>> => exact = w.override
  /\ exact # <<>> =>
       /\ exact[1].count \in Nat
       /\ exact[1].source = "hub" => exact[1].count = w.count
       /\ exact[1].source = "local" /\ Len(w.disk.headers) = w.files => exact[1].count = w.count

\* A spec made from a config, or guessed, can be worked with.
LEMMA SpecIsSized ==
  ASSUME NEW c, IsConfig(c), NEW exact, exact # <<>> => exact[1].count \in Nat
  PROVE  Sized(IntoSpec(c, exact)) /\ (exact # <<>> => Sized(Inferred(exact[1])))
<1>1. /\ Layers(c) \in Nat /\ Heads(c) \in Nat /\ HeadDim(c) \in Nat
      /\ TotalParams(c) \in Nat /\ ActiveParams(c) \in Nat
  BY DimensionsAreNatural, ActiveAreSome
<1>2. Known(c, exact) \in Nat
  BY DimensionsAreNatural, ActiveAreSome DEF Known
<1>3. ActiveShare(c, Known(c, exact)) \in Nat
  <2>1. \A a, b, t \in Nat : t > 0 => (a * b) \div t \in Nat
    <3>1. \A a, b \in Nat : a * b \in Nat
      OBVIOUS
    <3>2. \A x, t \in Nat : t > 0 => x \div t \in Nat
      OBVIOUS
    <3> QED
      BY <3>1, <3>2
  <2> QED
    BY <1>1, <1>2, <2>1 DEF ActiveShare
<1>4. Sized(IntoSpec(c, exact))
  BY <1>1, <1>3 DEF Sized, IntoSpec
<1>5. ASSUME exact # <<>> PROVE Sized(Inferred(exact[1]))
  <2> DEFINE fits == {i \in DOMAIN Guesses : exact[1].count < Guesses[i].below}
             place == IF fits = {} THEN Len(Guesses) ELSE Min(fits)
             g == Guesses[place]
             Architectures == [below : Nat, layers : Nat, hidden : Nat, ffn : Nat, heads : Nat \ {0},
                               kvHeads : Nat, vocab : Nat]
  <2>1. Guesses # <<>> /\ Guesses \in Seq(Architectures)
    BY GuessesAssumption
  <2>2. \A a \in Architectures : a.layers \in Nat /\ a.heads \in Nat \ {0} /\ a.hidden \in Nat
    OBVIOUS
  <2> HIDE DEF Architectures
  <2>3. place \in DOMAIN Guesses
    <3>1. Len(Guesses) \in DOMAIN Guesses /\ DOMAIN Guesses \in SUBSET Nat
      BY <2>1
    <3>2. fits \in SUBSET (DOMAIN Guesses)
      OBVIOUS
    <3> HIDE DEF fits
    <3>3. fits # {} => Min(fits) \in fits
      BY <3>1, <3>2, MinOfSome
    <3> QED
      BY <3>1, <3>2, <3>3
  <2> HIDE DEF place
  <2>4. g.layers \in Nat /\ g.heads \in Nat \ {0} /\ g.hidden \in Nat
    BY <2>1, <2>2, <2>3
  <2>5. /\ Inferred(exact[1]).active = exact[1].count /\ Inferred(exact[1]).layers = g.layers
        /\ Inferred(exact[1]).heads = g.heads /\ Inferred(exact[1]).headDim = g.hidden \div g.heads
    BY DEF Inferred, place
  <2> HIDE DEF g
  <2>6. g.hidden \div g.heads \in Nat
    BY <2>4
  <2> QED
    BY <1>5, <2>4, <2>5, <2>6 DEF Sized
<1> QED
  BY <1>4, <1>5

\* A spec made from an exact count has that count.
LEMMA ExactSpec ==
  ASSUME NEW w, NEW c, IsConfig(c), NEW exact, Exact(w, exact)
  PROVE  /\ CountsOf(w, IntoSpec(c, exact)) /\ Sized(IntoSpec(c, exact))
         /\ exact # <<>> => CountsOf(w, Inferred(exact[1])) /\ Sized(Inferred(exact[1]))
<1> DEFINE spec == IntoSpec(c, exact)
<1>1. /\ exact # <<>> => exact[1].count \in Nat
      /\ exact # <<>> /\ exact[1].source = "hub" => exact[1].count = w.count
      /\ exact # <<>> /\ exact[1].source = "local" /\ Len(w.disk.headers) = w.files =>
           exact[1].count = w.count
      /\ w.override # <<>> => exact = w.override
  BY DEF Exact
<1>2. /\ exact # <<>> => spec.params = exact[1].count /\ spec.source = exact[1].source
      /\ exact = <<>> => spec.source = "formula"
      /\ spec.active <= spec.params
  BY <1>1, ConfigSpec
<1> HIDE DEF spec
<1>3. CountsOf(w, spec)
  BY <1>1, <1>2 DEF CountsOf
<1>4. ASSUME exact # <<>> PROVE CountsOf(w, Inferred(exact[1]))
  <2> DEFINE guess == Inferred(exact[1])
  <2>1. /\ guess.params = exact[1].count /\ guess.active = exact[1].count
        /\ guess.source = exact[1].source
    BY DEF Inferred
  <2> HIDE DEF guess
  <2>2. guess.active <= guess.params
    BY <1>1, <1>4, <2>1
  <2>3. CountsOf(w, guess)
    BY <1>1, <1>4, <2>1, <2>2 DEF CountsOf
  <2> QED
    BY <2>3 DEF guess
<1>5. Sized(spec) /\ (exact # <<>> => Sized(Inferred(exact[1])))
  BY <1>1, SpecIsSized DEF spec
<1> QED
  BY <1>3, <1>4, <1>5 DEF spec

\* The nested text configuration is a configuration.
LEMMA EffectiveConfig ==
  ASSUME NEW c, IsConfig(c), c.text # <<>> => IsConfig(c.text[1])
  PROVE  IsConfig(Effective(c))
BY DEF Effective

\* The three places an exact count comes from.
LEMMA ExactCounts ==
  ASSUME NEW w, ModelAssumed(w)
  PROVE  /\ Exact(w, w.override)
         /\ Exact(w, IF w.override # <<>> THEN w.override ELSE LocalTotal(w.disk.headers))
         /\ Exact(w, HubTotal(w.hub, w.override))
<1> DEFINE headers == w.disk.headers
           local == LocalTotal(headers)
           hub == HubTotal(w.hub, w.override)
<1>1. /\ w.override # <<>> => w.override[1].count \in Nat /\ w.override[1].source = "override"
      /\ w.count \in Nat /\ w.hub.total \in {0, w.count}
  BY DEF ModelAssumed
<1>2. Exact(w, w.override)
  BY <1>1 DEF Exact
<1>3. ASSUME w.override = <<>> PROVE Exact(w, local)
  <2>1. Cardinality(Parameters(headers)) \in Nat
    BY CountIsNatural DEF ModelAssumed
  <2>2. Len(headers) = w.files /\ Missing \notin ToSet(headers) =>
          Cardinality(Parameters(headers)) = w.count
    BY DEF ModelAssumed
  <2>3. local # <<>> =>
          /\ Missing \notin ToSet(headers)
          /\ local[1].count = Cardinality(Parameters(headers)) /\ local[1].source = "local"
    BY DEF LocalTotal
  <2> HIDE DEF local, headers
  <2> QED
    BY <1>3, <2>1, <2>2, <2>3 DEF Exact, headers
<1>4. Exact(w, hub)
  <2>1. CASE hub = w.override
    BY <1>2, <2>1
  <2>2. CASE hub # w.override
    <3>1. /\ w.override = <<>> /\ w.hub.total > 0
          /\ hub = <<[count |-> w.hub.total, source |-> "hub"]>>
      BY <2>2 DEF HubTotal
    <3>2. w.hub.total = w.count
      BY <1>1, <3>1
    <3>3. hub[1].count = w.count /\ hub[1].source = "hub"
      BY <3>1, <3>2
    <3> HIDE DEF hub
    <3> QED
      BY <1>1, <3>1, <3>3 DEF Exact
  <2> QED
    BY <2>1, <2>2
<1> QED
  BY <1>2, <1>3, <1>4

\* What is guessed, or inferred from an exact count, is honest.
LEMMA GuessIsHonest ==
  ASSUME NEW w, NEW exact, Exact(w, exact), ModelAssumed(w)
  PROVE  /\ GuessOrFail(exact) # Failed =>
              CountsOf(w, GuessOrFail(exact)[1]) /\ Sized(GuessOrFail(exact)[1])
         /\ w.override # <<>> => GuessOrFail(exact) # Failed
<1>1. IsConfig(w.hub.cfg)
  BY DEF ModelAssumed
<1>2. exact # <<>> => CountsOf(w, Inferred(exact[1])) /\ Sized(Inferred(exact[1]))
  BY <1>1, ExactSpec
<1>3. w.override # <<>> => exact # <<>>
  BY DEF Exact
<1> QED
  BY <1>2, <1>3 DEF GuessOrFail, Failed

\* Wherever a model is looked for, its spec is honest, and a count that the
\* user gives is only of no use where a config is not one.
LEMMA ResolveIsHonest ==
  ASSUME NEW w, ModelAssumed(w)
  PROVE  /\ Resolve(w) # Failed => CountsOf(w, Resolve(w)[1]) /\ Sized(Resolve(w)[1])
         /\ w.override # <<>> /\ Resolve(w) = Failed =>
              IF w.onDisk THEN w.disk.config = "bad" ELSE ~w.offline /\ w.hub.config = "bad"
<1> DEFINE exact == IF w.override # <<>> THEN w.override ELSE LocalTotal(w.disk.headers)
           hub == HubTotal(w.hub, w.override)
           disk == Effective(w.disk.cfg)
           far == Effective(w.hub.cfg)
<1>1. IsConfig(disk) /\ IsConfig(far) /\ w.disk.config \in {"ok", "bad", "none"}
  BY EffectiveConfig DEF ModelAssumed
<1>2. Exact(w, w.override) /\ Exact(w, exact) /\ Exact(w, hub)
  BY ExactCounts
<1>3. /\ CountsOf(w, IntoSpec(disk, exact)) /\ CountsOf(w, IntoSpec(far, hub))
      /\ Sized(IntoSpec(disk, exact)) /\ Sized(IntoSpec(far, hub))
  BY <1>1, <1>2, ExactSpec
<1>4. \A e \in {w.override, hub} :
        /\ GuessOrFail(e) # Failed => CountsOf(w, GuessOrFail(e)[1]) /\ Sized(GuessOrFail(e)[1])
        /\ w.override # <<>> => GuessOrFail(e) # Failed
  BY <1>2, GuessIsHonest
<1>5. \A x : <<x>> # Failed /\ <<x>>[1] = x
  BY DEF Failed
<1>6. CASE w.onDisk
  <2>1. Resolve(w) = ResolveLocal(w.disk, w.override)
    BY <1>6 DEF Resolve
  <2>2. /\ w.disk.config = "none" => Resolve(w) = GuessOrFail(w.override)
        /\ w.disk.config = "bad" => Resolve(w) = Failed
        /\ w.disk.config = "ok" => Resolve(w) = <<IntoSpec(disk, exact)>>
    BY <2>1 DEF ResolveLocal
  <2> HIDE DEF exact, hub, disk, far
  <2> QED
    BY <1>1, <1>3, <1>4, <1>5, <1>6, <2>2
<1>7. CASE ~w.onDisk /\ w.offline
  <2>1. Resolve(w) = GuessOrFail(w.override)
    BY <1>7 DEF Resolve
  <2> QED
    BY <1>4, <1>7, <2>1
<1>8. CASE ~w.onDisk /\ ~w.offline
  <2>1. Resolve(w) = ResolveHub(w.hub, w.override)
    BY <1>8 DEF Resolve
  <2>2. \/ w.override = <<>> /\ Resolve(w) = Failed
        \/ Resolve(w) = <<IntoSpec(far, hub)>>
        \/ w.hub.config = "bad" /\ Resolve(w) = Failed
        \/ Resolve(w) = GuessOrFail(hub)
    BY <2>1 DEF ResolveHub
  <2> HIDE DEF exact, hub, disk, far
  <2> QED
    BY <1>3, <1>4, <1>5, <1>8, <2>2
<1> QED
  BY <1>6, <1>7, <1>8

------------------------------------------------------------------------------
(* Offers.                                                                 *)

\* What a listing is.
GpuListings ==
  [provider : {"lambda", "runpod", "vastai", "file"}, gpu : Seq(Vocabulary), count : Nat, vram : Int,
   hourly : Int, launchable : BOOLEAN, flags : SUBSET {"volatile", "community"}]

\* A listing made from an offer.
LEMMA ListingType ==
  ASSUME NEW o \in Offers, NEW provider \in {"lambda", "runpod", "vastai", "file"},
         NEW launchable \in BOOLEAN, NEW flags \in SUBSET {"volatile", "community"}
  PROVE  Listing(provider, o, launchable, flags) \in GpuListings
BY DEF Offers, GpuListings, Listing

\* The offer that a community listing is of.
LEMMA CommunityOffer ==
  ASSUME NEW o \in Offers
  PROVE  /\ [o EXCEPT !.hourly = o.community] \in Offers
         /\ [o EXCEPT !.gpu = Append(@, "(community)"), !.hourly = o.community] \in Offers
<1>1. o.gpu \in Seq(Vocabulary) /\ o.community \in Int
  BY DEF Offers
<1>2. Append(o.gpu, "(community)") \in Seq(Vocabulary)
  BY <1>1, CommunityIsIgnored
<1> QED
  BY <1>1, <1>2 DEF Offers

\* A sequence of a set has all of its members.
LEMMA SequenceOfSet ==
  ASSUME NEW A, NEW S \in SUBSET A, IsFiniteSet(S), NEW s \in SetToSeqs(S)
  PROVE  s \in Seq(A) /\ ToSet(s) = S
<1> DEFINE n == Cardinality(S)
<1>1. n \in Nat
  BY FS_CardinalityType
<1> HIDE DEF n
<1>2. s \in [1..n -> S] /\ \A i, j \in 1..n : i # j => s[i] # s[j]
  BY DEF SetToSeqs, n
<1>3. IsFiniteSet(1..n) /\ Cardinality(1..n) = n
  <2>1. 1 \in Int /\ n \in Int
    BY <1>1
  <2>2. IsFiniteSet(1..n) /\ Cardinality(1..n) = IF 1 > n THEN 0 ELSE n - 1 + 1
    BY <2>1, FS_Interval
  <2> QED
    BY <1>1, <2>2
<1>4. s \in Injection(1..n, S)
  BY <1>2 DEF Injection, IsInjective
<1>5. s \in Surjection(1..n, S)
  BY <1>3, <1>4, FS_Injection DEF n
<1>6. DOMAIN s = 1..n /\ s \in Seq(A)
  BY <1>1, <1>2
<1> QED
  BY <1>5, <1>6 DEF ToSet, Surjection

\* Every priced instance type of Lambda is listed.
LEMMA LambdaCovers ==
  ASSUME NEW offers \in Seq(Offers)
  PROVE  /\ LambdaListings(offers) \in Seq(GpuListings)
         /\ \A i \in DOMAIN offers : offers[i].hourly > 0 =>
              Listing("lambda", offers[i], offers[i].usable, {}) \in ToSet(LambdaListings(offers))
<1> DEFINE L(o) == Listing("lambda", o, o.usable, {})
           Of(o) == IF o.hourly > 0 THEN <<L(o)>> ELSE <<>>
           ss == [i \in DOMAIN offers |-> Of(offers[i])]
<1>1. LambdaListings(offers) = FlattenSeq(ss)
  BY DEF LambdaListings
<1>2. \A o \in Offers : L(o) \in GpuListings
  <2>1. \A o \in Offers : o.usable \in BOOLEAN
    BY DEF Offers
  <2> QED
    BY <2>1, ListingType
<1>3. DOMAIN offers = 1..Len(offers) /\ Len(offers) \in Nat /\ \A i \in DOMAIN offers : offers[i] \in Offers
  OBVIOUS
<1> HIDE DEF L
<1>4. ss \in Seq(Seq(GpuListings)) /\ DOMAIN ss = DOMAIN offers
  <2>1. \A o \in Offers : Of(o) \in Seq(GpuListings)
    BY <1>2
  <2> HIDE DEF Of
  <2>2. \A i \in DOMAIN offers : Of(offers[i]) \in Seq(GpuListings)
    BY <1>3, <2>1
  <2> QED
    BY <1>3, <2>2
<1>5. /\ FlattenSeq(ss) \in Seq(GpuListings)
      /\ ToSet(FlattenSeq(ss)) = UNION {ToSet(ss[i]) : i \in DOMAIN ss}
  <2> HIDE DEF ss
  <2> QED
    BY <1>4, FlattenHas
<1>6. ASSUME NEW i \in DOMAIN offers, offers[i].hourly > 0
      PROVE  L(offers[i]) \in ToSet(FlattenSeq(ss))
  <2>1. ss[i] = <<L(offers[i])>>
    BY <1>6
  <2> HIDE DEF ss
  <2>2. L(offers[i]) \in ToSet(ss[i])
    BY <2>1 DEF ToSet
  <2> QED
    BY <1>4, <1>5, <2>2
<1> QED
  BY <1>1, <1>5, <1>6 DEF L

\* Every price of RunPod, secure and community, is listed.
LEMMA RunPodCovers ==
  ASSUME NEW types \in Seq(Offers)
  PROVE  /\ RunPodListings(types) \in Seq(GpuListings)
         /\ \A i \in DOMAIN types : types[i].hourly > 0 =>
              Listing("runpod", types[i], TRUE, {}) \in ToSet(RunPodListings(types))
         /\ \A i \in DOMAIN types : types[i].community > 0 =>
              Listing("runpod", [types[i] EXCEPT !.gpu = Append(@, "(community)"),
                                                 !.hourly = types[i].community],
                      TRUE, {"community"}) \in ToSet(RunPodListings(types))
<1> DEFINE L(o) == Listing("runpod", o, TRUE, {})
           C(o) == Listing("runpod", [o EXCEPT !.gpu = Append(@, "(community)"),
                                               !.hourly = o.community], TRUE, {"community"})
           Secure(o) == IF o.hourly > 0 THEN <<L(o)>> ELSE <<>>
           Community(o) == IF o.community > 0 THEN <<C(o)>> ELSE <<>>
           Of(o) == Secure(o) \o Community(o)
           ss == [i \in DOMAIN types |-> Of(types[i])]
<1>1. RunPodListings(types) = FlattenSeq(ss)
  BY DEF RunPodListings
<1>2. \A o \in Offers : L(o) \in GpuListings /\ C(o) \in GpuListings
  BY ListingType, CommunityOffer
<1>3. DOMAIN types = 1..Len(types) /\ Len(types) \in Nat /\ \A i \in DOMAIN types : types[i] \in Offers
  OBVIOUS
<1> HIDE DEF L, C
<1>4. ASSUME NEW o \in Offers
      PROVE  /\ Of(o) \in Seq(GpuListings)
             /\ o.hourly > 0 => L(o) \in ToSet(Of(o))
             /\ o.community > 0 => C(o) \in ToSet(Of(o))
  <2>1. Secure(o) \in Seq(GpuListings) /\ Community(o) \in Seq(GpuListings)
    BY <1>2
  <2>2. /\ o.hourly > 0 => L(o) \in ToSet(Secure(o))
        /\ o.community > 0 => C(o) \in ToSet(Community(o))
    BY DEF ToSet
  <2> HIDE DEF Secure, Community
  <2>3. Of(o) \in Seq(GpuListings) /\ ToSet(Of(o)) = ToSet(Secure(o)) \cup ToSet(Community(o))
    BY <2>1, ElementsOfBoth
  <2> QED
    BY <2>2, <2>3
<1> HIDE DEF Of
<1>5. ss \in Seq(Seq(GpuListings)) /\ DOMAIN ss = DOMAIN types
  BY <1>3, <1>4
<1>6. \A i \in DOMAIN types : ss[i] = Of(types[i])
  OBVIOUS
<1> HIDE DEF ss
<1>7. /\ FlattenSeq(ss) \in Seq(GpuListings)
      /\ ToSet(FlattenSeq(ss)) = UNION {ToSet(ss[i]) : i \in DOMAIN ss}
  BY <1>5, FlattenHas
<1>8. ASSUME NEW i \in DOMAIN types
      PROVE  /\ types[i].hourly > 0 => L(types[i]) \in ToSet(FlattenSeq(ss))
             /\ types[i].community > 0 => C(types[i]) \in ToSet(FlattenSeq(ss))
  <2>1. types[i] \in Offers /\ ss[i] = Of(types[i])
    BY <1>3, <1>6
  <2>2. ToSet(Of(types[i])) \subseteq ToSet(FlattenSeq(ss))
    BY <1>5, <1>7, <2>1
  <2> QED
    BY <1>4, <2>1, <2>2
<1> QED
  BY <1>1, <1>7, <1>8 DEF L, C

\* Vast.ai lists finitely many GPUs.
LEMMA VastIsFinite ==
  ASSUME NEW offers \in Seq(Offers)
  PROVE  /\ VastListings(offers) \in SUBSET GpuListings /\ IsFiniteSet(VastListings(offers))
<1> DEFINE L(i) == Listing("vastai", offers[i], TRUE, {"volatile"})
           f == [i \in DOMAIN offers |-> L(i)]
           T == {L(i) : i \in DOMAIN offers}
<1>1. DOMAIN offers = 1..Len(offers) /\ Len(offers) \in Nat /\ \A i \in DOMAIN offers : offers[i] \in Offers
  OBVIOUS
<1>2. \A i \in DOMAIN offers : L(i) \in GpuListings
  BY <1>1, ListingType
<1>3. VastListings(offers) \in SUBSET T
  BY DEF VastListings
<1> HIDE DEF L
<1>4. f \in Surjection(DOMAIN offers, T) /\ T \in SUBSET GpuListings
  BY <1>2 DEF Surjection
<1>5. IsFiniteSet(DOMAIN offers)
  <2>1. 1 \in Int /\ Len(offers) \in Int
    BY <1>1
  <2> QED
    BY <1>1, <2>1, FS_Interval
<1> HIDE DEF f, T
<1>6. IsFiniteSet(T)
  BY <1>4, <1>5, FS_Surjection
<1> QED
  BY <1>3, <1>4, <1>6, FS_Subset

\* What the report takes from a listing, apart from the provider and the flags.
Alike(a, b) ==
  /\ a.count = b.count /\ a.vram = b.vram /\ a.hourly = b.hourly /\ a.launchable = b.launchable
  /\ Normalized(a.gpu) = Normalized(b.gpu)

\* Every offer that could be taken up is listed, or one like it.
LEMMA OffersAreListed ==
  ASSUME NEW r, IsRequest(r), NEW listings \in Listings(r)
  PROVE  /\ listings \in Seq(GpuListings)
         /\ \A l \in Offered(r) : l.launchable => \E i \in DOMAIN listings : Alike(listings[i], l)
<1>1. /\ r.file \in Seq(Offers) /\ r.lambda \in Seq(Offers)
      /\ r.runpod \in Seq(Offers) /\ r.vast \in Seq(Offers)
  BY DEF IsRequest
<1>2. CASE r.file # <<>>
  <2> DEFINE L(i) == Listing("file", r.file[i], r.file[i].usable, {})
  <2>1. listings = [i \in DOMAIN r.file |-> L(i)]
    BY <1>2 DEF Listings, FileListings
  <2>2. Offered(r) = {L(i) : i \in DOMAIN r.file}
    BY <1>2 DEF Offered, Every
  <2>3. DOMAIN r.file = 1..Len(r.file) /\ Len(r.file) \in Nat /\ \A i \in DOMAIN r.file : r.file[i] \in Offers
    BY <1>1
  <2>4. \A i \in DOMAIN r.file : L(i) \in GpuListings
    <3>1. \A o \in Offers : o.usable \in BOOLEAN
      BY DEF Offers
    <3> QED
      BY <2>3, <3>1, ListingType
  <2> HIDE DEF L
  <2>5. listings \in Seq(GpuListings)
    BY <2>1, <2>3, <2>4
  <2>6. \A l \in Offered(r) : \E i \in DOMAIN listings : listings[i] = l
    BY <2>1, <2>2
  <2> QED
    BY <2>5, <2>6 DEF Alike
<1>3. CASE r.file = <<>>
  <2> DEFINE a == LambdaListings(r.lambda)
             b == RunPodListings(r.runpod)
             V == VastListings(r.vast)
             community == [i \in DOMAIN r.runpod |-> [r.runpod[i] EXCEPT !.hourly = r.runpod[i].community]]
  <2>1. PICK v \in SetToSeqs(V) : listings = a \o b \o v
    BY <1>3 DEF Listings
  <2>2. a \in Seq(GpuListings) /\ b \in Seq(GpuListings)
    BY <1>1, LambdaCovers, RunPodCovers
  <2>3. V \in SUBSET GpuListings /\ IsFiniteSet(V)
    BY <1>1, VastIsFinite
  <2>4. v \in Seq(GpuListings) /\ ToSet(v) = V
    BY <2>3, SequenceOfSet
  <2>5. listings \in Seq(GpuListings) /\ ToSet(listings) = ToSet(a) \cup ToSet(b) \cup V
    <3> HIDE DEF a, b, V
    <3> DEFINE ab == a \o b
    <3>1. ab \in Seq(GpuListings) /\ ToSet(ab) = ToSet(a) \cup ToSet(b)
      BY <2>2, ElementsOfBoth
    <3>2. listings = ab \o v
      BY <2>1
    <3> HIDE DEF ab
    <3>3. ab \o v \in Seq(GpuListings) /\ ToSet(ab \o v) = ToSet(ab) \cup ToSet(v)
      BY <2>4, <3>1, ElementsOfBoth
    <3> QED
      BY <2>4, <3>1, <3>2, <3>3
  <2>6. ASSUME NEW l \in Offered(r), l.launchable
        PROVE  \E m \in ToSet(a) \cup ToSet(b) \cup V : Alike(m, l)
    <3>1. /\ l.hourly > 0
          /\ \/ l \in Every(r.lambda, "lambda")
             \/ l \in Every(r.runpod, "runpod")
             \/ l \in V
             \/ l \in Every(community, "runpod")
      BY <1>3, <2>6 DEF Offered
    <3>2. \A o \in Offers : o.usable \in BOOLEAN
      BY DEF Offers
    <3>3. CASE l \in V
      BY <3>3 DEF Alike
    <3>4. CASE l \in Every(r.lambda, "lambda")
      <4>1. PICK i \in DOMAIN r.lambda : l = Listing("lambda", r.lambda[i], r.lambda[i].usable, {})
        BY <3>4 DEF Every
      <4>2. r.lambda[i].hourly > 0
        BY <3>1, <4>1 DEF Listing
      <4>3. l \in ToSet(a)
        BY <1>1, <4>1, <4>2, LambdaCovers
      <4> QED
        BY <4>3 DEF Alike
    <3>5. CASE l \in Every(r.runpod, "runpod")
      <4>1. PICK i \in DOMAIN r.runpod : l = Listing("runpod", r.runpod[i], r.runpod[i].usable, {})
        BY <3>5 DEF Every
      <4>2. r.runpod[i].hourly > 0 /\ r.runpod[i].usable = TRUE
        <5>1. r.runpod[i] \in Offers
          BY <1>1, <4>1
        <5>2. l.hourly = r.runpod[i].hourly /\ l.launchable = r.runpod[i].usable
          BY <4>1 DEF Listing
        <5> QED
          BY <2>6, <3>1, <3>2, <5>1, <5>2
      <4>3. l \in ToSet(b)
        BY <1>1, <4>1, <4>2, RunPodCovers
      <4> QED
        BY <4>3 DEF Alike
    <3>6. CASE l \in Every(community, "runpod")
      <4>1. PICK i \in DOMAIN r.runpod :
              l = Listing("runpod", community[i], community[i].usable, {})
        BY <3>6 DEF Every
      <4> DEFINE o == r.runpod[i]
                 c == [o EXCEPT !.gpu = Append(@, "(community)"), !.hourly = o.community]
                 m == Listing("runpod", c, TRUE, {"community"})
      <4>2. o \in Offers /\ community[i] = [o EXCEPT !.hourly = o.community]
        BY <1>1, <4>1
      <4> HIDE DEF community, o
      <4>3. /\ community[i].gpu = o.gpu /\ community[i].count = o.count /\ community[i].vram = o.vram
            /\ community[i].hourly = o.community /\ community[i].usable = o.usable
            /\ c.gpu = Append(o.gpu, "(community)") /\ c.count = o.count /\ c.vram = o.vram
            /\ c.hourly = o.community /\ o.gpu \in Seq(Vocabulary) /\ o.usable \in BOOLEAN
        BY <4>2, Zenon DEF Offers
      <4> HIDE DEF c
      <4>4. /\ l.gpu = o.gpu /\ l.count = o.count /\ l.vram = o.vram
            /\ l.hourly = o.community /\ l.launchable = o.usable
            /\ m.gpu = c.gpu /\ m.count = o.count /\ m.vram = o.vram
            /\ m.hourly = o.community /\ m.launchable = TRUE
        BY <4>1, <4>3 DEF Listing
      <4>5. Normalized(m.gpu) = Normalized(l.gpu)
        BY <4>3, <4>4, CommunityIsIgnored
      <4>6. o.community > 0 /\ o.usable = TRUE
        BY <2>6, <3>1, <4>3, <4>4
      <4>7. m \in ToSet(b)
        BY <1>1, <4>6, RunPodCovers DEF o, c
      <4>8. Alike(m, l)
        BY <4>4, <4>5, <4>6 DEF Alike
      <4> QED
        BY <4>7, <4>8
    <3> QED
      BY <3>1, <3>3, <3>4, <3>5, <3>6
  <2> HIDE DEF a, b, V
  <2>7. \A m \in ToSet(listings) : \E i \in DOMAIN listings : listings[i] = m
    BY DEF ToSet
  <2> QED
    BY <2>5, <2>6, <2>7
<1> QED
  BY <1>2, <1>3

------------------------------------------------------------------------------
(* Rows and their order.                                                   *)

\* A cost is a number of cents.
LEMMA CostIsNumber ==
  ASSUME NEW flops \in Nat, NEW peak \in Nat, NEW l \in GpuListings, NEW utilization \in Nat,
         Cost(flops, peak, l, utilization) # <<>>
  PROVE  Cost(flops, peak, l, utilization)[1] \in Int
<1> DEFINE used == Max({1, Min({100, utilization})})
           gpus == Max({1, l.count})
           rate == gpus * peak * used * Scaling(l.count)
           point == (flops * FlopsScale) \div rate
           low == (point * 80 * l.hourly) \div 360000
<1>1. l.count \in Nat /\ l.hourly \in Int /\ FlopsScale \in Nat
  BY RequestsAssumption DEF GpuListings
<1>2. peak # 0
  BY DEF Cost
<1>3. Cost(flops, peak, l, utilization)[1] = low
  BY DEF Cost
<1>4. \A a, b \in Nat \ {0} : a * b \in Nat \ {0}
  OBVIOUS
<1>5. rate \in Nat \ {0}
  <2>1. Min({100, utilization}) \in Nat
    BY MinOfTwo
  <2>2. used \in Nat \ {0} /\ gpus \in Nat \ {0}
    BY <1>1, <2>1, AtLeastOne
  <2>3. Scaling(l.count) \in Nat \ {0}
    BY DEF Scaling
  <2> HIDE DEF used, gpus
  <2>4. gpus * peak \in Nat \ {0}
    BY <1>2, <1>4, <2>2
  <2>5. gpus * peak * used \in Nat \ {0}
    BY <1>4, <2>2, <2>4
  <2> QED
    BY <1>4, <2>3, <2>5
<1> HIDE DEF rate
<1>6. point \in Nat
  <2>1. flops * FlopsScale \in Nat
    BY <1>1
  <2> QED
    BY <1>5, <2>1
<1> HIDE DEF point
<1>7. point * 80 * l.hourly \in Int
  BY <1>1, <1>6
<1>8. low \in Int
  BY <1>7
<1> QED
  BY <1>3, <1>8

\* The work a request asks for is a natural number.
LEMMA FlopsAreNatural ==
  ASSUME NEW r, IsRequest(r), NEW spec, Sized(spec)
  PROVE  Flops(r, spec) \in Nat
<1> DEFINE epochs == Max({1, r.epochs})
<1>1. /\ r.rows \in Nat /\ r.epochs \in Nat /\ r.setup.seqLen \in Nat
      /\ spec.active \in Nat /\ spec.layers \in Nat /\ spec.heads \in Nat /\ spec.headDim \in Nat
  BY DEF IsRequest, Sized
<1>2. epochs \in Nat
  BY <1>1, AtLeastOne
<1> HIDE DEF epochs
<1>3. \A a, b \in Nat : a * b \in Nat /\ a + b \in Nat
  OBVIOUS
<1>4. FlopsPerToken(spec, r.setup) \in Nat
  <2>1. Passes(r.setup) \in Nat
    BY DEF Passes
  <2>2. spec.layers * r.setup.seqLen * spec.heads * spec.headDim \in Nat
    <3>1. spec.layers * r.setup.seqLen \in Nat
      BY <1>1, <1>3
    <3>2. spec.layers * r.setup.seqLen * spec.heads \in Nat
      BY <1>1, <1>3, <3>1
    <3> QED
      BY <1>1, <1>3, <3>2
  <2>3. spec.active + spec.layers * r.setup.seqLen * spec.heads * spec.headDim \in Nat
    BY <1>1, <1>3, <2>2
  <2>4. Passes(r.setup) * 2 \in Nat
    BY <2>1
  <2> QED
    BY <1>3, <2>3, <2>4 DEF FlopsPerToken
<1>5. r.rows * r.setup.seqLen \in Nat
  BY <1>1, <1>3
<1>6. r.rows * r.setup.seqLen * epochs \in Nat
  BY <1>2, <1>3, <1>5
<1> QED
  BY <1>3, <1>4, <1>6 DEF Flops, epochs

\* A row can be ordered.
Comparable(row) == Key(row) \in Int /\ row.listing.hourly \in Int

\* A row has its listing, the spec of its GPU and comparable costs.
LEMMA RowIsComparable ==
  ASSUME NEW r, IsRequest(r), NEW spec, Sized(spec), NEW db \in Seq(Specs), NEW l \in GpuListings
  PROVE  LET row == Row(r, spec, db, l)
         IN  /\ row.listing = l /\ row.spec = Found(db, l.gpu)
             /\ Comparable(row)
<1> DEFINE found == Found(db, l.gpu)
           peak == IF found = 0 THEN 0 ELSE db[found].tflops
           cost == Cost(Flops(r, spec), peak, l, r.utilization)
           row == Row(r, spec, db, l)
<1>1. row.listing = l /\ row.spec = found /\ row.cost = cost
  BY DEF Row
<1>2. l.hourly \in Int /\ l.gpu \in Seq(Vocabulary)
  BY DEF GpuListings
<1>3. peak \in Nat
  <2>1. CASE found = 0
    BY <2>1
  <2>2. CASE found # 0
    <3>1. found \in DOMAIN db
      BY <1>2, <2>2, FoundMatches
    <3>2. db[found] \in Specs
      BY <3>1
    <3> HIDE DEF found
    <3>3. db[found].tflops \in Nat
      BY <3>2 DEF Specs
    <3> QED
      BY <2>2, <3>3
  <2> QED
    BY <2>1, <2>2
<1>4. cost # <<>> => cost[1] \in Int
  <2>1. Flops(r, spec) \in Nat /\ r.utilization \in Nat
    BY FlopsAreNatural DEF IsRequest
  <2> HIDE DEF peak
  <2> QED
    BY <1>3, <2>1, CostIsNumber
<1> HIDE DEF cost, row
<1>5. Key(row) \in Int
  BY <1>1, <1>2, <1>4 DEF Key
<1> QED
  BY <1>1, <1>2, <1>5 DEF Comparable, row

\* Listings that are alike cost the same and need the same.
LEMMA AlikeRows ==
  ASSUME NEW r, NEW spec, NEW db, NEW a, NEW b, Alike(a, b)
  PROVE  LET left == Row(r, spec, db, a)
             right == Row(r, spec, db, b)
         IN  /\ left.cost = right.cost /\ Key(left) = Key(right)
             /\ Usable(left) <=> Usable(right)
<1>1. Found(db, a.gpu) = Found(db, b.gpu)
  BY DEF Alike, Found
<1>2. IsApple(a.gpu) <=> IsApple(b.gpu)
  BY DEF Alike, IsApple
<1>3. a.count = b.count /\ a.vram = b.vram /\ a.hourly = b.hourly /\ a.launchable = b.launchable
  BY DEF Alike
<1>4. Need(spec, r.setup, a.count, IsApple(a.gpu)) = Need(spec, r.setup, b.count, IsApple(b.gpu))
  BY <1>2, <1>3 DEF Need
<1>5. \A flops, peak, u : Cost(flops, peak, a, u) = Cost(flops, peak, b, u)
  BY <1>3 DEF Cost
<1> DEFINE left == Row(r, spec, db, a)
           right == Row(r, spec, db, b)
<1>6. /\ left.cost = right.cost /\ left.need = right.need
      /\ left.overBudget = right.overBudget /\ left.listing = a /\ right.listing = b
  BY <1>1, <1>4, <1>5 DEF Row
<1> HIDE DEF left, right
<1>7. Key(left) = Key(right)
  BY <1>3, <1>6 DEF Key
<1>8. Usable(left) <=> Usable(right)
  BY <1>3, <1>6 DEF Usable, Fits
<1> QED
  BY <1>6, <1>7, <1>8 DEF left, right

\* A lexical order of four numbers.
Lexical(p, k, h, i, q, l, g, j) ==
  \/ p < q
  \/ p = q /\ k < l
  \/ p = q /\ k = l /\ h < g
  \/ p = q /\ k = l /\ h = g /\ i < j

\* The order of the rows is strict, total and transitive.
LEMMA LexicalOrder ==
  ASSUME NEW p \in Int, NEW k \in Int, NEW h \in Int, NEW i \in Int,
         NEW q \in Int, NEW l \in Int, NEW g \in Int, NEW j \in Int,
         NEW s \in Int, NEW m \in Int, NEW f \in Int, NEW n \in Int
  PROVE  /\ ~Lexical(p, k, h, i, p, k, h, i)
         /\ i # j => Lexical(p, k, h, i, q, l, g, j) \/ Lexical(q, l, g, j, p, k, h, i)
         /\ Lexical(p, k, h, i, q, l, g, j) /\ Lexical(q, l, g, j, s, m, f, n) =>
              Lexical(p, k, h, i, s, m, f, n)
<1>1. ~Lexical(p, k, h, i, p, k, h, i)
  BY DEF Lexical
<1>2. i # j => Lexical(p, k, h, i, q, l, g, j) \/ Lexical(q, l, g, j, p, k, h, i)
  BY DEF Lexical
<1>3. ASSUME Lexical(p, k, h, i, q, l, g, j), Lexical(q, l, g, j, s, m, f, n)
      PROVE  Lexical(p, k, h, i, s, m, f, n)
  BY <1>3 DEF Lexical
<1> QED
  BY <1>1, <1>2, <1>3

\* The order in which rows are listed.
Order(rows, I) == {x \in I \X I : x[1] \in Ahead(rows, I, x[2])}

\* Finitely many rows that can be compared.
Rankable(rows, I) == I \in SUBSET Nat /\ IsFiniteSet(I) /\ \A i \in I : Comparable(rows[i])

\* Their order, as a relation of their indices.
LEMMA RowsAreOrdered ==
  ASSUME NEW rows, NEW I, Rankable(rows, I)
  PROVE  /\ Ordered(I, Order(rows, I))
         /\ \A i \in I : Ahead(rows, I, i) = {j \in I : <<j, i>> \in Order(rows, I)}
<1> DEFINE P(i) == IF rows[i].cost = <<>> THEN 1 ELSE 0
           K(i) == Key(rows[i])
           H(i) == rows[i].listing.hourly
           R == Order(rows, I)
           Lex(i, j) == Lexical(P(i), K(i), H(i), i, P(j), K(j), H(j), j)
<1>1. ASSUME NEW i \in I PROVE P(i) \in Int /\ K(i) \in Int /\ H(i) \in Int /\ i \in Int
  <2>1. i \in Nat
    BY DEF Rankable
  <2>2. K(i) \in Int /\ H(i) \in Int
    BY DEF Rankable, Comparable
  <2> QED
    BY <2>1, <2>2
<1>2. ASSUME NEW i \in I, NEW j \in I
      PROVE  Before(rows[i], rows[j]) <=>
               \/ P(i) < P(j)
               \/ P(i) = P(j) /\ K(i) < K(j)
               \/ P(i) = P(j) /\ K(i) = K(j) /\ H(i) < H(j)
  <2>1. (rows[i].cost = <<>>) = (rows[j].cost = <<>>) <=> P(i) = P(j)
    <3>1. (rows[i].cost = <<>> <=> rows[j].cost = <<>>) <=> P(i) = P(j)
      OBVIOUS
    <3> HIDE DEF P
    <3> QED
      BY <3>1, Zenon
  <2>2. rows[i].cost # <<>> /\ rows[j].cost = <<>> <=> P(i) < P(j)
    OBVIOUS
  <2> HIDE DEF P
  <2> QED
    BY <2>1, <2>2, Zenon DEF Before
<1> HIDE DEF P, K, H
<1>3. ASSUME NEW i \in I, NEW j \in I
      PROVE  j \in Ahead(rows, I, i) <=> Lex(j, i)
  <2>1. j \in Ahead(rows, I, i) <=>
          \/ Before(rows[j], rows[i])
          \/ ~Before(rows[i], rows[j]) /\ j < i
    BY DEF Ahead
  <2>2. /\ P(i) \in Int /\ K(i) \in Int /\ H(i) \in Int /\ i \in Int
        /\ P(j) \in Int /\ K(j) \in Int /\ H(j) \in Int /\ j \in Int
    BY <1>1
  <2> QED
    BY <1>2, <2>1, <2>2 DEF Lexical
<1>4. \A i, j \in I : <<j, i>> \in R <=> j \in Ahead(rows, I, i)
  BY DEF Order
<1> HIDE DEF R
<1>5. \A i, j \in I : <<i, j>> \in R <=> Lex(i, j)
  BY <1>3, <1>4
<1>6. /\ \A i \in I : ~Lex(i, i)
      /\ \A i, j \in I : i # j => Lex(i, j) \/ Lex(j, i)
      /\ \A i, j, k \in I : Lex(i, j) /\ Lex(j, k) => Lex(i, k)
  BY <1>1, LexicalOrder
<1> HIDE DEF Lex
<1>7. IsFiniteSet(I)
  BY DEF Rankable
<1>8. Ordered(I, R)
  BY <1>5, <1>6, <1>7 DEF Ordered
<1>9. ASSUME NEW i \in I PROVE Ahead(rows, I, i) = {j \in I : <<j, i>> \in R}
  <2>1. \A j \in Ahead(rows, I, i) : j \in I
    BY DEF Ahead
  <2> QED
    BY <1>4, <2>1
<1> QED
  BY <1>8, <1>9 DEF R

\* Sorted lists the rows, each of them, none before one that is to be ahead.
LEMMA SortedHas ==
  ASSUME NEW rows, NEW I, Rankable(rows, I)
  PROVE  /\ Cardinality(I) \in Nat /\ DOMAIN Sorted(rows, I) = 1..Cardinality(I)
         /\ Sorted(rows, I) = [p \in 1..Cardinality(I) |-> Sorted(rows, I)[p]]
         /\ \A p \in 1..Cardinality(I) : \E i \in I : Sorted(rows, I)[p] = rows[i]
         /\ \A i \in I : \E p \in 1..Cardinality(I) : Sorted(rows, I)[p] = rows[i]
         /\ \A p, q \in 1..Cardinality(I) :
              p < q => ~Before(Sorted(rows, I)[q], Sorted(rows, I)[p])
<1> DEFINE R == Order(rows, I)
           m == Cardinality(I)
           rank == [i \in I |-> Cardinality({j \in I : <<j, i>> \in R})]
           at(p) == CHOOSE i \in I : Cardinality(Ahead(rows, I, i)) = p - 1
<1>1. Ordered(I, R) /\ \A i \in I : Ahead(rows, I, i) = {j \in I : <<j, i>> \in R}
  BY RowsAreOrdered
<1>2. m \in Nat
  BY <1>1, FS_CardinalityType DEF Ordered
<1>3. \A i \in I : rank[i] = Cardinality(Ahead(rows, I, i))
  BY <1>1
<1>4. RanksOf(rank, I, R)
  <2> HIDE DEF R
  <2> QED
    BY <1>1, Ranks
<1> HIDE DEF rank
<1>5. /\ rank \in [I -> Nat] /\ \A i \in I : rank[i] < m
      /\ \A i, j \in I : <<i, j>> \in R => rank[i] < rank[j]
      /\ \A i, j \in I : rank[i] = rank[j] => i = j
      /\ \A r \in 0..(m - 1) : \E i \in I : rank[i] = r
  BY <1>4 DEF RanksOf
<1>6. ASSUME NEW p \in 1..m PROVE at(p) \in I /\ rank[at(p)] = p - 1
  <2>1. p - 1 \in 0..(m - 1)
    BY <1>2
  <2>2. \E i \in I : Cardinality(Ahead(rows, I, i)) = p - 1
    BY <1>3, <1>5, <2>1
  <2>3. at(p) \in I /\ Cardinality(Ahead(rows, I, at(p))) = p - 1
    BY <2>2
  <2> HIDE DEF at
  <2> QED
    BY <1>3, <2>3
<1>7. /\ DOMAIN Sorted(rows, I) = 1..m
      /\ Sorted(rows, I) = [p \in 1..m |-> Sorted(rows, I)[p]]
      /\ \A p \in 1..m : Sorted(rows, I)[p] = rows[at(p)]
  BY DEF Sorted
<1> HIDE DEF at, m, R
<1>8. ASSUME NEW i \in I PROVE \E p \in 1..m : at(p) = i
  <2> DEFINE p == rank[i] + 1
  <2>1. p \in 1..m /\ p - 1 = rank[i]
    <3>1. rank[i] \in Nat /\ rank[i] < m
      BY <1>5
    <3> QED
      BY <1>2, <3>1
  <2> HIDE DEF p
  <2>2. at(p) \in I /\ rank[at(p)] = rank[i]
    BY <1>6, <2>1
  <2> QED
    BY <1>5, <2>1, <2>2
<1>9. ASSUME NEW p \in 1..m, NEW q \in 1..m, p < q
      PROVE  ~Before(rows[at(q)], rows[at(p)])
  <2>1. at(p) \in I /\ at(q) \in I /\ rank[at(p)] = p - 1 /\ rank[at(q)] = q - 1
    BY <1>6
  <2>2. ~(rank[at(q)] < rank[at(p)])
    BY <1>2, <1>9, <2>1
  <2>3. <<at(q), at(p)>> \notin R
    BY <1>5, <2>1, <2>2
  <2>4. at(q) \notin Ahead(rows, I, at(p))
    BY <1>1, <2>1, <2>3
  <2> QED
    BY <2>1, <2>4 DEF Ahead
<1> QED
  BY <1>2, <1>6, <1>7, <1>8, <1>9 DEF m

------------------------------------------------------------------------------
(* The recommendation.                                                     *)

\* What may be recommended.
Viable(row) == row.listing.launchable /\ ~row.overBudget
\* Both have an estimate of the cost, or neither.
SamePricing(a, b) == (a.cost = <<>>) = (b.cost = <<>>)

\* The order puts those with an estimate first, and lower keys among them.
LEMMA NotAhead ==
  ASSUME NEW a, NEW b, Comparable(a), Comparable(b), ~Before(b, a)
  PROVE  /\ a.cost = <<>> => b.cost = <<>>
         /\ SamePricing(a, b) => Key(a) <= Key(b)
<1>1. a.cost = <<>> => b.cost = <<>>
  BY Zenon DEF Before
<1>2. ASSUME SamePricing(a, b) PROVE Key(a) <= Key(b)
  <2>1. (b.cost = <<>>) = (a.cost = <<>>)
    BY <1>2, Zenon DEF SamePricing
  <2>2. ~(Key(b) < Key(a))
    BY <2>1, Zenon DEF Before
  <2>3. Key(a) \in Int /\ Key(b) \in Int
    BY DEF Comparable
  <2> QED
    BY <2>2, <2>3
<1> QED
  BY <1>1, <1>2

\* commands/plan.rs build_recommendation, of rows in that order.
LEMMA BestIsBest ==
  ASSUME NEW m \in Nat, NEW ranked, DOMAIN ranked = 1..m, \A p \in 1..m : Comparable(ranked[p]),
         \A p, q \in 1..m : p < q => ~Before(ranked[q], ranked[p])
  PROVE  LET advice == Recommendation(ranked)
         IN  IF advice.best = <<>> THEN \A p \in 1..m : ~Viable(ranked[p])
             ELSE \E b \in 1..m :
                    /\ advice.best[1] = ranked[b] /\ Viable(ranked[b])
                    /\ \A p \in 1..m : Viable(ranked[p]) =>
                         /\ ranked[b].cost = <<>> => ranked[p].cost = <<>>
                         /\ SamePricing(ranked[p], ranked[b]) =>
                              /\ Key(ranked[b]) <= Key(ranked[p])
                              /\ /\ Risky(ranked[b]) /\ ~Risky(ranked[p])
                                 /\ 2 * Key(ranked[p]) <= 3 * Key(ranked[b])
                                 => advice.safe # <<>>
<1> DEFINE viable == {p \in 1..m : Viable(ranked[p])}
           priced == {p \in viable : ranked[p].cost # <<>>}
           pool == IF priced = {} THEN viable ELSE priced
           best == FirstOf(ranked, pool)
           safe == {p \in pool : ~Risky(ranked[p]) /\ 2 * Key(ranked[p]) <= 3 * Key(best[1])}
           advice == Recommendation(ranked)
<1>1. /\ advice.best = best
      /\ advice.safe = IF best # <<>> /\ Risky(best[1]) THEN FirstOf(ranked, safe) ELSE <<>>
  BY DEF Recommendation, Viable
<1>2. \A places : FirstOf(ranked, places) = <<>> <=> places = {}
  BY DEF FirstOf
<1> HIDE DEF advice
<1>3. CASE pool = {}
  <2>1. advice.best = <<>> /\ viable = {}
    BY <1>1, <1>2, <1>3
  <2> QED
    BY <2>1 DEF advice
<1>4. CASE pool # {}
  <2> DEFINE b == Min(pool)
  <2>1. best = <<ranked[b]>> /\ best # <<>> /\ best[1] = ranked[b]
    BY <1>4 DEF FirstOf
  <2>2. b \in pool /\ \A p \in pool : b <= p
    <3>1. pool \in SUBSET Nat
      OBVIOUS
    <3> HIDE DEF pool
    <3> QED
      BY <1>4, <3>1, MinOfSome
  <2>3. pool \in SUBSET (1..m) /\ pool \in SUBSET viable
    OBVIOUS
  <2>4. ranked[b].cost = <<>> => priced = {}
    BY <2>2
  <2> HIDE DEF best, b, safe
  <2>5. ASSUME NEW p \in 1..m, Viable(ranked[p])
        PROVE  /\ ranked[b].cost = <<>> => ranked[p].cost = <<>>
               /\ SamePricing(ranked[p], ranked[b]) => p \in pool
    <3>1. p \in viable
      BY <2>5
    <3>2. ranked[b].cost = <<>> => ranked[p].cost = <<>>
      BY <2>4, <3>1
    <3>3. ASSUME SamePricing(ranked[p], ranked[b]) PROVE p \in pool
      <4>1. CASE priced = {}
        BY <3>1, <4>1
      <4>2. CASE priced # {}
        <5>1. b \in priced
          BY <2>2, <4>2
        <5>2. ranked[p].cost # <<>>
          BY <3>3, <5>1 DEF SamePricing
        <5> QED
          BY <3>1, <4>2, <5>2
      <4> QED
        BY <4>1, <4>2
    <3> QED
      BY <3>2, <3>3
  <2>6. ASSUME NEW p \in pool
        PROVE  SamePricing(ranked[p], ranked[b]) => Key(ranked[b]) <= Key(ranked[p])
    <3>1. b \in 1..m /\ p \in 1..m /\ b <= p
      BY <2>2, <2>3
    <3>2. CASE b = p
      <4>1. Key(ranked[b]) \in Int
        BY <3>1 DEF Comparable
      <4> QED
        BY <3>2, <4>1
    <3>3. CASE b # p
      <4>1. b < p
        BY <3>1, <3>3
      <4>2. Comparable(ranked[b]) /\ Comparable(ranked[p]) /\ ~Before(ranked[p], ranked[b])
        BY <3>1, <4>1
      <4>3. SamePricing(ranked[b], ranked[p]) => Key(ranked[b]) <= Key(ranked[p])
        BY <4>2, NotAhead
      <4> QED
        BY <4>3 DEF SamePricing
    <3> QED
      BY <3>2, <3>3
  <2>7. ASSUME NEW p \in pool, Risky(ranked[b]), ~Risky(ranked[p]),
               2 * Key(ranked[p]) <= 3 * Key(ranked[b])
        PROVE  advice.safe # <<>>
    <3>1. p \in safe
      BY <2>1, <2>7 DEF safe
    <3>2. FirstOf(ranked, safe) # <<>>
      BY <1>2, <3>1
    <3> QED
      BY <1>1, <2>1, <2>7, <3>2
  <2>8. advice.best # <<>> /\ advice.best[1] = ranked[b] /\ b \in 1..m /\ Viable(ranked[b])
    BY <1>1, <2>1, <2>2, <2>3
  <2> HIDE DEF pool, viable, priced
  <2> QED
    BY <2>5, <2>6, <2>7, <2>8 DEF advice
<1> QED
  BY <1>3, <1>4

\* What a report is made of.
Fitting(r, spec, listings) ==
  {i \in Shown(r, listings) : Fits(Rows(r, spec, Merged(r.remote), listings)[i])}

\* The parts of a report.
LEMMA ReportHas ==
  ASSUME NEW r, NEW spec, NEW listings
  PROVE  LET made == Report(r, spec, listings)
         IN  /\ made.at = "ready" /\ made.spec = spec /\ made.db = Merged(r.remote)
             /\ made.ranked = Sorted(Rows(r, spec, Merged(r.remote), listings),
                                     Fitting(r, spec, listings))
             /\ made.advice = Recommendation(made.ranked)
BY DEF Report, Fitting

\* The ranked rows are those of the listings that fit, in order.
RowsOf(ranked, m, r, spec, listings) ==
  LET of(i) == Row(r, spec, Merged(r.remote), listings[i])
  IN  /\ DOMAIN ranked = 1..m
      /\ \A p \in 1..m : \E i \in DOMAIN listings :
           ranked[p] = of(i) /\ Fits(of(i)) /\ Comparable(of(i))
      /\ \A i \in DOMAIN listings : listings[i].launchable /\ Fits(of(i)) =>
           \E p \in 1..m : ranked[p] = of(i)
      /\ \A p, q \in 1..m : p < q => ~Before(ranked[q], ranked[p])

\* Its ranking has the rows that fit, sorted.
LEMMA RankedAre ==
  ASSUME NEW r, IsRequest(r), NEW spec, Sized(spec), NEW listings \in Seq(GpuListings)
  PROVE  \E m \in Nat : RowsOf(Report(r, spec, listings).ranked, m, r, spec, listings)
<1> DEFINE db == Merged(r.remote)
           rows == Rows(r, spec, db, listings)
           I == Fitting(r, spec, listings)
           of(i) == Row(r, spec, db, listings[i])
           ranked == Sorted(rows, I)
<1>1. Report(r, spec, listings).ranked = ranked
  BY ReportHas
<1>2. DOMAIN listings = 1..Len(listings) /\ Len(listings) \in Nat
      /\ \A i \in DOMAIN listings : listings[i] \in GpuListings
  OBVIOUS
<1>3. \A i \in DOMAIN listings : rows[i] = of(i)
  BY DEF Rows
<1>4. db \in Seq(Specs)
  BY MergedKeeps DEF IsRequest
<1>5. \A i \in DOMAIN listings : Comparable(of(i))
  BY <1>2, <1>4, RowIsComparable
<1>6. \A i : i \in I <=> i \in DOMAIN listings /\ (~r.now \/ listings[i].launchable) /\ Fits(rows[i])
  BY DEF Fitting, Shown
<1> HIDE DEF rows, I, db, of
<1>7. Rankable(rows, I)
  <2>1. I \in SUBSET (1..Len(listings)) /\ 1..Len(listings) \in SUBSET Nat
    BY <1>2, <1>6
  <2>2. IsFiniteSet(1..Len(listings))
    <3>1. 1 \in Int /\ Len(listings) \in Int
      BY <1>2
    <3> QED
      BY <3>1, FS_Interval
  <2>3. IsFiniteSet(I)
    BY <2>1, <2>2, FS_Subset
  <2> QED
    BY <1>2, <1>3, <1>5, <2>1, <2>3 DEF Rankable
<1>8. /\ Cardinality(I) \in Nat /\ DOMAIN ranked = 1..Cardinality(I)
      /\ \A p \in 1..Cardinality(I) : \E i \in I : ranked[p] = rows[i]
      /\ \A i \in I : \E p \in 1..Cardinality(I) : ranked[p] = rows[i]
      /\ \A p, q \in 1..Cardinality(I) : p < q => ~Before(ranked[q], ranked[p])
  BY <1>7, SortedHas
<1> HIDE DEF ranked
<1>9. \A p \in 1..Cardinality(I) : \E i \in DOMAIN listings :
        ranked[p] = of(i) /\ Fits(of(i)) /\ Comparable(of(i))
  BY <1>3, <1>5, <1>6, <1>8
<1>10. \A i \in DOMAIN listings : listings[i].launchable /\ Fits(of(i)) =>
         \E p \in 1..Cardinality(I) : ranked[p] = of(i)
  BY <1>3, <1>6, <1>8
<1> QED
  BY <1>1, <1>8, <1>9, <1>10 DEF of, db, RowsOf

\* A report that was made from what the providers list advises soundly.
LEMMA ReportIsSound ==
  ASSUME request \in Requests, NEW spec, Sized(spec), NEW listings \in Listings(request),
         report = Report(request, spec, listings)
  PROVE  RecommendationIsSound
<1> DEFINE r == request
           db == Merged(r.remote)
           ranked == report.ranked
           of(i) == Row(r, spec, db, listings[i])
           advice == report.advice
           usable == {row \in {Row(r, report.spec, report.db, l) : l \in Offered(r)} : Usable(row)}
<1>1. IsRequest(r)
  BY RequestsAssumption
<1>2. report.spec = spec /\ report.db = db /\ advice = Recommendation(ranked)
  BY ReportHas
<1>3. /\ listings \in Seq(GpuListings)
      /\ \A l \in Offered(r) : l.launchable => \E i \in DOMAIN listings : Alike(listings[i], l)
  BY <1>1, OffersAreListed
<1> HIDE DEF ranked
<1>4. PICK m \in Nat :
        /\ DOMAIN ranked = 1..m
        /\ \A p \in 1..m : \E i \in DOMAIN listings :
             ranked[p] = of(i) /\ Fits(of(i)) /\ Comparable(of(i))
        /\ \A i \in DOMAIN listings : listings[i].launchable /\ Fits(of(i)) =>
             \E p \in 1..m : ranked[p] = of(i)
        /\ \A p, q \in 1..m : p < q => ~Before(ranked[q], ranked[p])
  <2>1. PICK m \in Nat : RowsOf(ranked, m, r, spec, listings)
    BY <1>1, <1>3, RankedAre DEF ranked
  <2> QED
    BY <2>1 DEF RowsOf
<1>5. \A p \in 1..m : Fits(ranked[p]) /\ Comparable(ranked[p])
  BY <1>4
<1>6. \A i \in DOMAIN listings : of(i).listing = listings[i]
  BY DEF Row
<1>7. \A row \in usable : \E p \in 1..m :
        /\ Viable(ranked[p]) /\ ranked[p].cost = row.cost /\ Key(ranked[p]) = Key(row)
  <2> SUFFICES ASSUME NEW l \in Offered(r), Usable(Row(r, spec, db, l))
               PROVE  \E p \in 1..m :
                        /\ Viable(ranked[p]) /\ ranked[p].cost = Row(r, spec, db, l).cost
                        /\ Key(ranked[p]) = Key(Row(r, spec, db, l))
    BY <1>2
  <2> DEFINE row == Row(r, spec, db, l)
  <2>1. l.launchable
    BY DEF Usable, Row
  <2>2. PICK i \in DOMAIN listings : Alike(listings[i], l)
    BY <1>3, <2>1
  <2>3. of(i).cost = row.cost /\ Key(of(i)) = Key(row) /\ (Usable(of(i)) <=> Usable(row))
    BY <2>2, AlikeRows
  <2> HIDE DEF row, of
  <2>4. listings[i].launchable /\ Fits(of(i)) /\ Viable(of(i))
    BY <1>6, <2>3 DEF Usable, Viable, row
  <2>5. PICK p \in 1..m : ranked[p] = of(i)
    BY <1>4, <2>4
  <2> QED
    BY <2>3, <2>4, <2>5 DEF row
<1> HIDE DEF of, usable, ranked, advice, db
<1>8. IF advice.best = <<>> THEN \A p \in 1..m : ~Viable(ranked[p])
      ELSE \E b \in 1..m :
             /\ advice.best[1] = ranked[b] /\ Viable(ranked[b])
             /\ \A p \in 1..m : Viable(ranked[p]) =>
                  /\ ranked[b].cost = <<>> => ranked[p].cost = <<>>
                  /\ SamePricing(ranked[p], ranked[b]) =>
                       /\ Key(ranked[b]) <= Key(ranked[p])
                       /\ /\ Risky(ranked[b]) /\ ~Risky(ranked[p])
                          /\ 2 * Key(ranked[p]) <= 3 * Key(ranked[b])
                          => advice.safe # <<>>
  BY <1>2, <1>4, <1>5, BestIsBest
<1>9. CASE advice.best = <<>>
  <2>1. usable = {}
    BY <1>7, <1>8, <1>9
  <2> QED
    BY <1>9, <2>1 DEF RecommendationIsSound, usable, advice
<1>10. CASE advice.best # <<>>
  <2>1. PICK b \in 1..m :
          /\ advice.best[1] = ranked[b] /\ Viable(ranked[b])
          /\ \A p \in 1..m : Viable(ranked[p]) =>
               /\ ranked[b].cost = <<>> => ranked[p].cost = <<>>
               /\ SamePricing(ranked[p], ranked[b]) =>
                    /\ Key(ranked[b]) <= Key(ranked[p])
                    /\ /\ Risky(ranked[b]) /\ ~Risky(ranked[p])
                       /\ 2 * Key(ranked[p]) <= 3 * Key(ranked[b])
                       => advice.safe # <<>>
    BY <1>8, <1>10
  <2> DEFINE best == advice.best[1]
  <2>2. best \in ToSet(ranked) /\ Usable(best)
    BY <1>4, <1>5, <2>1 DEF ToSet, Usable, Viable
  <2>3. ASSUME NEW row \in usable
        PROVE  /\ best.cost = <<>> => row.cost = <<>>
               /\ (row.cost = <<>>) = (best.cost = <<>>) => Key(best) <= Key(row)
    <3>1. PICK p \in 1..m : /\ Viable(ranked[p]) /\ ranked[p].cost = row.cost
                            /\ Key(ranked[p]) = Key(row)
      BY <1>7
    <3>2. best.cost = <<>> => row.cost = <<>>
      BY <2>1, <3>1
    <3>3. SamePricing(ranked[p], ranked[b]) => Key(best) <= Key(row)
      BY <2>1, <3>1
    <3>4. (row.cost = <<>>) = (best.cost = <<>>) => SamePricing(ranked[p], ranked[b])
      BY <2>1, <3>1, Zenon DEF SamePricing
    <3> QED
      BY <3>2, <3>3, <3>4, Zenon
  <2>4. ASSUME Risky(best), NEW row \in ToSet(ranked), row.listing.launchable, ~Risky(row),
               ~row.overBudget, (row.cost = <<>>) = (best.cost = <<>>), 2 * Key(row) <= 3 * Key(best)
        PROVE  advice.safe # <<>>
    <3>1. PICK p \in 1..m : row = ranked[p]
      BY <1>4 DEF ToSet
    <3>2. Viable(ranked[p]) /\ SamePricing(ranked[p], ranked[b])
      BY <2>1, <2>4, <3>1, Zenon DEF Viable, SamePricing
    <3> QED
      BY <2>1, <2>4, <3>1, <3>2
  <2> HIDE DEF best
  <2> QED
    BY <1>10, <2>2, <2>3, <2>4, Zenon DEF RecommendationIsSound, usable, advice, best, ranked
<1> QED
  BY <1>9, <1>10

\* A report prices each GPU with a spec of its variants.
LEMMA ReportTellsApart ==
  ASSUME request \in Requests, NEW spec, Sized(spec), NEW listings \in Listings(request),
         report = Report(request, spec, listings)
  PROVE  NoGpuPassesForAnother
<1> DEFINE r == request
           db == Merged(r.remote)
           ranked == report.ranked
           of(i) == Row(r, spec, db, listings[i])
<1>1. IsRequest(r) /\ r.remote \in Seq(Specs)
  BY RequestsAssumption DEF IsRequest
<1>2. report.db = db
  BY ReportHas
<1>3. listings \in Seq(GpuListings) /\ db \in Seq(Specs)
  BY <1>1, OffersAreListed, MergedKeeps
<1> HIDE DEF ranked
<1>4. PICK m \in Nat :
        /\ DOMAIN ranked = 1..m
        /\ \A p \in 1..m : \E i \in DOMAIN listings : ranked[p] = of(i)
  <2>1. PICK m \in Nat : RowsOf(ranked, m, r, spec, listings)
    BY <1>1, <1>3, RankedAre DEF ranked
  <2> QED
    BY <2>1 DEF RowsOf
<1> HIDE DEF of
<1>5. ASSUME NEW p \in DOMAIN ranked, ranked[p].spec # 0
      PROVE  \E name \in Names(report.db[ranked[p].spec]) :
               ToSet(Normalized(ranked[p].listing.gpu)) \cap Variants
                 = ToSet(Normalized(name)) \cap Variants
  <2>1. PICK i \in DOMAIN listings : ranked[p] = of(i)
    BY <1>4
  <2>2. listings[i] \in GpuListings
    BY <1>3
  <2>3. of(i).listing = listings[i] /\ of(i).spec = Found(db, listings[i].gpu)
    BY <1>1, <1>3, <2>2, RowIsComparable DEF of
  <2> DEFINE gpu == listings[i].gpu
             found == Found(db, gpu)
  <2>4. gpu \in Seq(Vocabulary)
    BY <2>2 DEF GpuListings
  <2>5. found # 0 /\ ranked[p].spec = found /\ ranked[p].listing.gpu = gpu
    BY <1>5, <2>1, <2>3
  <2> HIDE DEF gpu, db
  <2>6. PICK name \in Names(db[found]) : MatchScore(Normalized(name), Normalized(gpu)) # 0
    BY <1>3, <2>4, <2>5, FoundMatches
  <2>7. name \in Seq(Vocabulary)
    <3>1. db[found] \in Specs
      <4>1. found \in DOMAIN db
        BY <1>3, <2>4, <2>5, FoundMatches
      <4> HIDE DEF found
      <4> QED
        BY <1>3, <4>1
    <3> HIDE DEF found
    <3>2. /\ db[found].name \in Seq(Vocabulary) /\ db[found].aliases \in SUBSET Seq(Vocabulary)
      BY <3>1 DEF Specs
    <3> QED
      BY <2>6, <3>2 DEF Names
  <2>8. ToSet(Normalized(gpu)) \cap Variants = ToSet(Normalized(name)) \cap Variants
    BY <2>4, <2>6, <2>7, NormalizedIsName, MatchHasVariants
  <2> QED
    BY <1>2, <2>5, <2>6, <2>8
<1>6. \A i \in DOMAIN Builtin : \A name \in Names(Builtin[i]) : Found(report.db, name) # 0
  BY <1>1, <1>2, BuiltinIsFound
<1> QED
  BY <1>5, <1>6 DEF NoGpuPassesForAnother, ranked

\* There is a report only once it is made, and then of the request.
AdviceInv ==
  /\ request \in Requests
  /\ report.at \in {"asked", "ready", "error"}
  /\ report.at = "ready" =>
       \E listings \in Listings(request) :
         \E spec : Sized(spec) /\ report = Report(request, spec, listings)

\* A report that is built has sound advice.
LEMMA BuildReportAdvises == AdviceInv /\ BuildReport => AdviceInv'
<1>1. SUFFICES ASSUME AdviceInv, BuildReport PROVE AdviceInv'
  OBVIOUS
<1> DEFINE spec == Resolve(request.model)
<1>2. request' = request /\ request \in Requests /\ ModelAssumed(request.model)
  BY <1>1, RequestsAssumption DEF AdviceInv, BuildReport, IsRequest
<1>3. spec # Failed => Sized(spec[1])
  BY <1>2, ResolveIsHonest
<1>4. CASE Supported(request.setup) /\ spec # Failed /\ FileIsValid(request.file)
  <2>1. PICK listings \in Listings(request) : report' = Report(request, spec[1], listings)
    BY <1>1, <1>4 DEF BuildReport
  <2>2. report'.at = "ready"
    BY <2>1, ReportHas
  <2>3. Listings(request') = Listings(request)
    BY <1>2
  <2> HIDE DEF spec
  <2> QED
    BY <1>2, <1>3, <1>4, <2>1, <2>2, <2>3 DEF AdviceInv
<1>5. CASE ~(Supported(request.setup) /\ spec # Failed /\ FileIsValid(request.file))
  <2>1. report' = [at |-> "error"]
    BY <1>1, <1>5 DEF BuildReport
  <2>2. report'.at = "error"
    BY <2>1
  <2> QED
    BY <1>2, <2>2 DEF AdviceInv
<1> QED
  BY <1>4, <1>5

\* The advice invariant, for every request.
LEMMA AdviceInvHolds == ReportSpec => []AdviceInv
<1>1. ReportInit => AdviceInv
  BY DEF ReportInit, AdviceInv, NotReady
<1>2. AdviceInv /\ [BuildReport]_reportVars => AdviceInv'
  <2>1. AdviceInv /\ UNCHANGED reportVars => AdviceInv'
    BY DEF AdviceInv, reportVars
  <2> QED
    BY <2>1, BuildReportAdvises
<1> QED
  BY <1>1, <1>2, PTL DEF ReportSpec

\* What is recommended can be launched, is in the budget, holds the model and
\* costs no more than any other offer of any provider that does; where there is
\* such an offer there is a recommendation; and a risky one comes with a safe
\* one that costs at most half as much again, if one is listed.
THEOREM AdviceCorrectness == ReportSpec => []RecommendationIsSound
<1>1. AdviceInv => RecommendationIsSound
  <2>1. CASE report.at # "ready"
    BY <2>1 DEF RecommendationIsSound
  <2>2. CASE report.at = "ready"
    BY <2>2, ReportIsSound DEF AdviceInv
  <2> QED
    BY <2>1, <2>2
<1> QED
  BY <1>1, AdviceInvHolds, PTL

\* An offer is priced only with a spec that has a name of its variants, and
\* every name that the built-in table knows is found in the merged one.
THEOREM VariantCorrectness == ReportSpec => []NoGpuPassesForAnother
<1>1. AdviceInv => NoGpuPassesForAnother
  <2>1. CASE report.at # "ready"
    BY <2>1 DEF NoGpuPassesForAnother
  <2>2. CASE report.at = "ready"
    BY <2>2, ReportTellsApart DEF AdviceInv
  <2> QED
    BY <2>1, <2>2
<1> QED
  BY <1>1, AdviceInvHolds, PTL

------------------------------------------------------------------------------
(* The count.                                                              *)

\* What CountsAreHonest needs to be inductive.
ReportInv ==
  /\ request \in Requests
  /\ report.at \in {"asked", "ready", "error"}
  /\ CountsAreHonest

\* A report that is built has honest counts.
LEMMA BuildReportIsHonest == ReportInv /\ BuildReport => ReportInv'
<1>1. SUFFICES ASSUME ReportInv, BuildReport PROVE ReportInv'
  OBVIOUS
<1> DEFINE w == request.model
           asked == Supported(request.setup) /\ FileIsValid(request.file)
<1>2. request' = request /\ request \in Requests /\ ModelAssumed(w)
  BY <1>1, RequestsAssumption DEF ReportInv, BuildReport, IsRequest
<1>3. /\ Resolve(w) # Failed => CountsOf(w, Resolve(w)[1])
      /\ w.override # <<>> /\ Resolve(w) = Failed =>
           IF w.onDisk THEN w.disk.config = "bad" ELSE ~w.offline /\ w.hub.config = "bad"
  BY <1>2, ResolveIsHonest
<1>4. CASE asked /\ Resolve(w) # Failed
  <2>1. PICK listings : report' = Report(request, Resolve(w)[1], listings)
    BY <1>1, <1>4 DEF BuildReport
  <2>2. report'.at = "ready" /\ report'.spec = Resolve(w)[1]
    BY <2>1, ReportHas
  <2>3. CountsOf(w, report'.spec)
    BY <1>3, <1>4, <2>2
  <2> QED
    BY <1>2, <2>2, <2>3 DEF ReportInv, CountsAreHonest, CountsOf
<1>5. CASE ~(asked /\ Resolve(w) # Failed)
  <2>1. report' = [at |-> "error"]
    BY <1>1, <1>5 DEF BuildReport
  <2>2. report'.at = "error"
    BY <2>1
  <2> QED
    BY <1>2, <1>3, <1>5, <2>2 DEF ReportInv, CountsAreHonest
<1> QED
  BY <1>4, <1>5

\* A report gives the count that was asked for, or one that the files or the
\* Hub vouch for, or says that it is an estimate; and a count that was given is
\* enough to get a report, for every request.
THEOREM CountCorrectness == ReportSpec => []CountsAreHonest
<1>1. ReportInit => ReportInv
  BY DEF ReportInit, ReportInv, CountsAreHonest, NotReady
<1>2. ReportInv /\ [BuildReport]_reportVars => ReportInv'
  <2>1. ReportInv /\ UNCHANGED reportVars => ReportInv'
    BY DEF ReportInv, reportVars, CountsAreHonest
  <2> QED
    BY <2>1, BuildReportIsHonest
<1>3. ReportInv => CountsAreHonest
  BY DEF ReportInv
<1> QED
  BY <1>1, <1>2, <1>3, PTL DEF ReportSpec
================================================================================
