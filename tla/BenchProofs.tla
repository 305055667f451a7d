------------------------------ MODULE BenchProofs ------------------------------
(***************************************************************************)
(* Bench and Subprocess, for every command line, choice of runtimes and    *)
(* batch sizes, number of iterations and budget, and whatever the children *)
(* do: no call leaves its child running; a planned measurement fits into   *)
(* its budget; no pair of runtime and batch size is lost or repeated; and  *)
(* the recommendation and the comparison are true of the rows.             *)
(***************************************************************************)
EXTENDS Bench, FiniteSetTheorems, SequenceTheorems, WellFoundedInduction, TLAPS

------------------------------------------------------------------------------
(* The child.  It lives between spawn() and the exit or kill that the poll *)
(* loop sees, so a running child is enough to know where the caller is.    *)

Overseen == call # "poll" => child \in {"none", "exited"}

LEMMA HarnessOverseen == Overseen /\ Harness => Overseen'
<1> SUFFICES ASSUME Overseen, Harness PROVE Overseen'
  OBVIOUS
<1>1. CASE UNCHANGED callVars
  BY <1>1 DEF Overseen, callVars
<1>2. CASE InferChild
  BY <1>2, <1>1 DEF InferChild, Call, Overseen
<1>3. CASE Collect \/ CollectError
  BY <1>3 DEF Collect, CollectError, Overseen
<1> QED
  BY <1>1, <1>2, <1>3 DEF Harness, Select, Load, LoadFails, LoadOom, InferHere, InferHereFails,
     Measure, Conclude, Save, SaveFails, Compare, Render

LEMMA ChildOverseen == Overseen /\ Child => Overseen'
BY DEF Overseen, Child, DriverLoads, DriverMeasures, DriverFails, DriverReports, LlamaReports,
   ChildRaises, ChildForks, HeirExits

LEMMA CallerOverseen == Overseen /\ (Caller \/ TimeoutElapses) => Overseen'
BY DEF Overseen, Caller, SeeExit, KillLate, JoinReaders, TimeoutElapses

\* Whichever of exit, timeout and kill comes first, a call that has returned
\* has no child left (output_with_timeout).
THEOREM ChildCorrectness == BenchSpec => []NoChildIsLeft
<1>1. BenchInit => Overseen
  BY DEF BenchInit, CallInit, Overseen
<1>2. Overseen /\ [BenchNext]_<<benchVars, callVars>> => Overseen'
  <2>1. Overseen /\ UNCHANGED callVars => Overseen'
    BY DEF Overseen, callVars
  <2> QED
    BY <2>1, HarnessOverseen, ChildOverseen, CallerOverseen DEF BenchNext, Ended
<1>3. Overseen => NoChildIsLeft
  BY DEF Overseen, NoChildIsLeft
<1> QED
  BY <1>1, <1>2, <1>3, PTL DEF BenchSpec

------------------------------------------------------------------------------
(* The budget.  What is planned stays as budget_guard has planned it until *)
(* it is measured.                                                         *)

Planned == pc = "measure" => \E cost \in PilotCosts : planned = [cost |-> cost, n |-> Guarded(cost)]

LEMMA HarnessPlanned == Planned /\ Harness => Planned'
<1> SUFFICES ASSUME Harness, pc' = "measure"
             PROVE  \E cost \in PilotCosts : planned' = [cost |-> cost, n |-> Guarded(cost)]
  BY DEF Planned, Guarded
<1>1. ~NextPair
  BY DEF NextPair
<1>2. InferHere
  BY <1>1 DEF Harness, Select, Load, LoadFails, LoadOom, InferChild, Collect, CollectError,
     InferHereFails, Measure, Conclude, Save, SaveFails, Compare, Render, Finish, Skip
<1> QED
  BY <1>2 DEF InferHere

\* A quotient is no more than what was divided.
LEMMA QuotientFits ==
  ASSUME NEW d \in Nat, NEW cost \in Nat \ {0}
  PROVE  d \div cost \in Nat /\ cost * (d \div cost) <= d
OBVIOUS

\* What budget_guard plans fits into the budget or is the floor.
LEMMA GuardedFits ==
  ASSUME NEW cost \in Nat
  PROVE  /\ Guarded(cost) > MinIterations => (Warmup + Guarded(cost)) * cost <= Budget
         /\ Guarded(cost) <= Iterations \/ Guarded(cost) = MinIterations
<1>1. /\ Warmup \in Nat /\ Budget \in Nat /\ MinIterations \in Nat /\ Iterations \in Nat
      /\ cost * (Warmup + Iterations) = (Warmup + Iterations) * cost
  BY BudgetAssumption, IterationsAssumption
<1>2. CASE cost = 0 \/ cost * (Warmup + Iterations) <= Budget
  BY <1>1, <1>2 DEF Guarded
<1>3. CASE cost # 0 /\ cost * (Warmup + Iterations) > Budget /\ cost * Warmup >= Budget
  <2>1. Guarded(cost) = MinIterations
    BY <1>1, <1>3 DEF Guarded
  <2> QED
    BY <1>1, <2>1
<1>4. CASE cost # 0 /\ cost * (Warmup + Iterations) > Budget /\ cost * Warmup < Budget
  <2> DEFINE d == Budget - cost * Warmup
             fit == d \div cost
  <2>1. cost * Warmup \in Nat /\ d \in Nat
    BY <1>1, <1>4
  <2>2. Guarded(cost) = IF fit > MinIterations THEN fit ELSE MinIterations
    BY <1>1, <1>4 DEF Guarded
  <2> HIDE DEF d
  <2>3. fit \in Nat /\ cost * fit <= d
    BY <1>4, <2>1, QuotientFits
  <2> HIDE DEF fit
  <2>4. (Warmup + fit) * cost = cost * Warmup + cost * fit
    BY <1>1, <2>3
  <2>5. (Warmup + fit) * cost <= Budget
    BY <1>1, <2>1, <2>3, <2>4 DEF d
  <2>6. fit <= Iterations
    <3> SUFFICES ASSUME fit > Iterations PROVE FALSE
      BY <1>1, <2>3
    <3>1. cost * fit >= cost * Iterations
      BY <1>1, <1>4, <2>3
    <3>2. cost * (Warmup + Iterations) = cost * Warmup + cost * Iterations
      BY <1>1
    <3> QED
      BY <1>1, <1>4, <2>1, <2>3, <2>4, <2>5, <3>1, <3>2
  <2> QED
    BY <1>1, <2>2, <2>3, <2>5, <2>6
<1> QED
  BY <1>1, <1>2, <1>3, <1>4

\* No more iterations are planned than were asked for, nor than fit into the
\* budget after the warm-up, unless it is the floor (budget_guard).
THEOREM BudgetCorrectness == BenchSpec => []IterationsFitBudget
<1>1. BenchInit => Planned
  BY DEF BenchInit, Planned
<1>2. Planned /\ [BenchNext]_<<benchVars, callVars>> => Planned'
  <2>1. Planned /\ UNCHANGED benchVars => Planned'
    BY DEF Planned, benchVars, Guarded
  <2> QED
    BY <2>1, HarnessPlanned DEF BenchNext, Ended, Child
<1>3. Planned => IterationsFitBudget
  <2> SUFFICES ASSUME Planned, pc = "measure" PROVE IterationsFitBudget
    BY DEF IterationsFitBudget
  <2>1. PICK cost \in PilotCosts : planned = [cost |-> cost, n |-> Guarded(cost)]
    BY DEF Planned
  <2>2. cost \in Nat
    BY <2>1, BudgetAssumption
  <2> QED
    BY <2>1, <2>2, GuardedFits DEF IterationsFitBudget
<1> QED
  BY <1>1, <1>2, <1>3, PTL DEF BenchSpec

------------------------------------------------------------------------------
(* The pairs.  A pair is a place in the registry and one in the list of    *)
(* batch sizes, and they are dealt with in that order.                     *)

Working == {"load", "infer", "call", "measure"}

\* The pairs dealt with, as in EveryPairIsAccounted.
Done ==
  {<<Registry[i], Batches[k]>> : i \in Chosen \ runtimes, k \in DOMAIN Batches}
  \cup (IF runtimes = {} THEN {} ELSE {<<Running, Batches[k]>> : k \in 1..(at - 1)})

Measured == {<<r.runtime, r.batch>> : r \in Names(results)}

DealtWith(i, k) == i \notin runtimes \/ (i = Min(runtimes) /\ k < at)

Places ==
  /\ runtimes \subseteq Chosen /\ at \in DOMAIN Batches
  /\ pc \in Working => runtimes # {}

LEMMA LeastOf ==
  ASSUME NEW S \in SUBSET Nat, S # {}
  PROVE  Min(S) \in S /\ \A x \in S : Min(S) <= x
<1>1. PICK x \in S : \A y \in S : ~(<<y, x>> \in OpToRel(<, Nat))
  BY NatLessThanWellFounded, WFMin
<1>2. ASSUME NEW y \in S PROVE x <= y
  <2>1. <<y, x>> \in Nat \X Nat
    OBVIOUS
  <2>2. ~(y < x)
    BY <1>1, <2>1 DEF OpToRel
  <2> QED
    BY <2>2
<1> QED
  BY <1>2 DEF Min

LEMMA RegistryFacts ==
  /\ DOMAIN Registry = 1..6 /\ Chosen \subseteq 1..6
  /\ \A i, j \in 1..6 : Registry[i] = Registry[j] => i = j
<1>1. DOMAIN Registry = 1..6
  BY DEF Registry
<1>2. Chosen \subseteq 1..6
  BY <1>1 DEF Chosen, Listed, Registered
<1>3. \A i, j \in 1..6 : Registry[i] = Registry[j] => i = j
  <2>1. \A i \in 1..6 : i = 1 \/ i = 2 \/ i = 3 \/ i = 4 \/ i = 5 \/ i = 6
    OBVIOUS
  <2>2. /\ Registry[1] = "transformers" /\ Registry[2] = "torchscript" /\ Registry[3] = "onnxruntime"
        /\ Registry[4] = "tensorrt" /\ Registry[5] = "llamacpp" /\ Registry[6] = "metal-gemv"
    BY DEF Registry, Kernel
  <2> QED
    BY <2>1, <2>2
<1> QED
  BY <1>1, <1>2, <1>3

LEMMA DoneByPlace ==
  Places => \A p : p \in Done <=> \E i \in Chosen, k \in DOMAIN Batches :
                                   DealtWith(i, k) /\ p = <<Registry[i], Batches[k]>>
<1> SUFFICES ASSUME Places
             PROVE  \A p : p \in Done <=> \E i \in Chosen, k \in DOMAIN Batches :
                                          DealtWith(i, k) /\ p = <<Registry[i], Batches[k]>>
  OBVIOUS
<1>1. Batches \in Seq(Nat \ {0}) /\ DOMAIN Batches = 1..Len(Batches) /\ Len(Batches) \in Nat
  BY BatchesAssumption
<1>2. runtimes # {} => Min(runtimes) \in runtimes
  BY RegistryFacts, LeastOf DEF Places
<1>3. ASSUME NEW i \in Chosen, NEW k \in DOMAIN Batches, DealtWith(i, k)
      PROVE  <<Registry[i], Batches[k]>> \in Done
  <2>1. CASE i \notin runtimes
    BY <1>3, <2>1 DEF Done
  <2>2. CASE i \in runtimes
    <3>1. runtimes # {} /\ i = Min(runtimes) /\ k \in 1..(at - 1)
      BY <1>1, <1>3, <2>2 DEF DealtWith, Places
    <3> QED
      BY <3>1 DEF Done, Running
  <2> QED
    BY <2>1, <2>2
<1>4. ASSUME NEW p \in Done
      PROVE  \E i \in Chosen, k \in DOMAIN Batches :
               DealtWith(i, k) /\ p = <<Registry[i], Batches[k]>>
  <2>1. CASE \E i \in Chosen \ runtimes, k \in DOMAIN Batches : p = <<Registry[i], Batches[k]>>
    BY <2>1 DEF DealtWith
  <2>2. CASE runtimes # {} /\ \E k \in 1..(at - 1) : p = <<Running, Batches[k]>>
    <3>1. PICK k \in 1..(at - 1) : p = <<Running, Batches[k]>>
      BY <2>2
    <3>2. k \in DOMAIN Batches /\ k < at
      BY <1>1 DEF Places
    <3>3. Min(runtimes) \in Chosen
      BY <1>2, <2>2 DEF Places
    <3> QED
      BY <3>1, <3>2, <3>3 DEF DealtWith, Running
  <2> QED
    BY <1>4, <2>1, <2>2 DEF Done
<1> QED
  BY <1>3, <1>4

\* The step to the next pair.
Advance ==
  /\ cmd' = cmd
  /\ \/ at < Len(Batches) /\ at' = at + 1 /\ runtimes' = runtimes
     \/ at = Len(Batches) /\ at' = 1 /\ runtimes' = runtimes \ {Min(runtimes)}

\* One pair after the other is dealt with, and none of them before.
LEMMA DoneGrows ==
  DistinctBatches /\ Places /\ runtimes # {} /\ Advance =>
    /\ Pair \notin Done
    /\ at' \in DOMAIN Batches /\ runtimes' \subseteq Chosen' /\ Chosen' = Chosen
    /\ Places' => Done' = Done \cup {Pair}
<1> DEFINE n == Len(Batches)
           m == Min(runtimes)
<1>0. SUFFICES ASSUME DistinctBatches, Places, runtimes # {}, Advance
               PROVE  /\ Pair \notin Done
                      /\ at' \in DOMAIN Batches /\ runtimes' \subseteq Chosen' /\ Chosen' = Chosen
                      /\ Places' => Done' = Done \cup {Pair}
  OBVIOUS
<1>1. DOMAIN Batches = 1..n /\ n \in Nat /\ at \in 1..n
  BY <1>0, BatchesAssumption DEF Places
<1>9. \A k, l \in 1..n : Batches[k] = Batches[l] => k = l
  BY <1>0, <1>1 DEF DistinctBatches
<1>2. m \in runtimes /\ m \in Chosen /\ m \in 1..6 /\ Pair = <<Registry[m], Batches[at]>>
  <2>1. Min(runtimes) \in runtimes
    BY <1>0, RegistryFacts, LeastOf DEF Places
  <2> QED
    BY <1>0, <2>1, RegistryFacts DEF Places, Pair, Running
<1>3. Chosen' = Chosen
  BY <1>0 DEF Advance, Chosen, Listed, Registered, Selected, Usable
<1>4. \/ at < n /\ at' = at + 1 /\ runtimes' = runtimes
      \/ at = n /\ at' = 1 /\ runtimes' = runtimes \ {m}
  BY <1>0 DEF Advance
<1>5. at' \in DOMAIN Batches /\ runtimes' \subseteq Chosen'
  <2>1. runtimes \subseteq Chosen
    BY <1>0 DEF Places
  <2>2. runtimes' \subseteq runtimes /\ at' \in 1..n
    <3> HIDE DEF n
    <3> QED
      BY <1>1, <1>4
  <2> QED
    BY <1>1, <1>3, <2>1, <2>2
<1>6. ASSUME NEW i \in Chosen, NEW k \in 1..n
      PROVE  <<Registry[i], Batches[k]>> = Pair <=> i = m /\ k = at
  BY <1>1, <1>2, <1>9, RegistryFacts
<1>7. Pair \notin Done
  <2>1. SUFFICES ASSUME NEW i \in Chosen, NEW k \in 1..n, DealtWith(i, k),
                      Pair = <<Registry[i], Batches[k]>>
               PROVE  FALSE
    BY <1>0, <1>1, DoneByPlace
  <2>2. i = m /\ k = at
    BY <1>6, <2>1
  <2>3. i \in runtimes /\ at < at
    BY <1>2, <2>1, <2>2 DEF DealtWith
  <2> QED
    BY <1>1, <2>3
<1>8. ASSUME Places' PROVE Done' = Done \cup {Pair}
  <2>1. ASSUME NEW i \in Chosen, NEW k \in 1..n
        PROVE  DealtWith(i, k)' <=> DealtWith(i, k) \/ (i = m /\ k = at)
    <3> DEFINE l == Min(runtimes')
    <3>1. CASE at < n /\ at' = at + 1 /\ runtimes' = runtimes
      <4>1. DealtWith(i, k)' <=> i \notin runtimes \/ (i = m /\ k < at + 1)
        BY <3>1, Zenon DEF DealtWith
      <4>2. k < at + 1 <=> k < at \/ k = at
        BY <1>1
      <4> QED
        BY <4>1, <4>2 DEF DealtWith
    <3>2. CASE at = n /\ at' = 1 /\ runtimes' = runtimes \ {m}
      <4>1. DealtWith(i, k)' <=> i \notin runtimes' \/ (i = l /\ k < 1)
        BY <3>2, Zenon DEF DealtWith
      <4>2. ~(k < 1) /\ (k < at \/ k = at)
        <5> HIDE DEF n
        <5> QED
          BY <1>1, <3>2
      <4>3. i \notin runtimes' <=> i \notin runtimes \/ i = m
        BY <3>2
      <4> QED
        BY <4>1, <4>2, <4>3 DEF DealtWith
    <3> QED
      BY <1>4, <3>1, <3>2
  <2>2. \A p : p \in Done' <=> \E i \in Chosen, k \in 1..n :
                                 DealtWith(i, k)' /\ p = <<Registry[i], Batches[k]>>
    <3>1. (\A p : p \in Done <=> \E i \in Chosen, k \in DOMAIN Batches :
                                   DealtWith(i, k) /\ p = <<Registry[i], Batches[k]>>)'
      BY <1>8, DoneByPlace, PTL
    <3> QED
      BY <1>1, <1>3, <3>1, ZenonT(40)
  <2>3. \A p : p \in Done <=> \E i \in Chosen, k \in 1..n :
                                DealtWith(i, k) /\ p = <<Registry[i], Batches[k]>>
    BY <1>0, <1>1, DoneByPlace
  <2>4. m \in Chosen /\ at \in 1..n
    BY <1>1, <1>2
  <2> HIDE DEF m, n
  <2>5. ASSUME NEW p PROVE p \in Done' <=> p \in Done \/ p = Pair
    <3>1. CASE p = Pair
      <4>1. PICK i \in Chosen, k \in 1..n : i = m /\ k = at
        BY <2>4
      <4>2. p = <<Registry[i], Batches[k]>>
        BY <1>2, <3>1, <4>1
      <4>3. DealtWith(i, k)'
        BY <2>1, <4>1
      <4> QED
        BY <2>2, <3>1, <4>2, <4>3, Zenon
    <3>2. CASE p # Pair
      <4>1. ASSUME NEW i \in Chosen, NEW k \in 1..n, p = <<Registry[i], Batches[k]>>
            PROVE  DealtWith(i, k)' <=> DealtWith(i, k)
        BY <1>6, <2>1, <3>2, <4>1
      <4> QED
        BY <2>2, <2>3, <3>2, <4>1, Zenon
    <3> QED
      BY <3>1, <3>2
  <2> QED
    BY <2>5
<1> QED
  BY <1>3, <1>5, <1>7, <1>8

\* What a step keeps that only finishes or gives up pairs.
Accounted ==
  /\ Places
  /\ results \in Seq(Names(results))
  /\ \A r \in Names(results) : r.of = <<r.runtime, r.batch>>
  /\ DOMAIN engine = {"model", "samplesOf"}
  /\ pc = "infer" => engine.samplesOf = NoPair
  /\ pc \in {"call", "measure"} => engine.samplesOf = Pair
  /\ pc = "measure" => Running = Kernel
  /\ pc = "start" => results = <<>> /\ skipped = {} /\ at = 1
  /\ \A i, j \in DOMAIN results : Same(results[i], results[j]) => i = j
  /\ pc \notin {"start", "failed"} =>
       /\ Done = Measured \cup {p \in skipped : p[2] # 0}
       /\ Measured \cap skipped = {}

\* t is s with e at the end.
Extends(t, s, e) ==
  /\ t \in Seq(Names(t)) /\ Names(t) = Names(s) \cup {e}
  /\ DOMAIN s = 1..Len(s) /\ DOMAIN t = 1..(Len(s) + 1) /\ Len(s) \in Nat
  /\ t[Len(s) + 1] = e /\ \A i \in 1..Len(s) : t[i] = s[i]

LEMMA AppendNames ==
  ASSUME NEW s, s \in Seq(Names(s)), NEW e, NEW t, t = Append(s, e)
  PROVE  Extends(t, s, e)
<1> DEFINE n == Len(s)
           T == Names(s) \cup {e}
<1>1. s \in Seq(T) /\ n \in Nat /\ DOMAIN s = 1..n
  <2>1. DOMAIN s = 1..Len(s) /\ Len(s) \in Nat /\ \A i \in 1..Len(s) : s[i] \in Names(s)
    BY LenProperties DEF Names
  <2>2. \A i \in 1..Len(s) : s[i] \in T
    BY <2>1
  <2>3. s = [i \in 1..Len(s) |-> s[i]]
    BY LenProperties
  <2> HIDE DEF T
  <2> QED
    BY <2>1, <2>2, <2>3
<1>2. /\ t \in Seq(T) /\ Len(t) = n + 1 /\ t[n + 1] = e
      /\ \A i \in 1..n : t[i] = s[i]
  <2>1. e \in T
    OBVIOUS
  <2> HIDE DEF T
  <2> QED
    BY <1>1, <2>1, AppendProperties
<1>3. DOMAIN t = 1..(n + 1)
  BY <1>2, LenProperties
<1>4. Names(t) = T
  <2> HIDE DEF n
  <2>1. \A i \in 1..(n + 1) : i \in 1..n \/ i = n + 1
    BY <1>1
  <2>2. n + 1 \in 1..(n + 1) /\ \A i \in 1..n : i \in 1..(n + 1)
    BY <1>1
  <2>3. \A x \in Names(t) : x \in T
    BY <1>1, <1>2, <1>3, <2>1 DEF Names
  <2>4. \A x \in T : x \in Names(t)
    BY <1>1, <1>2, <1>3, <2>2 DEF Names
  <2> QED
    BY <2>3, <2>4
<1> QED
  BY <1>1, <1>2, <1>3, <1>4 DEF Extends

\* The loop goes on to the next pair.
LEMMA NextPairAdvances ==
  Places /\ pc \in Working /\ NextPair =>
    /\ Advance /\ pc' \in {"load", "conclude"}
    /\ runtimes # {} /\ (pc' = "load" => runtimes' # {})
<1>1. SUFFICES ASSUME Places, pc \in Working, NextPair
               PROVE  /\ Advance /\ pc' \in {"load", "conclude"}
                      /\ runtimes # {} /\ (pc' = "load" => runtimes' # {})
  OBVIOUS
<1> DEFINE n == Len(Batches)
<1>2. DOMAIN Batches = 1..n /\ n \in Nat /\ at \in 1..n
  BY <1>1, BatchesAssumption DEF Places
<1>3. at < n \/ at = n
  <2> HIDE DEF n
  <2> QED
    BY <1>2
<1>4. runtimes # {}
  BY <1>1 DEF Places
<1>5. CASE at < n
  BY <1>1, <1>4, <1>5 DEF NextPair, Advance
<1>6. CASE at = n
  <2>1. ~(at < n)
    BY <1>2, <1>6
  <2> QED
    BY <1>1, <1>4, <1>6, <2>1 DEF NextPair, Advance
<1> QED
  BY <1>3, <1>5, <1>6

LEMMA FinishAccounted ==
  ASSUME NEW row
  PROVE  /\ DistinctBatches /\ Accounted /\ pc \in Working /\ Finish(row)
         /\ row.runtime = Running /\ row.batch = Batches[at] /\ row.of = Pair
         => Accounted'
<1>1. SUFFICES ASSUME DistinctBatches, Accounted, pc \in Working, Finish(row),
                      row.runtime = Running, row.batch = Batches[at], row.of = Pair
               PROVE  Accounted'
  OBVIOUS
<1>2. /\ Advance /\ pc' \in {"load", "conclude"}
      /\ runtimes # {} /\ (pc' = "load" => runtimes' # {})
  BY <1>1, NextPairAdvances DEF Accounted, Finish
<1>3. /\ Pair \notin Done
      /\ at' \in DOMAIN Batches /\ runtimes' \subseteq Chosen' /\ Chosen' = Chosen
      /\ Places' => Done' = Done \cup {Pair}
  BY <1>1, <1>2, DoneGrows DEF Accounted
<1>4. Places'
  BY <1>2, <1>3 DEF Places, Working
<1>5. /\ results \in Seq(Names(results)) /\ results' = Append(results, row)
      /\ skipped' = skipped /\ engine' = Idle
  BY <1>1 DEF Accounted, Finish
<1> DEFINE n == Len(results)
<1>6. /\ results' \in Seq(Names(results')) /\ Names(results') = Names(results) \cup {row}
      /\ DOMAIN results = 1..n /\ DOMAIN results' = 1..(n + 1) /\ n \in Nat
      /\ results'[n + 1] = row /\ \A i \in 1..n : results'[i] = results[i]
  <2>1. PICK t : t = results'
    OBVIOUS
  <2>2. t = Append(results, row)
    BY <1>5, <2>1
  <2>3. Extends(t, results, row)
    BY <1>5, <2>2, AppendNames
  <2> QED
    BY <2>1, <2>3 DEF Extends
<1>7. /\ \A i, j \in 1..n : Same(results[i], results[j]) => i = j
      /\ Done = Measured \cup {p \in skipped : p[2] # 0}
      /\ Measured \cap skipped = {}
      /\ \A r \in Names(results) : r.of = <<r.runtime, r.batch>>
  BY <1>1, <1>6 DEF Accounted, Working
<1>8. Pair = <<row.runtime, row.batch>> /\ Pair[2] # 0
  <2>1. Batches[at] \in Nat \ {0}
    BY <1>1, BatchesAssumption DEF Accounted, Places
  <2> QED
    BY <1>1, <2>1 DEF Pair
<1>9. \A i \in 1..n : <<results[i].runtime, results[i].batch>> \in Measured
  BY <1>6 DEF Measured, Names
<1>10. Measured' = Measured \cup {Pair}
  BY <1>6, <1>8 DEF Measured
<1> HIDE DEF n
<1>11. \A i, j \in 1..(n + 1) : Same(results'[i], results'[j]) => i = j
  <2> SUFFICES ASSUME NEW i \in 1..(n + 1), NEW j \in 1..(n + 1), Same(results'[i], results'[j])
               PROVE  i = j
    OBVIOUS
  <2>1. (i \in 1..n \/ i = n + 1) /\ (j \in 1..n \/ j = n + 1)
    BY <1>6
  <2>2. CASE i \in 1..n /\ j \in 1..n
    BY <1>6, <1>7, <2>2
  <2>3. ASSUME NEW k \in 1..n PROVE ~Same(results'[k], row) /\ ~Same(row, results'[k])
    BY <1>3, <1>6, <1>7, <1>8, <1>9 DEF Same
  <2> QED
    BY <1>6, <2>1, <2>2, <2>3
<1>12. /\ Done' = Measured' \cup {p \in skipped' : p[2] # 0}
       /\ Measured' \cap skipped' = {}
  BY <1>3, <1>4, <1>5, <1>7, <1>8, <1>10
<1>13. /\ \A r \in Names(results') : r.of = <<r.runtime, r.batch>>
       /\ DOMAIN engine' = {"model", "samplesOf"}
  BY <1>1, <1>5, <1>6, <1>7, <1>8 DEF Idle
<1> QED
  BY <1>2, <1>4, <1>6, <1>11, <1>12, <1>13 DEF Accounted

LEMMA SkipAccounted ==
  /\ DistinctBatches /\ Accounted /\ pc \in Working /\ Skip
  /\ engine' = engine \/ engine' = Idle
  => Accounted'
<1>1. SUFFICES ASSUME DistinctBatches, Accounted, pc \in Working, Skip,
                      engine' = engine \/ engine' = Idle
               PROVE  Accounted'
  OBVIOUS
<1>2. /\ Advance /\ pc' \in {"load", "conclude"}
      /\ runtimes # {} /\ (pc' = "load" => runtimes' # {})
  BY <1>1, NextPairAdvances DEF Accounted, Skip
<1>3. /\ Pair \notin Done
      /\ at' \in DOMAIN Batches /\ runtimes' \subseteq Chosen' /\ Chosen' = Chosen
      /\ Places' => Done' = Done \cup {Pair}
  BY <1>1, <1>2, DoneGrows DEF Accounted
<1>4. Places'
  BY <1>2, <1>3 DEF Places, Working
<1>5. results' = results /\ skipped' = skipped \cup {Pair}
  BY <1>1 DEF Skip
<1>6. Pair[2] # 0
  <2>1. Batches[at] \in Nat \ {0}
    BY <1>1, BatchesAssumption DEF Accounted, Places
  <2> QED
    BY <2>1 DEF Pair
<1>7. /\ \A i, j \in DOMAIN results : Same(results[i], results[j]) => i = j
      /\ Done = Measured \cup {p \in skipped : p[2] # 0}
      /\ Measured \cap skipped = {}
      /\ \A r \in Names(results) : r.of = <<r.runtime, r.batch>>
      /\ results \in Seq(Names(results))
  BY <1>1 DEF Accounted, Working
<1>8. Measured' = Measured
  BY <1>5 DEF Measured
<1>9. /\ Done' = Measured' \cup {p \in skipped' : p[2] # 0}
      /\ Measured' \cap skipped' = {}
  BY <1>3, <1>4, <1>5, <1>6, <1>7, <1>8
<1>10. DOMAIN engine' = {"model", "samplesOf"}
  BY <1>1 DEF Accounted, Idle
<1> QED
  BY <1>2, <1>4, <1>5, <1>7, <1>9, <1>10 DEF Accounted

\* The other steps deal with no pair.
LEMMA SamePairs ==
  /\ Accounted /\ pc \notin {"start", "failed"}
  /\ UNCHANGED <<cmd, runtimes, at, results, skipped>>
  /\ pc' # "start" /\ (pc' \in Working => pc \in Working)
  /\ DOMAIN engine' = {"model", "samplesOf"}
  /\ (pc' = "infer" => engine'.samplesOf = NoPair)
  /\ (pc' \in {"call", "measure"} => engine'.samplesOf = Pair)
  /\ (pc' = "measure" => Running = Kernel)
  => Accounted'
<1>1. SUFFICES ASSUME Accounted, pc \notin {"start", "failed"},
                      UNCHANGED <<cmd, runtimes, at, results, skipped>>,
                      pc' # "start", pc' \in Working => pc \in Working,
                      DOMAIN engine' = {"model", "samplesOf"},
                      pc' = "infer" => engine'.samplesOf = NoPair,
                      pc' \in {"call", "measure"} => engine'.samplesOf = Pair,
                      pc' = "measure" => Running = Kernel
               PROVE  Accounted'
  OBVIOUS
<1>2. Chosen' = Chosen
  BY <1>1 DEF Chosen, Listed, Registered, Selected, Usable
<1>3. Done' = Done /\ Measured' = Measured /\ Pair' = Pair /\ Running' = Running
  BY <1>1, <1>2 DEF Done, Measured, Pair, Running
<1>4. Places'
  BY <1>1, <1>2 DEF Accounted, Places
<1> QED
  BY <1>1, <1>3, <1>4 DEF Accounted

LEMMA HarnessAccounted == DistinctBatches /\ Accounted /\ Harness => Accounted'
<1>1. SUFFICES ASSUME DistinctBatches, Accounted, Harness PROVE Accounted'
  OBVIOUS
<1>2. CASE Select
  <2>1. /\ pc = "start" /\ results' = results /\ at' = at /\ engine' = engine /\ cmd' = cmd
        /\ \/ pc' = "failed" /\ runtimes' = runtimes /\ skipped' = skipped
           \/ /\ runtimes' = Chosen /\ skipped' = {<<Registry[i], 0>> : i \in Listed \ Chosen}
              /\ pc' = IF Chosen = {} THEN "done" ELSE "load"
    BY <1>2 DEF Select
  <2>2. Chosen' = Chosen
    BY <2>1 DEF Chosen, Listed, Registered, Selected, Usable
  <2>3. /\ results = <<>> /\ skipped = {} /\ DOMAIN engine = {"model", "samplesOf"}
        /\ at \in DOMAIN Batches /\ runtimes \subseteq Chosen
        /\ results \in Seq(Names(results)) /\ \A r \in Names(results) : r.of = <<r.runtime, r.batch>>
    BY <1>1, <2>1 DEF Accounted, Places
  <2>4. CASE pc' = "failed"
    <3>1. Places'
      BY <2>1, <2>2, <2>3, <2>4 DEF Places, Working
    <3>2. DOMAIN results = {}
      BY <2>3
    <3> QED
      BY <2>1, <2>3, <2>4, <3>1, <3>2 DEF Accounted
  <2>5. CASE /\ runtimes' = Chosen /\ skipped' = {<<Registry[i], 0>> : i \in Listed \ Chosen}
             /\ pc' = IF Chosen = {} THEN "done" ELSE "load"
    <3>1. Places'
      BY <2>1, <2>2, <2>3, <2>5 DEF Places, Working
    <3>2. DOMAIN results = {} /\ Names(results') = {} /\ Measured' = {}
      BY <2>1, <2>3 DEF Measured, Names
    <3>3. {p \in skipped' : p[2] # 0} = {}
      BY <2>5
    <3>4. at = 1
      BY <1>1, <2>1 DEF Accounted
    <3>5. Done' = {}
      BY <2>1, <2>2, <2>5, <3>4 DEF Done
    <3> QED
      BY <2>1, <2>3, <2>5, <3>1, <3>2, <3>3, <3>5 DEF Accounted
  <2> QED
    BY <2>1, <2>4, <2>5
<1>3. CASE Load
  BY <1>1, <1>3, SamePairs DEF Load, Working
<1>4. CASE LoadFails
  BY <1>1, <1>4, SkipAccounted DEF LoadFails, Working
<1>5. OomRow.runtime = Running /\ OomRow.batch = Batches[at] /\ OomRow.of = Pair
  BY DEF OomRow
<1>6. CASE LoadOom
  BY <1>1, <1>5, <1>6, FinishAccounted DEF LoadOom, Working
<1>7. Input \in DOMAIN Batches /\ Batches[Input] = Batches[at]
  <2> DEFINE S == {i \in DOMAIN Batches : Batches[i] = Batches[at]}
  <2>1. S \subseteq Nat /\ S # {}
    BY <1>1, BatchesAssumption DEF Accounted, Places
  <2>2. Min(S) \in S
    <3> HIDE DEF S
    <3> QED
      BY <2>1, LeastOf
  <2> QED
    BY <2>2 DEF Input
<1>8. <<Running, Batches[Input]>> = Pair
  BY <1>7 DEF Pair
<1>9. CASE InferChild
  <2>1. /\ engine.samplesOf = NoPair /\ DOMAIN engine = {"model", "samplesOf"}
        /\ engine' = [engine EXCEPT !.samplesOf = <<Running, Batches[Input]>>]
    BY <1>1, <1>9 DEF InferChild, Accounted
  <2>2. engine'.samplesOf = Pair /\ DOMAIN engine' = {"model", "samplesOf"}
    BY <1>8, <2>1
  <2> QED
    BY <1>1, <1>9, <2>2, SamePairs DEF InferChild, Working
<1>10. CASE InferHere
  <2>1. /\ DOMAIN engine = {"model", "samplesOf"} /\ Running = Kernel
        /\ engine' = [engine EXCEPT !.samplesOf = <<Kernel, Batches[Input]>>]
    BY <1>1, <1>10 DEF InferHere, Accounted
  <2>2. engine'.samplesOf = Pair /\ DOMAIN engine' = {"model", "samplesOf"}
    BY <1>8, <2>1
  <2> QED
    BY <1>1, <1>10, <2>2, SamePairs DEF InferHere, Working
<1>11. CASE Collect
  <2>1. PICK p \in Vary("latency"), t \in Vary("throughput"), m \in Vary("memory") :
          Finish([runtime |-> Running, batch |-> Batches[at],
                  of |-> engine.samplesOf, n |-> out.latencies, p99 |-> p, tput |-> t,
                  mem |-> IF Memory = "none" THEN 0 ELSE m, source |-> Memory,
                  oom |-> FALSE])
    BY <1>11 DEF Collect
  <2>2. pc = "call" /\ engine.samplesOf = Pair
    BY <1>1, <1>11 DEF Collect, Accounted
  <2> QED
    BY <1>1, <2>1, <2>2, FinishAccounted DEF Working
<1>12. CASE CollectError
  <2>1. pc = "call" /\ (Finish(OomRow) \/ (Skip /\ engine' = Idle))
    BY <1>12 DEF CollectError
  <2> QED
    BY <1>1, <1>5, <2>1, FinishAccounted, SkipAccounted DEF Working
<1>13. CASE InferHereFails
  <2>1. pc = "infer" /\ (Finish(OomRow) \/ (Skip /\ engine' = Idle))
    BY <1>13 DEF InferHereFails
  <2> QED
    BY <1>1, <1>5, <2>1, FinishAccounted, SkipAccounted DEF Working
<1>14. CASE Measure
  <2>1. PICK n, oom, p, t :
          Finish([runtime |-> Kernel, batch |-> Batches[at], of |-> engine.samplesOf,
                  n |-> n, p99 |-> IF n = 0 THEN 0 ELSE p, tput |-> IF oom THEN 0 ELSE t,
                  mem |-> 0, source |-> "nvml", oom |-> oom])
    BY <1>14 DEF Measure
  <2>2. pc = "measure"
    BY <1>14 DEF Measure
  <2>3. engine.samplesOf = Pair /\ Running = Kernel
    BY <1>1, <2>2 DEF Accounted
  <2> QED
    BY <1>1, <2>1, <2>2, <2>3, FinishAccounted DEF Working
<1>15. ASSUME pc \in {"conclude", "save", "compare", "render"},
              pc' \in {"save", "compare", "render", "done", "failed"},
              UNCHANGED <<cmd, runtimes, at, results, skipped, engine>>
       PROVE  Accounted'
  <2>1. DOMAIN engine = {"model", "samplesOf"}
    BY <1>1 DEF Accounted
  <2> QED
    BY <1>1, <1>15, <2>1, SamePairs DEF Working
<1>16. CASE Conclude \/ Save \/ SaveFails \/ Compare \/ Render
  BY <1>15, <1>16 DEF Conclude, Save, SaveFails, Compare, Render
<1> QED
  BY <1>1, <1>2, <1>3, <1>4, <1>6, <1>9, <1>10, <1>11, <1>12, <1>13, <1>14, <1>16 DEF Harness

LEMMA AccountedAlways == ASSUME DistinctBatches PROVE BenchSpec => []Accounted
<1>1. BenchInit => Accounted
  <2> SUFFICES ASSUME BenchInit PROVE Accounted
    OBVIOUS
  <2>1. Names(results) = {} /\ results = <<>> /\ DOMAIN results = {}
    BY DEF BenchInit, Names
  <2>2. results \in Seq(Names(results))
    BY <2>1
  <2>3. Places
    BY BatchesAssumption DEF BenchInit, Places, Working
  <2> QED
    BY <2>1, <2>2, <2>3 DEF BenchInit, Accounted, Idle
<1>2. Accounted /\ [BenchNext]_<<benchVars, callVars>> => Accounted'
  <2>1. Accounted /\ UNCHANGED benchVars => Accounted'
    <3>1. SUFFICES ASSUME Accounted, UNCHANGED benchVars PROVE Accounted'
      OBVIOUS
    <3>2. /\ UNCHANGED <<pc, cmd, runtimes, at, results, skipped, engine>>
          /\ Chosen' = Chosen
      BY <3>1 DEF benchVars, Chosen, Listed, Registered, Selected, Usable
    <3>3. /\ Done' = Done /\ Measured' = Measured /\ Places' = Places
          /\ Pair' = Pair /\ Running' = Running
      BY <3>2 DEF Done, Measured, Pair, Running, Places
    <3> QED
      BY <3>1, <3>2, <3>3 DEF Accounted
  <2> QED
    BY <2>1, HarnessAccounted DEF BenchNext, Ended, Child
<1> QED
  BY <1>1, <1>2, PTL DEF BenchSpec

\* No pair is silently absent or counted twice, and every row has the samples
\* of its own pair, for all batch sizes and command lines and whatever fails
\* (run_runtime_benchmarks).
THEOREM AccountCorrectness ==
  ASSUME DistinctBatches
  PROVE  BenchSpec => []EveryPairIsAccounted
<1>1. Accounted => EveryPairIsAccounted
  BY DEF Accounted, EveryPairIsAccounted, Done, Measured
<1> QED
  BY <1>1, AccountedAlways, PTL

------------------------------------------------------------------------------
(* The recommendation.                                                     *)

\* Among finitely many, ordered, one comes before all others.
LEMMA Unbeaten ==
  ASSUME NEW G, IsFiniteSet(G), G # {}, NEW R,
         \A i \in G : <<i, i>> \notin R,
         \A i, j, k \in G : <<i, j>> \in R /\ <<j, k>> \in R => <<i, k>> \in R
  PROVE  \E i \in G : \A j \in G : <<j, i>> \notin R
<1> DEFINE Before(i) == {j \in G : <<j, i>> \in R}
           T == {Cardinality(Before(i)) : i \in G}
<1>1. ASSUME NEW i \in G
      PROVE  IsFiniteSet(Before(i)) /\ Cardinality(Before(i)) \in Nat
  <2>1. Before(i) \in SUBSET G
    OBVIOUS
  <2> HIDE DEF Before
  <2> QED
    BY <2>1, FS_Subset, FS_CardinalityType
<1>2. PICK i \in G : \A j \in G : Cardinality(Before(i)) <= Cardinality(Before(j))
  <2> HIDE DEF Before
  <2>1. T \in SUBSET Nat /\ T # {}
    BY <1>1
  <2>2. Min(T) \in T /\ \A x \in T : Min(T) <= x
    <3> HIDE DEF T
    <3> QED
      BY <2>1, LeastOf
  <2>3. PICK i \in G : Cardinality(Before(i)) = Min(T)
    BY <2>2
  <2>4. \A j \in G : Cardinality(Before(j)) \in T
    OBVIOUS
  <2> HIDE DEF T
  <2>5. \A j \in G : Cardinality(Before(i)) <= Cardinality(Before(j))
    BY <2>2, <2>3, <2>4
  <2> QED
    BY <2>5
<1>3. ASSUME NEW j \in G, <<j, i>> \in R PROVE FALSE
  <2>1. Before(j) \in SUBSET Before(i) /\ j \in Before(i) /\ j \notin Before(j)
    BY <1>3
  <2> HIDE DEF Before
  <2>2. Cardinality(Before(j)) <= Cardinality(Before(i)) /\ Cardinality(Before(j)) # Cardinality(Before(i))
    BY <1>1, <2>1, FS_Subset
  <2> QED
    BY <1>1, <1>2, <2>2
<1> QED
  BY <1>3

\* The figures of the rows are numbers.
Numeric == \A r \in Names(results) :
  r.p99 \in Nat /\ r.tput \in Nat /\ r.mem \in Nat /\ r.batch \in Nat \ {0}

\* The row that is taken is one that no other beats.
LEMMA RecommendedIsUnbeaten ==
  /\ results \in Seq(Names(results)) /\ Numeric
  /\ cmd.optimize \in {"latency", "throughput", "memory"} /\ Candidates # {}
  => \E i \in Candidates :
       /\ \A j \in Candidates : ~Beats(j, i)
       /\ Recommended = <<results[i].runtime, results[i].batch>>
<1>0. SUFFICES ASSUME results \in Seq(Names(results)), Numeric,
                      cmd.optimize \in {"latency", "throughput", "memory"}, Candidates # {}
               PROVE  \E i \in Candidates :
                        /\ \A j \in Candidates : ~Beats(j, i)
                        /\ Recommended = <<results[i].runtime, results[i].batch>>
  OBVIOUS
<1> DEFINE R == {x \in Candidates \X Candidates : Beats(x[1], x[2])}
<1>1. Candidates \in SUBSET (1..Len(results)) /\ Len(results) \in Nat
  BY <1>0, LenProperties DEF Candidates
<1>2. IsFiniteSet(Candidates)
  <2>1. IsFiniteSet(1..Len(results))
    <3>1. 1 \in Int /\ Len(results) \in Int
      BY <1>1
    <3> QED
      BY <3>1, FS_Interval
  <2> QED
    BY <1>1, <2>1, FS_Subset
<1>3. ASSUME NEW i \in Candidates
      PROVE  /\ results[i].p99 \in Nat /\ results[i].tput \in Nat /\ results[i].mem \in Nat
             /\ i \in Nat
  BY <1>0, <1>1 DEF Numeric, Names, Candidates
<1>4. \A i \in Candidates : ~Beats(i, i)
  <2> SUFFICES ASSUME NEW i \in Candidates PROVE ~Beats(i, i)
    OBVIOUS
  <2>1. cmd.optimize \in {"latency", "throughput", "memory"}
    BY <1>0
  <2>2. /\ results[i].p99 \in Nat /\ results[i].tput \in Nat /\ results[i].mem \in Nat
        /\ i \in Nat
    BY <1>3
  <2>3. CASE cmd.optimize = "latency"
    BY <2>2, <2>3 DEF Beats
  <2>4. CASE cmd.optimize = "throughput"
    BY <2>2, <2>4 DEF Beats
  <2>5. CASE cmd.optimize = "memory"
    BY <2>2, <2>5 DEF Beats
  <2> QED
    BY <2>1, <2>3, <2>4, <2>5
<1>5. ASSUME NEW i \in Candidates, NEW j \in Candidates, NEW k \in Candidates, Beats(i, j), Beats(j, k)
      PROVE  Beats(i, k)
  <2>1. CASE cmd.optimize = "latency"
    BY <1>3, <1>5, <2>1 DEF Beats
  <2>2. CASE cmd.optimize = "throughput"
    BY <1>3, <1>5, <2>2 DEF Beats
  <2>3. CASE cmd.optimize = "memory"
    BY <1>3, <1>5, <2>3 DEF Beats
  <2> QED
    BY <1>0, <2>1, <2>2, <2>3
<1>6. /\ \A i \in Candidates : <<i, i>> \notin R
      /\ \A i, j, k \in Candidates : <<i, j>> \in R /\ <<j, k>> \in R => <<i, k>> \in R
  BY <1>4, <1>5
<1>7. \E i \in Candidates : \A j \in Candidates : <<j, i>> \notin R
  <2> HIDE DEF R
  <2> QED
    BY <1>0, <1>2, <1>6, Unbeaten
<1>8. \E i \in Candidates : \A j \in Candidates : ~Beats(j, i)
  BY <1>7
<1> DEFINE b == CHOOSE i \in Candidates : \A j \in Candidates : ~Beats(j, i)
<1>9. b \in Candidates /\ \A j \in Candidates : ~Beats(j, b)
  BY <1>8
<1>10. Recommended = <<results[b].runtime, results[b].batch>>
  BY <1>0 DEF Recommended
<1> QED
  BY <1>9, <1>10

\* What has been recommended is what the rows say.
Recommending ==
  /\ cmd \in Commands
  /\ Numeric
  /\ best # NoPair => pc \in {"save", "compare", "render", "done", "failed"}
  /\ pc \in {"save", "compare", "render"} \/ best # NoPair => best = Recommended

LEMMA FiguresAreNumbers ==
  ASSUME NEW what, NEW f \in Vary(what)
  PROVE  f \in Nat
<1>1. Figures \in SUBSET Nat /\ Figures # {}
  BY FiguresAssumption
<1>2. Min(Figures) \in Figures
  BY <1>1, LeastOf
<1> QED
  BY <1>1, <1>2 DEF Vary

\* A row that is added keeps the rows numeric.
LEMMA FinishNumeric ==
  ASSUME NEW row
  PROVE  /\ Accounted /\ Recommending /\ pc \in Working /\ Finish(row)
         /\ row.p99 \in Nat /\ row.tput \in Nat /\ row.mem \in Nat /\ row.batch = Batches[at]
         => Recommending'
<1>1. SUFFICES ASSUME Accounted, Recommending, pc \in Working, Finish(row),
                      row.p99 \in Nat, row.tput \in Nat, row.mem \in Nat, row.batch = Batches[at]
               PROVE  Recommending'
  OBVIOUS
<1>2. row.batch \in Nat \ {0}
  BY <1>1, BatchesAssumption DEF Accounted, Places
<1>3. pc' \in {"load", "conclude"} /\ cmd' = cmd /\ best' = best /\ best = NoPair
  BY <1>1, NextPairAdvances DEF Accounted, Recommending, Finish, NextPair, Working
<1>4. results' = Append(results, row) /\ results \in Seq(Names(results))
  BY <1>1 DEF Accounted, Finish
<1>5. PICK t : t = results'
  OBVIOUS
<1>6. Extends(t, results, row)
  BY <1>4, <1>5, AppendNames
<1>7. Names(results') = Names(results) \cup {row}
  BY <1>5, <1>6 DEF Extends
<1>8. Numeric'
  BY <1>1, <1>2, <1>7 DEF Numeric, Recommending
<1> QED
  BY <1>1, <1>3, <1>8 DEF Recommending

LEMMA HarnessRecommending == Accounted /\ Recommending /\ Harness => Recommending'
<1>1. SUFFICES ASSUME Accounted, Recommending, Harness PROVE Recommending'
  OBVIOUS
<1>2. ASSUME pc \notin {"conclude", "save", "compare", "render", "done", "failed"},
             pc' \notin {"save", "compare", "render"}, UNCHANGED <<cmd, best, results>>
      PROVE  Recommending'
  BY <1>1, <1>2 DEF Recommending, Numeric
<1>3. ASSUME UNCHANGED <<cmd, best, results>>, pc \in {"save", "compare", "render"},
             pc' \in {"compare", "render", "done", "failed"}
      PROVE  Recommending'
  <2>1. Recommended' = Recommended
    BY <1>3 DEF Recommended, Candidates, Beats
  <2> QED
    BY <1>1, <1>3, <2>1 DEF Recommending, Numeric
<1>4. CASE Select
  BY <1>2, <1>4 DEF Select
<1>5. CASE Load \/ InferChild \/ InferHere
  BY <1>2, <1>5 DEF Load, InferChild, InferHere
<1>6. ASSUME Skip, pc \in Working PROVE Recommending'
  <2>1. pc' \in {"load", "conclude"} /\ UNCHANGED <<cmd, best, results>>
    BY <1>1, <1>6, NextPairAdvances DEF Accounted, Skip, NextPair
  <2> QED
    BY <1>2, <1>6, <2>1 DEF Working
<1>7. OomRow.p99 = 0 /\ OomRow.tput = 0 /\ OomRow.mem = 0 /\ OomRow.batch = Batches[at]
  BY DEF OomRow
<1>8. ASSUME Finish(OomRow), pc \in Working PROVE Recommending'
  BY <1>1, <1>7, <1>8, FinishNumeric
<1>9. CASE LoadFails \/ LoadOom \/ CollectError \/ InferHereFails
  BY <1>6, <1>8, <1>9 DEF LoadFails, LoadOom, CollectError, InferHereFails, Working
<1>10. CASE Collect
  <2>1. PICK p \in Vary("latency"), t \in Vary("throughput"), m \in Vary("memory") :
          Finish([runtime |-> Running, batch |-> Batches[at],
                  of |-> engine.samplesOf, n |-> out.latencies, p99 |-> p, tput |-> t,
                  mem |-> IF Memory = "none" THEN 0 ELSE m, source |-> Memory,
                  oom |-> FALSE])
    BY <1>10 DEF Collect
  <2>2. p \in Nat /\ t \in Nat /\ m \in Nat
    BY FiguresAreNumbers
  <2>3. (IF Memory = "none" THEN 0 ELSE m) \in Nat
    BY <2>2
  <2>4. pc \in Working
    BY <1>10 DEF Collect, Working
  <2> QED
    BY <1>1, <2>1, <2>2, <2>3, <2>4, FinishNumeric
<1>11. CASE Measure
  <2>1. PICK n \in {0, 1, planned.n}, oom \in BOOLEAN, p \in Vary("latency"), t \in Vary("throughput") :
          Finish([runtime |-> Kernel, batch |-> Batches[at], of |-> engine.samplesOf,
                  n |-> n, p99 |-> IF n = 0 THEN 0 ELSE p, tput |-> IF oom THEN 0 ELSE t,
                  mem |-> 0, source |-> "nvml", oom |-> oom])
    BY <1>11 DEF Measure
  <2>2. p \in Nat /\ t \in Nat
    BY FiguresAreNumbers
  <2>3. (IF n = 0 THEN 0 ELSE p) \in Nat /\ (IF oom THEN 0 ELSE t) \in Nat
    BY <2>2
  <2>4. pc \in Working
    BY <1>11 DEF Measure, Working
  <2> QED
    BY <1>1, <2>1, <2>3, <2>4, FinishNumeric
<1>12. CASE Conclude
  <2>1. Recommended' = Recommended /\ best' = Recommended
    BY <1>12 DEF Conclude, Recommended, Candidates, Beats
  <2>2. pc' \in {"save", "compare", "render"} /\ UNCHANGED <<cmd, results>>
    BY <1>12 DEF Conclude
  <2> QED
    BY <1>1, <2>1, <2>2 DEF Recommending, Numeric
<1>13. CASE Save \/ SaveFails \/ Compare \/ Render
  BY <1>3, <1>13 DEF Save, SaveFails, Compare, Render
<1> QED
  BY <1>1, <1>4, <1>5, <1>9, <1>10, <1>11, <1>12, <1>13 DEF Harness

LEMMA RecommendationHolds == Accounted /\ Recommending => RecommendationIsBest
<1>1. SUFFICES ASSUME Accounted, Recommending PROVE RecommendationIsBest
  OBVIOUS
<1> DEFINE good == {r \in Names(results) : ~r.oom /\ r.n > 0 /\ r.runtime # Kernel}
           chosen == {r \in good : <<r.runtime, r.batch>> = best}
           Pairing(r) == <<r.runtime, r.batch>>
<1>2. cmd.optimize \in {"latency", "throughput", "memory"}
  BY <1>1, CommandsAssumption DEF Recommending
<1>3. \A r \in good : r \in Names(results) /\ ~r.oom /\ r.n > 0 /\ r.runtime # Kernel
  OBVIOUS
<1>4. \A r \in Names(results) : /\ r.p99 \in Nat /\ r.tput \in Nat /\ r.mem \in Nat
                                /\ <<r.runtime, r.batch>> # NoPair
  BY <1>1 DEF Recommending, Numeric, NoPair
<1>5. ASSUME NEW s \in good, cmd.optimize = "memory" => s.mem > 0
      PROVE  \E j \in Candidates : s = results[j]
  BY <1>5 DEF Candidates, Valid, Names
<1>6. CASE Candidates = {}
  <2>1. Recommended = NoPair
    BY <1>6 DEF Recommended
  <2>2. best = NoPair
    BY <1>1, <2>1 DEF Recommending
  <2>3. chosen = {}
    BY <1>4, <2>2
  <2>4. \A r \in good : cmd.optimize = "memory" /\ r.mem = 0
    <3> SUFFICES ASSUME NEW r \in good PROVE cmd.optimize = "memory" /\ r.mem = 0
      OBVIOUS
    <3>1. cmd.optimize = "memory" /\ ~(r.mem > 0)
      BY <1>5, <1>6
    <3>2. r.mem \in Nat
      BY <1>4
    <3> QED
      BY <3>1, <3>2
  <2> QED
    BY <2>2, <2>3, <2>4 DEF RecommendationIsBest
<1>7. CASE Candidates # {}
  <2>1. PICK i \in Candidates :
          /\ \A j \in Candidates : ~Beats(j, i)
          /\ Recommended = <<results[i].runtime, results[i].batch>>
    BY <1>1, <1>2, <1>7, RecommendedIsUnbeaten DEF Accounted, Recommending
  <2>2. results[i] \in good /\ (cmd.optimize = "memory" => results[i].mem > 0)
    BY DEF Candidates, Valid, Names
  <2>3. Recommended # NoPair
    BY <1>4, <2>1, <2>2
  <2>4. ASSUME NEW r \in chosen, best # NoPair PROVE r = results[i]
    <3>1. Pairing(r) = Pairing(results[i])
      BY <1>1, <2>1, <2>4 DEF Recommending
    <3>2. PICK k \in DOMAIN results : r = results[k]
      BY DEF Names
    <3>3. i \in DOMAIN results
      BY DEF Candidates
    <3>4. Same(results[k], results[i])
      BY <3>1, <3>2 DEF Same
    <3> QED
      BY <1>1, <3>2, <3>3, <3>4 DEF Accounted
  <2>5. ASSUME NEW s \in good
        PROVE  LET r == results[i] IN
               CASE cmd.optimize = "latency" -> r.p99 <= s.p99
                 [] cmd.optimize = "throughput" -> r.tput >= s.tput
                 [] cmd.optimize = "memory" -> r.mem > 0 /\ (s.mem > 0 => r.mem <= s.mem)
    <3> DEFINE r == results[i]
    <3>1. /\ r.p99 \in Nat /\ r.tput \in Nat /\ r.mem \in Nat
          /\ s.p99 \in Nat /\ s.tput \in Nat /\ s.mem \in Nat
      BY <1>4, <2>2
    <3>2. ASSUME cmd.optimize = "memory" => s.mem > 0
          PROVE  /\ cmd.optimize = "latency" => ~(s.p99 < r.p99)
                 /\ cmd.optimize = "throughput" => ~(s.tput > r.tput)
                 /\ cmd.optimize = "memory" => ~(s.mem < r.mem)
      <4>1. PICK j \in Candidates : s = results[j]
        BY <1>5, <3>2
      <4>2. ~Beats(j, i)
        BY <2>1
      <4> QED
        BY <4>1, <4>2 DEF Beats
    <3>3. CASE cmd.optimize = "latency"
      BY <3>1, <3>2, <3>3
    <3>4. CASE cmd.optimize = "throughput"
      BY <3>1, <3>2, <3>4
    <3>5. CASE cmd.optimize = "memory"
      BY <2>2, <3>1, <3>2, <3>5
    <3> QED
      BY <1>2, <3>3, <3>4, <3>5
  <2>6. CASE best = NoPair
    <3>1. chosen = {} /\ pc \notin {"save", "compare", "render"}
      BY <1>1, <1>4, <2>3, <2>6 DEF Recommending
    <3> QED
      BY <2>6, <3>1 DEF RecommendationIsBest
  <2>7. CASE best # NoPair
    <3>1. results[i] \in chosen
      BY <1>1, <2>1, <2>2, <2>7 DEF Recommending
    <3>2. \A r \in chosen : r = results[i]
      BY <2>4, <2>7
    <3> QED
      BY <2>5, <2>7, <3>1, <3>2 DEF RecommendationIsBest
  <2> QED
    BY <2>6, <2>7
<1> QED
  BY <1>6, <1>7

LEMMA RecommendingAlways == ASSUME DistinctBatches PROVE BenchSpec => []Recommending
<1>1. BenchInit => Recommending
  BY DEF BenchInit, Recommending, Numeric, Names
<1>2. Accounted /\ Recommending /\ [BenchNext]_<<benchVars, callVars>> => Recommending'
  <2>1. Recommending /\ UNCHANGED benchVars => Recommending'
    <3>1. SUFFICES ASSUME Recommending, UNCHANGED benchVars PROVE Recommending'
      OBVIOUS
    <3>2. UNCHANGED <<pc, cmd, results, best>> /\ Recommended' = Recommended
      BY <3>1 DEF benchVars, Recommended, Candidates, Beats
    <3> QED
      BY <3>1, <3>2 DEF Recommending, Numeric
  <2> QED
    BY <2>1, HarnessRecommending DEF BenchNext, Ended, Child
<1> QED
  BY <1>1, <1>2, AccountedAlways, PTL DEF BenchSpec

\* The recommendation names the best of the rows that were really measured, for
\* every command line and all figures (build_recommendation).
THEOREM RecommendationCorrectness ==
  ASSUME DistinctBatches
  PROVE  BenchSpec => []RecommendationIsBest
BY AccountedAlways, RecommendingAlways, RecommendationHolds, PTL

------------------------------------------------------------------------------
(* The comparison.                                                         *)

\* What was saved before is there until it is compared, unless this run saves
\* to the same path.
Comparing ==
  /\ DOMAIN disk = DOMAIN cmd.disk
  /\ \A p \in DOMAIN cmd.disk : p # cmd.save => disk[p] = cmd.disk[p]
  /\ pc = "compare" => cmd.compare # "none"
  /\ rows # {} => /\ pc = "done" /\ cmd.compare # "none"
                  /\ rows = Comparison(Names(results), Names(disk[cmd.compare].results))

LEMMA HarnessComparing == Comparing /\ Harness => Comparing'
<1>1. SUFFICES ASSUME Comparing, Harness PROVE Comparing'
  OBVIOUS
<1>2. ASSUME pc # "done", rows' = rows, cmd' = cmd, disk' = disk,
             pc' = "compare" => cmd.compare # "none"
      PROVE  Comparing'
  BY <1>1, <1>2 DEF Comparing
<1>3. ASSUME NextPair, pc # "done", disk' = disk PROVE Comparing'
  <2>1. pc' # "compare" /\ rows' = rows /\ cmd' = cmd
    BY <1>3 DEF NextPair
  <2> QED
    BY <1>2, <1>3, <2>1
<1>4. CASE Select \/ Load \/ InferChild \/ InferHere \/ Conclude \/ SaveFails \/ Render
  BY <1>2, <1>4 DEF Select, Load, InferChild, InferHere, Conclude, SaveFails, Render
<1>5. CASE LoadFails \/ LoadOom \/ Collect \/ CollectError \/ InferHereFails \/ Measure
  BY <1>3, <1>5 DEF LoadFails, LoadOom, Collect, CollectError, InferHereFails, Measure, Finish, Skip,
     NextPair
<1>6. CASE Save
  <2>1. /\ pc = "save" /\ rows' = rows /\ cmd' = cmd /\ rows = {}
        /\ disk' = [disk EXCEPT ![cmd.save] = [there |-> TRUE, results |-> results]]
        /\ pc' = "compare" => cmd.compare # "none"
    BY <1>1, <1>6 DEF Save, Comparing
  <2>2. DOMAIN disk' = DOMAIN disk /\ \A p \in DOMAIN disk : p # cmd.save => disk'[p] = disk[p]
    BY <2>1
  <2> QED
    BY <1>1, <2>1, <2>2 DEF Comparing
<1>7. CASE Compare
  BY <1>1, <1>7 DEF Compare, Comparing
<1> QED
  BY <1>1, <1>4, <1>5, <1>6, <1>7 DEF Harness

\* The direction of a change is that of the figures.
LEMMA ChangeIsHonest ==
  ASSUME NEW c, NEW b, c.p99 \in Nat, b.p99 \in Nat
  PROVE  /\ Change(c, b) = "REGRESSION" => c.p99 > b.p99
         /\ Change(c, b) = "improvement" => c.p99 < b.p99
         /\ b.p99 > 0 /\ c.p99 >= 2 * b.p99 => Change(c, b) = "REGRESSION"
<1> DEFINE x == c.p99
           y == b.p99
<1>1. x \in Nat /\ y \in Nat
  OBVIOUS
<1>2. Change(c, b) = CASE y = 0 -> "unchanged"
                       [] y > 0 /\ (x - y) * 100 > 5 * y -> "REGRESSION"
                       [] y > 0 /\ (x - y) * 100 < -5 * y -> "improvement"
                       [] OTHER -> "unchanged"
  BY DEF Change
<1> HIDE DEF x, y
<1>3. y > 0 /\ (x - y) * 100 > 5 * y => x > y
  BY <1>1
<1>4. y > 0 /\ (x - y) * 100 < -5 * y => x < y
  BY <1>1
<1>5. y > 0 /\ x >= 2 * y => y # 0 /\ (x - y) * 100 > 5 * y
  BY <1>1
<1>6. ~(y > 0 /\ (x - y) * 100 > 5 * y /\ (x - y) * 100 < -5 * y)
  BY <1>3, <1>4, <1>1
<1>7. ~(y = 0 /\ y > 0)
  BY <1>1
<1>8. CASE y = 0
  <2>1. Change(c, b) = "unchanged"
    BY <1>2, <1>7, <1>8
  <2> QED
    BY <1>5, <1>8, <2>1 DEF x, y
<1>9. CASE y # 0 /\ y > 0 /\ (x - y) * 100 > 5 * y
  <2>1. Change(c, b) = "REGRESSION"
    BY <1>2, <1>6, <1>9
  <2> QED
    BY <1>3, <1>9, <2>1 DEF x, y
<1>10. CASE y # 0 /\ y > 0 /\ ~((x - y) * 100 > 5 * y) /\ (x - y) * 100 < -5 * y
  <2>1. Change(c, b) = "improvement"
    BY <1>2, <1>10
  <2> QED
    BY <1>4, <1>5, <1>10, <2>1 DEF x, y
<1>11. CASE y # 0 /\ ~(y > 0 /\ (x - y) * 100 > 5 * y) /\ ~(y > 0 /\ (x - y) * 100 < -5 * y)
  <2>1. Change(c, b) = "unchanged"
    BY <1>2, <1>11
  <2> QED
    BY <1>5, <1>11, <2>1 DEF x, y
<1> QED
  BY <1>8, <1>9, <1>10, <1>11

LEMMA ComparisonHolds ==
  DistinctReports /\ Accounted /\ Recommending /\ Comparing => ComparisonIsHonest
<1> DEFINE base == Names(cmd.disk[cmd.compare].results)
           cur == Names(results)
           PairOf(r) == <<r.runtime, r.batch>>
           Status(c) == IF \E b \in base : Same(c, b)
                        THEN Change(c, CHOOSE b \in base : Same(c, b)) ELSE "NEW"
<1>1. SUFFICES ASSUME DistinctReports, Accounted, Recommending, Comparing,
                      pc = "done", rows # {}, cmd.compare # cmd.save
               PROVE  /\ {r.pair : r \in rows} = {PairOf(r) : r \in cur} \cup {PairOf(r) : r \in base}
                      /\ \A r, s \in rows : r.pair = s.pair => r = s
                      /\ \A r \in rows, c \in cur, b \in base :
                           r.pair = <<c.runtime, c.batch>> /\ Same(c, b) /\ ~c.oom /\ ~b.oom =>
                             /\ r.status = "REGRESSION" => c.p99 > b.p99
                             /\ r.status = "improvement" => c.p99 < b.p99
                             /\ b.n > 0 /\ c.p99 >= 2 * b.p99 => r.status = "REGRESSION"
  BY DEF ComparisonIsHonest
<1>2. cmd.compare \in DOMAIN cmd.disk /\ disk[cmd.compare] = cmd.disk[cmd.compare]
  <2>1. cmd \in Commands /\ cmd.compare # "none"
    BY <1>1 DEF Recommending, Comparing
  <2>2. cmd.compare \in DOMAIN cmd.disk
    BY <2>1, CommandsAssumption
  <2> QED
    BY <1>1, <2>2 DEF Comparing
<1>3. rows = Comparison(cur, base)
  BY <1>1, <1>2 DEF Comparing
<1>4. /\ \A c \in cur : [pair |-> PairOf(c), status |-> Status(c)] \in rows
      /\ \A b \in base : (~\E c \in cur : Same(c, b)) =>
           [pair |-> PairOf(b), status |-> "REMOVED"] \in rows
      /\ \A r \in rows :
           \/ \E c \in cur : r = [pair |-> PairOf(c), status |-> Status(c)]
           \/ \E b \in base : r = [pair |-> PairOf(b), status |-> "REMOVED"] /\ ~\E c \in cur : Same(c, b)
  <2> HIDE DEF cur, base
  <2> QED
    BY <1>3 DEF Comparison
<1>5. \A c, d \in cur : PairOf(c) = PairOf(d) => c = d
  <2> SUFFICES ASSUME NEW c \in cur, NEW d \in cur, PairOf(c) = PairOf(d) PROVE c = d
    OBVIOUS
  <2>1. PICK i \in DOMAIN results, j \in DOMAIN results : c = results[i] /\ d = results[j]
    BY DEF Names
  <2>2. Same(results[i], results[j])
    BY <2>1 DEF Same
  <2> QED
    BY <1>1, <2>1, <2>2 DEF Accounted
<1>6. \A b, d \in base : PairOf(b) = PairOf(d) => b = d
  <2> SUFFICES ASSUME NEW b \in base, NEW d \in base, PairOf(b) = PairOf(d) PROVE b = d
    OBVIOUS
  <2> DEFINE saved == cmd.disk[cmd.compare].results
  <2>1. PICK i \in DOMAIN saved, j \in DOMAIN saved : b = saved[i] /\ d = saved[j]
    BY DEF Names
  <2>2. Same(saved[i], saved[j])
    BY <2>1 DEF Same
  <2>3. cmd \in Commands
    BY <1>1 DEF Recommending
  <2> QED
    BY <1>1, <1>2, <2>1, <2>2, <2>3 DEF DistinctReports
<1>7. \A c \in cur : c.p99 \in Nat
  BY <1>1 DEF Recommending, Numeric
<1>8. \A b \in base : b.p99 \in Nat /\ b.n \in Nat /\ (b.n > 0 => b.p99 > 0)
  <2> SUFFICES ASSUME NEW b \in base PROVE b.p99 \in Nat /\ b.n \in Nat /\ (b.n > 0 => b.p99 > 0)
    OBVIOUS
  <2> DEFINE saved == cmd.disk[cmd.compare].results
  <2>1. PICK i \in DOMAIN saved : b = saved[i]
    BY DEF Names
  <2>2. cmd \in Commands
    BY <1>1 DEF Recommending
  <2> QED
    BY <1>2, <2>1, <2>2, CommandsAssumption
<1> HIDE DEF cur, base
<1>9. \A c \in cur, b \in base : Same(c, b) <=> PairOf(c) = PairOf(b)
  BY DEF Same
<1> HIDE DEF PairOf
<1>10. {r.pair : r \in rows} = {PairOf(r) : r \in cur} \cup {PairOf(r) : r \in base}
  <2>1. ASSUME NEW r \in rows PROVE r.pair \in {PairOf(c) : c \in cur} \cup {PairOf(b) : b \in base}
    BY <1>4
  <2>2. ASSUME NEW c \in cur PROVE \E r \in rows : r.pair = PairOf(c)
    BY <1>4
  <2>3. ASSUME NEW b \in base PROVE \E r \in rows : r.pair = PairOf(b)
    <3>1. CASE \E c \in cur : Same(c, b)
      BY <1>9, <2>2, <3>1
    <3>2. CASE ~\E c \in cur : Same(c, b)
      BY <1>4, <3>2
    <3> QED
      BY <3>1, <3>2
  <2> QED
    BY <2>1, <2>2, <2>3
<1>11. ASSUME NEW r \in rows, NEW c \in cur, r.pair = PairOf(c)
       PROVE  r.status = Status(c) /\ r = [pair |-> PairOf(c), status |-> Status(c)]
  <2>1. CASE \E d \in cur : r = [pair |-> PairOf(d), status |-> Status(d)]
    <3>1. PICK d \in cur : r = [pair |-> PairOf(d), status |-> Status(d)]
      BY <2>1
    <3>2. r.pair = PairOf(d)
      BY <3>1
    <3>3. c = d
      BY <1>5, <1>11, <3>2
    <3> QED
      BY <3>1, <3>3
  <2>2. CASE \E b \in base : r = [pair |-> PairOf(b), status |-> "REMOVED"] /\ ~\E d \in cur : Same(d, b)
    <3>1. PICK b \in base : r = [pair |-> PairOf(b), status |-> "REMOVED"] /\ ~\E d \in cur : Same(d, b)
      BY <2>2
    <3>2. r.pair = PairOf(b)
      BY <3>1
    <3> QED
      BY <1>9, <1>11, <3>1, <3>2
  <2> QED
    BY <1>4, <2>1, <2>2
<1>12. ASSUME NEW r \in rows, NEW s \in rows, r.pair = s.pair PROVE r = s
  <2>1. CASE \E c \in cur : r.pair = PairOf(c)
    <3>1. PICK c \in cur : r.pair = PairOf(c)
      BY <2>1
    <3>2. s.pair = PairOf(c)
      BY <1>12, <3>1
    <3> QED
      BY <1>11, <3>1, <3>2
  <2>2. CASE ~\E c \in cur : r.pair = PairOf(c)
    <3>1. ASSUME NEW x \in rows, ~\E c \in cur : x.pair = PairOf(c)
          PROVE  x = [pair |-> x.pair, status |-> "REMOVED"]
      BY <1>4, <3>1
    <3>2. r = [pair |-> r.pair, status |-> "REMOVED"] /\ s = [pair |-> s.pair, status |-> "REMOVED"]
      BY <1>12, <2>2, <3>1
    <3> QED
      BY <1>12, <3>2
  <2> QED
    BY <2>1, <2>2
<1>13. ASSUME NEW r \in rows, NEW c \in cur, NEW b \in base, r.pair = PairOf(c), Same(c, b)
       PROVE  /\ r.status = "REGRESSION" => c.p99 > b.p99
              /\ r.status = "improvement" => c.p99 < b.p99
              /\ b.n > 0 /\ c.p99 >= 2 * b.p99 => r.status = "REGRESSION"
  <2>1. (CHOOSE d \in base : Same(c, d)) = b
    <3> DEFINE d == CHOOSE d \in base : Same(c, d)
    <3>1. d \in base /\ Same(c, d)
      BY <1>13
    <3> HIDE DEF d
    <3>2. PairOf(d) = PairOf(b)
      BY <1>9, <1>13, <3>1
    <3>3. d = b
      BY <1>6, <3>1, <3>2
    <3> QED
      BY <3>3 DEF d
  <2>2. Status(c) = Change(c, b)
    BY <1>13, <2>1
  <2>3. r.status = Change(c, b)
    BY <1>11, <1>13, <2>2
  <2>4. c.p99 \in Nat /\ b.p99 \in Nat /\ (b.n > 0 => b.p99 > 0)
    BY <1>7, <1>8
  <2> HIDE DEF Status
  <2> QED
    BY <2>3, <2>4, ChangeIsHonest
<1> QED
  BY <1>10, <1>12, <1>13 DEF PairOf

\* A comparison shows every pair of either report once and calls a change by
\* its direction, for every report that was saved before (print_comparison).
THEOREM ComparisonCorrectness ==
  ASSUME DistinctBatches, DistinctReports
  PROVE  BenchSpec => []ComparisonIsHonest
<1>1. BenchInit => Comparing
  BY DEF BenchInit, Comparing
<1>2. Comparing /\ [BenchNext]_<<benchVars, callVars>> => Comparing'
  <2>1. Comparing /\ UNCHANGED benchVars => Comparing'
    BY DEF benchVars, Comparing
  <2> QED
    BY <2>1, HarnessComparing DEF BenchNext, Ended, Child
<1>3. Accounted /\ Recommending /\ Comparing => ComparisonIsHonest
  BY ComparisonHolds
<1> QED
  BY <1>1, <1>2, <1>3, AccountedAlways, RecommendingAlways, PTL DEF BenchSpec
==============================================================================
