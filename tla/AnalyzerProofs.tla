---------------------------- MODULE AnalyzerProofs ----------------------------
(***************************************************************************)
(* Type correctness of Analyzer, and that its session statistics describe  *)
(* the best source, its costs are bounded, its window is the end of the    *)
(* session and its growth alarms are borne out by the session's readings,  *)
(* for every number of ticks, window size, history length, set of devices  *)
(* and behaviour of the clock.                                             *)
(*                                                                         *)
(* For Verdict, that the bottleneck it names, and the gain it promises,    *)
(* are borne out by the ticks in the window, for every window, session and *)
(* set of ticks.                                                           *)
(***************************************************************************)
EXTENDS Analyzer, Verdict, ListTheorems, TLAPS

\* The figures of `level` that came from `source`.
Matching(l, source, level) ==
  {i \in 1..Len(l) : l[i].source = source /\ l[i].mfu = level}

\* The statistics of StatisticsDescribeBestSource, with the counts as above.
Statistics ==
  /\ \A i \in 1..Len(log) : log[i].mfu # None => Rank[log[i].source] <= Rank[histSource]
  /\ \A l \in Levels : hist[l] = Cardinality(Matching(log, histSource, l))
  /\ \A i \in 1..Len(log) :
       log[i].source = histSource /\ log[i].mfu # None => log[i].mfu <= peak
  /\ peak # None => \E i \in 1..Len(log) : log[i].source = histSource /\ log[i].mfu = peak

------------------------------------------------------------------------------
(* Windows.                                                                *)

\* The last n elements of a sequence are a sequence of at most n of them.
LEMMA LastOfType ==
  ASSUME NEW S, NEW s \in Seq(S), NEW n \in Nat
  PROVE  /\ LastOf(s, n) \in Seq(S)
         /\ Len(LastOf(s, n)) <= n
         /\ Len(LastOf(s, n)) = IF Len(s) < n THEN Len(s) ELSE n
<1> DEFINE m == Monus(Len(s), n) + 1
<1>1. Len(s) \in Nat
  BY LenProperties
<1>2. m \in 1..(Len(s) + 1)
  BY <1>1 DEF Monus
<1>3. /\ SubSeq(s, m, Len(s)) \in Seq(S)
      /\ Len(SubSeq(s, m, Len(s))) = IF m <= Len(s) THEN Len(s) - m + 1 ELSE 0
  BY <1>1, <1>2, SubSeqProperties
<1>4. LastOf(s, n) = SubSeq(s, m, Len(s))
  BY DEF LastOf
<1>5. CASE Len(s) > n
  <2>1. m = Len(s) - n + 1
    BY <1>5 DEF Monus
  <2> QED
    BY <1>1, <1>3, <1>4, <1>5, <2>1
<1>6. CASE Len(s) <= n
  <2>1. m = 1
    BY <1>1, <1>6 DEF Monus
  <2> QED
    BY <1>1, <1>3, <1>4, <1>6, <2>1
<1> QED
  BY <1>1, <1>5, <1>6

\* Evicting expired ticks leaves a sequence that is not longer.
LEMMA EvictType ==
  ASSUME NEW w \in Seq(Tick), NEW now \in Nat
  PROVE  Evict(w, now) \in Seq(Tick) /\ Len(Evict(w, now)) <= Len(w)
<1> DEFINE n == Cardinality(Expired(w, now))
<1>1. Len(w) \in Nat
  BY LenProperties
<1>2. Expired(w, now) \subseteq 1..(Len(w) - 1)
  BY DEF Expired
<1>3. /\ IsFiniteSet(1..(Len(w) - 1))
      /\ Cardinality(1..(Len(w) - 1)) <= Len(w)
  BY SMTT(30), <1>1, FS_Interval
<1>4. n \in Nat /\ n <= Len(w)
  BY <1>1, <1>2, <1>3, FS_Subset, FS_CardinalityType
<1>5. /\ SubSeq(w, n + 1, Len(w)) \in Seq(Tick)
      /\ Len(SubSeq(w, n + 1, Len(w))) = IF n + 1 <= Len(w) THEN Len(w) - (n + 1) + 1 ELSE 0
  BY <1>1, <1>4, SubSeqProperties
<1> QED
  BY <1>1, <1>4, <1>5 DEF Evict

\* A window stays within its capacity.
LEMMA PushType ==
  ASSUME NEW w \in Seq(Tick), NEW tick \in Tick
  PROVE  Push(w, tick) \in Seq(Tick) /\ Len(Push(w, tick)) <= WindowLen
<1> DEFINE v == LastOf(Append(w, tick), WindowLen)
<1>1. WindowLen \in Nat
  BY SizeAssumption
<1>2. v \in Seq(Tick) /\ Len(v) <= WindowLen
  BY <1>1, AppendProperties, LastOfType
<1>3. tick.ts \in Nat
  BY DEF Tick
<1>4. Evict(v, tick.ts) \in Seq(Tick) /\ Len(Evict(v, tick.ts)) <= Len(v)
  BY <1>2, <1>3, EvictType
<1>5. Len(v) \in Nat /\ Len(Evict(v, tick.ts)) \in Nat
  BY <1>2, <1>4, LenProperties
<1> QED
  BY <1>1, <1>2, <1>4, <1>5 DEF Push

\* Whatever the window holds, an estimate has a source, and a level or none.
LEMMA EstimateType ==
  ASSUME NEW w, NEW est \in Estimates(w)
  PROVE  est \in Estimate
<1>1. SourceOf(w) \in Sources
  BY DEF SourceOf, Sources
<1>2. \A S : Averages(S) \subseteq Levels
  BY DEF Averages
<1>3. Figures(w, SourceOf(w)) \subseteq Levels \cup {None}
  BY <1>2 DEF Figures
<1> QED
  BY <1>1, <1>3 DEF Estimates, Estimate

------------------------------------------------------------------------------
(* Counting estimates.                                                     *)

\* Recorded figures of a level are the matching ones.
LEMMA RecordedMatching ==
  ASSUME NEW source, NEW l \in Levels
  PROVE  {i \in Recorded(source) : log[i].mfu = l} = Matching(log, source, l)
  BY LevelAssumption DEF Recorded, Matching, Levels, None

\* The figures that match are finitely many.
LEMMA MatchingFinite ==
  ASSUME NEW l \in Seq(Estimate), NEW source, NEW level
  PROVE  /\ IsFiniteSet(Matching(l, source, level))
         /\ Cardinality(Matching(l, source, level)) \in Nat
<1>1. Matching(l, source, level) \subseteq 1..Len(l)
  BY DEF Matching
<1>2. IsFiniteSet(1..Len(l))
  BY LenProperties, FS_Interval
<1> QED
  BY <1>1, <1>2, FS_Subset, FS_CardinalityType

\* One more estimate adds one to the count of its own source and level.
LEMMA MatchingAppend ==
  ASSUME NEW l \in Seq(Estimate), NEW est \in Estimate, NEW source, NEW level
  PROVE  Cardinality(Matching(Append(l, est), source, level)) =
           Cardinality(Matching(l, source, level))
             + (IF est.source = source /\ est.mfu = level THEN 1 ELSE 0)
<1> DEFINE n == Len(l)
           A == Matching(l, source, level)
           B == Matching(Append(l, est), source, level)
<1>1. n \in Nat /\ Len(Append(l, est)) = n + 1
  BY LenProperties, AppendProperties
<1>2. /\ \A i \in 1..n : Append(l, est)[i] = l[i]
      /\ Append(l, est)[n + 1] = est
  BY AppendProperties
<1>3. IsFiniteSet(A) /\ Cardinality(A) \in Nat
  BY MatchingFinite
<1>4. n + 1 \notin A
  BY <1>1 DEF Matching
<1>5. 1..(n + 1) = (1..n) \cup {n + 1}
  BY <1>1
<1>6. CASE est.source = source /\ est.mfu = level
  <2>1. B = A \cup {n + 1}
    BY <1>1, <1>2, <1>5, <1>6 DEF Matching
  <2>2. Cardinality(A \cup {n + 1}) = Cardinality(A) + 1
    BY <1>3, <1>4, FS_AddElement
  <2> QED
    BY <2>1, <2>2, <1>6
<1>7. CASE ~(est.source = source /\ est.mfu = level)
  <2>1. B = A
    BY <1>1, <1>2, <1>5, <1>7 DEF Matching
  <2> QED
    BY <2>1, <1>3, <1>7
<1> QED
  BY <1>6, <1>7

------------------------------------------------------------------------------
(* Type correctness.                                                       *)

\* The session has not begun.
LEMMA InitType == Init => TypeOK
<1> SUFFICES ASSUME Init PROVE TypeOK
  OBVIOUS
<1>1. /\ <<>> \in Seq(Tick) /\ <<>> \in Seq(Estimate) /\ <<>> \in Seq(Nat)
      /\ Len(<<>>) = 0
  OBVIOUS
<1> QED
  BY <1>1, SizeAssumption DEF Init, TypeOK, Sources

\* Time charged is a duration.
LEMMA ChargedType ==
  ASSUME TypeOK, NEW ts \in Nat
  PROVE  Charged(ts) \in Nat
  BY SizeAssumption DEF TypeOK, Charged, Monus, None

\* Waste is a share of Target.
LEMMA WasteType ==
  ASSUME NEW est \in Estimate, NEW tick
  PROVE  Waste(est, tick) \in 0..Target
  BY LevelAssumption DEF Waste, Monus, Estimate, Levels, None

\* Recording a figure keeps histogram, source and peak well typed.
LEMMA RecordMfuType ==
  ASSUME TypeOK, NEW est \in Estimate, RecordMfu(est)
  PROVE  /\ hist' \in [Levels -> Nat]
         /\ histSource' \in Sources
         /\ peak' \in Levels \cup {None}
<1>1. CASE est.mfu = None \/ Rank[est.source] < Rank[histSource]
  BY <1>1 DEF RecordMfu, TypeOK
<1>2. CASE ~(est.mfu = None \/ Rank[est.source] < Rank[histSource])
  <2>1. est.mfu \in Levels /\ est.source \in Sources
    BY <1>2 DEF Estimate
  <2>2. [l \in Levels |-> 0] \in [Levels -> Nat] /\ hist \in [Levels -> Nat]
    BY DEF TypeOK
  <2>3. \A h \in [Levels -> Nat] : [h EXCEPT ![est.mfu] = @ + 1] \in [Levels -> Nat]
    BY <2>1
  <2>4. hist' \in [Levels -> Nat]
    BY <1>2, <2>2, <2>3 DEF RecordMfu
  <2> QED
    BY <1>2, <2>1, <2>4 DEF RecordMfu, TypeOK
<1> QED
  BY <1>1, <1>2

\* One tick keeps every type.
LEMMA IngestType ==
  ASSUME TypeOK, NEW tick \in Tick, Ingest(tick)
  PROVE  TypeOK'
<1>1. tick.ts \in Nat /\ tick.gpus \in [Gpus -> GpuSample]
  BY DEF Tick
<1>2. PICK est \in Estimates(window') :
        /\ RecordMfu(est) /\ Charge(est, tick) /\ log' = Append(log, est)
  BY DEF Ingest
<1>3. est \in Estimate
  BY EstimateType
<1>4. window' \in Seq(Tick) /\ Len(window') <= WindowLen
  BY PushType DEF Ingest, TypeOK
<1>5. firstTs' \in Nat \cup {None} /\ lastTs' \in Nat \cup {None}
  BY <1>1 DEF Ingest, TypeOK
<1>6. hist' \in [Levels -> Nat] /\ histSource' \in Sources /\ peak' \in Levels \cup {None}
  BY <1>2, <1>3, RecordMfuType
<1>7. /\ vramHist' \in [Gpus -> Seq(Nat)]
      /\ \A g \in Gpus : Len(vramHist'[g]) <= LeakTicks
  <2> DEFINE kept(g) == IF HasVram(tick, g)
                        THEN LastOf(Append(vramHist[g], tick.gpus[g].vram), LeakTicks)
                        ELSE vramHist[g]
  <2>1. vramHist' = [g \in Gpus |-> kept(g)]
    BY DEF Ingest, RecordVram
  <2>2. ASSUME NEW g \in Gpus PROVE kept(g) \in Seq(Nat) /\ Len(kept(g)) <= LeakTicks
    <3>1. vramHist[g] \in Seq(Nat) /\ Len(vramHist[g]) <= LeakTicks
      BY DEF TypeOK
    <3>2. CASE HasVram(tick, g)
      <4>1. tick.gpus[g].vram \in Nat
        BY <1>1, <3>2 DEF HasVram, GpuSample
      <4>2. Append(vramHist[g], tick.gpus[g].vram) \in Seq(Nat)
        BY <3>1, <4>1
      <4> HIDE DEF kept
      <4>3. kept(g) = LastOf(Append(vramHist[g], tick.gpus[g].vram), LeakTicks)
        BY <3>2 DEF kept
      <4>4. LeakTicks \in Nat
        BY SizeAssumption
      <4> DEFINE longer == Append(vramHist[g], tick.gpus[g].vram)
      <4>5. longer \in Seq(Nat)
        BY <4>2
      <4> HIDE DEF longer
      <4>6. LastOf(longer, LeakTicks) \in Seq(Nat) /\ Len(LastOf(longer, LeakTicks)) <= LeakTicks
        BY <4>4, <4>5, LastOfType
      <4> QED
        BY <4>3, <4>6 DEF longer
    <3>3. CASE ~HasVram(tick, g)
      BY <3>1, <3>3
    <3> QED
      BY <3>2, <3>3
  <2> HIDE DEF kept
  <2> QED
    BY <2>1, <2>2
<1>8. peakVram' \in [Gpus -> Nat]
  <2> DEFINE top(g) == IF HasVram(tick, g) /\ tick.gpus[g].vram > peakVram[g]
                       THEN tick.gpus[g].vram ELSE peakVram[g]
  <2>1. peakVram' = [g \in Gpus |-> top(g)]
    BY DEF Ingest, RecordVram
  <2>2. ASSUME NEW g \in Gpus PROVE top(g) \in Nat
    BY <1>1 DEF HasVram, GpuSample, TypeOK
  <2> HIDE DEF top
  <2> QED
    BY <2>1, <2>2
<1>9. spent' \in Nat /\ wasted' \in Nat
  <2>1. Charged(tick.ts) \in Nat /\ Waste(est, tick) \in Nat /\ Rate \in Nat
    BY <1>1, <1>3, ChargedType, WasteType, LevelAssumption
  <2>2. Rate * Charged(tick.ts) \in Nat /\ Rate * Waste(est, tick) \in Nat
    BY <2>1
  <2>3. Rate * Waste(est, tick) * Charged(tick.ts) \in Nat
    BY <2>1, <2>2
  <2> QED
    BY <1>2, <2>2, <2>3 DEF Charge, TypeOK
<1>10. growing' \subseteq Gpus
  BY DEF Ingest, FlagGrowth, InUse
<1>11. past' \in Seq(Tick) /\ log' \in Seq(Estimate)
  BY <1>2, <1>3 DEF Ingest, TypeOK
<1> QED
  BY <1>4, <1>5, <1>6, <1>7, <1>8, <1>9, <1>10, <1>11 DEF TypeOK

\* Every tick the collector delivers is one of those.
LEMMA NextIngests ==
  ASSUME TypeOK, NextTick
  PROVE  \E tick \in Tick : Ingest(tick)
<1>1. PICK s \in Samples, d \in ClockSteps :
        LET ts == (IF lastTs = None THEN 0 ELSE lastTs) + d
        IN ts >= 0 /\ Ingest([ts |-> ts, gpus |-> s.gpus, steps |-> s.steps])
  BY DEF NextTick
<1> DEFINE ts == (IF lastTs = None THEN 0 ELSE lastTs) + d
           tick == [ts |-> ts, gpus |-> s.gpus, steps |-> s.steps]
<1>2. ts \in Nat
  BY <1>1, DataAssumption DEF TypeOK
<1>3. s.gpus \in [Gpus -> GpuSample] /\ s.steps \in Nat
  BY DataAssumption DEF Sample
<1>4. tick \in Tick
  BY <1>2, <1>3 DEF Tick
<1> QED
  BY <1>1, <1>4

\* TypeOK is inductive.
LEMMA NextType == TypeOK /\ [Next]_vars => TypeOK'
<1> SUFFICES ASSUME TypeOK, [Next]_vars PROVE TypeOK'
  OBVIOUS
<1>1. CASE NextTick
  BY <1>1, NextIngests, IngestType
<1>2. CASE UNCHANGED vars
  BY <1>2 DEF vars, TypeOK
<1> QED
  BY <1>1, <1>2 DEF Next, Over

\* Every variable keeps its type and window and VRAM history their capacity.
THEOREM TypeCorrectness == Spec => []TypeOK
<1>1. Init => TypeOK
  BY InitType
<1>2. TypeOK /\ [Next]_vars => TypeOK'
  BY NextType
<1> QED
  BY <1>1, <1>2, PTL DEF Spec

------------------------------------------------------------------------------
(* The statistics.                                                         *)

\* No figure has been counted yet.
LEMMA InitStatistics == Init => Statistics
<1> SUFFICES ASSUME Init PROVE Statistics
  OBVIOUS
<1>1. log = <<>> /\ peak = None /\ hist = [l \in Levels |-> 0]
  BY DEF Init
<1>2. 1..Len(log) = {}
  BY <1>1
<1>3. \A l \in Levels : Matching(log, histSource, l) = {}
  BY <1>2 DEF Matching
<1> QED
  BY <1>1, <1>2, <1>3, FS_EmptySet DEF Statistics

\* Ranks tell sources apart.
LEMMA RankOrder ==
  /\ \A s \in Sources : Rank[s] \in 0..3
  /\ \A s, t \in Sources : Rank[s] = Rank[t] => s = t
  BY DEF Rank, Sources

\* record_mfu keeps the statistics those of the best source.
LEMMA RecordStatistics ==
  ASSUME TypeOK, Statistics, NEW est \in Estimate, RecordMfu(est), log' = Append(log, est)
  PROVE  Statistics'
<1> DEFINE n == Len(log)
<1>1. /\ n \in Nat /\ Len(log') = n + 1
      /\ \A i \in 1..n : log'[i] = log[i] /\ log[i] \in Estimate
      /\ log'[n + 1] = est
  BY DEF TypeOK
<1>2. 1..Len(log') = (1..n) \cup {n + 1}
  BY <1>1
<1>3. /\ est.source \in Sources /\ est.mfu \in Levels \cup {None}
      /\ histSource \in Sources /\ hist \in [Levels -> Nat] /\ peak \in Levels \cup {None}
  BY DEF Estimate, TypeOK
<1>4. None \notin Levels /\ None \in Int /\ Levels \subseteq Nat /\ \A l \in Levels : None < l
  BY LevelAssumption DEF None, Levels
<1>5. \A x \in Levels \cup {None} : x \in Int
  BY LevelAssumption DEF None, Levels
<1>6. \A source, l : Cardinality(Matching(log', source, l)) =
        Cardinality(Matching(log, source, l))
          + (IF est.source = source /\ est.mfu = l THEN 1 ELSE 0)
  BY MatchingAppend DEF TypeOK
<1>7. \A source, l : Cardinality(Matching(log, source, l)) \in Nat
  BY MatchingFinite DEF TypeOK
<1>8. CASE est.mfu = None \/ Rank[est.source] < Rank[histSource]
  <2>1. hist' = hist /\ histSource' = histSource /\ peak' = peak
    BY <1>8 DEF RecordMfu
  <2>2. ~(est.source = histSource /\ est.mfu # None)
    BY <1>3, <1>8, RankOrder
  <2>3. \A i \in 1..Len(log') : log'[i].mfu # None => Rank[log'[i].source] <= Rank[histSource']
    BY <1>1, <1>2, <1>3, <1>8, <2>1, RankOrder DEF Statistics
  <2>4. \A l \in Levels : hist'[l] = Cardinality(Matching(log', histSource', l))
    BY <1>4, <1>6, <1>7, <2>1, <2>2 DEF Statistics
  <2>5. \A i \in 1..Len(log') :
          log'[i].source = histSource' /\ log'[i].mfu # None => log'[i].mfu <= peak'
    BY <1>1, <1>2, <2>1, <2>2 DEF Statistics
  <2>6. peak' # None =>
          \E i \in 1..Len(log') : log'[i].source = histSource' /\ log'[i].mfu = peak'
    BY <1>1, <1>2, <2>1 DEF Statistics
  <2> QED
    BY <2>3, <2>4, <2>5, <2>6 DEF Statistics
<1>9. CASE est.mfu # None /\ Rank[est.source] = Rank[histSource]
  <2>1. est.source = histSource /\ est.mfu \in Levels
    BY <1>3, <1>9, RankOrder
  <2>2. ~(Rank[est.source] < Rank[histSource]) /\ ~(Rank[est.source] > Rank[histSource])
    BY <1>3, <1>9, RankOrder
  <2>3. /\ hist' = [hist EXCEPT ![est.mfu] = @ + 1] /\ histSource' = histSource
        /\ peak' = IF est.mfu > peak THEN est.mfu ELSE peak
    BY <1>9, <2>1, <2>2 DEF RecordMfu
  <2>4. \A i \in 1..Len(log') : log'[i].mfu # None => Rank[log'[i].source] <= Rank[histSource']
    BY <1>1, <1>2, <1>9, <2>3, RankOrder, <1>3 DEF Statistics
  <2>5. \A l \in Levels : hist'[l] = Cardinality(Matching(log', histSource', l))
    <3>1. \A l \in Levels : hist'[l] = hist[l] + (IF est.mfu = l THEN 1 ELSE 0)
      BY <1>3, <2>1, <2>3
    <3> QED
      BY <1>6, <2>1, <2>3, <3>1 DEF Statistics
  <2>6. \A i \in 1..Len(log') :
          log'[i].source = histSource' /\ log'[i].mfu # None => log'[i].mfu <= peak'
    <3>3. peak \in Int
      BY <1>3, <1>4
    <3>4. est.mfu \in Int
      BY <1>5, <2>1
    <3>1. peak' \in Int /\ peak <= peak' /\ est.mfu <= peak'
      BY <2>3, <3>3, <3>4
    <3>2. \A i \in 1..n : log[i].mfu # None => log[i].mfu \in Int
      <4>1. \A i \in 1..n : log[i].mfu \in Levels \cup {None}
        BY <1>1 DEF Estimate
      <4> QED
        BY <1>5, <4>1
    <3> QED
      BY <1>1, <1>2, <2>1, <2>3, <3>3, <3>4, <3>1, <3>2 DEF Statistics
  <2>7. peak' # None =>
          \E i \in 1..Len(log') : log'[i].source = histSource' /\ log'[i].mfu = peak'
    BY <1>1, <1>2, <2>1, <2>3 DEF Statistics
  <2> QED
    BY <2>4, <2>5, <2>6, <2>7 DEF Statistics
<1>10. CASE est.mfu # None /\ Rank[est.source] > Rank[histSource]
  <2>1. est.mfu \in Levels /\ ~(Rank[est.source] < Rank[histSource])
    BY <1>3, <1>10, RankOrder
  <2>2. /\ hist' = [[l \in Levels |-> 0] EXCEPT ![est.mfu] = @ + 1]
        /\ histSource' = est.source
        /\ peak' = IF est.mfu > None THEN est.mfu ELSE None
    BY <1>10, <2>1 DEF RecordMfu
  <2>3. peak' = est.mfu
    BY <1>4, <2>1, <2>2
  \* No earlier figure came from the new source.
  <2>4. \A i \in 1..n : ~(log[i].source = est.source /\ log[i].mfu # None)
    BY <1>3, <1>10, RankOrder DEF Statistics
  <2>5. \A i \in 1..Len(log') : log'[i].mfu # None => Rank[log'[i].source] <= Rank[histSource']
    <3>1. \A i \in 1..n : log[i].mfu # None => Rank[log[i].source] <= Rank[est.source]
      <4>1. \A i \in 1..n : log[i].source \in Sources
        BY <1>1 DEF Estimate
      <4> QED
        BY <1>3, <1>10, <4>1, RankOrder DEF Statistics
    <3>2. Rank[est.source] <= Rank[est.source]
      BY <1>3, RankOrder
    <3> QED
      BY <1>1, <1>2, <2>2, <3>1, <3>2
  <2>6. \A l \in Levels : hist'[l] = Cardinality(Matching(log', histSource', l))
    <3>1. \A l \in Levels : Matching(log, est.source, l) = {}
      BY <1>4, <2>4 DEF Matching
    <3>2. \A l \in Levels : Cardinality(Matching(log, est.source, l)) = 0
      BY <3>1, FS_EmptySet
    <3>3. \A l \in Levels : hist'[l] = IF est.mfu = l THEN 1 ELSE 0
      BY <2>1, <2>2
    <3> QED
      BY <1>6, <2>2, <3>2, <3>3
  <2>7. \A i \in 1..Len(log') :
          log'[i].source = histSource' /\ log'[i].mfu # None => log'[i].mfu <= peak'
    <3>0. est.mfu \in Int
      BY <1>5, <2>1
    <3>1. est.mfu <= est.mfu
      BY <3>0
    <3> QED
      BY <1>1, <1>2, <2>2, <2>3, <2>4, <3>1
  <2>8. \E i \in 1..Len(log') : log'[i].source = histSource' /\ log'[i].mfu = peak'
    BY <1>1, <1>2, <2>2, <2>3
  <2> QED
    BY <2>5, <2>6, <2>7, <2>8 DEF Statistics
<1> QED
  BY <1>3, <1>8, <1>9, <1>10, RankOrder

\* Every step keeps them.
LEMMA NextStatistics == TypeOK /\ Statistics /\ [Next]_vars => Statistics'
<1> SUFFICES ASSUME TypeOK, Statistics, [Next]_vars PROVE Statistics'
  OBVIOUS
<1>1. CASE NextTick
  <2>1. PICK tick \in Tick : Ingest(tick)
    BY <1>1, NextIngests
  <2>2. PICK est \in Estimates(window') : RecordMfu(est) /\ log' = Append(log, est)
    BY <2>1 DEF Ingest
  <2>3. est \in Estimate
    BY EstimateType
  <2> QED
    BY <2>2, <2>3, RecordStatistics
<1>2. CASE UNCHANGED vars
  BY <1>2 DEF vars, Statistics
<1> QED
  BY <1>1, <1>2 DEF Next, Over

\* The counts of Statistics are those of the property.
LEMMA StatisticsSuffice == TypeOK /\ Statistics => StatisticsDescribeBestSource
<1> SUFFICES ASSUME TypeOK, Statistics PROVE StatisticsDescribeBestSource
  OBVIOUS
<1>1. \A l \in Levels : hist[l] = Cardinality({i \in Recorded(histSource) : log[i].mfu = l})
  BY RecordedMatching DEF Statistics
<1>2. \A i \in Recorded(histSource) : log[i].mfu <= peak
  BY DEF Statistics, Recorded
<1>3. peak # None => \E i \in Recorded(histSource) : log[i].mfu = peak
  BY DEF Statistics, Recorded
<1> QED
  BY <1>1, <1>2, <1>3 DEF Statistics, StatisticsDescribeBestSource

\* Percentiles and peak describe the best MFU source of the session and no
\* other, for any sequence of ticks.
THEOREM StatisticsCorrectness == Spec => []StatisticsDescribeBestSource
<1>1. Init => TypeOK /\ Statistics
  BY InitType, InitStatistics
<1>2. TypeOK /\ Statistics /\ [Next]_vars => (TypeOK /\ Statistics)'
  BY NextType, NextStatistics
<1>3. TypeOK /\ Statistics => StatisticsDescribeBestSource
  BY StatisticsSuffice
<1> QED
  BY <1>1, <1>2, <1>3, PTL DEF Spec
------------------------------------------------------------------------------
(* Cost.                                                                   *)

\* A product grows with its factor.
LEMMA ProductGrows ==
  ASSUME NEW a \in Int, NEW b \in Int, NEW c \in Nat, a <= b
  PROVE  c * a <= c * b
<1>1. PICK d \in Nat : b = a + d
  <2>1. b - a \in Nat /\ b = a + (b - a)
    OBVIOUS
  <2> QED
    BY <2>1
<1>2. c * b = c * a + c * d /\ c * d \in Nat /\ c * a \in Int
  BY <1>1
<1> QED
  BY <1>2

\* A cost over an interval is that of its two parts.
LEMMA ProductSplits ==
  ASSUME NEW a \in Int, NEW b \in Int, NEW c \in Int, NEW r \in Int
  PROVE  r * (c - a) = r * (b - a) + r * (c - b)
  OBVIOUS

\* What CostIsBounded needs to be inductive: the two times are those of the
\* first and the newest tick.
Ledger ==
  /\ wasted <= Target * spent
  /\ past = <<>> => firstTs = None /\ lastTs = None /\ spent = 0
  /\ past # <<>> => /\ firstTs \in Nat /\ lastTs = past[Len(past)].ts
                    /\ ClockIsMonotone => spent <= Rate * (lastTs - firstTs)

\* No more than everything is wasted.
LEMMA WasteBound ==
  ASSUME NEW est \in Estimate, NEW tick
  PROVE  Waste(est, tick) \in 0..Target
<1>1. est.mfu \in Levels \cup {None}
  BY DEF Estimate
<1> QED
  BY <1>1, LevelAssumption DEF Waste, Monus, Levels, None

\* An earlier part of a session with a monotone clock has one.
LEMMA MonotonePrefix ==
  ASSUME NEW tick \in Tick, past \in Seq(Tick), past # <<>>, past' = Append(past, tick),
         ClockIsMonotone'
  PROVE  ClockIsMonotone /\ past[Len(past)].ts <= tick.ts
<1> DEFINE n == Len(past)
<1>1. n \in Nat \ {0} /\ Len(past') = n + 1
  BY EmptySeq, LenProperties, AppendProperties
<1>2. /\ \A i \in 1..n : past'[i] = past[i]
      /\ past'[n + 1] = tick
  BY <1>1, AppendProperties
<1>3. \A i \in 1..n : past'[i].ts <= past'[i + 1].ts
  BY <1>1 DEF ClockIsMonotone
<1>4. \A i \in 1..(n - 1) : past[i].ts <= past[i + 1].ts
  BY <1>1, <1>2, <1>3
<1>5. past'[n].ts <= past'[n + 1].ts
  <2>1. n \in 1..n
    BY <1>1
  <2> QED
    BY <1>3, <2>1
<1> QED
  BY <1>1, <1>2, <1>4, <1>5 DEF ClockIsMonotone

\* A tick is charged for at most the time since the one before it.
LEMMA IngestLedger ==
  ASSUME TypeOK, Ledger, NEW tick \in Tick, Ingest(tick)
  PROVE  Ledger'
<1> DEFINE time == Charged(tick.ts)
<1>1. PICK est \in Estimates(window') : Charge(est, tick)
  BY DEF Ingest
<1>2. est \in Estimate
  BY EstimateType
<1>3. /\ tick.ts \in Nat /\ time \in Nat /\ Rate \in Nat /\ Target \in Nat
      /\ spent \in Nat /\ wasted \in Nat
  BY ChargedType, LevelAssumption DEF Tick, TypeOK
<1>4. spent' = spent + Rate * time /\ wasted' = wasted + Rate * Waste(est, tick) * time
  BY <1>1 DEF Charge
<1>5. past \in Seq(Tick) /\ past' = Append(past, tick) /\ past' # <<>>
  BY AppendProperties DEF Ingest, TypeOK
<1>6. past'[Len(past')] = tick
  BY <1>5, AppendProperties, LenProperties
<1>7. lastTs' = tick.ts /\ firstTs' = IF firstTs = None THEN tick.ts ELSE firstTs
  BY DEF Ingest
<1>8. wasted' <= Target * spent'
  <2> DEFINE w == Waste(est, tick)
             r == Rate * time
  <2>1. w \in Nat /\ w <= Target
    BY <1>2, <1>3, WasteBound
  <2>2. r \in Nat
    BY <1>3
  <2>3. r * w <= r * Target
    BY <1>3, <2>1, <2>2, ProductGrows
  <2>4. Rate * w * time = r * w
    BY <1>3, <2>1
  <2>5. Target * (spent + r) = Target * spent + r * Target
    BY <1>3, <2>2
  <2>6. wasted <= Target * spent
    BY DEF Ledger
  <2>7. Target * spent \in Nat /\ r * w \in Nat /\ r * Target \in Nat
    BY <1>3, <2>1, <2>2
  <2> HIDE DEF w, r
  <2>8. wasted + r * w <= Target * spent + r * Target
    BY <1>3, <2>3, <2>6, <2>7
  <2> QED
    BY <1>4, <2>4, <2>5, <2>8 DEF w, r
<1>9. CASE past = <<>>
  <2>1. firstTs = None /\ lastTs = None /\ spent = 0
    BY <1>9 DEF Ledger
  <2>2. time = 0
    BY <1>3, <2>1, SizeAssumption DEF Charged
  <2>3. firstTs' = tick.ts /\ spent' = 0
    BY <1>3, <1>4, <1>7, <2>1, <2>2
  <2>4. Rate * (tick.ts - tick.ts) = 0
    BY <1>3
  <2> QED
    BY <1>3, <1>5, <1>6, <1>7, <1>8, <2>3, <2>4 DEF Ledger
<1>10. CASE past # <<>>
  <2>1. firstTs \in Nat /\ lastTs = past[Len(past)].ts /\ lastTs \in Nat
    <3>1. Len(past) \in 1..Len(past)
      BY <1>5, <1>10, EmptySeq, LenProperties
    <3>2. past[Len(past)] \in Tick
      BY <1>5, <3>1, ElementOfSeq
    <3> QED
      BY <1>10, <3>2 DEF Ledger, Tick
  <2>2. firstTs' = firstTs
    BY <1>7, <2>1 DEF None
  <2>3. ASSUME ClockIsMonotone' PROVE spent' <= Rate * (lastTs' - firstTs')
    <3>1. ClockIsMonotone /\ lastTs <= tick.ts
      BY <1>5, <1>10, <2>1, <2>3, MonotonePrefix
    <3>2. spent <= Rate * (lastTs - firstTs)
      BY <1>10, <3>1 DEF Ledger
    <3>3. time <= tick.ts - lastTs
      BY <1>3, <2>1, <3>1, SizeAssumption DEF Charged, Monus, None
    <3>4. Rate * time <= Rate * (tick.ts - lastTs)
      <4> DEFINE gap == tick.ts - lastTs
      <4>1. gap \in Int /\ time \in Int /\ time <= gap
        BY <1>3, <2>1, <3>3
      <4> HIDE DEF gap, time
      <4>2. Rate * time <= Rate * gap
        BY <1>3, <4>1, ProductGrows
      <4> QED
        BY <4>2 DEF gap
    <3>5. Rate * (tick.ts - firstTs) = Rate * (lastTs - firstTs) + Rate * (tick.ts - lastTs)
      <4>1. tick.ts \in Int /\ lastTs \in Int /\ firstTs \in Int /\ Rate \in Int
        BY <1>3, <2>1
      <4> QED
        BY <4>1, ProductSplits
    <3>6. /\ Rate * time \in Nat /\ Rate * (lastTs - firstTs) \in Int
          /\ Rate * (tick.ts - lastTs) \in Int
      BY SMTT(30), <1>3, <2>1
    <3> QED
      BY <1>3, <1>4, <1>7, <2>2, <3>2, <3>4, <3>5, <3>6
  <2> QED
    BY <1>5, <1>6, <1>7, <1>8, <2>1, <2>2, <2>3 DEF Ledger
<1> QED
  BY <1>9, <1>10

\* Money is never wasted that was not spent, and while the clock is not set
\* back none is spent for time that has not passed.
THEOREM CostCorrectness == Spec => []CostIsBounded
<1>1. Init => Ledger
  BY LevelAssumption DEF Init, Ledger
<1>2. TypeOK /\ Ledger /\ [Next]_vars => Ledger'
  <2> SUFFICES ASSUME TypeOK, Ledger, [Next]_vars PROVE Ledger'
    OBVIOUS
  <2>1. CASE NextTick
    BY <2>1, NextIngests, IngestLedger
  <2>2. CASE UNCHANGED vars
    BY <2>2 DEF vars, Ledger, ClockIsMonotone
  <2> QED
    BY <2>1, <2>2 DEF Next, Over
<1>3. Ledger => CostIsBounded
  BY DEF Ledger, CostIsBounded
<1> QED
  BY <1>1, <1>2, <1>3, TypeCorrectness, PTL DEF Spec
------------------------------------------------------------------------------
(* Suffixes.  While the clock is not set back the window is the end of the *)
(* session's ticks, from a tick k on that is the first one to keep.        *)

\* w is what s has from position k on.
Suffix(w, s, k) ==
  /\ Len(w) = Len(s) - k + 1
  /\ \A i \in 1..Len(w) : w[i] = s[k - 1 + i]

\* Every nonempty set of naturals has a least element.
LEMMA LeastElement ==
  ASSUME NEW T \in SUBSET Nat, T # {}
  PROVE  \E x \in T : \A y \in T : x <= y
<1>1. PICK x \in T : \A y \in T : ~(<<y, x>> \in OpToRel(<, Nat))
  BY NatLessThanWellFounded, WFMin
<1>2. ASSUME NEW y \in T PROVE x <= y
  <2>1. <<y, x>> \in Nat \X Nat
    OBVIOUS
  <2>2. ~(y < x)
    BY <1>1, <2>1 DEF OpToRel
  <2> QED
    BY <2>2
<1> QED
  BY <1>2

\* A set of positions that has, with each one, those before it.
LEMMA DownClosed ==
  ASSUME NEW m \in Nat, NEW E \in SUBSET (1..m), \A i \in E : 1..i \subseteq E
  PROVE  Cardinality(E) \in 0..m /\ E = 1..Cardinality(E)
<1> DEFINE T == {i \in 1..(m + 1) : i \notin E}
<1>1. m + 1 \in T
  OBVIOUS
<1>2. PICK p \in T : \A y \in T : p <= y
  <2>1. T \in SUBSET Nat /\ T # {}
    BY <1>1
  <2> HIDE DEF T
  <2> QED
    BY <2>1, LeastElement, Zenon
<1>3. p \in 1..(m + 1) /\ p \notin E
  OBVIOUS
<1>4. E = 1..(p - 1)
  <2>1. ASSUME NEW i \in E PROVE i \in 1..(p - 1)
    <3>1. ~(p \in 1..i)
      BY <1>3
    <3> QED
      BY <1>3, <3>1
  <2>2. ASSUME NEW i \in 1..(p - 1) PROVE i \in E
    BY <1>2, <1>3
  <2> QED
    BY <2>1, <2>2
<1>5. Cardinality(1..(p - 1)) = p - 1
  BY <1>3, FS_Interval
<1> QED
  BY <1>3, <1>4, <1>5

\* The end of a list from an index on is a suffix of it.
LEMMA SubSeqSuffix ==
  ASSUME NEW S, NEW s \in Seq(S), NEW k \in 1..(Len(s) + 1)
  PROVE  SubSeq(s, k, Len(s)) \in Seq(S) /\ Suffix(SubSeq(s, k, Len(s)), s, k)
<1> DEFINE w == SubSeq(s, k, Len(s))
           n == Len(s)
<1>1. n \in Nat /\ \A i \in k..n : s[i] \in S
  BY LenProperties, ElementOfSeq
<1>2. /\ w \in Seq(S)
      /\ Len(w) = IF k <= n THEN n - k + 1 ELSE 0
      /\ \A i \in 1..(n - k + 1) : w[i] = s[k + i - 1]
  BY <1>1, SubSeqProperties
<1> HIDE DEF w, n
<1>3. k \in 1..(n + 1)
  BY DEF n
<1>4. Len(w) = n - k + 1
  BY <1>1, <1>2, <1>3
<1>5. \A i \in 1..Len(w) : w[i] = s[k - 1 + i]
  BY <1>1, <1>2, <1>3, <1>4
<1> QED
  BY <1>2, <1>4, <1>5 DEF Suffix, w, n

\* So are its last n elements.
LEMMA LastOfSuffix ==
  ASSUME NEW S, NEW s \in Seq(S), NEW n \in Nat
  PROVE  /\ Monus(Len(s), n) + 1 \in 1..(Len(s) + 1)
         /\ Suffix(LastOf(s, n), s, Monus(Len(s), n) + 1)
<1>1. Len(s) \in Nat
  BY LenProperties
<1>2. Monus(Len(s), n) + 1 \in 1..(Len(s) + 1)
  BY <1>1 DEF Monus
<1> QED
  BY <1>2, SubSeqSuffix DEF LastOf

\* A suffix of a suffix is a suffix.
LEMMA SuffixTransitive ==
  ASSUME NEW S, NEW s \in Seq(S), NEW w \in Seq(S), NEW v \in Seq(S),
         NEW k \in 1..(Len(s) + 1), NEW m \in 1..(Len(w) + 1),
         Suffix(w, s, k), Suffix(v, w, m)
  PROVE  Suffix(v, s, k + m - 1) /\ k + m - 1 \in 1..(Len(s) + 1)
<1> DEFINE a == Len(s)
           b == Len(w)
           c == Len(v)
<1>1. a \in Nat /\ b \in Nat /\ c \in Nat
  BY LenProperties
<1>2. /\ b = a - k + 1 /\ \A i \in 1..b : w[i] = s[k - 1 + i]
      /\ c = b - m + 1 /\ \A i \in 1..c : v[i] = w[m - 1 + i]
      /\ k \in 1..(a + 1) /\ m \in 1..(b + 1)
  BY DEF Suffix
<1>3. k + m - 1 \in 1..(a + 1) /\ c = a - (k + m - 1) + 1
  BY <1>1, <1>2
<1>4. ASSUME NEW i \in 1..c PROVE v[i] = s[(k + m - 1) - 1 + i]
  <2>1. m - 1 + i \in 1..b
    BY <1>1, <1>2
  <2>2. v[i] = w[m - 1 + i] /\ w[m - 1 + i] = s[k - 1 + (m - 1 + i)]
    BY <1>2, <2>1
  <2>3. k - 1 + (m - 1 + i) = (k + m - 1) - 1 + i
    BY <1>1, <1>2
  <2> QED
    BY <2>2, <2>3
<1> QED
  BY <1>3, <1>4 DEF Suffix

\* It stays one when both grow by the same element.
LEMMA SuffixAppend ==
  ASSUME NEW S, NEW s \in Seq(S), NEW w \in Seq(S), NEW e \in S,
         NEW k \in 1..(Len(s) + 1), Suffix(w, s, k)
  PROVE  Suffix(Append(w, e), Append(s, e), k)
<1> DEFINE a == Len(s)
           b == Len(w)
<1>1. a \in Nat /\ b \in Nat /\ k \in 1..(a + 1)
  BY LenProperties
<1>2. b = a - k + 1 /\ \A i \in 1..b : w[i] = s[k - 1 + i]
  BY DEF Suffix
<1>3. /\ Len(Append(s, e)) = a + 1 /\ Append(s, e)[a + 1] = e
      /\ \A i \in 1..a : Append(s, e)[i] = s[i]
  BY AppendProperties
<1>4. /\ Len(Append(w, e)) = b + 1 /\ Append(w, e)[b + 1] = e
      /\ \A i \in 1..b : Append(w, e)[i] = w[i]
  BY AppendProperties
<1> HIDE DEF a, b
<1>5. ASSUME NEW i \in 1..(b + 1) PROVE Append(w, e)[i] = Append(s, e)[k - 1 + i]
  <2>1. CASE i = b + 1
    <3>1. k - 1 + i = a + 1
      BY <2>1, <1>1, <1>2
    <3> QED
      BY <2>1, <3>1, <1>3, <1>4
  <2>2. CASE i <= b
    <3>1. i \in 1..b /\ k - 1 + i \in 1..a
      BY <2>2, <1>1, <1>2
    <3> QED
      BY <3>1, <1>2, <1>3, <1>4
  <2>3. i = b + 1 \/ i <= b
    BY <1>1
  <2> QED
    BY <2>1, <2>2, <2>3
<1>6. b + 1 = (a + 1) - k + 1
  BY <1>1, <1>2
<1> QED
  BY <1>3, <1>4, <1>5, <1>6 DEF Suffix

\* What never falls from one position to the next never falls at all.
LEMMA Nondecreasing ==
  ASSUME NEW n \in Nat, NEW x, \A i \in 1..n : x[i] \in Nat,
         \A i \in 1..(n - 1) : x[i] <= x[i + 1]
  PROVE  \A i, j \in 1..n : i <= j => x[i] <= x[j]
<1> SUFFICES ASSUME NEW i \in 1..n, NEW j \in 1..n, i <= j, ~(x[i] <= x[j]) PROVE FALSE
  OBVIOUS
<1> DEFINE T == {l \in i..n : ~(x[i] <= x[l])}
<1>1. T \in SUBSET Nat /\ T # {}
  <2>1. j \in T
    OBVIOUS
  <2> QED
    BY <2>1
<1>2. PICK l \in T : \A y \in T : l <= y
  <2> HIDE DEF T
  <2> QED
    BY <1>1, LeastElement, Zenon
<1>3. l \in i..n /\ ~(x[i] <= x[l]) /\ x[l] \in Nat /\ x[i] \in Nat
  OBVIOUS
<1>4. l # i
  BY <1>3
<1>5. l - 1 \in i..n /\ l - 1 \in 1..(n - 1) /\ ~(l <= l - 1)
  BY <1>3, <1>4
<1>6. x[i] <= x[l - 1]
  BY <1>2, <1>5
<1>7. x[l - 1] <= x[(l - 1) + 1] /\ x[l - 1] \in Nat
  BY <1>5
<1>8. (l - 1) + 1 = l
  BY <1>3
<1> QED
  BY <1>3, <1>6, <1>7, <1>8

\* Evicting leaves the end of the window from the first tick on that is not
\* older than WindowSpan.
LEMMA EvictSuffix ==
  ASSUME NEW w \in Seq(Tick), w # <<>>, NEW now \in Nat,
         \A i, j \in 1..Len(w) : i <= j => w[i].ts <= w[j].ts,
         \A i \in 1..Len(w) : w[i].ts <= now
  PROVE  \E m \in 1..Len(w) :
           /\ Suffix(Evict(w, now), w, m)
           /\ \A i \in 1..(Len(w) - 1) : i >= m <=> now - w[i].ts <= WindowSpan
<1> DEFINE n == Len(w)
           E == Expired(w, now)
           e == Cardinality(E)
<1>1. n \in Nat /\ n >= 1 /\ WindowSpan \in Nat
  BY LenProperties, EmptySeq, SizeAssumption
<1>2. \A i \in 1..n : w[i].ts \in Nat
  <2>1. \A i \in 1..n : w[i] \in Tick
    BY ElementOfSeq
  <2> QED
    BY <2>1 DEF Tick
<1>3. ASSUME NEW i \in 1..(n - 1)
      PROVE  i \in E <=> now - w[i].ts > WindowSpan
  <2>1. i \in 1..n /\ \A j \in 1..i : j \in 1..n /\ j <= i
    BY <1>1
  <2>2. \A j \in 1..i : /\ w[j].ts <= w[i].ts /\ w[j].ts \in Nat /\ w[j].ts <= now
                        /\ Monus(now, w[j].ts) = now - w[j].ts
    BY <1>2, <2>1 DEF Monus
  <2>3. i \in 1..i
    OBVIOUS
  <2>4. (\A j \in 1..i : Monus(now, w[j].ts) > WindowSpan) <=> now - w[i].ts > WindowSpan
    BY <1>1, <2>2, <2>3
  <2> QED
    BY <2>4 DEF Expired
<1>4. E \in SUBSET (1..(n - 1)) /\ n - 1 \in Nat /\ \A i \in E : 1..i \subseteq E
  BY <1>1 DEF Expired
<1>5. e \in 0..(n - 1) /\ E = 1..e
  <2> HIDE DEF E, n
  <2> QED
    BY <1>4, DownClosed
<1> HIDE DEF E, e
<1>6. e + 1 \in 1..n /\ e + 1 \in 1..(n + 1)
  BY <1>1, <1>5
<1>7. Suffix(Evict(w, now), w, e + 1)
  BY <1>6, SubSeqSuffix DEF Evict, e, E
<1>8. \A i \in 1..(n - 1) : i >= e + 1 <=> now - w[i].ts <= WindowSpan
  <2> SUFFICES ASSUME NEW i \in 1..(n - 1)
               PROVE  i >= e + 1 <=> now - w[i].ts <= WindowSpan
    OBVIOUS
  <2>1. i >= e + 1 <=> i \notin E
    BY <1>1, <1>5
  <2>2. w[i].ts \in Nat
    BY <1>1, <1>2
  <2> HIDE DEF n
  <2> QED
    BY <1>1, <1>3, <2>1, <2>2
<1> QED
  BY <1>6, <1>7, <1>8

\* The ticks that WindowIsRecent keeps.
Recent(i) ==
  \/ i = Len(past)
  \/ past[Len(past)].ts - past[i].ts <= WindowSpan /\ Len(past) - i < WindowLen

\* The window is the ticks that are recent, if the clock is monotone.
WindowInv ==
  ClockIsMonotone =>
    \E k \in 1..(Len(past) + 1) :
      Suffix(window, past, k) /\ \A i \in 1..Len(past) : i >= k <=> Recent(i)

\* A tick comes in and the old ones leave.
LEMMA IngestWindow ==
  ASSUME TypeOK, WindowInv, NEW tick \in Tick, Ingest(tick)
  PROVE  WindowInv'
<1> SUFFICES ASSUME ClockIsMonotone'
             PROVE  \E k \in 1..(Len(past') + 1) :
                      Suffix(window', past', k) /\ \A i \in 1..Len(past') : i >= k <=> Recent(i)'
  BY DEF WindowInv, Suffix
<1> DEFINE n == Len(past)
           p == past'
           w == Append(window, tick)
           v == LastOf(w, WindowLen)
           now == tick.ts
<1>1. /\ past \in Seq(Tick) /\ window \in Seq(Tick) /\ n \in Nat
      /\ WindowLen \in Nat /\ WindowLen >= 1 /\ WindowSpan \in Nat
      /\ now \in Nat
  BY LenProperties, SizeAssumption DEF TypeOK, Tick
<1>2. /\ p = Append(past, tick) /\ p \in Seq(Tick) /\ Len(p) = n + 1
      /\ \A i \in 1..n : p[i] = past[i]
      /\ p[n + 1] = tick
  BY <1>1, AppendProperties DEF Ingest
<1>3. \A i \in 1..(n + 1) : p[i].ts \in Nat
  <2>1. \A i \in 1..Len(p) : p[i] \in Tick
    BY <1>2, ElementOfSeq
  <2> QED
    BY <1>2, <2>1 DEF Tick
<1>4. \A i, j \in 1..(n + 1) : i <= j => p[i].ts <= p[j].ts
  <2> DEFINE x == [i \in 1..(n + 1) |-> p[i].ts]
  <2>1. \A i \in 1..n : p[i].ts <= p[i + 1].ts
    BY <1>1, <1>2 DEF ClockIsMonotone
  <2>2. /\ n + 1 \in Nat /\ \A i \in 1..(n + 1) : x[i] \in Nat
        /\ \A i \in 1..((n + 1) - 1) : x[i] <= x[i + 1]
    BY <1>1, <1>3, <2>1
  <2> HIDE DEF x
  <2>3. \A i, j \in 1..(n + 1) : i <= j => x[i] <= x[j]
    BY <2>2, Nondecreasing
  <2> QED
    BY <2>3 DEF x
<1>5. ClockIsMonotone
  BY <1>1, <1>2, <1>4, SMTT(30) DEF ClockIsMonotone
<1>6. PICK k \in 1..(n + 1) :
        Suffix(window, past, k) /\ \A i \in 1..n : i >= k <=> Recent(i)
  BY <1>5 DEF WindowInv
<1>7. /\ w \in Seq(Tick) /\ Suffix(w, p, k) /\ Len(w) = (n + 1) - k + 1
      /\ k \in 1..(Len(p) + 1)
  BY <1>1, <1>2, <1>6, AppendProperties, SuffixAppend DEF Suffix
<1> HIDE DEF w, p, n
\* The capacity.
<1> DEFINE a == Monus(Len(w), WindowLen) + 1
           b == k + a - 1
<1>8. v \in Seq(Tick) /\ a \in 1..(Len(w) + 1) /\ Suffix(v, w, a)
  BY <1>1, <1>7, LastOfType, LastOfSuffix
<1> HIDE DEF v
<1>9. Suffix(v, p, b) /\ b \in 1..(Len(p) + 1)
  <2> HIDE DEF a
  <2> QED
    BY <1>2, <1>7, <1>8, SuffixTransitive
<1>10. /\ b \in 1..(n + 1) /\ b >= k /\ b >= n + 2 - WindowLen
       /\ b = k \/ b = n + 2 - WindowLen
  BY <1>1, <1>6, <1>7 DEF Monus
<1> HIDE DEF a, b
<1>11. /\ Len(v) = (n + 1) - b + 1 /\ v # <<>>
       /\ \A i \in 1..Len(v) : v[i] = p[b - 1 + i] /\ b - 1 + i \in 1..(n + 1)
  <2>1. Len(v) = (n + 1) - b + 1 /\ \A i \in 1..Len(v) : v[i] = p[b - 1 + i]
    BY <1>2, <1>9 DEF Suffix
  <2>2. Len(v) >= 1
    BY <2>1, <1>1, <1>10
  <2>3. \A i \in 1..Len(v) : b - 1 + i \in 1..(n + 1)
    BY <2>1, <1>1, <1>10
  <2> QED
    BY <2>1, <2>2, <2>3
\* The span.
<1>12. PICK m \in 1..Len(v) :
         /\ Suffix(Evict(v, now), v, m)
         /\ \A i \in 1..(Len(v) - 1) : i >= m <=> now - v[i].ts <= WindowSpan
  <2>1. \A i, j \in 1..Len(v) : i <= j => v[i].ts <= v[j].ts
    <3> SUFFICES ASSUME NEW i \in 1..Len(v), NEW j \in 1..Len(v), i <= j
                 PROVE  v[i].ts <= v[j].ts
      OBVIOUS
    <3>1. /\ b - 1 + i \in 1..(n + 1) /\ b - 1 + j \in 1..(n + 1)
          /\ v[i] = p[b - 1 + i] /\ v[j] = p[b - 1 + j]
      BY <1>11
    <3>2. b - 1 + i <= b - 1 + j
      BY <1>10, <1>11, <1>1
    <3> QED
      BY <1>4, <3>1, <3>2
  <2>2. \A i \in 1..Len(v) : v[i].ts <= now
    <3>1. \A i \in 1..(n + 1) : i <= n + 1 /\ n + 1 \in 1..(n + 1)
      BY <1>1
    <3> QED
      BY <3>1, <1>2, <1>4, <1>11
  <2> HIDE DEF now
  <2> QED
    BY <2>1, <2>2, <1>1, <1>8, <1>11, EvictSuffix
<1>13. window' = Evict(v, now) /\ window' \in Seq(Tick)
  BY <1>1, <1>8, EvictType DEF Ingest, Push, v, w
<1> DEFINE c == b + m - 1
<1>14. Suffix(window', p, c) /\ c \in 1..(Len(p) + 1)
  <2>1. m \in 1..(Len(v) + 1)
    BY <1>1, <1>10, <1>11
  <2> QED
    BY <2>1, <1>2, <1>8, <1>9, <1>12, <1>13, SuffixTransitive
<1>15. c <= n + 1 /\ c \in Nat
  BY <1>1, <1>10, <1>11
<1> DEFINE Keep(i) == i = n + 1 \/ (now - p[i].ts <= WindowSpan /\ (n + 1) - i < WindowLen)
<1>16. ASSUME NEW i \in 1..n
       PROVE  i >= c <=> Keep(i)
  <2> DEFINE q == i - b + 1
  <2>1. i >= b => /\ q \in 1..(Len(v) - 1) /\ v[q] = p[i]
                  /\ (q >= m <=> i >= c)
    BY <1>1, <1>10, <1>11
  <2>2. i \in 1..(n + 1) /\ ~(i = n + 1)
    BY <1>1
  <2>3. i >= c => i >= b
    BY <1>10, <1>12, <1>11, <1>1
  <2>4. i >= b => (n + 1) - i < WindowLen
    BY <1>1, <1>10
  <2>5. ASSUME now - p[i].ts <= WindowSpan, (n + 1) - i < WindowLen
        PROVE  i >= b
    <3>1. n \in 1..n /\ n \in 1..(n + 1) /\ n <= n + 1 /\ n + 1 \in 1..(n + 1)
      BY <1>1
    <3>2. past[n].ts <= now /\ past[n].ts \in Nat /\ past[i].ts = p[i].ts /\ p[i].ts \in Nat
      BY <1>2, <1>3, <1>4, <2>2, <3>1
    <3>3. past[n].ts - past[i].ts <= WindowSpan
      BY <1>1, <2>5, <3>2
    <3>4. n - i < WindowLen
      BY <1>1, <2>5
    <3>5. i >= k
      BY <1>6, <3>3, <3>4 DEF Recent, n
    <3> QED
      BY <1>1, <1>10, <2>5, <3>5
  <2> HIDE DEF q, c
  <2> QED
    BY <1>12, <2>1, <2>2, <2>3, <2>4, <2>5
<1>17. \A i \in 1..Len(past') : i >= c <=> Recent(i)'
  <2>1. \A i \in 1..(n + 1) : Recent(i)' <=> Keep(i)
    BY <1>1, <1>2 DEF Recent, p
  <2>2. n + 1 >= c
    BY <1>15
  <2>3. \A i \in 1..(n + 1) : i \in 1..n \/ i = n + 1
    BY <1>1
  <2> HIDE DEF c
  <2>4. \A i \in 1..(n + 1) : i >= c <=> Keep(i)
    BY <1>16, <2>2, <2>3
  <2> HIDE DEF Keep
  <2> QED
    BY <2>1, <2>4, <1>2 DEF p
<1> QED
  BY <1>14, <1>17 DEF p
\* While the clock is not set back the window is what the ticks of the whole
\* session would give: evicting tick after tick loses none that belongs to it
\* and keeps none that does not.
THEOREM WindowCorrectness == Spec => []WindowIsRecent
<1>1. Init => WindowInv
  <2> SUFFICES ASSUME Init PROVE WindowInv
    OBVIOUS
  <2>1. past = <<>> /\ window = <<>> /\ Len(past) = 0 /\ Len(window) = 0
    BY DEF Init
  <2>2. Suffix(window, past, 1) /\ 1 \in 1..(Len(past) + 1) /\ 1..Len(past) = {}
    BY <2>1 DEF Suffix
  <2> QED
    BY <2>2 DEF WindowInv
<1>2. TypeOK /\ WindowInv /\ [Next]_vars => WindowInv'
  <2> SUFFICES ASSUME TypeOK, WindowInv, [Next]_vars PROVE WindowInv'
    OBVIOUS
  <2>1. CASE NextTick
    BY <2>1, NextIngests, IngestWindow
  <2>2. CASE UNCHANGED vars
    BY <2>2 DEF vars, WindowInv, Suffix, Recent, ClockIsMonotone
  <2> QED
    BY <2>1, <2>2 DEF Next, Over
<1>3. TypeOK /\ WindowInv => WindowIsRecent
  <2> SUFFICES ASSUME TypeOK, WindowInv, ClockIsMonotone, past # <<>>
               PROVE  WindowIsRecent
    BY DEF WindowIsRecent
  <2> DEFINE n == Len(past)
             keep == {i \in 1..n : \/ i = n
                                   \/ /\ past[n].ts - past[i].ts <= WindowSpan
                                      /\ n - i < WindowLen}
             w == SubSeq(past, n - Cardinality(keep) + 1, n)
  <2>1. /\ past \in Seq(Tick) /\ window \in Seq(Tick) /\ n \in Nat /\ n >= 1
        /\ Len(window) \in Nat
    BY LenProperties, EmptySeq DEF TypeOK
  <2>2. PICK k \in 1..(n + 1) :
          Suffix(window, past, k) /\ \A i \in 1..n : i >= k <=> Recent(i)
    BY DEF WindowInv
  <2>3. keep = k..n /\ k <= n
    <3>1. n \in 1..n
      BY <2>1
    <3>2. Recent(n)
      BY DEF Recent
    <3>3. k <= n
      BY <2>1, <2>2, <3>1, <3>2
    <3>4. keep = {i \in 1..n : Recent(i)}
      BY DEF Recent
    <3> HIDE DEF keep, n
    <3> QED
      BY <2>1, <2>2, <3>3, <3>4
  <2>4. Cardinality(keep) = n - k + 1
    <3>1. k \in Nat /\ n \in Nat /\ k <= n
      BY <2>1, <2>3
    <3>2. Cardinality(k..n) = n - k + 1
      BY <3>1, FS_Interval
    <3> QED
      BY <2>3, <3>2
  <2>5. n - Cardinality(keep) + 1 = k
    <3> HIDE DEF keep, n
    <3> QED
      BY <2>1, <2>4
  <2>6. w = SubSeq(past, k, n)
    BY <2>5
  <2>7. w \in Seq(Tick) /\ Suffix(w, past, k)
    BY <2>1, <2>6, SubSeqSuffix
  <2>8. window = w
    <3> HIDE DEF w
    <3>1. Len(window) = Len(w) /\ \A i \in 1..Len(window) : window[i] = w[i]
      BY <2>2, <2>7 DEF Suffix
    <3> QED
      BY <2>1, <2>7, <3>1, SeqEqual
  <2> QED
    BY <2>8 DEF WindowIsRecent
<1> QED
  BY <1>1, <1>2, <1>3, TypeCorrectness, PTL DEF Spec
------------------------------------------------------------------------------
(* VRAM growth.  The history of a device is the end of its readings: f[i]  *)
(* is the tick its i-th entry was read in.                                 *)

\* f grows up to m.
Increasing(f, m) == \A i, j \in 1..m : i < j => f[i] < f[j]

\* f shows the ticks of s that the history h of device g was read in, and that
\* the readings h no longer has are older than all it has.
ReadIn(f, h, s, g) ==
  /\ f \in [1..Len(h) -> 1..Len(s)] /\ Increasing(f, Len(h))
  /\ \A i \in 1..Len(h) : HasVram(s[f[i]], g) /\ h[i] = s[f[i]].gpus[g].vram
  /\ \A r \in 1..Len(s) : HasVram(s[r], g) =>
       \/ \E k \in 1..Len(h) : f[k] = r
       \/ Len(h) >= LeakTicks /\ r < f[1]

\* What GrowthIsSustained needs to be inductive.
VramInv ==
  /\ \A g \in Gpus : \E f : ReadIn(f, vramHist[g], past, g)
  /\ \A g \in growing : g \in Gpus /\ IsLeaking(vramHist[g])

\* Ticks that are one after the other are as many as their numbers.
LEMMA ImageCardinality ==
  ASSUME NEW m \in Nat, NEW a \in 1..(m + 1), NEW f \in [1..m -> Nat], Increasing(f, m)
  PROVE  LET T == {f[k] : k \in a..m}
         IN  IsFiniteSet(T) /\ Cardinality(T) = m - a + 1
<1> DEFINE T == {f[k] : k \in a..m}
           F == [k \in a..m |-> f[k]]
<1>1. \A i \in a..m : i \in 1..m /\ f[i] \in Nat
  <2>1. \A i \in a..m : i \in 1..m
    OBVIOUS
  <2> QED
    BY <2>1
<1>2. ASSUME NEW i \in a..m, NEW j \in a..m, f[i] = f[j] PROVE i = j
  <2>1. ~(i < j) /\ ~(j < i)
    <3>1. i \in 1..m /\ j \in 1..m /\ f[i] \in Nat /\ f[j] \in Nat
      BY <1>1
    <3>2. ~(f[i] < f[j]) /\ ~(f[j] < f[i])
      BY <1>2, <3>1
    <3> QED
      BY <3>1, <3>2 DEF Increasing
  <2> QED
    BY <2>1
<1>3. F \in Bijection(a..m, T)
  <2>1. F \in [a..m -> T]
    OBVIOUS
  <2>2. \A i, j \in a..m : F[i] = F[j] => i = j
    BY <1>2
  <2>3. \A t \in T : \E i \in a..m : F[i] = t
    OBVIOUS
  <2> HIDE DEF F, T
  <2>4. IsInjective(F)
    BY <2>1, <2>2 DEF IsInjective
  <2> QED
    BY <2>1, <2>3, <2>4 DEF Bijection, Injection, Surjection
<1>4. IsFiniteSet(a..m) /\ Cardinality(a..m) = m - a + 1
  <2>1. a \in Int /\ m \in Int /\ a <= m + 1
    OBVIOUS
  <2>2. IsFiniteSet(a..m) /\ Cardinality(a..m) = IF a > m THEN 0 ELSE m - a + 1
    BY <2>1, FS_Interval
  <2> QED
    BY <2>1, <2>2
<1> HIDE DEF F, T
<1>5. ExistsBijection(a..m, T)
  BY <1>3 DEF ExistsBijection
<1>6. IsFiniteSet(T) /\ Cardinality(T) = Cardinality(a..m)
  BY <1>4, <1>5, FS_Bijection
<1> QED
  BY <1>4, <1>6 DEF T

\* A tick without a reading of the device leaves its history as it is.
LEMMA NoReading ==
  ASSUME NEW h \in Seq(Nat), NEW s \in Seq(Tick), NEW tick \in Tick, NEW g \in Gpus,
         NEW f, ReadIn(f, h, s, g), ~HasVram(tick, g)
  PROVE  ReadIn(f, h, Append(s, tick), g)
<1> DEFINE p == Append(s, tick)
           n == Len(s)
           m == Len(h)
<1>1. /\ Len(p) = n + 1 /\ n \in Nat /\ m \in Nat /\ p[n + 1] = tick
      /\ \A i \in 1..n : p[i] = s[i]
  BY AppendProperties, LenProperties
<1>2. /\ f \in [1..m -> 1..n] /\ Increasing(f, m)
      /\ \A i \in 1..m : HasVram(s[f[i]], g) /\ h[i] = s[f[i]].gpus[g].vram
      /\ \A r \in 1..n : HasVram(s[r], g) =>
           \/ \E k \in 1..m : f[k] = r
           \/ m >= LeakTicks /\ r < f[1]
  BY DEF ReadIn
<1> HIDE DEF p, n, m
<1>3. f \in [1..m -> 1..(n + 1)]
  BY <1>1, <1>2
<1>4. \A i \in 1..m : HasVram(p[f[i]], g) /\ h[i] = p[f[i]].gpus[g].vram
  <2>1. \A i \in 1..m : f[i] \in 1..n
    BY <1>2
  <2> QED
    BY <1>1, <1>2, <2>1
<1>5. ASSUME NEW r \in 1..(n + 1), HasVram(p[r], g)
      PROVE  (\E k \in 1..m : f[k] = r) \/ (m >= LeakTicks /\ r < f[1])
  <2>1. r \in 1..n
    BY <1>1, <1>5
  <2> QED
    BY <1>1, <1>2, <1>5, <2>1
<1> QED
  BY <1>1, <1>2, <1>3, <1>4, <1>5 DEF ReadIn, p, m

\* A reading is added to the history, and the oldest one goes when it is full.
LEMMA NewReading ==
  ASSUME NEW h \in Seq(Nat), NEW s \in Seq(Tick), NEW tick \in Tick, NEW g \in Gpus,
         NEW f, ReadIn(f, h, s, g), Len(h) <= LeakTicks,
         HasVram(tick, g), tick.gpus[g].vram \in Nat
  PROVE  \E e : ReadIn(e, LastOf(Append(h, tick.gpus[g].vram), LeakTicks), Append(s, tick), g)
<1> DEFINE p == Append(s, tick)
           n == Len(s)
           m == Len(h)
           x == tick.gpus[g].vram
           h1 == Append(h, x)
           h2 == LastOf(h1, LeakTicks)
           a == Monus(Len(h1), LeakTicks) + 1
           f1 == [i \in 1..(m + 1) |-> IF i = m + 1 THEN n + 1 ELSE f[i]]
           e == [i \in 1..Len(h2) |-> f1[a - 1 + i]]
<1>1. /\ Len(p) = n + 1 /\ n \in Nat /\ m \in Nat /\ p[n + 1] = tick
      /\ \A i \in 1..n : p[i] = s[i]
  BY AppendProperties, LenProperties
<1>2. /\ f \in [1..m -> 1..n] /\ Increasing(f, m)
      /\ \A i \in 1..m : HasVram(s[f[i]], g) /\ h[i] = s[f[i]].gpus[g].vram
      /\ \A r \in 1..n : HasVram(s[r], g) =>
           \/ \E k \in 1..m : f[k] = r
           \/ m >= LeakTicks /\ r < f[1]
      /\ m <= LeakTicks /\ LeakTicks \in Nat /\ LeakTicks >= 1
  BY SizeAssumption DEF ReadIn
<1>3. /\ h1 \in Seq(Nat) /\ Len(h1) = m + 1 /\ h1[m + 1] = x
      /\ \A i \in 1..m : h1[i] = h[i]
  BY AppendProperties
<1>4. a \in 1..(Len(h1) + 1) /\ Suffix(h2, h1, a)
  <2> HIDE DEF h1
  <2> QED
    BY <1>2, <1>3, LastOfSuffix
<1> HIDE DEF h2, h1, p, n, m, x
<1>5. (a = 1 /\ m < LeakTicks) \/ (a = 2 /\ m = LeakTicks)
  BY <1>1, <1>2, <1>3 DEF Monus
<1> HIDE DEF a
<1>6. /\ a \in 1..2 /\ a <= m + 1 /\ Len(h2) = (m + 1) - a + 1
      /\ \A i \in 1..Len(h2) : h2[i] = h1[a - 1 + i] /\ a - 1 + i \in 1..(m + 1)
  <2>1. a \in 1..2 /\ a <= m + 1
    BY <1>1, <1>2, <1>5
  <2>2. Len(h2) = Len(h1) - a + 1 /\ \A i \in 1..Len(h2) : h2[i] = h1[a - 1 + i]
    BY <1>4, Zenon DEF Suffix
  <2>3. Len(h2) = (m + 1) - a + 1
    BY <1>3, <2>2
  <2>4. \A i \in 1..Len(h2) : a - 1 + i \in 1..(m + 1)
    BY <1>1, <2>1, <2>3
  <2> QED
    BY <2>1, <2>2, <2>3, <2>4
<1>7. f1 \in [1..(m + 1) -> 1..(n + 1)] /\ Increasing(f1, m + 1)
  <2>1. /\ \A i \in 1..(m + 1) : i = m + 1 => f1[i] = n + 1
        /\ \A i \in 1..(m + 1) : i # m + 1 => f1[i] = f[i]
        /\ f1 = [i \in 1..(m + 1) |-> f1[i]]
    OBVIOUS
  <2> HIDE DEF f1
  <2>2. \A i \in 1..(m + 1) : i <= m => i \in 1..m /\ f1[i] = f[i] /\ f[i] \in 1..n
    BY <1>1, <1>2, <2>1
  <2>3. ASSUME NEW i \in 1..(m + 1) PROVE f1[i] \in 1..(n + 1)
    <3>1. CASE i = m + 1
      BY <1>1, <2>1, <3>1
    <3>2. CASE i <= m
      <4>1. f1[i] = f[i] /\ f[i] \in 1..n
        BY <2>2, <3>2
      <4> QED
        BY <1>1, <4>1
    <3> QED
      BY <1>1, <3>1, <3>2
  <2>4. f1 \in [1..(m + 1) -> 1..(n + 1)]
    BY <2>1, <2>3
  <2>5. ASSUME NEW i \in 1..(m + 1), NEW j \in 1..(m + 1), i < j PROVE f1[i] < f1[j]
    <3>1. i <= m
      BY <1>1, <2>5
    <3>2. i \in 1..m /\ f1[i] = f[i] /\ f[i] \in 1..n
      BY <2>2, <3>1
    <3>3. CASE j = m + 1
      <4>1. f1[j] = n + 1
        BY <2>1, <3>3
      <4> QED
        BY <1>1, <3>2, <4>1
    <3>4. CASE j <= m
      <4>1. j \in 1..m /\ f1[j] = f[j]
        BY <2>2, <3>4
      <4> QED
        BY <1>2, <2>5, <3>2, <4>1 DEF Increasing
    <3> QED
      BY <1>1, <3>3, <3>4
  <2> QED
    BY <2>4, <2>5 DEF Increasing
<1>8. /\ f1[m + 1] = n + 1 /\ m + 1 \in 1..(m + 1)
      /\ \A i \in 1..m : f1[i] = f[i] /\ i \in 1..(m + 1) /\ f[i] \in 1..n
  BY <1>1, <1>2
<1> HIDE DEF f1
<1>9. \A i \in 1..(m + 1) : HasVram(p[f1[i]], g) /\ h1[i] = p[f1[i]].gpus[g].vram
  <2> SUFFICES ASSUME NEW i \in 1..(m + 1)
               PROVE  HasVram(p[f1[i]], g) /\ h1[i] = p[f1[i]].gpus[g].vram
    OBVIOUS
  <2>1. CASE i = m + 1
    BY <1>1, <1>3, <1>8, <2>1 DEF x
  <2>2. CASE i <= m
    <3>1. i \in 1..m
      BY <1>1, <2>2
    <3> QED
      BY <1>1, <1>2, <1>3, <1>8, <3>1, ZenonT(40)
  <2> QED
    BY <1>1, <2>1, <2>2
<1>10. /\ e \in [1..Len(h2) -> 1..(n + 1)] /\ Increasing(e, Len(h2))
       /\ \A i \in 1..Len(h2) : e[i] = f1[a - 1 + i]
  <2>1. \A i \in 1..Len(h2) : e[i] = f1[a - 1 + i]
    OBVIOUS
  <2>2. e \in [1..Len(h2) -> 1..(n + 1)]
    BY <1>6, <1>7
  <2> HIDE DEF e
  <2>3. ASSUME NEW i \in 1..Len(h2), NEW j \in 1..Len(h2), i < j PROVE e[i] < e[j]
    <3>1. a - 1 + i \in 1..(m + 1) /\ a - 1 + j \in 1..(m + 1) /\ a - 1 + i < a - 1 + j
      BY <1>1, <1>6, <2>3
    <3> QED
      BY <1>7, <2>1, <3>1 DEF Increasing
  <2> QED
    BY <2>1, <2>2, <2>3 DEF Increasing
<1> HIDE DEF e
<1>11. \A i \in 1..Len(h2) : HasVram(p[e[i]], g) /\ h2[i] = p[e[i]].gpus[g].vram
  BY <1>6, <1>9, <1>10
<1>12. ASSUME NEW k \in 1..(m + 1), k >= a PROVE \E i \in 1..Len(h2) : e[i] = f1[k]
  <2> DEFINE i == k - a + 1
  <2>1. i \in 1..Len(h2) /\ a - 1 + i = k
    BY <1>1, <1>6, <1>12
  <2> HIDE DEF i
  <2> QED
    BY <1>10, <2>1
<1>13. ASSUME a = 2
       PROVE  /\ Len(h2) >= LeakTicks /\ 1 \in 1..m /\ m = LeakTicks
              /\ \A r \in Nat : r <= f[1] => r < e[1]
  <2>1. Len(h2) = LeakTicks /\ m = LeakTicks /\ 1 \in 1..m /\ 1 \in 1..Len(h2)
    BY <1>1, <1>2, <1>5, <1>6, <1>13
  <2>2. 1 \in 1..(m + 1) /\ 2 \in 1..(m + 1) /\ a - 1 + 1 = 2
    BY <1>1, <1>13, <2>1
  <2>3. e[1] = f1[2] /\ f1[1] = f[1]
    BY <1>8, <1>10, <2>1, <2>2
  <2>4. f1[1] < f1[2] /\ f1[1] \in Nat /\ f1[2] \in Nat
    BY <1>7, <2>2 DEF Increasing
  <2> QED
    BY <1>2, <2>1, <2>3, <2>4
<1>14. ASSUME NEW r \in 1..(n + 1), HasVram(p[r], g)
       PROVE  (\E k \in 1..Len(h2) : e[k] = r) \/ (Len(h2) >= LeakTicks /\ r < e[1])
  <2>1. CASE r = n + 1
    BY <1>1, <1>6, <1>8, <1>12, <2>1
  <2>2. CASE r <= n
    <3>1. r \in 1..n /\ HasVram(s[r], g)
      BY <1>1, <1>14, <2>2
    <3>2. ASSUME NEW k \in 1..m, f[k] = r
          PROVE  (\E i \in 1..Len(h2) : e[i] = r) \/ (Len(h2) >= LeakTicks /\ r < e[1])
      <4>1. f1[k] = r /\ k \in 1..(m + 1)
        BY <1>8, <3>2
      <4>2. CASE k >= a
        BY <1>12, <4>1, <4>2
      <4>3. CASE k < a
        <5>1. a = 2 /\ k = 1
          BY <1>6, <4>3
        <5> QED
          BY <1>13, <3>1, <3>2, <5>1
      <4> QED
        BY <1>6, <4>2, <4>3
    <3>3. ASSUME m >= LeakTicks, r < f[1]
          PROVE  Len(h2) >= LeakTicks /\ r < e[1]
      <4>1. a = 2
        BY <1>1, <1>2, <1>5, <3>3
      <4>2. f[1] \in Nat
        <5>1. 1 \in 1..m
          BY <1>1, <1>2, <3>3
        <5>2. f \in [1..m -> 1..n]
          BY <1>2, Zenon
        <5> QED
          BY <1>1, <5>1, <5>2
      <4> QED
        BY <1>13, <3>1, <3>3, <4>1, <4>2
    <3> QED
      BY <1>2, <3>1, <3>2, <3>3
  <2> QED
    BY <1>1, <2>1, <2>2
<1>15. ReadIn(e, h2, p, g)
  BY <1>1, <1>10, <1>11, <1>14 DEF ReadIn
<1> QED
  BY <1>15 DEF h2, h1, p, x

\* A tick's reading is added to each history, or the history stays.
LEMMA IngestVram ==
  ASSUME TypeOK, VramInv, NEW tick \in Tick, Ingest(tick)
  PROVE  VramInv'
<1>1. /\ past \in Seq(Tick) /\ past' = Append(past, tick)
      /\ vramHist \in [Gpus -> Seq(Nat)] /\ \A g \in Gpus : Len(vramHist[g]) <= LeakTicks
  BY DEF Ingest, TypeOK
<1>2. ASSUME NEW g \in Gpus PROVE \E f : ReadIn(f, vramHist'[g], past', g)
  <2>1. PICK f : ReadIn(f, vramHist[g], past, g)
    BY DEF VramInv
  <2>2. vramHist[g] \in Seq(Nat)
    BY <1>1
  <2>3. CASE HasVram(tick, g)
    <3>1. vramHist'[g] = LastOf(Append(vramHist[g], tick.gpus[g].vram), LeakTicks)
      BY <2>3 DEF Ingest, RecordVram
    <3>2. tick.gpus[g].vram \in Nat
      BY <2>3 DEF HasVram, Tick, GpuSample
    <3> QED
      BY <1>1, <2>1, <2>2, <2>3, <3>1, <3>2, NewReading
  <2>4. CASE ~HasVram(tick, g)
    <3>1. vramHist'[g] = vramHist[g]
      BY <2>4 DEF Ingest, RecordVram
    <3> QED
      BY <1>1, <2>1, <2>2, <2>4, <3>1, NoReading
  <2> QED
    BY <2>3, <2>4
<1>3. \A g \in growing' : g \in Gpus /\ IsLeaking(vramHist'[g])
  BY DEF Ingest, FlagGrowth, InUse
<1> QED
  BY <1>2, <1>3 DEF VramInv, IsLeaking

\* What a history with a leak says of the readings of the session.
LEMMA LeakingReadings ==
  ASSUME NEW h \in Seq(Nat), NEW s \in Seq(Tick), NEW g \in Gpus, NEW f,
         ReadIn(f, h, s, g), Len(h) <= LeakTicks, IsLeaking(h)
  PROVE  LET readings == {i \in 1..Len(s) : HasVram(s[i], g)}
             last == {i \in readings : Cardinality({j \in readings : j > i}) < LeakTicks}
             used(i) == s[i].gpus[g].vram
         IN /\ Cardinality(last) = LeakTicks
            /\ \A i, j \in last : i < j => used(i) <= used(j)
            /\ \E i, j \in last : used(j) - used(i) >= LeakMinGrowth
<1> DEFINE n == Len(s)
           m == Len(h)
           readings == {i \in 1..n : HasVram(s[i], g)}
           After(i) == {j \in readings : j > i}
           last == {i \in readings : Cardinality(After(i)) < LeakTicks}
           used(i) == s[i].gpus[g].vram
<1>1. /\ n \in Nat /\ m \in Nat /\ LeakTicks \in Nat /\ LeakTicks >= 1 /\ LeakMinGrowth \in Nat
      /\ m <= LeakTicks
  BY LenProperties, SizeAssumption
<1>2. /\ f \in [1..m -> 1..n] /\ Increasing(f, m)
      /\ \A i \in 1..m : HasVram(s[f[i]], g) /\ h[i] = s[f[i]].gpus[g].vram
      /\ \A r \in 1..n : HasVram(s[r], g) =>
           \/ \E k \in 1..m : f[k] = r
           \/ m >= LeakTicks /\ r < f[1]
  BY DEF ReadIn
<1>3. /\ m >= LeakTicks /\ \A i \in 1..(m - 1) : h[i + 1] >= h[i]
      /\ Monus(h[m], h[1]) >= LeakMinGrowth
  BY DEF IsLeaking
<1>4. \A i \in 1..m : h[i] \in Nat
  BY ElementOfSeq
<1> HIDE DEF n, m
<1>5. m = LeakTicks /\ 1 \in 1..m /\ m \in 1..m
  BY <1>1, <1>3
<1>6. \A i, j \in 1..m : i <= j => h[i] <= h[j]
  <2>1. \A i \in 1..(m - 1) : h[i] <= h[i + 1]
    BY <1>1, <1>3, <1>4
  <2> QED
    BY <1>1, <1>4, <2>1, Nondecreasing
<1>7. ASSUME NEW i \in 1..m, NEW j \in 1..m PROVE f[i] < f[j] <=> i < j
  <2>1. f \in [1..m -> 1..n] /\ Increasing(f, m)
    BY <1>2, Zenon
  <2>2. f[i] \in Nat /\ f[j] \in Nat
    BY <1>1, <2>1
  <2>3. (i < j => f[i] < f[j]) /\ (j < i => f[j] < f[i])
    BY <2>1, Zenon DEF Increasing
  <2>4. i \in Nat /\ j \in Nat
    BY <1>1
  <2> QED
    BY <2>2, <2>3, <2>4
<1>8. \A i \in 1..m : f[i] \in readings
  BY <1>2
<1>9. ASSUME NEW i \in 1..m PROVE f[i] \in last
  <2> DEFINE T == {f[k] : k \in (i + 1)..m}
  <2>1. i + 1 \in 1..(m + 1) /\ f \in [1..m -> Nat]
    BY <1>1, <1>2
  <2>2. Cardinality(T) = m - (i + 1) + 1
    BY <1>1, <1>2, <2>1, ImageCardinality
  <2>3. ASSUME NEW r \in After(f[i]) PROVE r \in T
    <3>1. r \in 1..n /\ HasVram(s[r], g) /\ f[i] < r /\ f[i] \in Nat /\ f[1] \in Nat
      BY <1>2, <1>5, SMTT(30)
    <3>2. ~(f[i] < f[1])
      BY <1>5, <1>7, <1>1
    <3>3. PICK k \in 1..m : f[k] = r
      <4>1. ~(r < f[1])
        BY <3>1, <3>2
      <4>2. (\E k \in 1..m : f[k] = r) \/ (m >= LeakTicks /\ r < f[1])
        BY <1>2, <3>1, Zenon
      <4> QED
        BY <4>1, <4>2, Zenon
    <3>4. i < k
      BY <1>7, <3>1, <3>3
    <3> QED
      BY <1>1, <3>3, <3>4
  <2>4. ASSUME NEW r \in T PROVE r \in After(f[i])
    <3>1. PICK k \in (i + 1)..m : r = f[k]
      OBVIOUS
    <3>2. k \in 1..m /\ i < k
      BY <1>1
    <3> QED
      BY <1>7, <1>8, <3>1, <3>2
  <2>5. After(f[i]) = T
    BY <2>3, <2>4
  <2>6. Cardinality(After(f[i])) = m - (i + 1) + 1
    BY <2>2, <2>5
  <2>7. Cardinality(After(f[i])) < LeakTicks
    <3> HIDE DEF After
    <3> QED
      BY <1>1, <1>5, <2>6
  <2> QED
    BY <1>8, <2>7
<1>10. ASSUME NEW r \in last PROVE \E k \in 1..m : f[k] = r
  <2> SUFFICES ASSUME r < f[1] PROVE FALSE
    BY <1>2
  <2> DEFINE T == {f[k] : k \in 1..m}
             A == After(r)
  <2>1. IsFiniteSet(T) /\ Cardinality(T) = m
    <3>1. 1 \in 1..(m + 1) /\ f \in [1..m -> Nat] /\ m - 1 + 1 = m
      BY <1>1, <1>2
    <3> QED
      BY <1>1, <1>2, <3>1, ImageCardinality
  <2>2. T \subseteq A
    <3> SUFFICES ASSUME NEW k \in 1..m PROVE f[k] \in A
      OBVIOUS
    <3>1. ~(f[k] < f[1])
      BY <1>5, <1>7, <1>1
    <3>2. f[k] \in 1..n /\ f[1] \in 1..n /\ r \in 1..n
      <4>1. f[k] \in 1..n /\ f[1] \in 1..n
        BY <1>2, <1>5
      <4> QED
        BY <4>1
    <3> QED
      BY <1>8, <3>1, <3>2
  <2>3. IsFiniteSet(A)
    <3>1. A \in SUBSET (1..n)
      OBVIOUS
    <3>2. IsFiniteSet(1..n)
      BY <1>1, FS_Interval
    <3> HIDE DEF A
    <3> QED
      BY <3>1, <3>2, FS_Subset
  <2>4. Cardinality(A) < LeakTicks /\ Cardinality(A) \in Nat
    BY <2>3, FS_CardinalityType
  <2> HIDE DEF A, T
  <2>5. Cardinality(T) <= Cardinality(A)
    BY <2>2, <2>3, FS_Subset
  <2> QED
    BY <1>1, <1>5, <2>1, <2>4, <2>5
<1>11. Cardinality(last) = LeakTicks
  <2> DEFINE T == {f[k] : k \in 1..m}
  <2>1. last = T
    BY <1>9, <1>10
  <2>2. 1 \in 1..(m + 1) /\ f \in [1..m -> Nat] /\ m - 1 + 1 = m
    BY <1>1, <1>2
  <2>3. Cardinality(T) = m
    BY <1>1, <1>2, <2>2, ImageCardinality
  <2> QED
    BY <1>5, <2>1, <2>3
<1>12. \A i, j \in last : i < j => used(i) <= used(j)
  <2> SUFFICES ASSUME NEW i \in last, NEW j \in last, i < j PROVE used(i) <= used(j)
    OBVIOUS
  <2>1. PICK k \in 1..m, l \in 1..m : f[k] = i /\ f[l] = j
    BY <1>10
  <2>2. k <= l
    BY <1>7, <2>1
  <2> QED
    BY <1>2, <1>6, <2>1, <2>2
<1>13. \E i, j \in last : used(j) - used(i) >= LeakMinGrowth
  <2>1. f[1] \in last /\ f[m] \in last
    BY <1>5, <1>9
  <2>2. used(f[1]) = h[1] /\ used(f[m]) = h[m] /\ h[1] \in Nat /\ h[m] \in Nat /\ h[1] <= h[m]
    BY <1>1, <1>2, <1>4, <1>5, <1>6
  <2>3. h[m] - h[1] >= LeakMinGrowth
    BY <1>1, <1>3, <2>2 DEF Monus
  <2> HIDE DEF last
  <2> QED
    BY <2>1, <2>2, <2>3
<1> QED
  BY <1>11, <1>12, <1>13 DEF n

\* A device is flagged only if its last LeakTicks readings of the session never
\* fell and grew by LeakMinGrowth, whatever ticks without one lie between.
THEOREM GrowthCorrectness == Spec => []GrowthIsSustained
<1>1. Init => VramInv
  <2> SUFFICES ASSUME Init, NEW g \in Gpus PROVE \E f : ReadIn(f, vramHist[g], past, g)
    BY DEF Init, VramInv
  <2>1. vramHist[g] = <<>> /\ past = <<>>
    BY DEF Init
  <2>2. Len(vramHist[g]) = 0 /\ Len(past) = 0 /\ 1..0 = {}
    BY <2>1
  <2> DEFINE f == [i \in {} |-> i]
  <2>3. ReadIn(f, vramHist[g], past, g)
    BY <2>2 DEF ReadIn, Increasing
  <2> QED
    BY <2>3
<1>2. TypeOK /\ VramInv /\ [Next]_vars => VramInv'
  <2> SUFFICES ASSUME TypeOK, VramInv, [Next]_vars PROVE VramInv'
    OBVIOUS
  <2>1. CASE NextTick
    BY <2>1, NextIngests, IngestVram
  <2>2. CASE UNCHANGED vars
    <3>1. vramHist' = vramHist /\ past' = past /\ growing' = growing
      BY <2>2 DEF vars
    <3> QED
      BY <3>1 DEF VramInv
  <2> QED
    BY <2>1, <2>2 DEF Next, Over
<1>3. TypeOK /\ VramInv => GrowthIsSustained
  <2> SUFFICES ASSUME TypeOK, VramInv, NEW g \in growing
               PROVE  GrowthIsSustained!(g)
    BY DEF GrowthIsSustained
  <2>1. g \in Gpus /\ IsLeaking(vramHist[g])
    BY DEF VramInv
  <2>2. PICK f : ReadIn(f, vramHist[g], past, g)
    BY <2>1 DEF VramInv
  <2>3. past \in Seq(Tick) /\ vramHist[g] \in Seq(Nat) /\ Len(vramHist[g]) <= LeakTicks
    BY <2>1 DEF TypeOK
  <2> QED
    BY <2>1, <2>2, <2>3, LeakingReadings
<1> QED
  BY <1>1, <1>2, <1>3, TypeCorrectness, PTL DEF Spec

------------------------------------------------------------------------------
(* Where the time goes.                                                    *)

\* The larger and the smaller of two numbers.
LEMMA OfTwo ==
  ASSUME NEW a \in Int, NEW b \in Int
  PROVE  /\ Max({a, b}) = IF a >= b THEN a ELSE b
         /\ Min({a, b}) = IF a <= b THEN a ELSE b
<1>1. \E x \in {a, b} : \A y \in {a, b} : x >= y
  BY SMT
<1>2. \E x \in {a, b} : \A y \in {a, b} : x <= y
  BY SMT
<1>3. Max({a, b}) \in {a, b} /\ \A y \in {a, b} : Max({a, b}) >= y
  BY <1>1, Zenon DEF Max
<1>4. Min({a, b}) \in {a, b} /\ \A y \in {a, b} : Min({a, b}) <= y
  BY <1>2, Zenon DEF Min
<1> DEFINE M == Max({a, b})
           m == Min({a, b})
<1>5. M \in {a, b} /\ M >= a /\ M >= b
  BY <1>3
<1>6. m \in {a, b} /\ m <= a /\ m <= b
  BY <1>4
<1> HIDE DEF M, m
<1>7. M = IF a >= b THEN a ELSE b
  BY <1>5
<1>8. m = IF a <= b THEN a ELSE b
  BY <1>6
<1> QED
  BY <1>7, <1>8 DEF M, m

\* A step's parts are times, and within its time unless they overlap.
LEMMA PartsOfStep ==
  ASSUME NEW s \in TimedSteps
  PROVE  /\ s.time \in Nat /\ Waited(s) \in Nat /\ Waited(s) <= s.time
         /\ DataOf(s) = Waited(s) /\ ComputeOf(s) \in Nat /\ OptimizerOf(s) \in Nat
         /\ ~Overlap(s) => DataOf(s) + ComputeOf(s) + OptimizerOf(s) <= s.time
<1> DEFINE d == s.data
           c == s.compute
           o == s.optimizer
           t == s.time
<1>1. /\ t \in Nat /\ d \in Nat \cup {-1} /\ c \in Nat \cup {-1} /\ o \in Nat \cup {-1}
  BY DEF TimedSteps, Measured, Unknown
<1>2. Waited(s) = (IF d = -1 THEN 0 ELSE IF d <= t THEN d ELSE t)
  <2>1. d \in Int /\ t \in Int
    BY <1>1
  <2>2. Min({d, t}) = IF d <= t THEN d ELSE t
    BY <2>1, OfTwo
  <2> QED
    BY <2>2 DEF Waited, Unknown
<1> HIDE DEF d, c, o, t
<1>3. DataOf(s) = Waited(s)
  <2> DEFINE e == OrElse(d, 0)
  <2>1. e = IF d = -1 THEN 0 ELSE d
    BY DEF OrElse, Unknown
  <2>2. e \in Nat
    BY <1>1, <2>1
  <2> HIDE DEF e
  <2>3. Min({t, e}) = IF t <= e THEN t ELSE e
    BY <1>1, <2>2, OfTwo
  <2> DEFINE m == Min({t, e})
  <2>4. m \in Nat
    BY <1>1, <2>2, <2>3
  <2>5. m = Waited(s)
    BY <1>1, <1>2, <2>1, <2>2, <2>3
  <2> HIDE DEF m
  <2>6. Max({0, m}) = m
    <3>1. 0 \in Int /\ m \in Int
      BY <2>4
    <3>2. Max({0, m}) = IF 0 >= m THEN 0 ELSE m
      BY <3>1, OfTwo
    <3> QED
      BY <2>4, <3>2
  <2>7. DataOf(s) = Max({0, m})
    BY DEF DataOf, m, e, d, t
  <2> QED
    BY <2>5, <2>6, <2>7
<1>4. \A v \in Nat \cup {-1} : Max({0, v}) = IF v = -1 THEN 0 ELSE v
  <2> TAKE v \in Nat \cup {-1}
  <2>1. 0 \in Int /\ v \in Int
    OBVIOUS
  <2>2. Max({0, v}) = IF 0 >= v THEN 0 ELSE v
    BY <2>1, OfTwo
  <2> QED
    BY <2>2
<1>5. OptimizerOf(s) = IF o = -1 THEN 0 ELSE o
  <2> DEFINE e == OrElse(o, 0)
  <2>1. e = IF o = -1 THEN 0 ELSE o
    BY DEF OrElse, Unknown
  <2>2. e \in Nat
    BY <1>1, <2>1
  <2> HIDE DEF e
  <2>3. Max({0, e}) = e
    BY <1>4, <2>2
  <2>4. OptimizerOf(s) = Max({0, e})
    BY DEF OptimizerOf, e, o
  <2> QED
    BY <2>1, <2>3, <2>4
<1>6. ComputeOf(s) = IF c # -1 THEN c ELSE IF o # -1 THEN 0 ELSE t - DataOf(s)
  <2>1. CASE c # -1
    <3>1. ComputeOf(s) = Max({0, c})
      BY <2>1, Zenon DEF ComputeOf, Unknown, c, o, t
    <3> QED
      BY <1>1, <1>4, <2>1, <3>1
  <2>2. CASE c = -1 /\ o # -1
    BY <2>2, Zenon DEF ComputeOf, Unknown, c, o, t
  <2>3. CASE c = -1 /\ o = -1
    BY <2>3, Zenon DEF ComputeOf, Unknown, c, o, t
  <2> QED
    BY <2>1, <2>2, <2>3
<1>7. Overlap(s) = (Waited(s) + (IF c = -1 THEN 0 ELSE c) + (IF o = -1 THEN 0 ELSE o) > t)
  BY Zenon DEF Overlap, OrElse, Unknown, c, o, t
<1> DEFINE W == Waited(s)
           C == ComputeOf(s)
           O == OptimizerOf(s)
           D == DataOf(s)
<1>8. W \in Nat /\ W <= t /\ D = W
  BY <1>1, <1>2, <1>3
<1>9. O = (IF o = -1 THEN 0 ELSE o) /\ C = (IF c # -1 THEN c ELSE IF o # -1 THEN 0 ELSE t - D)
  BY <1>5, <1>6
<1> HIDE DEF W, C, O, D
<1>10. C \in Nat /\ O \in Nat
  BY <1>1, <1>8, <1>9
<1>11. W + (IF c = -1 THEN 0 ELSE c) + (IF o = -1 THEN 0 ELSE o) <= t => D + C + O <= t
  BY <1>1, <1>8, <1>9
<1>12. ~Overlap(s) => W + (IF c = -1 THEN 0 ELSE c) + (IF o = -1 THEN 0 ELSE o) <= t
  <2> DEFINE l == W + (IF c = -1 THEN 0 ELSE c) + (IF o = -1 THEN 0 ELSE o)
  <2>1. l \in Nat
    BY <1>1, <1>8
  <2>2. Overlap(s) = (l > t)
    BY <1>7 DEF W
  <2> HIDE DEF l
  <2>3. l > t \/ l <= t
    BY <1>1, <2>1
  <2>4. ~Overlap(s) => l <= t
    BY <2>2, <2>3, Zenon
  <2> QED
    BY <2>4 DEF l
<1> QED
  BY <1>1, <1>8, <1>10, <1>11, <1>12 DEF W, C, O, D, t

\* The parts of instrumented steps: what was waited for is the data's part,
\* and the whole is the steps' time where no phases overlap and not less else.
LEMMA InstrumentedParts ==
  ASSUME NEW steps \in Seq(TimedSteps)
  PROVE  /\ Instrumented(steps)["data"] = SumOf(steps, Waited)
         /\ SumOf(steps, Waited) \in Int /\ Total(Times(steps)) \in Int
         /\ Whole(Instrumented(steps)) \in Int
         /\ Whole(Instrumented(steps)) >= Total(Times(steps))
         /\ (\A i \in DOMAIN steps : ~Overlap(steps[i]))
              => Whole(Instrumented(steps)) = Total(Times(steps))
<1> DEFINE n == Len(steps)
           T == [i \in 1..n |-> steps[i].time]
           W == [i \in 1..n |-> Waited(steps[i])]
           D == [i \in 1..n |-> DataOf(steps[i])]
           C == [i \in 1..n |-> ComputeOf(steps[i])]
           O == [i \in 1..n |-> OptimizerOf(steps[i])]
<1>1. n \in Nat /\ DOMAIN steps = 1..n /\ \A i \in 1..n : steps[i] \in TimedSteps
  OBVIOUS
<1> HIDE DEF n
<1>2. \A i \in 1..n : /\ T[i] \in Nat /\ W[i] \in Nat /\ W[i] <= T[i]
                      /\ D[i] = W[i] /\ C[i] \in Nat /\ O[i] \in Nat
                      /\ ~Overlap(steps[i]) => D[i] + C[i] + O[i] <= T[i]
  <2> TAKE i \in 1..n
  <2>1. steps[i] \in TimedSteps
    BY <1>1
  <2> QED
    BY <2>1, PartsOfStep, Zenon
<1>3. /\ T \in [1..n -> Int] /\ W \in [1..n -> Int] /\ C \in [1..n -> Int] /\ O \in [1..n -> Int]
  <2>1. \A i \in 1..n : T[i] \in Int /\ W[i] \in Int /\ C[i] \in Int /\ O[i] \in Int
    BY <1>2
  <2> QED
    BY <2>1
<1>4. D = W
  BY <1>2, Zenon
<1>5. /\ Total(Times(steps)) = Total(T) /\ SumOf(steps, Waited) = Total(W)
      /\ SumOf(steps, DataOf) = Total(W) /\ SumOf(steps, ComputeOf) = Total(C)
      /\ SumOf(steps, OptimizerOf) = Total(O)
  BY <1>1, <1>4, Zenon DEF SumOf, Times
<1> HIDE DEF T, W, D, C, O
<1>6. /\ T \in Seq(Int) /\ W \in Seq(Int) /\ C \in Seq(Int) /\ O \in Seq(Int)
      /\ Len(T) = n /\ Len(W) = n /\ Len(C) = n /\ Len(O) = n
  BY <1>1, <1>3
<1> DEFINE t == Total(T)
           d == Total(W)
           c == Total(C)
           o == Total(O)
<1>7. t \in Int /\ d \in Int /\ c \in Int /\ o \in Int
  BY <1>6, TotalIsNumber, Zenon
<1>8. d <= t
  <2>1. \A i \in 1..Len(W) : W[i] <= T[i]
    BY <1>2, <1>6
  <2> QED
    BY <1>6, <2>1, TotalGrows
<1>9. c >= 0 /\ o >= 0 /\ d >= 0
  <2>1. \A i \in 1..n : C[i] >= 0 /\ O[i] >= 0 /\ W[i] >= 0
    BY <1>2
  <2> QED
    BY <1>6, <2>1, TotalSign
<1>10. (\A i \in 1..n : ~Overlap(steps[i])) => d + c + o <= t
  <2> SUFFICES ASSUME \A i \in 1..n : ~Overlap(steps[i])
               PROVE  d + c + o <= t
    BY Zenon
  <2> DEFINE DC == [i \in 1..Len(W) |-> W[i] + C[i]]
             DCO == [i \in 1..Len(DC) |-> DC[i] + O[i]]
  <2>1. DC \in Seq(Int) /\ Total(DC) = d + c
    BY <1>6, TotalAdds
  <2>2. Len(DC) = n
    BY <1>1, <1>6
  <2>3. \A i \in 1..n : DC[i] = W[i] + C[i]
    BY <1>6
  <2> HIDE DEF DC
  <2>4. DCO \in Seq(Int) /\ Total(DCO) = Total(DC) + o
    BY <1>6, <2>1, <2>2, TotalAdds
  <2>5. Len(DCO) = n
    BY <1>1, <2>2
  <2>6. \A i \in 1..n : DCO[i] = DC[i] + O[i]
    BY <2>2
  <2> HIDE DEF DCO
  <2>7. \A i \in 1..n : DCO[i] <= T[i]
    <3> TAKE i \in 1..n
    <3>1. D[i] + C[i] + O[i] <= T[i]
      BY <1>2, Zenon
    <3>2. DCO[i] = W[i] + C[i] + O[i]
      BY <2>3, <2>6
    <3> QED
      BY <1>4, <3>1, <3>2
  <2>8. Total(DCO) <= t
    BY <1>6, <2>4, <2>5, <2>7, TotalGrows
  <2> QED
    BY <2>1, <2>4, <2>8
<1> DEFINE P == Instrumented(steps)
           c1 == Min({t, c})
           o1 == Min({t, o})
           rest == t - d - c1 - o1
           other == Max({0, rest})
<1> HIDE DEF t, d, c, o
<1>11. Min({t, d}) = d /\ c1 = (IF t <= c THEN t ELSE c) /\ o1 = (IF t <= o THEN t ELSE o)
  <2>1. Min({t, d}) = IF t <= d THEN t ELSE d
    BY <1>7, OfTwo
  <2>2. Min({t, d}) = d
    BY <1>7, <1>8, <2>1
  <2> QED
    BY <1>7, <2>2, OfTwo
<1>12. c1 \in Int /\ o1 \in Int /\ rest \in Int
  BY <1>7, <1>11
<1>13. other = IF 0 >= rest THEN 0 ELSE rest
  <2>1. 0 \in Int
    OBVIOUS
  <2> HIDE DEF rest
  <2> QED
    BY <1>12, <2>1, OfTwo
<1>14. P = [NoParts EXCEPT !["data"] = d, !["compute"] = c1, !["optimizer"] = o1,
                            !["other"] = other]
  BY <1>5, <1>11, Zenon DEF Instrumented, t, d, c, o
<1> HIDE DEF P, c1, o1, other, rest
<1>15. /\ P["data"] = d /\ P["compute"] = c1 /\ P["optimizer"] = o1 /\ P["other"] = other
       /\ P["sync"] = 0 /\ P["memory"] = 0
  BY <1>14 DEF NoParts, Parts
<1>16. Whole(P) = c1 + d + o1 + other
  <2>1. Whole(P) = c1 + d + 0 + 0 + o1 + other
    BY <1>15, Zenon DEF Whole
  <2> QED
    BY <1>7, <1>12, <1>13, <2>1
<1>17. Whole(P) \in Int /\ Whole(P) >= t
  BY <1>7, <1>12, <1>13, <1>16 DEF rest
<1>18. d + c + o <= t => Whole(P) = t
  BY <1>7, <1>8, <1>9, <1>11, <1>12, <1>13, <1>16 DEF rest
<1>19. (\A i \in DOMAIN steps : ~Overlap(steps[i])) => Whole(P) = t
  BY <1>1, <1>10, <1>18, Zenon DEF t, d, c, o
<1>20. Total(Times(steps)) = t /\ SumOf(steps, Waited) = d
  BY <1>5, Zenon DEF t, d
<1> QED
  BY <1>7, <1>15, <1>17, <1>19, <1>20, Zenon DEF P

\* The samples of a window are finitely many.
LEMMA ClassifiedIsFinite ==
  ASSUME NEW w \in Seq(Observations)
  PROVE  IsFiniteSet(Classified(w))
<1> DEFINE Of(i) == DOMAIN w[i].gpus
           T == {Of(i) : i \in DOMAIN w}
           F == [i \in DOMAIN w |-> Of(i)]
<1>1. DOMAIN w = 1..Len(w) /\ Len(w) \in Nat /\ \A i \in DOMAIN w : w[i] \in Observations
  OBVIOUS
<1>2. IsFiniteSet(DOMAIN w)
  BY <1>1, FS_Interval
<1>3. IsFiniteSet(T)
  <2>1. F \in Surjection(DOMAIN w, T)
    BY DEF Surjection
  <2> QED
    BY <1>2, <2>1, FS_Surjection
<1>4. \A A \in T : IsFiniteSet(A)
  <2> SUFFICES ASSUME NEW i \in DOMAIN w PROVE IsFiniteSet(Of(i))
    OBVIOUS
  <2>1. w[i].gpus \in Seq(SeenDevices)
    BY <1>1, WindowAssumption DEF SeenTicks
  <2>2. Of(i) = 1..Len(w[i].gpus) /\ Len(w[i].gpus) \in Nat
    BY <2>1
  <2> QED
    BY <2>2, FS_Interval
<1> DEFINE U == UNION T
<1>5. IsFiniteSet(U)
  BY <1>3, <1>4, FS_UNION
<1>6. Classified(w) \subseteq (DOMAIN w) \X U
  BY DEF Classified
<1> HIDE DEF U
<1>7. IsFiniteSet((DOMAIN w) \X U)
  BY <1>2, <1>5, FS_Product
<1> QED
  BY <1>6, <1>7, FS_Subset

\* The input pipeline is blamed for a GPU that is idle while the CPU is busy.
LEMMA ClassOfData ==
  ASSUME NEW g, NEW cpu, Class(g, cpu) = "data"
  PROVE  g.busy < 15 /\ cpu > 30
<1> DEFINE b == g.busy
           m == g.mem
           A == b > 60
           B == b <= 60 /\ m > 80
           C == b < 15 /\ m <= 80 /\ cpu > 30
           D == b < 15 /\ m <= 80 /\ cpu < 10
<1> SUFFICES ASSUME ~(b < 15 /\ cpu > 30) PROVE FALSE
  BY Zenon
<1>1. ~C
  BY Zenon
<1>2. Class(g, cpu) = CASE A -> "compute" [] B -> "memory" [] C -> "data" [] D -> "sync"
                        [] OTHER -> "other"
  BY Zenon DEF Class
<1> HIDE DEF A, B, C, D
<1>3. Class(g, cpu) \in {"compute", "memory", "sync", "other"}
  BY <1>1, <1>2
<1> QED
  BY <1>3

\* The parts add up.
LEMMA WholeIsNatural ==
  ASSUME NEW parts,
         /\ parts["compute"] \in Nat /\ parts["data"] \in Nat /\ parts["sync"] \in Nat
         /\ parts["memory"] \in Nat /\ parts["optimizer"] \in Nat /\ parts["other"] \in Nat
  PROVE  Whole(parts) \in Nat
BY DEF Whole

\* Without a hook, data is blamed if some sample saw the GPU idle, the CPU busy.
LEMMA HeuristicBlames ==
  ASSUME NEW w \in Seq(Observations), Above(Heuristic(w), "data", 15)
  PROVE  \E i \in DOMAIN w : \E d \in DOMAIN w[i].gpus :
           w[i].gpus[d].busy \in 0..14 /\ w[i].cpu > 30
<1> DEFINE S(part) == {x \in Classified(w) : Class(w[x[1]].gpus[x[2]], w[x[1]].cpu) = part}
           H == Heuristic(w)
<1>1. \A part : Cardinality(S(part)) \in Nat
  <2> TAKE part
  <2>1. IsFiniteSet(S(part))
    BY ClassifiedIsFinite, FS_Subset
  <2> QED
    BY <2>1, FS_CardinalityType
<1>2. H = [part \in Parts |-> Cardinality(S(part))]
  BY Zenon DEF Heuristic
<1> HIDE DEF S, H
<1>3. \A part \in Parts : H[part] \in Nat /\ H[part] = Cardinality(S(part))
  BY <1>1, <1>2
<1>4. Whole(H) \in Nat
  <2>1. /\ H["compute"] \in Nat /\ H["data"] \in Nat /\ H["sync"] \in Nat
        /\ H["memory"] \in Nat /\ H["optimizer"] \in Nat /\ H["other"] \in Nat
    BY <1>3, Zenon DEF Parts
  <2> QED
    BY <2>1, WholeIsNatural, Zenon
<1>5. H["data"] # 0
  <2>1. 100 * H["data"] > 15 * Whole(H)
    BY Zenon DEF Above, H
  <2> QED
    BY <1>4, <2>1
<1>6. S("data") # {}
  <2>1. Cardinality(S("data")) # 0
    BY <1>3, <1>5 DEF Parts
  <2> QED
    BY <2>1, FS_EmptySet
<1>7. PICK x \in Classified(w) : Class(w[x[1]].gpus[x[2]], w[x[1]].cpu) = "data"
  BY <1>6, Zenon DEF S
<1> DEFINE i == x[1]
           d == x[2]
<1>8. i \in DOMAIN w /\ d \in DOMAIN w[i].gpus /\ w[i].gpus[d].busy # Unknown
  BY DEF Classified
<1>9. w[i].gpus[d].busy < 15 /\ w[i].cpu > 30
  BY <1>7, ClassOfData, Zenon
<1>10. w[i].gpus[d].busy \in Percent
  <2>1. w[i].gpus \in Seq(SeenDevices)
    BY <1>8, WindowAssumption DEF SeenTicks
  <2> HIDE DEF i, d
  <2>2. w[i].gpus[d] \in SeenDevices
    BY <1>8, <2>1
  <2> QED
    BY <2>2 DEF SeenDevices
<1> DEFINE b == w[i].gpus[d].busy
<1>11. b \in 0..14
  <2>1. b \in Percent /\ b # Unknown /\ b < 15
    BY <1>8, <1>9, <1>10
  <2> HIDE DEF b
  <2> QED
    BY <2>1 DEF Percent, Unknown
<1> QED
  BY <1>8, <1>9, <1>11

------------------------------------------------------------------------------
(* Whether the steps are erratic.                                          *)

\* The median of values that are the same is their value.
LEMMA MedianOfEqual ==
  ASSUME NEW n \in Nat, n >= 1, NEW t \in Int
  PROVE  Median([k \in 1..n |-> t]) = t
<1> DEFINE s == [k \in 1..n |-> t]
           half == (Len(s) + 1) \div 2
           Half(v) == /\ Cardinality({i \in DOMAIN s : s[i] < v}) < half
                      /\ Cardinality({i \in DOMAIN s : s[i] <= v}) >= half
<1>1. Len(s) = n /\ DOMAIN s = 1..n /\ \A i \in 1..n : s[i] = t
  OBVIOUS
<1>2. ToSet(s) = {t}
  BY DEF ToSet
<1>3. {i \in DOMAIN s : s[i] < t} = {} /\ {i \in DOMAIN s : s[i] <= t} = 1..n
  BY <1>1
<1>4. Cardinality({}) = 0 /\ Cardinality(1..n) = n
  BY FS_EmptySet, FS_Interval
<1>5. half \in Nat /\ 0 < half /\ half <= n
  BY <1>1
<1> HIDE DEF s, half
<1>6. Half(t)
  BY <1>3, <1>4, <1>5
<1>7. Median(s) = CHOOSE v \in ToSet(s) : Half(v)
  BY Zenon DEF Median, half
<1> HIDE DEF Half
<1>8. Median(s) = t
  BY <1>2, <1>6, <1>7, Zenon
<1> QED
  BY <1>8 DEF s

\* Steps that take the same time each are not erratic.
LEMMA SteadyIsNotErratic ==
  ASSUME NEW n \in Nat, n >= 1, NEW t \in Nat, NEW times, times = [k \in 1..n |-> t]
  PROVE  ~Varies(times) /\ ~Stalls(times)
<1>1. DOMAIN times = 1..n /\ (\A k \in 1..n : times[k] = t) /\ t \in Int
  OBVIOUS
<1> DEFINE zeros == [k \in 1..n |-> 0]
<1>2. Median(times) = t
  BY <1>1, MedianOfEqual, Zenon
<1>3. Median(zeros) = 0
  <2>1. 0 \in Int
    OBVIOUS
  <2> QED
    BY <2>1, MedianOfEqual, Zenon
<1>4. Deviations(times) = zeros
  <2>1. \A i \in 1..n : Max({times[i] - t, t - times[i]}) = 0
    <3> TAKE i \in 1..n
    <3>1. times[i] - t = 0 /\ t - times[i] = 0
      BY <1>1
    <3>2. 0 \in Int /\ 0 >= 0
      OBVIOUS
    <3>3. Max({0, 0}) = 0
      BY <3>2, OfTwo
    <3> QED
      BY <3>1, <3>3
  <2> QED
    BY <1>1, <1>2, <2>1 DEF Deviations
<1> HIDE DEF zeros
<1>5. Spread(times) = 0
  BY <1>3, <1>4 DEF Spread
<1>6. ~Varies(times)
  BY <1>2, <1>5 DEF Varies
<1>7. Limit(times) = 15000 * t
  <2> DEFINE a == 5 * Spread(times)
             b == 5000 * Median(times)
             v == 5000 * t
  <2>1. 0 \in Int /\ v \in Int /\ v >= 0
    OBVIOUS
  <2>2. a = 0 /\ b = v
    BY <1>2, <1>5
  <2>3. Limit(times) = 10000 * Median(times) + Max({a, b})
    BY DEF Limit
  <2> HIDE DEF v, a, b
  <2>4. Max({0, v}) = v
    BY <2>1, OfTwo
  <2>5. Max({a, b}) = v
    BY <2>2, <2>4, Zenon
  <2>6. Limit(times) = 10000 * t + v
    BY <1>2, <2>3, <2>5
  <2> QED
    BY <2>6 DEF v
<1>8. Excess(times) = 0
  <2> DEFINE limit == Limit(times)
  <2>1. limit = 15000 * t
    BY <1>7
  <2> DEFINE beyond(i) == Max({0, 10000 * times[i] - limit})
             over == [i \in DOMAIN times |-> beyond(i)]
  <2>2. Excess(times) = Total(over)
    BY DEF Excess
  <2> HIDE DEF limit
  <2>3. \A i \in 1..n : beyond(i) = 0
    <3> TAKE i \in 1..n
    <3> DEFINE v == 10000 * times[i] - limit
    <3>1. 0 \in Int /\ v \in Int /\ v <= 0
      BY <1>1, <2>1
    <3> HIDE DEF v
    <3>2. Max({0, v}) = 0
      BY <3>1, OfTwo
    <3> QED
      BY <3>2 DEF v
  <2> HIDE DEF beyond
  <2>4. over = [i \in 1..n |-> 0]
    BY <1>1, <2>3
  <2>5. Total([i \in 1..n |-> 0]) = 0
    BY TotalOfZeros, Zenon
  <2> HIDE DEF over
  <2> QED
    BY <2>2, <2>4, <2>5
<1>9. ~Stalls(times)
  <2> DEFINE sum == Total(times)
  <2>1. times \in Seq(Int) /\ \A k \in 1..Len(times) : times[k] >= 0
    BY <1>1
  <2>2. sum \in Int /\ sum >= 0
    BY <2>1, TotalIsNumber, TotalSign
  <2> HIDE DEF sum
  <2>3. ~(100 * 0 > 200000 * sum)
    BY <2>2
  <2> QED
    BY <1>8, <2>3 DEF Stalls, sum
<1> QED
  BY <1>6, <1>9

\* Steps that are erratic are enough that differ, after the warm-up.
LEMMA ErraticDiffer ==
  ASSUME NEW steps \in Seq(TimedSteps), Erratic(steps)
  PROVE  LET settled == {i \in DOMAIN steps : steps[i].step > WarmupSteps}
         IN /\ Cardinality(settled) >= MinStepsToJudge
            /\ \E i, j \in settled : steps[i].time # steps[j].time
<1> DEFINE I == {i \in DOMAIN steps : steps[i].step > WarmupSteps}
           n == Cardinality(I)
           S == Settled(steps)
           times == Times(S)
<1>1. DOMAIN steps = 1..Len(steps) /\ Len(steps) \in Nat /\ I \in SUBSET (1..Len(steps))
  OBVIOUS
<1>2. S = Selected(steps, I)
  BY Zenon DEF Settled
<1>3. n \in Nat
  <2>1. IsFiniteSet(1..Len(steps))
    BY <1>1, FS_Interval
  <2> QED
    BY <1>1, <2>1, FS_Subset, FS_CardinalityType
<1> HIDE DEF I
<1>4. S \in Seq(TimedSteps) /\ Len(S) = n /\ \A k \in 1..n : \E i \in I : S[k] = steps[i]
  BY <1>1, <1>2, SelectedAre
<1>5. DOMAIN times = 1..n /\ Len(times) = n /\ \A k \in 1..n : times[k] = S[k].time
  <2> HIDE DEF S, n
  <2>1. DOMAIN S = 1..n
    BY <1>4
  <2> QED
    BY <1>3, <2>1 DEF Times
<1>6. n >= 1 /\ n >= MinStepsToJudge
  <2>1. Len(times) >= Max({1, MinStepsToJudge})
    BY Zenon DEF Erratic
  <2>2. 1 \in Int /\ MinStepsToJudge \in Int
    BY WindowAssumption
  <2>3. Max({1, MinStepsToJudge}) = IF 1 >= MinStepsToJudge THEN 1 ELSE MinStepsToJudge
    BY <2>2, OfTwo
  <2> HIDE DEF n, times
  <2>4. n >= IF 1 >= MinStepsToJudge THEN 1 ELSE MinStepsToJudge
    BY <1>5, <2>1, <2>3
  <2> QED
    BY <1>3, <2>2, <2>4
<1>7. Varies(times) \/ Stalls(times)
  BY Zenon DEF Erratic
<1>8. \E i, j \in I : steps[i].time # steps[j].time
  <2> SUFFICES ASSUME \A i, j \in I : steps[i].time = steps[j].time PROVE FALSE
    BY Zenon
  <2>1. PICK i0 \in I : S[1] = steps[i0]
    BY <1>3, <1>4, <1>6
  <2> DEFINE t == steps[i0].time
  <2>2. t \in Nat
    <3>1. steps[i0] \in TimedSteps
      BY <1>1, <2>1 DEF I
    <3> QED
      BY <3>1 DEF TimedSteps
  <2> HIDE DEF n, S, times
  <2>3. \A k \in 1..n : times[k] = t
    <3> TAKE k \in 1..n
    <3>1. PICK i \in I : S[k] = steps[i]
      BY <1>4
    <3>2. steps[i].time = t
      BY Zenon
    <3> QED
      BY <1>5, <3>1, <3>2
  <2>4. times = [k \in 1..n |-> t]
    <3>1. times = [k \in DOMAIN times |-> times[k]]
      BY Zenon DEF times, Times
    <3> QED
      BY <1>5, <2>3, <3>1
  <2> HIDE DEF t
  <2>5. ~Varies(times) /\ ~Stalls(times)
    BY <1>3, <1>6, <2>2, <2>4, SteadyIsNotErratic, Zenon
  <2> QED
    BY <1>7, <2>5, Zenon
<1> QED
  BY <1>6, <1>8 DEF I

------------------------------------------------------------------------------
(* The bottleneck.                                                         *)

\* What is found is what applies, and nothing that is looked for before does.
LEMMA ForemostApplies ==
  ASSUME NEW applies, applies["none"]
  PROVE  \E i \in 1..16 : /\ Foremost(applies) = Priority[i] /\ applies[Priority[i]]
                          /\ \A j \in 1..(i - 1) : ~applies[Priority[j]]
<1> DEFINE T == {i \in DOMAIN Priority : applies[Priority[i]]}
           m == Min(T)
<1>1. DOMAIN Priority = 1..16 /\ Priority[16] = "none"
  BY DEF Priority
<1>2. 16 \in T
  <2>1. 16 \in DOMAIN Priority
    BY <1>1
  <2> QED
    BY <1>1, <2>1, Zenon
<1>3. T \in SUBSET Nat /\ T # {}
  BY <1>1, <1>2
<1>4. Foremost(applies) = Priority[m]
  BY Zenon DEF Foremost
<1> HIDE DEF m
<1>5. m \in T /\ \A i \in T : m <= i
  <2> HIDE DEF T
  <2> QED
    BY <1>3, MinOfSome DEF m
<1>6. m \in 1..16 /\ applies[Priority[m]]
  BY <1>1, <1>5, Zenon
<1>7. \A j \in 1..(m - 1) : ~applies[Priority[j]]
  <2> SUFFICES ASSUME NEW j \in 1..(m - 1) PROVE j \notin T
    <3>1. \A j \in 1..(m - 1) : j \in DOMAIN Priority
      BY <1>1, <1>6
    <3> QED
      BY <3>1, Zenon
  <2> HIDE DEF T
  <2>1. ~(m <= j)
    BY <1>6
  <2> QED
    BY <1>5, <2>1
<1> QED
  BY <1>4, <1>6, <1>7

\* What applies, as far as the verdicts are explained.
LEMMA AppliesAre ==
  ASSUME NEW s, NEW w
  PROVE  LET now == w[Len(w)] IN
         /\ Applies(s, w)["none"] = TRUE
         /\ Applies(s, w)["data_loader"] = Above(Breakdown(w), "data", 15)
         /\ Applies(s, w)["erratic_steps"] = Erratic(StepsIn(w))
         /\ Applies(s, w)["no_gpu_metrics"] = (~s.backend)
         /\ Applies(s, w)["warming_up"] = (Len(w) < 3)
         /\ Applies(s, w)["no_gpu_activity"] = (DOMAIN now.gpus = {})
         /\ Applies(s, w)["thermal_throttle"] = Throttled(now, "thermal")
         /\ Applies(s, w)["power_capped"] = (Throttled(now, "power") /\ Clock(now) < 90)
         /\ Applies(s, w)["hardware_slowdown"] = Throttled(now, "hw")
         /\ Applies(s, w)["gpu_imbalance"] = (Divergence(w) > 20)
BY DEF Applies

\* The steps of a window are steps.
LEMMA StepsInType ==
  ASSUME NEW w \in Seq(Observations)
  PROVE  StepsIn(w) \in Seq(TimedSteps)
<1> DEFINE ss == [i \in DOMAIN w |-> w[i].steps]
<1>1. DOMAIN w = 1..Len(w) /\ Len(w) \in Nat /\ \A i \in DOMAIN w : w[i] \in Observations
  OBVIOUS
<1>2. \A i \in DOMAIN w : w[i].steps \in Seq(TimedSteps)
  BY <1>1, WindowAssumption DEF SeenTicks
<1>3. ss \in Seq(Seq(TimedSteps))
  BY <1>1, <1>2
<1>4. StepsIn(w) = FlattenSeq(ss)
  BY Zenon DEF StepsIn
<1> HIDE DEF ss
<1> QED
  BY <1>3, <1>4, FlattenHas

\* The parts of a window's time are whole numbers, and so is their sum.
LEMMA BreakdownType ==
  ASSUME NEW w \in Seq(Observations)
  PROVE  Breakdown(w)["data"] \in Int /\ Whole(Breakdown(w)) \in Int
<1> DEFINE P == Breakdown(w)
<1>1. CASE IsInstrumented(StepsIn(w))
  <2>1. P = Instrumented(StepsIn(w))
    BY <1>1, Zenon DEF Breakdown
  <2>2. StepsIn(w) \in Seq(TimedSteps)
    BY StepsInType
  <2>3. P["data"] = SumOf(StepsIn(w), Waited) /\ SumOf(StepsIn(w), Waited) \in Int /\ Whole(P) \in Int
    BY <2>1, <2>2, InstrumentedParts, Zenon
  <2> QED
    BY <2>3
<1>2. CASE ~IsInstrumented(StepsIn(w))
  <2>1. P = Heuristic(w)
    BY <1>2, Zenon DEF Breakdown
  <2> HIDE DEF P
  <2>2. \A part \in Parts : P[part] \in Nat
    <3> TAKE part \in Parts
    <3> DEFINE S == {x \in Classified(w) : Class(w[x[1]].gpus[x[2]], w[x[1]].cpu) = part}
    <3>1. P[part] = Cardinality(S)
      BY <2>1, Zenon DEF Heuristic
    <3>2. IsFiniteSet(S)
      BY ClassifiedIsFinite, FS_Subset
    <3> QED
      BY <3>1, <3>2, FS_CardinalityType
  <2>3. /\ P["compute"] \in Nat /\ P["data"] \in Nat /\ P["sync"] \in Nat
        /\ P["memory"] \in Nat /\ P["optimizer"] \in Nat /\ P["other"] \in Nat
    BY <2>2, Zenon DEF Parts
  <2>4. Whole(P) \in Nat
    BY <2>3, WholeIsNatural, Zenon
  <2> QED
    BY <2>3, <2>4 DEF P
<1> QED
  BY <1>1, <1>2

\* A gain that is promised is within 100 %.
LEMMA GainIsBounded ==
  ASSUME NEW mfu \in Percent, mfu # Unknown, NEW w \in Seq(Observations)
  PROVE  mfu + Gain(mfu, Breakdown(w)) <= 100
<1> DEFINE d == Breakdown(w)["data"]
           whole == Max({1, Whole(Breakdown(w))})
           share == (100 * d) \div whole
           wait == Min({95, share})
           left == 100 - wait
           more == (100 * mfu) \div left - mfu
           most == 100 - mfu
           least == Min({most, more})
<1>1. d \in Int /\ Whole(Breakdown(w)) \in Int /\ mfu \in 0..100
  BY BreakdownType DEF Percent
<1>2. whole \in Int /\ whole >= 1
  <2>1. 1 \in Int
    OBVIOUS
  <2> DEFINE v == Whole(Breakdown(w))
  <2>2. v \in Int
    BY <1>1
  <2> HIDE DEF v
  <2>3. Max({1, v}) = IF 1 >= v THEN 1 ELSE v
    BY <2>1, <2>2, OfTwo
  <2>4. Max({1, v}) \in Int /\ Max({1, v}) >= 1
    BY <2>2, <2>3
  <2> QED
    BY <2>4 DEF v
<1>3. Gain(mfu, Breakdown(w)) = Max({0, least})
  BY Zenon DEF Gain
<1> HIDE DEF d, whole
<1>4. share \in Int
  BY <1>1, <1>2
<1> HIDE DEF share
<1>5. wait \in Int /\ wait <= 95
  <2>1. 95 \in Int
    OBVIOUS
  <2>2. wait = IF 95 <= share THEN 95 ELSE share
    BY <1>4, <2>1, OfTwo
  <2> HIDE DEF wait
  <2> QED
    BY <1>4, <2>2
<1> HIDE DEF wait
<1>6. left \in Int /\ left >= 5
  BY <1>5
<1> HIDE DEF left
<1>7. more \in Int
  BY <1>1, <1>6
<1> HIDE DEF more
<1>8. most \in Int /\ most >= 0
  BY <1>1
<1> HIDE DEF most
<1>9. least \in Int /\ least <= most
  <2>1. least = IF most <= more THEN most ELSE more
    BY <1>7, <1>8, OfTwo
  <2> HIDE DEF least
  <2> QED
    BY <1>7, <1>8, <2>1
<1> HIDE DEF least
<1>10. Max({0, least}) <= most
  <2>1. 0 \in Int
    OBVIOUS
  <2>2. Max({0, least}) = IF 0 >= least THEN 0 ELSE least
    BY <1>9, <2>1, OfTwo
  <2> QED
    BY <1>8, <1>9, <2>2
<1> DEFINE g == Max({0, least})
<1>11. g \in Int
  <2>1. 0 \in Int
    OBVIOUS
  <2>2. g = IF 0 >= least THEN 0 ELSE least
    BY <1>9, <2>1, OfTwo
  <2> HIDE DEF g
  <2> QED
    BY <1>9, <2>2
<1>12. g <= most
  BY <1>10
<1>13. Gain(mfu, Breakdown(w)) = g
  BY <1>3
<1> HIDE DEF g
<1>14. mfu + g <= 100
  BY <1>1, <1>11, <1>12 DEF most
<1> QED
  BY <1>13, <1>14

\* The verdict is on the window.
WindowIsJudged ==
  /\ observed \in Seq(Observations)
  /\ observed # <<>> => verdict = Advice(session, observed, Detected(session, observed))

\* It stays so from tick to tick.
LEMMA WindowInvariant == VerdictSpec => []WindowIsJudged
<1>1. VerdictInit => WindowIsJudged
  BY DEF VerdictInit, WindowIsJudged
<1>2. ASSUME WindowIsJudged, [VerdictNext]_verdictVars PROVE WindowIsJudged'
  <2>1. CASE UNCHANGED verdictVars
    BY <1>2, <2>1 DEF WindowIsJudged, verdictVars
  <2>2. CASE VerdictNext
    <3>1. PICK t \in Observations : Judge(t)
      BY <2>2, Zenon DEF VerdictNext
    <3> DEFINE a == Append(observed, t)
               m == Max({1, Len(a) - Kept + 1})
    <3>2. a \in Seq(Observations) /\ Len(a) \in Nat
      BY <1>2 DEF WindowIsJudged
    <3>3. Kept \in Nat
      BY WindowAssumption
    <3> HIDE DEF a
    <3>4. m \in Nat \ {0}
      <4>1. 1 \in Int /\ Len(a) - Kept + 1 \in Int
        BY <3>2, <3>3
      <4>2. m = IF 1 >= Len(a) - Kept + 1 THEN 1 ELSE Len(a) - Kept + 1
        BY <4>1, OfTwo
      <4> HIDE DEF m
      <4> QED
        BY <3>2, <3>3, <4>2
    <3> HIDE DEF m
    <3>5. LastFew(a) = SubSeq(a, m, Len(a))
      BY Zenon DEF LastFew, m
    <3>6. SubSeq(a, m, Len(a)) \in Seq(Observations)
      <4>1. \A i \in m..Len(a) : a[i] \in Observations
        BY <3>2, <3>4
      <4> QED
        BY <3>2, <3>4, <4>1
    <3>7. observed' = LastFew(a)
      BY <3>1, Zenon DEF Judge, a
    <3>8. verdict' = Advice(session, LastFew(a), Detected(session, LastFew(a))) /\ session' = session
      BY <3>1, Zenon DEF Judge, a
    <3>9. verdict' = Advice(session', observed', Detected(session', observed'))
      BY <3>7, <3>8, Zenon
    <3> QED
      BY <3>5, <3>6, <3>7, <3>9, Zenon DEF WindowIsJudged
  <2> QED
    BY <1>2, <2>1, <2>2
<1> QED
  BY <1>1, <1>2, PTL DEF VerdictSpec

\* A verdict on a window is borne out by it.
LEMMA JudgedIsBorneOut == WindowIsJudged => VerdictIsBorneOut
<1> SUFFICES ASSUME WindowIsJudged, observed # <<>> PROVE VerdictIsBorneOut
  BY Zenon DEF VerdictIsBorneOut
<1> DEFINE w == observed
           s == session
           now == w[Len(w)]
           steps == StepsIn(w)
           P == Breakdown(w)
           timed == IsInstrumented(steps)
           waited == 100 * SumOf(steps, Waited) > 15 * Total(Times(steps))
           settled == {i \in DOMAIN steps : steps[i].step > WarmupSteps}
           blamed == Above(P, "data", 15)
           kind == Detected(s, w)
<1>1. w \in Seq(Observations) /\ verdict = Advice(s, w, kind)
  BY DEF WindowIsJudged
<1>2. /\ verdict.kind = kind
      /\ kind = "data_loader" => verdict.gain = Gain(now.mfu, P)
  BY <1>1 DEF Advice
<1>3. steps \in Seq(TimedSteps)
  BY <1>1, StepsInType
<1>4. now \in Observations
  BY <1>1
<1> HIDE DEF w, s, now, steps, P, kind
<1>5. PICK i \in 1..16 :
        /\ kind = Priority[i] /\ Applies(s, w)[Priority[i]]
        /\ \A j \in 1..(i - 1) : ~Applies(s, w)[Priority[j]]
  <2>1. Applies(s, w)["none"]
    BY AppliesAre, Zenon
  <2> QED
    BY <2>1, ForemostApplies, Zenon DEF kind, Detected
<1>6. kind = "data_loader" => blamed
  <2>1. Applies(s, w)["data_loader"] = blamed
    BY AppliesAre, Zenon DEF P
  <2>2. Applies(s, w)[kind]
    BY <1>5, Zenon
  <2> QED
    BY <2>1, <2>2, Zenon
<1>7. kind = "erratic_steps" => Erratic(steps)
  <2>1. Applies(s, w)["erratic_steps"] = Erratic(steps)
    BY AppliesAre, Zenon DEF steps
  <2>2. Applies(s, w)[kind]
    BY <1>5, Zenon
  <2> QED
    BY <2>1, <2>2, Zenon
<1>8. timed => (blamed => waited)
  <2> SUFFICES ASSUME timed, blamed PROVE waited
    BY Zenon
  <2>1. P = Instrumented(steps)
    BY Zenon DEF Breakdown, P, steps
  <2> DEFINE d == SumOf(steps, Waited)
             t == Total(Times(steps))
             all == Whole(P)
  <2>2. P["data"] = d /\ d \in Int /\ t \in Int /\ all \in Int /\ all >= t
    BY <1>3, <2>1, InstrumentedParts, Zenon
  <2>3. 100 * d > 15 * all
    BY <2>2, Zenon DEF Above
  <2> HIDE DEF d, t, all, timed, blamed
  <2>4. 100 * d > 15 * t
    BY <2>2, <2>3
  <2> QED
    BY <2>4, Zenon DEF d, t
<1>9. timed /\ waited /\ (\A k \in DOMAIN steps : ~Overlap(steps[k])) => blamed
  <2> SUFFICES ASSUME timed, waited, \A k \in DOMAIN steps : ~Overlap(steps[k]) PROVE blamed
    BY Zenon
  <2>1. P = Instrumented(steps)
    BY Zenon DEF Breakdown, P, steps
  <2>2. P["data"] = SumOf(steps, Waited) /\ Whole(P) = Total(Times(steps))
    BY <1>3, <2>1, InstrumentedParts, Zenon
  <2> QED
    BY <2>2, Zenon DEF Above
<1>10. ~timed /\ blamed => \E k \in DOMAIN w : \E d \in DOMAIN w[k].gpus :
                              w[k].gpus[d].busy \in 0..14 /\ w[k].cpu > 30
  <2> SUFFICES ASSUME ~timed, blamed
               PROVE  \E k \in DOMAIN w : \E d \in DOMAIN w[k].gpus :
                        w[k].gpus[d].busy \in 0..14 /\ w[k].cpu > 30
    BY Zenon
  <2>1. P = Heuristic(w)
    BY Zenon DEF Breakdown, P, steps
  <2>2. Above(Heuristic(w), "data", 15)
    BY <2>1, Zenon
  <2> QED
    BY <1>1, <2>2, HeuristicBlames, Zenon
<1>11. kind = "data_loader" /\ now.mfu # Unknown => now.mfu + verdict.gain <= 100
  <2>1. now.mfu \in Percent
    BY <1>4, WindowAssumption DEF SeenTicks
  <2> QED
    BY <1>1, <1>2, <2>1, GainIsBounded, Zenon DEF P
<1>12. /\ blamed /\ s.backend /\ Len(w) >= 3 /\ ~(Divergence(w) > 20)
       /\ DOMAIN now.gpus # {} /\ \A d \in DOMAIN now.gpus : now.gpus[d].throttle = {}
       => kind = "data_loader"
  <2> SUFFICES ASSUME blamed, s.backend, Len(w) >= 3, ~(Divergence(w) > 20), DOMAIN now.gpus # {},
                      \A d \in DOMAIN now.gpus : now.gpus[d].throttle = {}
               PROVE  kind = "data_loader"
    BY Zenon
  <2> DEFINE a == Applies(s, w)
  <2>1. \A reason : ~Throttled(now, reason)
    BY DEF Throttled
  <2>2. ~(Len(w) < 3)
    <3>1. Len(w) \in Nat
      BY <1>1
    <3> QED
      BY <3>1
  <2>3. ~a["no_gpu_metrics"] /\ ~a["warming_up"] /\ ~a["no_gpu_activity"]
    BY <2>2, AppliesAre, Zenon DEF now
  <2>4. ~a["thermal_throttle"] /\ ~a["power_capped"] /\ ~a["hardware_slowdown"]
    BY <2>1, AppliesAre, Zenon DEF now
  <2>5. ~a["gpu_imbalance"] /\ a["data_loader"]
    BY AppliesAre, Zenon DEF P
  <2> HIDE DEF a
  <2>6. /\ Priority[1] = "no_gpu_metrics" /\ Priority[2] = "warming_up"
        /\ Priority[3] = "no_gpu_activity" /\ Priority[4] = "thermal_throttle"
        /\ Priority[5] = "power_capped" /\ Priority[6] = "hardware_slowdown"
        /\ Priority[7] = "gpu_imbalance" /\ Priority[8] = "data_loader"
    BY DEF Priority
  <2>7. i \notin {1, 2, 3, 4, 5, 6, 7}
    BY <1>5, <2>3, <2>4, <2>5, <2>6, Zenon DEF a
  <2>8. 8 \notin 1..(i - 1)
    BY <1>5, <2>5, <2>6, Zenon DEF a
  <2>9. i = 8
    <3>1. i \in 1..16
      OBVIOUS
    <3> QED
      BY <2>7, <2>8, <3>1
  <2> QED
    BY <1>5, <2>6, <2>9
<1>13. kind = "erratic_steps" => /\ Cardinality(settled) >= MinStepsToJudge
                                 /\ \E k, j \in settled : steps[k].time # steps[j].time
  BY <1>3, <1>7, ErraticDiffer, Zenon
<1> HIDE DEF timed, waited, settled, blamed
<1>14. kind = "data_loader" =>
         /\ timed => waited
         /\ ~timed => \E k \in DOMAIN w : \E d \in DOMAIN w[k].gpus :
                        w[k].gpus[d].busy \in 0..14 /\ w[k].cpu > 30
         /\ now.mfu # Unknown => now.mfu + verdict.gain <= 100
  BY <1>6, <1>8, <1>10, <1>11, Zenon
<1>15. /\ timed /\ waited /\ \A k \in DOMAIN steps : ~Overlap(steps[k])
       /\ s.backend /\ Len(w) >= 3 /\ ~(Divergence(w) > 20)
       /\ DOMAIN now.gpus # {} /\ \A d \in DOMAIN now.gpus : now.gpus[d].throttle = {}
       => kind = "data_loader"
  BY <1>9, <1>12, Zenon
<1> QED
  BY <1>2, <1>13, <1>14, <1>15, Zenon
     DEF VerdictIsBorneOut, w, s, now, steps, kind, timed, waited, settled

\* metrics/breakdown.rs:3 and steps.rs:6, for every window, session and ticks:
\* see VerdictIsBorneOut.
THEOREM VerdictCorrectness == VerdictSpec => []VerdictIsBorneOut
BY WindowInvariant, JudgedIsBorneOut, PTL
==============================================================================
