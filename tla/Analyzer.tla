------------------------------- MODULE Analyzer -------------------------------
(***************************************************************************)
(* The analysis of a session (session/lifecycle.rs, Analyzer::ingest): the *)
(* window of recent ticks, the source of the MFU figure, the session's     *)
(* percentiles and peak, the VRAM history behind leak detection, and cost. *)
(*                                                                         *)
(* A device's tensor activity and kernel-busy time, corrected for its      *)
(* clock, are levels.  The code's averages are floating point, and all     *)
(* that matters of one here is that it lies between the lowest and the     *)
(* highest value it is taken of.  Of the hook's steps with FLOPs a tick    *)
(* has the number; their FLOPs and durations can give any level.  None is  *)
(* a measurement that is missing.  Ticks come with wall-clock time, which  *)
(* may be set back.                                                        *)
(***************************************************************************)
EXTENDS Integers, Sequences, FiniteSets

LOCAL INSTANCE FiniteSetsExt

CONSTANTS
  Gpus,          \* device indices
  Known,         \* those whose model is in the spec database
  MaxLevel,      \* highest level of a signal (100 %)
  Target,        \* --target-mfu as a level
  Rate,          \* --cost-per-hour, per unit of time
  HasBackend,    \* is there a GPU backend?
  WindowSpan,    \* WINDOW_SPAN_MS
  WindowLen,     \* MAX_WINDOW_TICKS
  MinSteps,      \* hook steps needed for an instrumented figure (3)
  LeakTicks,     \* LEAK_TICKS
  LeakMinGrowth, \* LEAK_MIN_GROWTH_FRAC of the device memory
  LeakMinElapsed,\* LEAK_MIN_ELAPSED_SECS
  DtCap,         \* longest gap between ticks that is charged
  Samples,       \* what a tick can carry: [gpus, steps]
  ClockSteps,    \* how the wall clock can move between ticks
  MaxTicks       \* bound: ticks of a session

None == -1
Levels == 0..MaxLevel
Sources == {"unavailable", "kernel_busy", "tensor_active", "instrumented"}

GpuSample == [present : BOOLEAN, tensor : Levels \cup {None}, util : Levels \cup {None},
              vram : Nat \cup {None}]
Sample == [gpus : [Gpus -> GpuSample], steps : Nat]
Tick == [ts : Nat, gpus : [Gpus -> GpuSample], steps : Nat]
Estimate == [source : Sources, mfu : Levels \cup {None}]

ASSUME LevelAssumption ==
  /\ MaxLevel \in Nat /\ Target \in 1..MaxLevel /\ Rate \in Nat
ASSUME SizeAssumption ==
  /\ WindowSpan \in Nat /\ WindowLen \in Nat \ {0} /\ MinSteps \in Nat \ {0}
  /\ LeakTicks \in Nat \ {0} /\ LeakMinGrowth \in Nat /\ LeakMinElapsed \in Nat
  /\ DtCap \in Nat /\ MaxTicks \in Nat
ASSUME DataAssumption ==
  /\ Known \subseteq Gpus /\ HasBackend \in BOOLEAN
  /\ Samples \subseteq Sample /\ ClockSteps \subseteq Int

VARIABLES
  window,     \* the TickWindow
  firstTs,    \* time of the first tick, None before it
  lastTs,     \* time of the newest tick
  hist,       \* histogram: how often each level has been recorded
  histSource, \* the source the histogram and the peak describe
  peak,       \* peak_mfu
  peakVram,   \* peak_vram
  vramHist,   \* the last LeakTicks VRAM readings of each device
  spent,      \* spent_usd
  wasted,     \* wasted_usd, times Target
  growing,    \* devices the newest snapshot flags as leaking
  past,       \* history: every tick ingested
  log         \* history: the estimate of every snapshot

vars == <<window, firstTs, lastTs, hist, histSource, peak, peakVram, vramHist,
          spent, wasted, growing, past, log>>

TypeOK ==
  /\ window \in Seq(Tick) /\ Len(window) <= WindowLen
  /\ firstTs \in Nat \cup {None} /\ lastTs \in Nat \cup {None}
  /\ hist \in [Levels -> Nat] /\ histSource \in Sources
  /\ peak \in Levels \cup {None}
  /\ peakVram \in [Gpus -> Nat] /\ vramHist \in [Gpus -> Seq(Nat)]
  /\ \A g \in Gpus : Len(vramHist[g]) <= LeakTicks
  /\ spent \in Nat /\ wasted \in Nat
  /\ growing \subseteq Gpus
  /\ past \in Seq(Tick) /\ log \in Seq(Estimate)

Init ==
  /\ window = <<>> /\ firstTs = None /\ lastTs = None
  /\ hist = [l \in Levels |-> 0] /\ histSource = "unavailable" /\ peak = None
  /\ peakVram = [g \in Gpus |-> 0] /\ vramHist = [g \in Gpus |-> <<>>]
  /\ spent = 0 /\ wasted = 0 /\ growing = {}
  /\ past = <<>> /\ log = <<>>

------------------------------------------------------------------------------
(* The window.                                                             *)

\* u64::saturating_sub.
Monus(a, b) == IF a > b THEN a - b ELSE 0

LastOf(s, n) == SubSeq(s, Monus(Len(s), n) + 1, Len(s))

\* The leading ticks of w that are too old for a window whose newest tick has
\* the time `now`; the newest tick stays.
Expired(w, now) ==
  {i \in 1..(Len(w) - 1) : \A j \in 1..i : Monus(now, w[j].ts) > WindowSpan}

\* Mutant of Evict: a tick of exactly WindowSpan is dropped.
EvictEager(w, now) ==
  LET old == {i \in 1..(Len(w) - 1) : \A j \in 1..i : Monus(now, w[j].ts) >= WindowSpan}
  IN SubSeq(w, Cardinality(old) + 1, Len(w))

Evict(w, now) == SubSeq(w, Cardinality(Expired(w, now)) + 1, Len(w))

\* Mutant of Push: the capacity is off by one.
PushOverlong(w, tick) == Evict(LastOf(Append(w, tick), WindowLen + 1), tick.ts)

\* TickWindow::push.
Push(w, tick) == Evict(LastOf(Append(w, tick), WindowLen), tick.ts)

\* The devices the target uses.
InUse(tick) == {g \in Gpus : tick.gpus[g].present}

GpuSamples(w) == {x \in (1..Len(w)) \X Gpus : x[2] \in InUse(w[x[1]])}
Signal(w, field) == {w[x[1]].gpus[x[2]][field] : x \in GpuSamples(w)}

\* The hook's steps in the window.
StepCount(w) == MapThenSumSet(LAMBDA i : w[i].steps, 1..Len(w))

------------------------------------------------------------------------------
(* The MFU estimate.                                                       *)

\* mfu::compute: hook steps first, then tensor activity if every sample has
\* it, then kernel-busy time if every sample has it.
SourceOf(w) ==
  IF StepCount(w) >= MinSteps THEN "instrumented"
  ELSE IF GpuSamples(w) = {} THEN "unavailable"
  ELSE IF None \notin Signal(w, "tensor") THEN "tensor_active"
  ELSE IF None \notin Signal(w, "util") THEN "kernel_busy"
  ELSE "unavailable"

\* The combined peak is known if some device is in the window and all are.
PeakKnown(w) ==
  GpuSamples(w) # {} /\ {x[2] : x \in GpuSamples(w)} \subseteq Known

\* The levels an average of S can have.
Averages(S) == {l \in Levels : (\E a \in S : a <= l) /\ (\E b \in S : l <= b)}

\* The percentages a source can give: without a known peak an instrumented
\* figure has none.
Figures(w, source) ==
  IF source = "unavailable" THEN {None}
  ELSE IF source = "instrumented" THEN (IF PeakKnown(w) THEN Levels ELSE {None})
  ELSE Averages(Signal(w, IF source = "tensor_active" THEN "tensor" ELSE "util"))

Estimates(w) == [source : {SourceOf(w)}, mfu : Figures(w, SourceOf(w))]

\* MfuSource::rank.
Rank == [unavailable |-> 0, kernel_busy |-> 1, tensor_active |-> 2, instrumented |-> 3]

\* Mutant of RecordMfu: a change of source does not restart the statistics.
RecordMfuMixing(est) ==
  IF est.mfu = None \/ Rank[est.source] < Rank[histSource]
  THEN UNCHANGED <<hist, histSource, peak>>
  ELSE /\ hist' = [hist EXCEPT ![est.mfu] = @ + 1]
       /\ histSource' = est.source
       /\ peak' = IF est.mfu > peak THEN est.mfu ELSE peak

\* record_mfu: a better source restarts the statistics, a worse one and a
\* missing figure are not recorded.
RecordMfu(est) ==
  IF est.mfu = None \/ Rank[est.source] < Rank[histSource]
  THEN UNCHANGED <<hist, histSource, peak>>
  ELSE LET better == Rank[est.source] > Rank[histSource]
           base == IF better THEN [l \in Levels |-> 0] ELSE hist
           top == IF better THEN None ELSE peak
       IN /\ hist' = [base EXCEPT ![est.mfu] = @ + 1]
          /\ histSource' = est.source
          /\ peak' = IF est.mfu > top THEN est.mfu ELSE top

------------------------------------------------------------------------------
(* VRAM growth.                                                            *)

HasVram(tick, g) == g \in InUse(tick) /\ tick.gpus[g].vram # None

\* Mutant of RecordVram: a full history keeps its oldest readings.
RecordVramOldest(tick) ==
  /\ UNCHANGED peakVram
  /\ vramHist' = [g \in Gpus |->
    IF HasVram(tick, g) /\ Len(vramHist[g]) < LeakTicks
    THEN Append(vramHist[g], tick.gpus[g].vram) ELSE vramHist[g]]

\* The reading is appended and the oldest dropped.
RecordVram(tick) ==
  /\ peakVram' = [g \in Gpus |->
       IF HasVram(tick, g) /\ tick.gpus[g].vram > peakVram[g]
       THEN tick.gpus[g].vram ELSE peakVram[g]]
  /\ vramHist' = [g \in Gpus |->
    IF HasVram(tick, g) THEN LastOf(Append(vramHist[g], tick.gpus[g].vram), LeakTicks)
                        ELSE vramHist[g]]

\* is_leaking.
IsLeaking(h) ==
  /\ Len(h) >= LeakTicks
  /\ \A i \in 1..(Len(h) - 1) : h[i + 1] >= h[i]
  /\ 2 * Cardinality({i \in 1..(Len(h) - 1) : h[i + 1] > h[i]}) >= Len(h)
  /\ Monus(h[Len(h)], h[1]) >= LeakMinGrowth

\* gpu_statuses: only devices of the newest tick, only after the first minute.
FlagGrowth(tick) ==
  growing' = {g \in InUse(tick) :
                /\ Monus(tick.ts, firstTs') >= LeakMinElapsed
                /\ IsLeaking(vramHist'[g])}

------------------------------------------------------------------------------
(* Cost.                                                                   *)

\* The time charged for a tick.
Charged(ts) ==
  LET dt == IF lastTs = None THEN 0 ELSE Monus(ts, lastTs)
  IN IF dt > DtCap THEN DtCap ELSE dt

\* The share of the cost that is waste, times Target: everything if no device
\* is in use, nothing if the MFU is unknown.
Waste(est, tick) ==
  IF est.mfu # None THEN Monus(Target, est.mfu)
  ELSE IF InUse(tick) = {} /\ HasBackend THEN Target ELSE 0

\* Mutant of Charge: the first tick is charged from the beginning of time.
ChargeFromEpoch(est, tick) ==
  LET time == IF lastTs = None THEN tick.ts ELSE Charged(tick.ts)
  IN /\ spent' = spent + Rate * time
     /\ wasted' = wasted + Rate * Waste(est, tick) * time

\* spent_usd and wasted_usd.
Charge(est, tick) ==
  /\ spent' = spent + Rate * Charged(tick.ts)
  /\ wasted' = wasted + Rate * Waste(est, tick) * Charged(tick.ts)

------------------------------------------------------------------------------
\* Analyzer::ingest.
Ingest(tick) ==
  /\ firstTs' = IF firstTs = None THEN tick.ts ELSE firstTs
  /\ lastTs' = tick.ts
  /\ RecordVram(tick)
  /\ window' = Push(window, tick)
  /\ \E est \in Estimates(window') :
       /\ RecordMfu(est)
       /\ Charge(est, tick)
       /\ log' = Append(log, est)
  /\ FlagGrowth(tick)
  /\ past' = Append(past, tick)

\* The collector's next tick; the wall clock has moved on or been set back.
NextTick ==
  /\ Len(past) < MaxTicks
  /\ \E s \in Samples, d \in ClockSteps :
       LET ts == (IF lastTs = None THEN 0 ELSE lastTs) + d
       IN /\ ts >= 0
          /\ Ingest([ts |-> ts, gpus |-> s.gpus, steps |-> s.steps])

\* The session is over.
Over == Len(past) = MaxTicks /\ UNCHANGED vars

Next == NextTick \/ Over

Spec == Init /\ [][Next]_vars

------------------------------------------------------------------------------
(* Properties.                                                             *)

\* The estimates of the session that came from a source and had a percentage.
Recorded(source) == {i \in 1..Len(log) : log[i].source = source /\ log[i].mfu # None}

\* Percentiles and peak describe the best source seen in the session, all of
\* its figures and nothing else: a busy-time upper bound never pollutes them,
\* however often the source comes and goes (record_mfu).
StatisticsDescribeBestSource ==
  /\ \A i \in 1..Len(log) : log[i].mfu # None => Rank[log[i].source] <= Rank[histSource]
  /\ \A l \in Levels : hist[l] = Cardinality({i \in Recorded(histSource) : log[i].mfu = l})
  /\ \A i \in Recorded(histSource) : log[i].mfu <= peak
  /\ peak # None => \E i \in Recorded(histSource) : log[i].mfu = peak

ClockIsMonotone == \A i \in 1..(Len(past) - 1) : past[i].ts <= past[i + 1].ts

\* While the clock is not set back, the window kept by evicting tick after
\* tick is what the whole session's ticks would give: those of the last
\* WindowSpan, at most WindowLen of them, and always the newest.
WindowIsRecent ==
  ClockIsMonotone /\ past # <<>> =>
    LET n == Len(past)
        keep == {i \in 1..n : \/ i = n
                              \/ /\ past[n].ts - past[i].ts <= WindowSpan
                                 /\ n - i < WindowLen}
    IN window = SubSeq(past, n - Cardinality(keep) + 1, n)

\* Money is never wasted that has not been spent, and none is spent for time
\* that has not passed, whatever gaps there are between ticks.
CostIsBounded ==
  /\ wasted <= Target * spent
  /\ ClockIsMonotone /\ past # <<>> => spent <= Rate * (lastTs - firstTs)

\* A device is flagged only if the session's last LeakTicks readings of it
\* never fell and rose by LeakMinGrowth, wherever ticks without a reading lie
\* between them.
GrowthIsSustained ==
  \A g \in growing :
    LET readings == {i \in 1..Len(past) : HasVram(past[i], g)}
        last == {i \in readings : Cardinality({j \in readings : j > i}) < LeakTicks}
        used(i) == past[i].gpus[g].vram
    IN /\ Cardinality(last) = LeakTicks
       /\ \A i, j \in last : i < j => used(i) <= used(j)
       /\ \E i, j \in last : used(j) - used(i) >= LeakMinGrowth
==============================================================================
