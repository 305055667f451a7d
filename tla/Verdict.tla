-------------------------------- MODULE Verdict --------------------------------
(***************************************************************************)
(* What a snapshot says of the training job: where the time of the window  *)
(* goes (metrics/breakdown.rs), whether its steps are erratic (steps.rs),  *)
(* the one bottleneck (analysis/bottleneck.rs) and the advice given for it *)
(* (recommendations.rs).  They are functions of the ticks in the window.   *)
(*                                                                         *)
(* Shares are compared as fractions of whole numbers; means are rounded    *)
(* down.  Unknown is a reading or a field that is missing.                 *)
(***************************************************************************)
EXTENDS Lists, FiniteSets

CONSTANTS
  Sessions,          \* [backend, target, accelerator]
  Observations,      \* what a tick can carry: [gpus, cpu, steps, framework, mfu, upper]
  Kept,              \* ticks the window keeps
  WarmupSteps,       \* WARMUP_STEPS
  MinStepsToJudge    \* MIN_STEPS_TO_JUDGE

VARIABLES
  session,   \* the configuration
  observed,  \* the ticks in the window
  verdict    \* bottleneck and advice of the newest snapshot

verdictVars == <<session, observed, verdict>>

Unknown == -1
Measured == Nat \cup {Unknown}
Percent == (0..100) \cup {Unknown}

TimedSteps == [step : Nat, time : Nat, data : Measured, compute : Measured,
               optimizer : Measured, tokens : Measured]
SeenDevices == [busy : Percent, mem : Percent, throttle : SUBSET {"power", "hw", "thermal"},
                clock : Measured]

SeenTicks == [gpus : Seq(SeenDevices), cpu : Measured, steps : Seq(TimedSteps),
              framework : STRING, mfu : Percent, upper : BOOLEAN]

\* The hook's clock does not go back, and an MFU is limited to 100 %.
ASSUME WindowAssumption ==
  /\ Kept \in Nat /\ WarmupSteps \in Nat /\ MinStepsToJudge \in Nat
  /\ Observations \subseteq SeenTicks

OrElse(value, default) == IF value = Unknown THEN default ELSE value

SumOf(s, F(_)) == Total([i \in DOMAIN s |-> F(s[i])])
Reported(values) == Selected(values, {i \in DOMAIN values : values[i] # Unknown})

Times(steps) == [i \in DOMAIN steps |-> steps[i].time]
StepsIn(w) == FlattenSeq([i \in DOMAIN w |-> w[i].steps])

------------------------------------------------------------------------------
(* Where the time goes.                                                    *)

Parts == {"compute", "data", "sync", "memory", "optimizer", "other"}
NoParts == [part \in Parts |-> 0]
Whole(parts) == parts["compute"] + parts["data"] + parts["sync"] + parts["memory"]
                + parts["optimizer"] + parts["other"]

\* A part above the given percentage of the whole; nothing if there is none.
Above(parts, part, pct) == 100 * parts[part] > pct * Whole(parts)

\* Mutant of DataOf: a hook that counts prefetching waits longer than the step.
DataOfUnclamped(s) == OrElse(s.data, 0)

DataOf(s) == Max({0, Min({s.time, OrElse(s.data, 0)})})

\* A step with an optimizer time alone leaves the rest unaccounted for.
ComputeOf(s) ==
  CASE s.compute # Unknown -> Max({0, s.compute})
    [] s.compute = Unknown /\ s.optimizer # Unknown -> 0
    [] OTHER -> s.time - DataOf(s)

OptimizerOf(s) == Max({0, OrElse(s.optimizer, 0)})

\* instrumented: phases may overlap, so the parts may exceed the step time.
Instrumented(steps) ==
  LET time == Total(Times(steps))
      Share(F(_)) == Min({time, SumOf(steps, F)})
      data == Share(DataOf)
      compute == Share(ComputeOf)
      optimizer == Share(OptimizerOf)
  IN [NoParts EXCEPT !["data"] = data, !["compute"] = compute, !["optimizer"] = optimizer,
                     !["other"] = Max({0, time - data - compute - optimizer})]

\* classify.
Class(g, cpu) ==
  CASE g.busy > 60 -> "compute"
    [] g.busy <= 60 /\ g.mem > 80 -> "memory"
    [] g.busy < 15 /\ g.mem <= 80 /\ cpu > 30 -> "data"
    [] g.busy < 15 /\ g.mem <= 80 /\ cpu < 10 -> "sync"
    [] OTHER -> "other"

\* heuristic: the samples that know how busy the GPU and the CPU are.
Classified(w) ==
  {x \in (DOMAIN w) \X UNION {DOMAIN w[i].gpus : i \in DOMAIN w} :
     /\ x[2] \in DOMAIN w[x[1]].gpus
     /\ w[x[1]].cpu # Unknown /\ w[x[1]].gpus[x[2]].busy # Unknown}
Heuristic(w) ==
  [part \in Parts |->
     Cardinality({x \in Classified(w) : Class(w[x[1]].gpus[x[2]], w[x[1]].cpu) = part})]

IsInstrumented(steps) ==
  /\ Len(steps) >= 3 /\ \E i \in DOMAIN steps : steps[i].data # Unknown
  /\ Total(Times(steps)) > 0

Breakdown(w) ==
  IF IsInstrumented(StepsIn(w)) THEN Instrumented(StepsIn(w)) ELSE Heuristic(w)

------------------------------------------------------------------------------
(* Whether the steps are erratic.                                          *)

\* Mutant of Settled: the steps of the warm-up are judged.
SettledAll(steps) == steps

Settled(steps) == Selected(steps, {i \in DOMAIN steps : steps[i].step > WarmupSteps})

\* The lower one: half of the values are below it or the same, and fewer below.
Median(values) ==
  LET half == (Len(values) + 1) \div 2
  IN CHOOSE v \in ToSet(values) :
       /\ Cardinality({i \in DOMAIN values : values[i] < v}) < half
       /\ Cardinality({i \in DOMAIN values : values[i] <= v}) >= half

Deviations(values) ==
  LET median == Median(values)
  IN [i \in DOMAIN values |-> Max({values[i] - median, median - values[i]})]

\* sigma = 1.4826 * MAD, in ten-thousandths.
Spread(values) == 14826 * Median(Deviations(values))

\* robust_cv above 0.3.
Varies(values) == 10 * Spread(values) > 30000 * Median(values)

\* Beyond a generous normal range, in ten-thousandths.
Limit(values) == 10000 * Median(values) + Max({5 * Spread(values), 5000 * Median(values)})
Excess(values) ==
  LET limit == Limit(values)
  IN Total([i \in DOMAIN values |-> Max({0, 10000 * values[i] - limit})])

\* stall_time_pct above 20.
Stalls(values) == 100 * Excess(values) > 200000 * Total(values)

Erratic(steps) ==
  LET times == Times(Settled(steps))
  IN Len(times) >= Max({1, MinStepsToJudge}) /\ (Varies(times) \/ Stalls(times))

\* tokens_cv above 0.05, or not known.
TokensMayVary(steps) ==
  LET judged == IF Settled(steps) = <<>> THEN steps ELSE Settled(steps)
      tokens == Reported([i \in DOMAIN judged |-> judged[i].tokens])
      squares == Total([i \in DOMAIN tokens |-> tokens[i] * tokens[i]])
      square == Total(tokens) * Total(tokens)
  IN tokens = <<>> \/ 400 * (Len(tokens) * squares - square) > square

------------------------------------------------------------------------------
(* The bottleneck.                                                         *)

Mean(values) == IF values = <<>> THEN Unknown ELSE Total(values) \div Len(values)

Readings(w, d, field) ==
  Reported([i \in DOMAIN w |-> IF d \in DOMAIN w[i].gpus THEN w[i].gpus[d][field] ELSE Unknown])

Devices(w) == UNION {DOMAIN w[i].gpus : i \in DOMAIN w}

\* per_gpu_mean of the busy time, over the window.
BusyMeans(w) ==
  {<<d, Mean(Readings(w, d, "busy"))>> : d \in {e \in Devices(w) : Readings(w, e, "busy") # <<>>}}

Divergence(w) ==
  LET means == {m[2] : m \in BusyMeans(w)}
  IN IF Cardinality(BusyMeans(w)) > 1 THEN Max(means) - Min(means) ELSE 0

Busy(w) == LET means == SetToSeq(BusyMeans(w)) IN Mean([i \in DOMAIN means |-> means[i][2]])

Throttled(t, reason) == \E d \in DOMAIN t.gpus : reason \in t.gpus[d].throttle

\* Mean clock of the newest tick's devices, in percent of the boost clock.
Clock(t) ==
  LET known == {d \in DOMAIN t.gpus : t.gpus[d].clock # Unknown}
  IN IF known = {} THEN 100
     ELSE MapThenSumSet(LAMBDA d : t.gpus[d].clock, known) \div Cardinality(known)

\* detect: what is looked for, in this order, and what of it applies.
Priority == <<
  "no_gpu_metrics", "warming_up", "no_gpu_activity", "thermal_throttle", "power_capped",
  "hardware_slowdown", "gpu_imbalance", "data_loader", "sync_stall", "memory_bound",
  "optimizer_heavy", "clock_underspeed", "erratic_steps", "below_target_mfu", "unverified",
  "none" >>

Applies(s, w) ==
  LET now == w[Len(w)]
      parts == Breakdown(w)
      power == Throttled(now, "power")
      hw == Throttled(now, "hw")
  IN [no_gpu_metrics |-> ~s.backend,
      warming_up |-> Len(w) < 3,
      no_gpu_activity |-> DOMAIN now.gpus = {},
      thermal_throttle |-> Throttled(now, "thermal"),
      power_capped |-> power /\ Clock(now) < 90,
      hardware_slowdown |-> hw,
      gpu_imbalance |-> Divergence(w) > 20,
      data_loader |-> Above(parts, "data", 15),
      sync_stall |-> Above(parts, "sync", 10),
      memory_bound |-> Above(parts, "memory", 15),
      optimizer_heavy |-> Above(parts, "optimizer", 20),
      clock_underspeed |-> Busy(w) > 50 /\ Clock(now) < 85 /\ ~power /\ ~hw,
      erratic_steps |-> Erratic(StepsIn(w)),
      below_target_mfu |-> now.mfu # Unknown /\ now.mfu < s.target,
      unverified |-> now.mfu = Unknown \/ now.upper,
      none |-> TRUE]

Foremost(applies) == Priority[Min({i \in DOMAIN Priority : applies[Priority[i]]})]
Detected(s, w) == Foremost(Applies(s, w))

------------------------------------------------------------------------------
(* The advice.                                                             *)

\* The hook says what runs; without it PyTorch is assumed.
PyTorchLikely(t) == t.framework \in {"none", "pytorch", "transformers", "lightning"}

\* PyTorch's settings and calls are named for these, if it is likely ...
Worded == {"data_loader", "sync_stall", "memory_bound", "optimizer_heavy", "below_target_mfu"}

\* ... for erratic steps on CUDA, and for a target that uses no GPU.
NamesPyTorch(s, t, kind) ==
  \/ kind \in Worded /\ PyTorchLikely(t)
  \/ kind = "erratic_steps" /\ s.accelerator = "cuda" /\ PyTorchLikely(t)
  \/ kind = "no_gpu_activity"

\* The wait removed, throughput grows by 1 / (1 - wait), at most to 100 %.
Gain(mfu, parts) ==
  LET wait == Min({95, (100 * parts["data"]) \div Max({1, Whole(parts)})})
  IN IF mfu = Unknown THEN 0
     ELSE Max({0, Min({100 - mfu, (100 * mfu) \div (100 - wait) - mfu})})

\* recommend, with erratic_action's causes.
Advice(s, w, kind) ==
  LET now == w[Len(w)]
  IN [kind |-> kind, pytorch |-> NamesPyTorch(s, now, kind),
      gain |-> IF kind = "data_loader" THEN Gain(now.mfu, Breakdown(w)) ELSE 0,
      bucketing |-> kind = "erratic_steps" /\ TokensMayVary(StepsIn(w))]

VerdictInit ==
  /\ session \in Sessions /\ observed = <<>>
  /\ verdict = [kind |-> "warming_up", pytorch |-> FALSE, gain |-> 0, bucketing |-> FALSE]

LastFew(w) == SubSeq(w, Max({1, Len(w) - Kept + 1}), Len(w))

\* A tick is ingested and the snapshot judged.
Judge(t) ==
  LET w == LastFew(Append(observed, t))
  IN /\ observed' = w
     /\ verdict' = Advice(session, w, Detected(session, w))
     /\ UNCHANGED session

VerdictNext == \E t \in Observations : Judge(t)

VerdictSpec == VerdictInit /\ [][VerdictNext]_verdictVars

------------------------------------------------------------------------------
(* Properties.                                                             *)

Waited(s) == IF s.data = Unknown THEN 0 ELSE Min({s.data, s.time})
Overlap(s) == Waited(s) + OrElse(s.compute, 0) + OrElse(s.optimizer, 0) > s.time

\* metrics/breakdown.rs:3 and steps.rs:6: where the hook times the steps, the
\* input pipeline is blamed only if more than 15 % of their time went into
\* waiting for it, and always then unless the hardware is at fault or phases
\* that overlap dilute the share; without a hook, only if some sample saw the
\* GPU idle and the CPU busy.  Steps are called erratic only where enough of
\* them after the warm-up differ.  A gain that is promised is within 100 %.
VerdictIsBorneOut ==
  LET steps == StepsIn(observed)
      now == observed[Len(observed)]
      waited == 100 * SumOf(steps, Waited) > 15 * Total(Times(steps))
      timed == IsInstrumented(steps)
      settled == {i \in DOMAIN steps : steps[i].step > WarmupSteps}
  IN observed # <<>> =>
       /\ verdict.kind = "data_loader" =>
            /\ timed => waited
            /\ ~timed => \E i \in DOMAIN observed : \E d \in DOMAIN observed[i].gpus :
                           observed[i].gpus[d].busy \in 0..14 /\ observed[i].cpu > 30
            /\ now.mfu # Unknown => now.mfu + verdict.gain <= 100
       /\ /\ timed /\ waited /\ \A i \in DOMAIN steps : ~Overlap(steps[i])
          /\ session.backend /\ Len(observed) >= 3 /\ ~(Divergence(observed) > 20)
          /\ DOMAIN now.gpus # {} /\ \A d \in DOMAIN now.gpus : now.gpus[d].throttle = {}
          => verdict.kind = "data_loader"
       /\ verdict.kind = "erratic_steps" =>
            /\ Cardinality(settled) >= MinStepsToJudge
            /\ \E i, j \in settled : steps[i].time # steps[j].time

\* metrics/steps.rs:5: "erratic" is judged "so one slow step cannot label a
\* steady job erratic": if all steps but one take the same time, it is not said.
OneSlowStepIsNotErratic ==
  LET times == Times(StepsIn(observed))
      Equal(s) == \A i, j \in DOMAIN s : s[i] = s[j]
  IN (\E i \in DOMAIN times : Equal(RemoveAt(times, i))) => verdict.kind # "erratic_steps"
==============================================================================
