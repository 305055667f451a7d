------------------------------- MODULE Collector -------------------------------
(***************************************************************************)
(* The collector thread (src/collectors/runner.rs) from the target it is   *)
(* given to the ticks it makes: the tree below the target, the devices the *)
(* tree uses, their figures, and the CPU time of the tree                  *)
(* (src/collectors/cpu.rs).  The world goes on between any two of its      *)
(* steps.  The queue the ticks go into, and stopping, are WatchPipeline's. *)
(***************************************************************************)
EXTENDS Targeting, Profiling

CONSTANTS
  MaxSamples,  \* bound: ticks in a behaviour
  Modes,       \* the kinds of target of a session
  Selections   \* the sets of devices `--gpus` may name

VARIABLES
  mode,        \* Target: "tree" | "process" (without children) | "devices"
  selected,    \* the devices selected, when mode is "devices"
  loop,        \* "target" | "top" | "walk" | "gpus" | "cpu" | "sleep" | "ended"
  started,     \* when this iteration began
  pids,        \* the processes of this iteration
  cpuPrev,     \* TreeCpuSampler.prev: the CPU time read last, per number
  cpuSeen,     \* whether there was a reading before
  treeCpu,     \* the CPU time reported with the last tick, or Missing
  samples,     \* ticks made
  usedThen     \* CPU time of each process, by identity, at the last reading

targetKind == <<mode, selected>>
samplerVars == <<cpuPrev, cpuSeen, treeCpu, samples, usedThen>>
loopVars == <<targetKind, loop, started, pids, samplerVars>>
collectorVars == <<worldVars, targetVars, profVars, loopVars>>

CollectorInit ==
  /\ WorldInit /\ TargetInit /\ ProfInit
  /\ mode \in Modes /\ selected \in Selections /\ loop = "target" /\ started = 0
  /\ pids = {} /\ cpuPrev = <<>> /\ cpuSeen = FALSE
  /\ treeCpu = Missing /\ samples = 0 /\ usedThen = <<>>

\* The backend, once the process is attached to; devices need no process.
\* A profiling source that was asked for and is not there ends the session, as
\* does a machine without NVML whose devices were asked for.
LoopInit ==
  /\ loop = "target"
  /\ mode = "devices" \/ stage = "ready"
  /\ New
  /\ loop' = IF source' = "refused" \/ (source' = "no_nvml" /\ mode = "devices")
             THEN "ended" ELSE "top"
  /\ UNCHANGED <<worldVars, targetVars, targetKind, started, pids, samplerVars>>

LoopTop ==
  /\ loop = "top" /\ samples < MaxSamples
  /\ started' = now
  /\ loop' = IF mode = "devices" \/ IsAlive(outcome.pid) THEN "walk" ELSE "ended"
  /\ UNCHANGED <<worldVars, targetVars, profVars, targetKind, pids, samplerVars>>

\* The target may be gone again when its tree is walked: it is then sampled
\* by its number alone.
LoopWalk ==
  /\ loop = "walk" /\ loop' = "gpus"
  /\ pids' = CASE mode = "devices" -> {}
               [] mode = "process" -> {outcome.pid}
               [] mode = "tree"    -> {outcome.pid} \cup DescendantsIn(ProcessTable, outcome.pid)
  /\ UNCHANGED <<worldVars, targetVars, profVars, targetKind, started, samplerVars>>

\* NvmlBackend::devices_for_pids.
DevicesForPids == UNION {procs[p].gpus : p \in pids \cap DOMAIN procs}

LoopGpus ==
  /\ loop = "gpus" /\ loop' = "cpu"
  /\ CASE source = "no_nvml"  -> UNCHANGED profVars
       [] mode = "devices"    -> SampleDevices(selected)
       [] OTHER               -> SampleDevices(IF Hidden THEN {} ELSE DevicesForPids) \/ SampleDevices({})
  /\ UNCHANGED <<worldVars, targetVars, targetKind, started, pids, samplerVars>>

\* The units of CPU time between two readings, each with its process: none for
\* a number that was read only once, and none where the second is lower.
CpuUnits(prev, cur) ==
  UNION {{p} \X ((prev[p] + 1)..cur[p]) : p \in DOMAIN prev \cap DOMAIN cur}

\* Mutant of Delta: a reading that went down counts all the same.
DeltaAbsolute(prev, cur) ==
  IF DOMAIN prev \cap DOMAIN cur = {} THEN Missing
  ELSE Cardinality(CpuUnits(prev, cur) \cup CpuUnits(cur, prev))

\* delta_pct: processes that appeared or left since the last reading are left
\* out, and a number whose reading went down counts for nothing.
Delta(prev, cur) ==
  IF DOMAIN prev \cap DOMAIN cur = {} THEN Missing ELSE Cardinality(CpuUnits(prev, cur))

\* What the iteration's processes have used.
CpuNow == [p \in pids \cap DOMAIN procs |-> procs[p].used]

\* TreeCpuSampler::sample, and the tick is sent.
LoopCpu ==
  /\ loop = "cpu" /\ loop' = "sleep"
  /\ samples' = samples + 1
  /\ IF pids = {}
     THEN treeCpu' = Missing /\ UNCHANGED <<cpuPrev, cpuSeen, usedThen>>
     ELSE /\ treeCpu' = IF cpuSeen THEN Delta(cpuPrev, CpuNow) ELSE Missing
          /\ cpuPrev' = CpuNow /\ cpuSeen' = TRUE
          /\ usedThen' = [b \in {procs[p].born : p \in DOMAIN procs} |->
                            procs[CHOOSE p \in DOMAIN procs : procs[p].born = b].used]
  /\ UNCHANGED <<worldVars, targetVars, profVars, targetKind, started, pids>>

LoopWake ==
  /\ loop = "sleep" /\ now >= started + Interval
  /\ loop' = "top"
  /\ UNCHANGED <<worldVars, targetVars, profVars, targetKind, started, pids, samplerVars>>

LoopNext == LoopInit \/ LoopTop \/ LoopWalk \/ LoopGpus \/ LoopCpu \/ LoopWake

CollectorNext ==
  \/ LoopNext
  \/ mode # "devices" /\ TargetNext /\ UNCHANGED <<profVars, loopVars>>
  \/ mode # "devices" /\ WorldNext /\ UNCHANGED <<targetVars, profVars, loopVars>>
  \/ /\ \/ loop = "sleep" /\ TimePasses
        \/ DmonExits
        \/ \E g \in Cards : DmonLine(g)
     /\ UNCHANGED <<worldVars, targetVars, loopVars>>

CollectorSpec == CollectorInit /\ [][CollectorNext]_collectorVars

------------------------------------------------------------------------------
(* Properties.                                                            *)

\* CPU time the processes of this iteration have used since the last reading.
UsedSince ==
  LET then == [p \in DOMAIN CpuNow |->
                 IF procs[p].born \in DOMAIN usedThen THEN usedThen[procs[p].born] ELSE 0]
  IN  Cardinality(CpuUnits(then, CpuNow))

CpuStep == samples' # samples /\ treeCpu' # Missing => treeCpu' <= UsedSince

\* A tick never reports more CPU time than the processes of the tree have used
\* since the tick before, whichever of them came, left or had their number
\* taken over in between (cpu.rs sample and delta_pct).
CpuIsNeverOverstated == [][CpuStep]_collectorVars
==============================================================================
