------------------------------ MODULE MCAnalyzer ------------------------------
(***************************************************************************)
(* Small instances of what a session observes and what it makes of it:     *)
(* HookApi (the steps a program reports), Collector with Targeting and     *)
(* Profiling (processes, devices and CPU time), Analyzer (one device of a  *)
(* known and one of an unknown model, and ticks that make every source     *)
(* come and go) and Verdict.  A behaviour explores one scenario.           *)
(***************************************************************************)
EXTENDS Analyzer, Verdict, Collector, HookApi, TLC

VARIABLE scenario

Reading(t, u, v) == [present |-> TRUE, tensor |-> t, util |-> u, vram |-> v]
Absent == [present |-> FALSE, tensor |-> None, util |-> None, vram |-> None]

Carrying(first, second, s) == [gpus |-> <<first, second>>, steps |-> s]

MCSamples == {
  Carrying(Absent, Absent, 0),
  Carrying(Reading(None, 2, 1), Absent, 0),
  Carrying(Reading(1, 2, 2), Absent, 0),
  Carrying(Reading(2, None, None), Absent, 0),
  Carrying(Reading(1, 1, 3), Absent, 1),
  Carrying(Reading(None, 1, 2), Reading(None, 1, 2), 2) }

MCClockSteps == {-2, 1, 3}

MCSessions == {[backend |-> b, target |-> 40, accelerator |-> "cuda"] : b \in BOOLEAN}

Device(busy, mem, throttle, clock) ==
  [busy |-> busy, mem |-> mem, throttle |-> throttle, clock |-> clock]
Step(n, time, data, compute, optimizer, tokens) ==
  [step |-> n, time |-> time, data |-> data, compute |-> compute, optimizer |-> optimizer,
   tokens |-> tokens]
Saw(gpus, cpu, steps, framework, mfu, upper) ==
  [gpus |-> gpus, cpu |-> cpu, steps |-> steps, framework |-> framework, mfu |-> mfu,
   upper |-> upper]

Good == Device(90, 20, {}, 100)
Plain == Step(11, 10, Unknown, Unknown, Unknown, 100)
Waits == Step(12, 10, 2, 7, 1, 100)
Overlaps == Step(13, 10, 2, 10, Unknown, 100)
Prefetched == Step(14, 2, 30, Unknown, 1, 150)
Warmup == Step(1, 90, 0, 90, 0, Unknown)
Tuned == Step(16, 10, 0, 6, 4, 100)
Long == Step(15, 40, 0, 20, Unknown, Unknown)

MCObservations == {
  Saw(<<>>, 5, <<>>, "none", Unknown, FALSE),
  Saw(<<Good>>, 50, <<Waits, Waits>>, "pytorch", 50, FALSE),
  Saw(<<Good>>, 50, <<Overlaps, Plain>>, "jax", 30, FALSE),
  Saw(<<Good>>, 50, <<Prefetched, Plain>>, "jax", 50, FALSE),
  Saw(<<Good>>, Unknown, <<Plain, Plain>>, "pytorch", 50, FALSE),
  Saw(<<Good>>, 50, <<Warmup, Plain>>, "pytorch", 50, FALSE),
  Saw(<<Good>>, 50, <<Tuned>>, "pytorch", 30, FALSE),
  Saw(<<Good>>, 50, <<Long, Plain>>, "pytorch", 50, FALSE),
  Saw(<<Device(5, 10, {}, Unknown)>>, 80, <<>>, "none", Unknown, FALSE),
  Saw(<<Device(5, 10, {}, 100)>>, 5, <<>>, "none", 60, TRUE),
  Saw(<<Device(40, 90, {}, 80), Device(70, 90, {}, 80)>>, 50, <<>>, "none", 60, TRUE),
  Saw(<<Device(90, 10, {"hw"}, 80)>>, 50, <<Tuned, Tuned>>, "none", 60, TRUE),
  Saw(<<Device(90, 10, {"power"}, 80)>>, 50, <<Plain>>, "none", 60, TRUE),
  Saw(<<Device(90, 10, {"thermal", "hw"}, 80)>>, 50, <<Waits>>, "none", 60, TRUE) }

\* The start of a session: a job below a shell, a tree whose launcher and
\* rank match but not the process between them, and one whose numbers have
\* wrapped around.
Proc(parent, cmd, used, gpus) ==
  [parent |-> parent, born |-> <<>>, cmd |-> cmd, zombie |-> FALSE, used |-> used, gpus |-> gpus]
Host(others) == LET w == 1 :> Proc(0, {}, 0, {}) @@ 2 :> Proc(1, {}, 0, {}) @@ others IN
                [p \in DOMAIN w |-> [w[p] EXCEPT !.born = <<p, 0>>]]
Train == {"python", "keyword"}
Launch == {"launcher"}
Job == Host(3 :> Proc(1, {}, 1, {}) @@ 4 :> Proc(3, Train, 2, {1}))
Tree == Host(3 :> Proc(1, Launch, 1, {}) @@ 4 :> Proc(3, {}, 2, {}) @@ 5 :> Proc(4, Train, 0, {1}))
Wrapped == Host(3 :> Proc(5, Train, 1, {}) @@ 5 :> Proc(1, Train, 2, {}))
MCWorlds == {Job, Tree, Wrapped}
MCCommands == {Train}

By(by, pid, terminal) ==
  [by |-> by, pid |-> pid, pattern |-> {Train, Launch}, valid |-> TRUE, terminal |-> terminal]
MCEntries == {By("pid", 3, FALSE), By("pattern", 0, FALSE), By("auto", 0, TRUE),
              [By("pattern", 0, FALSE) EXCEPT !.valid = FALSE]}
MCMarks == {{}, {"dockerenv"}, {"own_pid_namespace"}}

MCModels == {[params |-> 1, layers |-> 1, hidden |-> 1, seq |-> 1, lora |-> TRUE]}

Scenarios == {"statistics", "verdict", "target", "tree", "devices", "hook"}

\* Outside its scenario a component keeps one state.
MCInit ==
  /\ scenario \in Scenarios
  /\ Init /\ VerdictInit /\ CollectorInit /\ HookInit
  /\ scenario # "verdict" => session.backend
  /\ scenario # "hook" => usage = "managed" /\ sync = "step" /\ seen = 0
  /\ usage = "explicit" => sync # "phases"
  /\ usage = "callback" => sync = "step"
  /\ scenario # "devices" => mode # "devices" /\ requested = "nvml" /\ capable = {}
  /\ scenario # "target" => entry.by = "pid" /\ procs = Job
  /\ scenario # "target" => marks = {}
  /\ scenario # "tree" => mode # "process"
  /\ capable # {2}
  /\ scenario = "devices" => mode = "devices"

\* A session that looks for its target is followed up to the attached process,
\* one that names it from there up to its second tick, and only a program without
\* `with` and callback has two hooks.
MCNext ==
  /\ UNCHANGED scenario
  /\ \/ scenario = "statistics" /\ Next /\ UNCHANGED <<verdictVars, collectorVars, hookVars>>
     \/ scenario = "verdict" /\ VerdictNext /\ UNCHANGED <<vars, collectorVars, hookVars>>
     \/ /\ scenario = "hook" /\ HookNext /\ UNCHANGED <<vars, verdictVars, collectorVars>>
        /\ usage # "explicit" => Len(hooks') <= 1
     \/ /\ scenario \in {"target", "tree", "devices"}
        /\ CollectorNext /\ UNCHANGED <<vars, verdictVars, hookVars>>
        /\ scenario = "target" => loop' = "target"
        /\ scenario = "tree" =>
             samples' <= 2 /\ (events' # events => loop # "target" /\ (mode = "process" => events = 0))

MCSpec == MCInit /\ [][MCNext]_<<vars, verdictVars, collectorVars, hookVars, scenario>>
==============================================================================
