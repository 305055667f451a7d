# A verification project for calibrate

calibrate watches a training job: it samples GPUs, processes and an optional
Python hook, turns each sample into a snapshot with an MFU estimate and a
verdict, shows it, records it and exports it. It also benchmarks models and
plans training runs. This directory holds TLA+ modules of the parts of it in
which order, concurrency and failure matter, the TLC configurations that check
them on small instances, and proofs checked by TLAPS for every instance.

Paths below are relative to the repository.

## 1. The system

| Component | State it keeps | Operations | Interacts through | Module |
|---|---|---|---|---|
| watch pipeline (`src/commands/watch.rs`, `src/session/lifecycle.rs`, `src/collectors/{runner,replay}.rs`) | stop flag, tick channel, snapshot stream, watch channel, recorders, the render loop's `last` | sample or replay a tick, analyze it, render, record, stop, report | shared `AtomicBool`, bounded and unbounded channels, a latest-only channel, joined task | `WatchPipeline`, `SnapshotLog` |
| OTLP exporter (`src/export/otlp.rs`) | version seen, time of the last push | push on change, rate limit, final push | latest-only channel, HTTP | `WatchPipeline` |
| hook server (`python/calibrate_hook/_server.py`) | clients, backlog, closed flag, socket | publish, accept, close | training thread, accept thread, forked workers, Unix socket | `HookChannel` |
| hook client (`src/collectors/hook.rs`) | one connection and one peer per process | poll | Unix socket, producer thread | `HookChannel` |
| hook API (`python/calibrate_hook/{__init__,integrations}.py`) | current step, phases, the global hook, the callback's token count | start, stop, step, phase, Trainer events | hook server | `HookApi` |
| collector (`src/collectors/{runner,cpu,proc_tree}.rs`) | tree, devices, previous CPU times | one iteration per tick | `/proc`, GPU backend | `Collector`, `ProcTree` |
| process discovery (`src/process/`) | none | read `/proc`, collapse trees, resolve, attach | `/proc`, terminal | `Targeting`, `ProcTree` |
| GPU backends (`src/collectors/{nvml,gpm,dcgm}.rs`) | active source, GPM sample pair, latest dcgmi rows | sample, fall back | driver, a `dcgmi` child and its reader thread | `Profiling` |
| analyzer (`src/session/lifecycle.rs`, `src/metrics/{window,mfu}.rs`) | five-minute window, percentiles and peak of the best MFU source, VRAM history, cost | ingest | session task | `Analyzer` |
| verdict (`src/metrics/{breakdown,steps}.rs`, `src/analysis/`) | none; functions of the window | break down, judge steps, detect, recommend | analyzer | `Verdict` |
| benchmark (`src/bench/`, `src/commands/bench.rs`) | loaded model, samples kept by a runtime, report | load, pilot, warm up, measure, unload, save, compare | runtimes, Python child, report files | `Bench` |
| subprocess helper (`src/util.rs`) | none | run a command with a timeout | child, its descendants, two reader threads | `Subprocess` |
| GPU spec database (`src/gpu_specs/`) | cache file | load, fetch, merge, find | network, one cache directory of several processes | `SpecCache`, `SpecDb` |
| planner (`src/plan/`, `src/commands/plan.rs`) | price cache files | fetch prices, resolve the model, estimate, rank, recommend | network, one cache directory of several processes | `Planner`, `ModelSpec`, `Advice` |
| Prometheus exporter, diagnose, probe, command line, configuration, rendering | none | one pass | terminal, HTTP | not modelled (section 6) |

What is hard: threads and tasks that stop each other through a flag and through
the end of channels; two channels of different kinds fed with the same
snapshots; a writer in another process that must not block, dies, forks and
restarts; a process table that is read entry by entry while its numbers are
reused; statistics that must survive a change of their source; caches read and
written in place by several runs; children that outlive a timeout; a
recommendation that is the end of a long chain of partial answers.

What makes each part correct is listed with the modules below, and what can go
wrong, line by line, under "hazards" in `PROJECT.json`.

## 2. The modules

### WatchPipeline and SnapshotLog

`WatchPipeline` is one monitoring session: the producer thread, the session
task, the main task and the push task, with an action for each step between two
points at which another of them can observe or change shared state. The
variables are the channels (`queue`, `stream`, `latest` with `open`), the stop
flag, one control state per thread and what has been written outside (`raw`,
`rendered`, `pushed`, `summary`). A tick is its number, so that loss,
repetition and reordering are visible; what the analyzer computes from it is
not part of this module. Three things to know when comparing it with the code:

- `select!` picks a ready branch; the 200 ms branch is `MainIdle`, enabled
  when nothing is ready.
- A timeout of `recv_async` (`SessionTimeout`) is possible whenever the
  channel is empty.
- The producer is not joined; the process ends when `run` returns, so no
  thread takes a step after that (`Running`).

`SnapshotLog` is what a user may rely on, without threads: snapshots are
observed, shown in order without gaps, and the closing report is about the
newest one. `WatchPipeline` implements it (`ImplementsLog`).

Recorders whose disk is full log a warning and go on; this is left out, so
`RawCoversExposed` is about a disk that takes writes.

### HookChannel

One training process with its hook server, its accept thread and a worker
forked from it, and the watcher that polls it. `srv` follows `close()` from
statement to statement, because the accept thread runs between them. `held` and
`listening` say which processes hold a descriptor, which is what decides
whether the other end sees an end of file. `wire` is the socket buffer: a line
that does not fit is cut by `sendall`, the connection is closed, and the client
never completes that line, so it does not appear. `got` is the lines that the
watcher has read of each connection, a hello as 0 and a step as its number.
`Restart` is `stop()` followed by `start()` in the same process. A server that
cannot bind its path or listen on it is `deaf` (`Startups`): training goes on,
its steps stay in the backlog and there is nothing to connect to. A poll that
meets the end of file forgets the peer and then returns what it has read; the
history variable `unclaimed` is what was returned like that.

### Analyzer

`Ingest` is `Analyzer::ingest`, everything it does to the analyzer's state in
the code's order: VRAM history, window, estimate, statistics, leak flag, cost.
The histogram is a count per level, and a level stands for a tenth of a
percent. The estimate is floating point in the code; here it is any level
between the lowest and the highest reading of the window (that is what a mean
of means, weighted by peak, can be), any level at all when it comes from the
hook's FLOPs, and none where the code has none. Which source it comes from is
exact. The spec database is the constant `Known`, since a name is resolved once
per session. `ticks` is the length of `past`; what a snapshot reports without
keeping it is `Verdict`'s.

Time is the wall clock, and `ClockSteps` includes steps back. `WindowIsRecent`
and half of `CostIsBounded` are about sessions without such a step; the others
hold whatever the clock does.

### Verdict

What a snapshot says of the job, as functions of the window `observed`:
`breakdown` shares, step statistics, the detection ladder and the advice that
goes with its outcome. Shares are compared as fractions of whole numbers. The
MFU estimate is an input (it is `Analyzer`'s), and the texts are left out.
`Judge` is one tick: the window moves and the verdict is computed anew.

The detection ladder, a chain of early returns in the code, is the table
`Applies` of what holds of a window and the order `Priority` in which it is
looked for; the verdict is the foremost that applies. The lower median, which
the code takes from a sorted list, is the value with less than half of the list
below it and at least half at or below it.

### ProcTree, Targeting, Collector and Profiling

`ProcTree` is the kernel's process table and what happens to it while calibrate
runs: processes fork, work, exit, become zombies, are reaped, and their numbers
are given to others. A process has an identity (`born`) that no later one
shares, which is what the properties can tell a reused number by. A session
starts in a table of finitely many processes (`WorldsAssumption`). The walk to
the ancestors, a loop in the code, is the least set that is closed under "has
the parent", which is what the loop collects on a table with or without a cycle.

`Targeting` reads `/proc` entry by entry into `table`, so the table may mix
moments, then collapses trees, resolves and attaches. `Collector` is the
producer's loop with its steps in the code's order: the tree below the target,
its devices, their figures, its CPU time; the world may move between any two of
them. A CPU time is compared unit by unit (`CpuUnits`), so that the sum over the
tree is the size of a set. `Profiling` is the NVIDIA backend: GPM's two sample buffers per device,
the `dcgmi` child with its reader thread, and the fallback between the two and
plain NVML. Of a figure it keeps where it came from and which stretch of time
it describes.

### HookApi

The Python side: `start`, `stop`, `step_begin`, `step_end`, phases and the
Trainer callback, driven through context managers, by the callback or by calls
in any order (`usage`). `published` is what would be sent; how it travels is
`HookChannel`'s. The Trainer begins each `train()` with a counter of its own,
zero or one of `Checkpoints`, while the callback keeps the last value it saw.
`truth`, a history variable, says for each message which tokens the Trainer
counted in that step and whether its counter had just been set.

### Subprocess and Bench

`Subprocess` is `output_with_timeout`: the caller polls its child, kills it
when the time is up, and joins the readers, which a process the child has left
behind (`heir`) can delay beyond the timeout. The command may not start at all;
an error of `try_wait`, which cannot happen to a child that nobody else waits
for, is left out. `Bench` is the command around it:
the registry of runtimes, the choice by format and host, one pair of runtime
and batch size after the other with every early exit of the harness, saving,
the comparison with a baseline and the recommendation. The runtimes still to be
run are a set of places in the registry, the least of which is running, since
the code goes through the registry in its order. Figures are members of a
set of two; a row records the pair it was measured on.

The code accepts a batch size named twice (`--batch-sizes 1,1`): it measures it
twice, and the two rows cannot be told apart by what identifies a row, its
runtime and batch size. What is promised of pairs is therefore said of command
lines without repetition, `DistinctBatches`, and of baselines saved by such a
command line, `DistinctReports`.

### SpecCache and Planner

`SpecCache` is `gpu_specs/client.rs` for several processes on one cache file:
read, decide, fetch, write the temporary file (which is the same one for every
process) and rename. Specs are the name of the source they came from, a torn
file reads as no cache. There may be no cache directory, the file may not be
readable, and opening, writing or renaming may fail (`SaveFails`); the code
returns what it has and says nothing. `Planner` adds the price caches, one file per provider
written in place, and `fetch_all` with its joined tasks, its fallback to a
cache of any age and its notes. A price list is the time it was fetched at and
whether it is empty: a provider answers with an empty list when none of its
offers can be used (`providers/lambda.rs:50`, `vastai.rs:36`), which is written
and used like any other. `Listed` are the providers whose list has something in
it, `Heard` those that have a list at all.

### SpecDb, ModelSpec and Advice

`SpecDb` is the merged GPU table and the matching of names, on words instead of
characters. Normalising a name, matching a query and merging a remote list are
loops in the code and folds here: `Taken` is which words of the query the words
of a spec have taken, one after the other. `ModelSpec` is what the planner takes a model to be, from the disk,
the Hub or the command line; the parameters that the files' headers list are a
set, which the resolver counts. `Advice` is `build_report`: the providers'
listings, memory and duration estimates in whole numbers, the sort and the
recommendation. A request carries everything the outside world answers, so the
report is one step; `PlanReport` of `Planner` is the moment it is made. A stable
sort puts a row where as many rows go before it (`Ahead`), which is how `Sorted`
says it. A row's duration is computed for at least one GPU, whatever count an
offer gives, like the code's `.max(1)`.

### Lists and ListTheorems

`Lists` has the two operators on lists that the models share: the sum of a list
of numbers, and the elements at some of its indices (a filter of the code).

## 3. The runs

| Run | Bounds | What it asks |
|---|---|---|
| `watch_process` | 3 ticks, channel of 2, OTLP on | safety of every interleaving, with kill, signal and target exit; refinement of `SnapshotLog`; the three ways to end a session end it |
| `watch_stalled` | trace of 4 ticks, channel of 1 | a renderer that may never run; completeness of a replay |
| `watch_recording` | 2 ticks | finding: `--record` misses snapshots |
| `hook_slow` | 5 steps, backlog 2, buffer of 3 lines, 4 connections | drop, reconnect, replay |
| `hook_fork` | 2 servers, 3 steps, 3 connections, a worker | who can reach what, and whose steps are read, after forks, restarts and failed starts |
| `hook_fork_slow` | 4 steps, a worker | finding: a dropped watcher is not disconnected |
| `hook_restart` | 2 servers, 1 step | finding: a restarted server is not picked up |
| `hook_resumed` | 1 hook, 2 messages, a checkpoint | finding: a resumed Trainer reports old FLOPs |
| `analyzer` | six scenarios, below | what a session observes and what it makes of it |
| `verdict_slow_step` | steps of 1 s and one of 8 s | finding: one slow step makes a job erratic |
| `bench` | 2 batch sizes, 8 command lines, figures of 2 values, pilot costs 0, 1, 2, 3, 7 against a budget of 6 | every pair accounted for, a true recommendation and comparison, no child left, an end |
| `plan` | 2 processes, 2 sources, 2 providers, clock up to 4, 3 loads; 5,536 requests | nothing stale goes unsaid; the advice is the cheapest offer that does |

The watch runs. Three ticks through a channel of two are enough for the channel
to be full with one tick in the producer's hand, one in the session's, and one
already rendered, and for the stream, the watch channel and a push in flight to
hold three different snapshots. The tick channel of one of `watch_stalled`
makes every send wait.

The hook runs. A buffer of three lines takes the hello and a backlog of two, so
one more line drops the watcher, and five steps are enough for two drops and
for the backlog to be overrun; with two servers the first one's accept thread
meets the second one's socket. `MaxConns` is larger than the number of
connections these steps can cause.

`analyzer` composes the parts of a session in `MCAnalyzer`. They do not write
each other's variables, so a behaviour explores one of six scenarios and the
others stand still:

- *statistics*: four ticks of six kinds make each of the four MFU sources the
  best one, take it away and bring it back; one device is of a known model and
  one is not. Four ticks overrun a window of three and a history of three
  readings, and the clock steps -2, 1 and 3 make ticks older than, as old as
  and younger than the span.
- *verdict*: windows of up to three of fourteen observations, chosen so that every
  rung of the ladder is reached and every pair of neighbouring rungs competes.
- *target*: two process trees and one whose numbers have wrapped around into a
  cycle, up to three events while `/proc` is read, by number, pattern or
  automatically, in and out of a container.
- *tree*: up to three forks, exits or reused numbers between and within two
  samples of the CPU times.
- *devices*: three samples of one or two devices with GPM, DCGM or neither, with
  every combination of failures and a child that dies; five instants.
- *hook*: up to two hooks and two messages over four clock ticks, by context
  managers, by the callback, which may train again from nothing or from a
  checkpoint of three tokens, and by free calls.

`bench`. Two batch sizes are enough for samples of one pair to leak into the
next and for a load to outlive a failure; the eight command lines reach every
format, the Metal kernel, a runtime that is not installed, and a baseline that
is there, missing or the file saved to. `PilotCosts` holds a cost the budget
does not notice, ones that cut the iterations, and one larger than the budget.

`plan`. Three loads by two processes are a load, one that tears its file, and
one that must not be misled by either; the clock, in units of the retry, passes
both TTLs. The sources are interchangeable (`UrlSymmetry`). The requests
are all combinations of small markets (no price, no capacity, community and
reliable listings, hidden offers, unknown and Apple GPUs), training setups,
budgets and remote GPU lists for one model, and one offer for every model that
can be found on the disk or on the Hub, with and without a count given. The
scenario with prices restricts the spec loads to one that is not interleaved and
cannot save, and the providers' answers to all kinds for one process and one
provider and some for the others (`Few`); the loads are explored on their own,
with every kind of answer, and there only the first process may find the cache
unreadable or unwritable (`OneFails`). The proofs need neither restriction.

Fairness. The OS schedules the producer thread and the accept threads, tokio
its tasks: `WF` on each of them. The push task has none, since its request may
take as long as the collector likes; nor have the target, the user, the
training thread and the worker. `StalledRendererSpec` also takes it from the
main task, which may be blocked on a terminal or a pipe. In `BenchSpec` the
harness, the polling caller and the clock that reaches the timeout are fair; a
child is not, and `BenchEnds` assumes that a process left behind lets go of the
pipe (without that the caller waits for good, `src/util.rs:50`).

Deadlock is checked in the watch runs and in `bench` (`Ended` is their one final
stuttering step) and not in the hook runs, `analyzer` and `plan`, where the
training, the target or the last report may simply be over.

Every property of a passing run has a mutant: a plausible bug in the code,
written next to the definition it replaces, that makes the run fail.

### What the runs disagree with

- `watch_recording`: a snapshot that is in the stream when the session is
  stopped is part of the report but not of `--record`, which
  `lifecycle.rs:427` and `docs/deployment.md:12` promise to be complete.
- `hook_fork_slow`: closing a connection in the trainer does not disconnect a
  watcher while a forked worker holds a copy of the descriptor
  (`docs/hook.md:84`).
- `hook_resumed`: the first step of a Trainer that resumed from a checkpoint
  carries the FLOPs of all earlier tokens (`integrations.py:24`, `:37`), while
  `docs/hook.md:104` says that `flops` are those "performed in this step".
- `hook_restart`: a connection accepted during `close()` is never closed, so
  the watcher does not come to the server started next (`docs/hook.md:74`).
- `verdict_slow_step`: one long step is enough for a steady job to be called
  erratic, which `src/metrics/steps.rs:5` says cannot happen.

### What the models show without a run

Behaviours of the code met while modelling; the models follow them, and the
properties say where they stop for them. The first three go against a text of
the repository and have no run of their own; of the others nothing in the
repository says that they should be otherwise, except where noted.

- Where the spec cache cannot be read or written, every run fetches again and
  pays the timeout (`gpu_specs/client.rs:36`, `:54`), although
  `client.rs:4` says that a failed attempt is not repeated for six hours.
  `NoEarlyRetry` is about answers that were recorded.
- An empty answer from a new source keeps the old source's specs and forgets the
  back-off (`gpu_specs/client.rs:82`), although the message there says that the
  built-in table is used. `SpecsAreOfTheSource` and `NoEarlyRetry` exempt it.
- The poll that meets the end of file forgets the peer and returns the last steps
  (`collectors/hook.rs:187`), so the advice of that tick does not know the
  framework (`lifecycle.rs:184`), which `docs/hook.md` says is used to avoid
  advice for another one. `StepsHaveAPeer` allows it for that poll only.
- A provider whose offers cannot be used has neither listings nor a note, and its
  source is called "live" (`providers/mod.rs:174`). `PricesAreAccounted` counts
  it as accounted for only while its own answer is what is empty.
- A Vast.ai offer hides a dearer one of the same GPU and count even when only
  the dearer one has the memory (`providers/vastai.rs:71`).
- The shards that are on the disk are summed as an exact count although others
  are missing (`resolver.rs:222`), and missing config fields are assumed without
  a flag (`resolver.rs:90`).
- A provider task that panics leaves no note (`providers/mod.rs:235`).
- Peak memory is read after the child has exited (`bench/harness.rs:195`); an
  out-of-memory row is all zeroes and is compared as an improvement
  (`bench/compare.rs:56`); a report that cannot be saved is lost.
- The source named in a tick is stale for one iteration after `dcgmi` exits, and
  a watched number that is given to another process is followed
  (`collectors/runner.rs:40`, `:168`); attaching to a process that has gone can
  be reported as a permission problem (`process/attach.rs:37`).
- A Trainer that trains again from nothing reports too few tokens or none for its
  first step (`integrations.py:38`); `start()` ignores a second model
  (`__init__.py:291`).
- Phases that overlap dilute the share of the data wait (`breakdown.rs:154`).
- The VRAM readings that the leak flag judges at the end of the first minute
  were taken during it, which the comment on `LEAK_TICKS` (`lifecycle.rs:56`)
  wants to exclude.
- A snapshot skipped by the rate limit is not pushed unless another follows
  (`otlp.rs:110`); a replay at recorded speed sleeps for up to a minute without
  looking at the stop flag (`replay.rs:140`); when the clock is set back, ticks
  stay in the window for longer (`window.rs:40`).

## 4. The proofs

`WatchPipelineProofs` proves, for every mode, channel capacity and number of
ticks, the type invariant, the safety invariants and action properties of the
watch runs and the refinement. They rest on the four named assumptions of
`WatchPipeline` (a known mode, a channel with at least one place, at least one
tick, a Boolean flag) and nothing else.

None of the properties is inductive: `summary = Len(ingested)`, say, depends on
what the session was doing when it ended. `IInv` adds the position of every
tick in the pipeline:

- `TickInv`: the raw trace is 1, 2, ..., the queue goes on where it ends, and
  while the session runs the two and the tick in the producer's hand are
  everything sampled.
- `SessionInv`: `ingested` is 1, 2, ...; how far the raw trace is ahead of it
  and `latest` behind it follows from the session's control state (before,
  between and after the two sends).
- `StreamInv`: `rendered` and `stream` are consecutive and, until the report,
  together as long as `ingested`; the report empties the stream; `last` is 0
  only if nothing has been rendered.
- `ReportInv`: before the report the stream is open; after it the session is
  done and the summary is about the last analyzed tick.
- `OtlpInv`: `pushed` and `inFlight` are not ahead of `latest`, nor `pushed` of
  a push that is under way; what the final push carries is the final value.

Each conjunct is preserved action by action; actions that leave a conjunct's
variables alone are covered by frame lemmas. The properties follow from `IInv`
by lemmas on sequences of consecutive numbers, the refinement from one step
theorem: each action is a step of `SnapshotLog` or a stutter.

`ListTheorems` has what the proofs below need of folds, sums, concatenations,
selections and rankings, for lists of any length. The library's induction
theorems cannot be used for these (they take an operator as a parameter), so
induction is on a set of natural numbers: the numbers that an assertion fails
for have a least one (`LeastNumber`). A fold is turned into the sequence of its
intermediate results (`FoldExists`, and for a sum, a name or a match the lemmas
that end in `Runs`), and an assertion about a loop becomes one about neighbours
in that sequence. `Ranks` says that in a finite strict total order counting how many
come before gives each member a place of its own, and every place a member;
`Sorted` is a sort and `Selected` a filter because of it.

`AnalyzerProofs` proves, for every set of devices, every limit and every
sequence of ticks, the type invariant (which holds the capacity of the window
and of the VRAM history) and the four properties of the analyzer's state, from
the named assumptions of `Analyzer`.

- `StatisticsDescribeBestSource` says of `hist` that it counts the estimates in
  `log` that came from the best source. The proof needs to know what one more
  estimate does to such a count, whichever the source (`MatchingAppend`), and
  that no earlier estimate came from a source better than the one in use: that
  is why restarting at a better source loses nothing. `Statistics` is the same
  invariant with its counts written as `Matching`.
- `CostIsBounded`: `Ledger` adds that `firstTs` is set with the first tick and
  `lastTs` is the time of the newest, and a session with a monotone clock had
  one before its last tick (`MonotonePrefix`).
- `WindowIsRecent`: the code evicts from the front until a tick is young enough,
  and the property filters the whole session. `WindowInv` says that the window
  is a suffix of the session and that it begins where the recent ticks begin.
  With a monotone clock being recent is closed upwards, so the loop, which only
  looks at the front, stops in the right place (`EvictSuffix`); what is evicted
  once can not become recent again.
- `GrowthIsSustained`: `VramInv` says that the history of a device is the last
  readings of the session, by an increasing map from its places to ticks
  (`ReadIn`), with no reading between two of them or after the last. An
  increasing map has as many values as places (`ImageCardinality`), which turns
  the length of the history into the number of readings the property counts.

For `Verdict` it proves `VerdictIsBorneOut`, for every session, window size and set
of ticks. The inductive part is small: the window holds ticks and the verdict is
the one on it (`WindowIsJudged`). The rest is about one evaluation of the
functions, which is long:

- The input pipeline. With a hook, the data share is the sum of waits clamped to
  their steps, so it is above 15 % of the whole only if the waits are above 15 %
  of the step times, since the whole is never less than those (`other` is what is
  left, `InstrumentedParts`); where no phases overlap the whole is exactly those, and
  the two are the same. Without a hook, a share above zero has a sample behind it,
  which `Class` calls "data" for an idle GPU and a busy CPU only
  (`HeuristicBlames`).
- Erratic steps. If the settled steps all take the same time, that is their
  median (`MedianOfEqual`), every deviation is zero and no time is beyond the
  limit (`SteadyIsNotErratic`); so steps that are called erratic differ.
- The ladder. The verdict applies and nothing before it does (`ForemostApplies`).
- The gain is at most what is left to 100 % (`GainIsBounded`).

`HookChannelProofs` proves the four safety properties of the hook runs for every
number of servers, steps and connections and every size of the backlog and the
buffer. `OpenServerIsReachable`: only the trainer moves `srv`, `inst` and
`bound`, in the order of `close()` and `start()`, and a fork or an exit of a
worker leaves the trainer's own descriptors alone. The other three rest on
`ChannelInv`: the backlog is the newest steps of its server, a connection is in
one place on its way from the listen queue to the clients and is new until it is
registered, a registered one belongs to one server and has been sent everything
up to that server's newest step, and what it was sent is a hello followed by
consecutive numbers; the peer is that of the connection (`PeerKnown`), and what
was returned without one came out of one socket buffer, hence `WiresFit`. If a connection were not known to be new when it is
registered, it might be sent a second hello in the middle.

`HookApiProofs` proves `MeasurementsAddUp`, part by part, for every order of
calls. That the steps of a hook tile the run compares two messages, which say
too little to be inductive; `Filed` relates each to its hook, whose newest step
ends where the next will begin and is numbered like it. That the parts of a step
fit into it needs the same of a step still open (`OpenStep`): its phases so far
lie between its beginning and the moment the open phase began, or now. That a
step of the callback reports the tokens counted in it rests on `Telling`: unless
the counter has just been set, it is what the callback last saw and what the
Trainer has counted since.

`CollectorProofs` proves, with the world going on between any two steps of the
collector:

- `FiguresAreCurrent`: after a figure of GPM has been shown the device's buffers
  are not older than its end (`FiguresInv`), so the next one begins there; and
  a figure of `dcgmi` is only shown while its reader is held, which is exactly
  while the source is "dcgm".
- `ResolutionCoversMatches`, for any finite table: a match that is neither on a
  cycle nor below one has a match above it, or is one, that no match is above
  (`TopMatch`). That takes the finiteness of the table; everything else is the
  transitivity of being an ancestor (`AncestorsClosed`).
- `CpuIsNeverOverstated`: `usedThen`, by identity, agrees with `cpuPrev`, by
  number, on the processes both know; a number whose process is new has an
  identity `usedThen` does not know, and its whole time counts as used. So the
  units the sampler counts are among those used (`CpuTick`).

`BenchProofs` proves the five safety properties of the benchmark.

- `NoChildIsLeft` is `Overseen`, that a caller which is past polling has seen
  its child exit or has killed it; `IterationsFitBudget` rests on a lemma about
  `Guarded`, the division of the budget, for every cost of a pilot iteration
  (`GuardedFits`).
- `EveryPairIsAccounted`: `Accounted` adds which pair the engine's samples are of
  at every stage, and that a step deals with exactly the pair at hand. Done
  pairs are counted by their place in the registry and among the batch sizes
  (`DoneByPlace`, `Advance`).
- `RecommendationIsBest`: `Recommended` chooses a candidate that none beats. That
  one exists, for any number of rows, is `Unbeaten`; the properties of the rows
  do not change after the recommendation is made.
- `ComparisonIsHonest`: `Comparing` remembers what the rows were computed from;
  the rest is one row per pair on both sides and the arithmetic of the 5 %
  margin (`ChangeIsHonest`).

The last three are theorems under `DistinctBatches`, the last under
`DistinctReports` too, since they fail without (section 2). They are hypotheses
of the theorems and not assumptions of the module; `MCBench` assumes them of
the instance that is checked.

`PlannerProofs` proves the two properties of the spec cache for every number of
processes, source, TTL and clock. `SpecsAreOfTheSource` needs that a cache,
wherever it is, in a file, half written or in a process, has no specs or those
of the source it names (`Labelled`), and that what a process goes on with after
its answer names its own source or came from an empty one (`Honest`); together
`Provenance`. `NoEarlyRetry` needs to know what the file says after a load that
had it to itself and could save its answer: `Solitude` (a process that is alone
is the only one busy), `Settled` and `Undisturbed` (the file records the last
such answer until somebody else begins), together `BackOff`. A load that cannot
save leaves nothing to rely on, whatever it has torn, until the next that can.
For `PricesAreAccounted`, until the
answers are collected a provider is also accounted for by an answer still to be
looked at (`Told`), and the report is made when none is left (`Reported`);
`Dated` ties what is in use to the answer it came from or to a note.

For the report `PlannerProofs` proves three properties, for every vocabulary and
table of GPUs and every request that agrees with the model asked about
(`RequestsAssumption`).

- `CountsAreHonest`: the formula grows with the number of experts, so that the
  active parameters are a part of the whole whatever the config leaves out
  (`ActiveAreSome`, `ShareIsPart`); each of the three places an exact count comes
  from gives what its label says (`ExactCounts`); and each way through `resolve`
  ends in one of these, in the formula or in an error (`ResolveIsHonest`).
- `NoGpuPassesForAnother`: when a spec matches, each of its words has taken a
  word of the query, each taken word was taken by one of them, and the two are
  the same unless they are numbered buses (`TakenMatch`); a variant of the query that was
  not taken is no match; so both have the same variants (`MatchHasVariants`). That
  every built-in name is found in the merged table needs that a name takes its
  own words one by one, although an earlier word may stand for a later one
  (`SelfTaken`), and that a remote entry which replaces another inherits its names
  (`MergeOneKeeps`, `MergedKeeps`).
- `RecommendationIsSound`: every offer that could be taken up is listed, of
  Vast.ai's the cheapest of its GPU and count (`OffersAreListed`); a listing and the
  offer it is of cost and need the same although a community listing is named
  differently (`AlikeRows`, `CommunityIsIgnored`); the ranking has every row that
  fits and none before one that is to be ahead of it (`RowsAreOrdered`, `SortedHas`);
  and the first viable row is then the best, and the first reliable one within
  half as much again is found if there is one (`BestIsBest`). The order is
  lexical, by estimate, key, price of the hour and place, hence total
  (`LexicalOrder`).

The assumptions are the named ASSUMEs of the modules:

- sizes are natural numbers (positive where the code divides by them or loops at
  least once), there is at least one batch size and none is zero, latencies of
  measured rows are positive, the retry is sooner than the daily fetch, command
  lines name known providers, process tables are finite;
- `VocabularyAssumption`: no word is empty, since names are split at white space;
- `BuiltinAssumption`: the table has finitely many names, none of which consists
  of words that normalising drops (`assets/fallback_specs.json` has none);
- `GuessesAssumption`: the table of shapes guessed from a size is not empty and
  has heads in each row;
- `RequestsAssumption`: the fields of a config, the rows and epochs and an offer's
  count are unsigned; the Hub's total is the model's or missing, and the headers
  of all of a model's files list its parameters. Prices and memory may be any
  whole numbers;
- `WindowAssumption`: a step takes no negative time, since the hook reads a
  monotonic clock, and an MFU is a percentage, since `metrics/mfu.rs` clamps it.

TLC evaluates them in the runs.

Only model-checked: the seven liveness properties (`StopLeadsToExit`,
`InputEndLeadsToExit`, `QuitLeadsToExit`, `BackpressureIsReleased`,
`NewestStepArrives`, `SlowWatcherIsDisconnected` and `BenchEnds`), which need
fairness and ENABLED, and the five findings, which are counterexamples. Every
invariant and every safety property of a passing run is a theorem.

## 5. Plan

What is left, in this order:

1. A composition of `Collector` and `WatchPipeline`, in which the target's exit
   is the process table's and not an action of its own.
2. The timing of the exporter (`min_interval` against the period of the ticks).

## 6. Not modelled

Formatting and layout (renderers, JSON, Markdown), argument parsing and
configuration, vendor calls themselves (NVML, IOKit, HTTP), the Prometheus
exporter, which formats the current value of the watch channel at each scrape,
and `diagnose` and `probe`, which query once and print. Floating point appears
as whole numbers (VRAM, duration, shares) or as any value of an interval (the
MFU estimate). Malformed and overlong lines of the hook, the parsing of a line
of `dcgmi`, the providers' response formats and the percentiles of a benchmark
are abstracted as said with their modules. Recorders whose disk is full log a
warning and go on. The reasons are with the components in `PROJECT.json`.
