-------------------------------- MODULE Bench --------------------------------
(***************************************************************************)
(* `calibrate bench` (commands/bench.rs, bench/): the runtimes for the     *)
(* model's format are run one after the other, each over the batch sizes,  *)
(* and the report is saved, compared with a baseline or rendered.          *)
(*                                                                         *)
(* Every runtime but the Metal kernel measures in a child (Subprocess).    *)
(* A figure is one of Figures, and only the one that is optimized for      *)
(* varies; `of` records what a row was measured on.                         *)
(***************************************************************************)
EXTENDS Subprocess, Integers, Sequences, FiniteSetsExt

CONSTANTS
  Commands,       \* command lines, with the machine they are run on
  Batches,        \* --batch-sizes
  Figures,        \* what may be measured
  Warmup,         \* --warmup
  Budget,         \* --timeout
  PilotCosts,     \* what the pilot iteration may take, in the unit of Budget
  MinIterations   \* iterations that are never cut (10)

\* clap takes one batch size or more, none of them zero.
ASSUME BatchesAssumption == Batches \in Seq(Nat \ {0}) /\ Batches # <<>>

ASSUME FiguresAssumption == Figures \subseteq Nat \ {0} /\ Figures # {}

ASSUME BudgetAssumption ==
  Warmup \in Nat /\ Budget \in Nat /\ MinIterations \in Nat /\ PilotCosts \subseteq Nat

\* A saved report has latencies, and none of a measured row is zero.
ASSUME CommandsAssumption ==
  \A c \in Commands :
    /\ c.optimize \in {"latency", "throughput", "memory"}
    /\ {c.save, c.compare} \ {"none"} \subseteq DOMAIN c.disk
    /\ c.disk = [p \in DOMAIN c.disk |-> c.disk[p]]
    /\ \A p \in DOMAIN c.disk : \A i \in DOMAIN c.disk[p].results :
         LET r == c.disk[p].results[i]
         IN  r.p99 \in Nat /\ r.n \in Nat /\ (r.n > 0 => r.p99 > 0)

VARIABLES
  pc,        \* stage of run()
  cmd,       \* the command line
  runtimes,  \* those still to run, by their place in the registry; the first is running
  at,        \* index of the batch size
  engine,    \* the head's model and the pair its samples are of
  planned,   \* cost of the pilot iteration and the iterations planned with it
  results, skipped,
  best,      \* the recommended row
  disk,      \* saved reports by path
  rows       \* rows of the comparison

benchVars == <<pc, cmd, runtimes, at, engine, planned, results, skipped, best,
               disk, rows>>

Kernel == "metal-gemv"   \* in-process, synthetic, opt-in
Runtimes == {"transformers", "torchscript", "onnxruntime", "tensorrt", "llamacpp", Kernel}

\* The descriptors' is_compatible.
Formats == [r \in Runtimes |->
  CASE r = "transformers" -> {"hf"}
    [] r = "torchscript"  -> {"torchscript"}
    [] r \in {"onnxruntime", "tensorrt"} -> {"onnx"}
    [] r = "llamacpp"     -> {"gguf"}
    [] r = Kernel         -> {"safetensors", "hf"}]

Registry == <<"transformers", "torchscript", "onnxruntime", "tensorrt", "llamacpp", Kernel>>

\* The kernel is compiled in on macOS only.
Registered == {i \in DOMAIN Registry : Registry[i] = Kernel => cmd.mac}

Names(s) == {s[i] : i \in DOMAIN s}
NoPair == <<"none", 0>>
Idle == [model |-> FALSE, samplesOf |-> NoPair]
Missing == [there |-> FALSE, results |-> <<>>]

BenchInit ==
  /\ CallInit
  /\ pc = "start" /\ cmd \in Commands
  /\ runtimes = {} /\ at = 1 /\ engine = Idle /\ planned = [cost |-> 0, n |-> 0]
  /\ results = <<>> /\ skipped = {} /\ best = NoPair /\ rows = {}
  /\ disk = cmd.disk

------------------------------------------------------------------------------
(* build_runtime_list and the loop over runtimes and batch sizes.          *)

Selected(r) == IF cmd.named = {} THEN r # Kernel ELSE r \in cmd.named

Usable(r) == r \in cmd.installed /\ cmd.format \in Formats[r]

Listed == {i \in Registered : Selected(Registry[i])}
Chosen == {i \in Listed : Usable(Registry[i])}

Select ==
  /\ pc = "start"
  /\ IF cmd.named \subseteq {Registry[i] : i \in Registered}
       THEN /\ runtimes' = Chosen
            /\ skipped' = {<<Registry[i], 0>> : i \in Listed \ Chosen}
            /\ pc' = IF Chosen = {} THEN "done" ELSE "load"
       ELSE pc' = "failed" /\ UNCHANGED <<runtimes, skipped>>
  /\ UNCHANGED <<cmd, at, engine, planned, results, best, disk, rows, callVars>>

Running == Registry[Min(runtimes)]
Pair == <<Running, Batches[at]>>

\* Index of the input generated for the batch size; the child is told its shape.
Input == Min({i \in DOMAIN Batches : Batches[i] = Batches[at]})

NextPair ==
  /\ planned' = [cost |-> 0, n |-> 0]
  /\ IF at < Len(Batches)
       THEN at' = at + 1 /\ pc' = "load" /\ UNCHANGED runtimes
       ELSE /\ at' = 1 /\ runtimes' = runtimes \ {Min(runtimes)}
            /\ pc' = IF runtimes' = {} THEN "conclude" ELSE "load"
  /\ UNCHANGED <<cmd, best, disk, rows>>

OomRow == [runtime |-> Running, batch |-> Batches[at], of |-> Pair,
           n |-> 0, p99 |-> 0, tput |-> 0, mem |-> 0, source |-> "none", oom |-> TRUE]

\* The pair is finished with a row, and its model unloaded.
Finish(row) ==
  /\ results' = Append(results, row)
  /\ engine' = Idle
  /\ NextPair /\ UNCHANGED skipped

Skip ==
  /\ skipped' = skipped \cup {Pair}
  /\ NextPair /\ UNCHANGED results

\* load: a child runtime only notes the path.
Load ==
  /\ pc = "load"
  /\ engine' = [model |-> TRUE, samplesOf |-> NoPair]
  /\ pc' = "infer"
  /\ UNCHANGED <<cmd, runtimes, at, planned, results, skipped, best, disk, rows, callVars>>

\* Mutant of LoadFails: the pair is left out without a word.
LoadFailsSilently ==
  /\ pc = "load"
  /\ NextPair /\ UNCHANGED <<engine, skipped, results, callVars>>

\* The model is gone, or not one the kernel can read; nothing is unloaded.
LoadFails ==
  /\ pc = "load"
  /\ Skip /\ UNCHANGED <<engine, callVars>>

LoadOom ==
  /\ pc = "load" /\ Running = Kernel
  /\ Finish(OomRow) /\ UNCHANGED callVars

------------------------------------------------------------------------------
(* A pair measured by a child.                                             *)

\* The first infer(): the child is started unless there are samples already.
InferChild ==
  /\ pc = "infer" /\ Running # Kernel
  /\ pc' = "call"
  /\ IF engine.samplesOf = NoPair
       THEN Call /\ engine' = [engine EXCEPT !.samplesOf = <<Running, Batches[Input]>>]
       ELSE UNCHANGED <<engine, callVars>>
  /\ UNCHANGED <<cmd, runtimes, at, planned, results, skipped, best, disk, rows>>

Vary(what) == IF cmd.optimize = what THEN Figures ELSE {Min(Figures)}

\* reported_memory(), or what NVML says now that the child is gone.
Memory == CASE out.memory # "none" -> out.memory
            [] out.memory = "none" /\ cmd.gpu -> "nvml"
            [] OTHER -> "none"

\* pre_collected_samples() has the child's samples.
Collect ==
  /\ pc = "call" /\ call = "returned" /\ Outcome = "ok"
  /\ \E p \in Vary("latency"), t \in Vary("throughput"), m \in Vary("memory") :
       Finish([runtime |-> Running, batch |-> Batches[at],
               of |-> engine.samplesOf, n |-> out.latencies, p99 |-> p, tput |-> t,
               mem |-> IF Memory = "none" THEN 0 ELSE m, source |-> Memory,
               oom |-> FALSE])
  /\ call' = "idle"
  /\ UNCHANGED <<killed, late, child, status, out, stderr, heir>>

\* It has none, so the error of infer() is looked at.
CollectError ==
  /\ pc = "call" /\ call = "returned" /\ Outcome # "ok"
  /\ IF Outcome = "oom" THEN Finish(OomRow) ELSE Skip /\ engine' = Idle
  /\ call' = "idle"
  /\ UNCHANGED <<killed, late, child, status, out, stderr, heir>>

------------------------------------------------------------------------------
(* A pair measured in-process.                                             *)

\* Mutant of Guarded: the warm-up is not counted.
GuardedNoWarmup(cost) ==
  IF cost = 0 \/ cost * (Warmup + Iterations) <= Budget THEN Iterations
  ELSE LET fit == Budget \div cost
       IN IF fit > MinIterations THEN fit ELSE MinIterations

\* budget_guard: iterations that fit in the budget after the warm-up.
Guarded(cost) ==
  IF cost = 0 \/ cost * (Warmup + Iterations) <= Budget THEN Iterations
  ELSE IF cost * Warmup >= Budget THEN MinIterations
  ELSE LET fit == (Budget - cost * Warmup) \div cost
       IN IF fit > MinIterations THEN fit ELSE MinIterations

\* The first infer() ran in this process; the pilot iteration plans the rest.
InferHere ==
  /\ pc = "infer" /\ Running = Kernel
  /\ \E cost \in PilotCosts : planned' = [cost |-> cost, n |-> Guarded(cost)]
  /\ engine' = [engine EXCEPT !.samplesOf = <<Kernel, Batches[Input]>>]
  /\ pc' = "measure"
  /\ UNCHANGED <<cmd, runtimes, at, results, skipped, best, disk, rows, callVars>>

\* Runtime::infer may fail by its contract, though Metal's does not.
InferHereFails ==
  /\ pc = "infer" /\ Running = Kernel
  /\ Finish(OomRow) \/ (Skip /\ engine' = Idle)
  /\ UNCHANGED callVars

\* Warm-up, timed iterations until one fails, throughput window.  Without an
\* NVIDIA device the memory of the GPU reads as zero, on macOS too.
Measure ==
  /\ pc = "measure"
  /\ \E n \in {0, 1, planned.n}, oom \in BOOLEAN, p \in Vary("latency"), t \in Vary("throughput") :
       /\ oom => n < planned.n
       /\ Finish([runtime |-> Kernel, batch |-> Batches[at], of |-> engine.samplesOf,
                  n |-> n, p99 |-> IF n = 0 THEN 0 ELSE p, tput |-> IF oom THEN 0 ELSE t,
                  mem |-> 0, source |-> "nvml", oom |-> oom])
  /\ UNCHANGED callVars

------------------------------------------------------------------------------
(* The report.                                                             *)

\* Mutant of Valid: a row without samples is not sorted out.
ValidOom(r) == r.runtime # Kernel

Valid(r) == ~r.oom /\ r.runtime # Kernel /\ r.n > 0

Candidates == {i \in DOMAIN results :
  Valid(results[i]) /\ (cmd.optimize = "memory" => results[i].mem > 0)}

\* Which of two rows is taken: min_by keeps the first of equals, max_by the last.
Beats(i, j) ==
  LET r == results[i]
      s == results[j]
  IN CASE cmd.optimize = "latency" -> r.p99 < s.p99 \/ (r.p99 = s.p99 /\ i < j)
       [] cmd.optimize = "throughput" -> r.tput > s.tput \/ (r.tput = s.tput /\ i > j)
       [] cmd.optimize = "memory" -> r.mem < s.mem \/ (r.mem = s.mem /\ i < j)

Recommended ==
  IF Candidates = {} THEN NoPair
  ELSE LET b == results[CHOOSE i \in Candidates : \A j \in Candidates : ~Beats(j, i)]
       IN <<b.runtime, b.batch>>

Conclude ==
  /\ pc = "conclude"
  /\ best' = Recommended
  /\ pc' = CASE cmd.save # "none" -> "save"
             [] cmd.save = "none" /\ cmd.compare # "none" -> "compare"
             [] OTHER -> "render"
  /\ UNCHANGED <<cmd, runtimes, at, engine, planned, results, skipped, disk, rows, callVars>>

Save ==
  /\ pc = "save"
  /\ disk' = [disk EXCEPT ![cmd.save] = [there |-> TRUE, results |-> results]]
  /\ pc' = IF cmd.compare # "none" THEN "compare" ELSE "render"
  /\ UNCHANGED <<cmd, runtimes, at, engine, planned, results, skipped, best, rows, callVars>>

\* The report cannot be written, and is not rendered either.
SaveFails ==
  /\ pc = "save" /\ pc' = "failed"
  /\ UNCHANGED <<cmd, runtimes, at, engine, planned, results, skipped, best, disk, rows, callVars>>

Same(r, s) == r.runtime = s.runtime /\ r.batch = s.batch

\* Mutant of Change: the change is relative to the new figure's sign only.
ChangeSwapped(cur, base) ==
  IF cur.p99 < base.p99 THEN "REGRESSION"
  ELSE IF cur.p99 > base.p99 THEN "improvement" ELSE "unchanged"

Change(cur, base) ==
  LET change == (cur.p99 - base.p99) * 100
  IN CASE base.p99 = 0 -> "unchanged"
       [] base.p99 > 0 /\ change > 5 * base.p99 -> "REGRESSION"
       [] base.p99 > 0 /\ change < -5 * base.p99 -> "improvement"
       [] OTHER -> "unchanged"

\* print_comparison.
Comparison(cur, base) ==
  {[pair |-> <<c.runtime, c.batch>>, status |->
      IF \E b \in base : Same(c, b) THEN Change(c, CHOOSE b \in base : Same(c, b)) ELSE "NEW"] : c \in cur}
  \cup {[pair |-> <<b.runtime, b.batch>>, status |-> "REMOVED"] :
          b \in {x \in base : ~\E c \in cur : Same(c, x)}}

Compare ==
  /\ pc = "compare"
  /\ IF disk[cmd.compare].there
       THEN rows' = Comparison(Names(results), Names(disk[cmd.compare].results)) /\ pc' = "done"
       ELSE pc' = "failed" /\ UNCHANGED rows
  /\ UNCHANGED <<cmd, runtimes, at, engine, planned, results, skipped, best, disk, callVars>>

Render ==
  /\ pc = "render" /\ pc' = "done"
  /\ UNCHANGED <<cmd, runtimes, at, engine, planned, results, skipped, best, disk, rows, callVars>>

Ended == pc \in {"done", "failed"} /\ UNCHANGED <<benchVars, callVars>>

------------------------------------------------------------------------------

Harness ==
  \/ Select \/ Load \/ LoadFails \/ LoadOom
  \/ InferChild \/ Collect \/ CollectError
  \/ InferHere \/ InferHereFails \/ Measure
  \/ Conclude \/ Save \/ SaveFails \/ Compare \/ Render

Llama == runtimes # {} /\ Running = "llamacpp"
Reportable == {"host_rss"} \cup (IF cmd.gpu \/ cmd.mac THEN {"device"} ELSE {})

\* A driver or llama-bench; what it has started may outlive it.
Child ==
  /\ \/ DriverLoads \/ ChildRaises \/ ChildForks \/ HeirExits
     \/ ~Llama /\ (DriverMeasures \/ DriverFails \/ \E m \in Reportable : DriverReports(m))
     \/ Llama /\ LlamaReports
  /\ UNCHANGED benchVars

BenchNext ==
  \/ Harness
  \/ (Caller \/ TimeoutElapses) /\ UNCHANGED benchVars
  \/ Child
  \/ Ended

\* The caller polls and its clock runs; a child owes nothing.
BenchSpec ==
  /\ BenchInit /\ [][BenchNext]_<<benchVars, callVars>>
  /\ WF_<<benchVars, callVars>>(Harness)
  /\ WF_<<benchVars, callVars>>(Caller /\ UNCHANGED benchVars)
  /\ WF_<<benchVars, callVars>>(TimeoutElapses /\ UNCHANGED benchVars)

------------------------------------------------------------------------------
(* Properties.                                                             *)

\* What the guarantees about pairs need of a command line: no batch size is named
\* twice.  Nothing refuses that; the size is then measured twice, and the rows
\* cannot be told apart.
DistinctBatches == \A k, l \in DOMAIN Batches : Batches[k] = Batches[l] => k = l

\* Of the reports saved before: one row for each pair, as this one will have.
DistinctReports ==
  \A c \in Commands : \A p \in DOMAIN c.disk :
    \A i, j \in DOMAIN c.disk[p].results :
      Same(c.disk[p].results[i], c.disk[p].results[j]) => i = j

\* No pair of a runtime and a batch size is silently absent: each one that has
\* been dealt with is in the results or in the skipped list, once, whichever of
\* load, child, first inference and measurement failed (harness.rs:45 "An entry
\* is added to `additional_skipped` for any batch size that cannot be completed");
\* a row's samples are those of its own pair, although a runtime keeps them
\* from infer() to pre_collected_samples() and serves every batch size.
EveryPairIsAccounted ==
  LET done == {<<Registry[i], Batches[k]>> : i \in Chosen \ runtimes, k \in DOMAIN Batches}
              \cup (IF runtimes = {} THEN {} ELSE {<<Running, Batches[k]>> : k \in 1..(at - 1)})
      measured == {<<r.runtime, r.batch>> : r \in Names(results)}
  IN pc \notin {"start", "failed"} =>
       /\ \A i, j \in DOMAIN results : Same(results[i], results[j]) => i = j
       /\ done = measured \cup {p \in skipped : p[2] # 0}
       /\ measured \cap skipped = {}
       /\ \A r \in Names(results) : r.of = <<r.runtime, r.batch>>

\* The recommendation names a pair that was really measured, without running
\* out of memory, and none that was is better at what --optimize-for asks.
RecommendationIsBest ==
  LET good == {r \in Names(results) : ~r.oom /\ r.n > 0 /\ r.runtime # Kernel}
      chosen == {r \in good : <<r.runtime, r.batch>> = best}
  IN /\ best # NoPair => chosen # {}
     /\ \A r \in chosen, s \in good :
          CASE cmd.optimize = "latency" -> r.p99 <= s.p99
            [] cmd.optimize = "throughput" -> r.tput >= s.tput
            [] cmd.optimize = "memory" -> r.mem > 0 /\ (s.mem > 0 => r.mem <= s.mem)
     /\ pc \in {"save", "compare", "render"} /\ best = NoPair =>
          \A r \in good : cmd.optimize = "memory" /\ r.mem = 0

\* Warm-up and planned iterations fit in the time budget unless the floor of
\* MinIterations applies, and no more than that or the request is ever run.
IterationsFitBudget ==
  pc = "measure" =>
    /\ planned.n > MinIterations => (Warmup + planned.n) * planned.cost <= Budget
    /\ planned.n <= Iterations \/ planned.n = MinIterations

\* A comparison shows every pair of either report once and calls a pair that
\* both measured by the direction its p99 has moved, against the baseline that
\* was there when the command started, unless --save names the same file.
ComparisonIsHonest ==
  LET base == Names(cmd.disk[cmd.compare].results)
      pairs(s) == {<<r.runtime, r.batch>> : r \in s}
  IN pc = "done" /\ runtimes = {} /\ rows # {} /\ cmd.compare # cmd.save =>
       /\ {r.pair : r \in rows} = pairs(Names(results)) \cup pairs(base)
       /\ \A r, s \in rows : r.pair = s.pair => r = s
       /\ \A r \in rows, c \in Names(results), b \in base :
            r.pair = <<c.runtime, c.batch>> /\ Same(c, b) /\ ~c.oom /\ ~b.oom =>
              /\ r.status = "REGRESSION" => c.p99 > b.p99
              /\ r.status = "improvement" => c.p99 < b.p99
              /\ b.n > 0 /\ c.p99 >= 2 * b.p99 => r.status = "REGRESSION"

\* The benchmark ends whatever its children do, as long as the processes they
\* leave behind let go of the pipes.
BenchEnds == []<>~heir => <>(pc \in {"done", "failed"})

==============================================================================
