------------------------------ MODULE Subprocess ------------------------------
(***************************************************************************)
(* A measurement in a child process: util.rs output_with_timeout, the      *)
(* Python drivers and llama-bench it runs, and what SubprocessRuntime and  *)
(* LlamaCppRuntime make of their output.                                   *)
(*                                                                         *)
(* The caller polls for the exit or the timeout and then joins the threads *)
(* that drain the pipes.  They end when nobody holds the pipe any more,    *)
(* which may be later than the child: a process it has started (`heir`)    *)
(* inherits it.  Of the output only what the parsers tell apart is kept.   *)
(***************************************************************************)
EXTENDS Naturals

CONSTANT Iterations   \* --iterations

ASSUME IterationsAssumption == Iterations \in Nat \ {0}

VARIABLES
  call,    \* output_with_timeout: idle, polling, joining the readers, returned
  killed,  \* it returned because of the timeout
  late,    \* the timeout has elapsed
  child,   \* none, starting, running (model loaded), exited
  status,  \* exit status of the child
  out,     \* what it has printed
  stderr,  \* what the end of its stderr says
  heir     \* a descendant of the child holds the pipe

callVars == <<call, killed, late, child, status, out, stderr, heir>>

Errors == {"oom", "other"}
NoOutput == [latencies |-> 0, memory |-> "none", error |-> "none"]

CallInit ==
  /\ call = "idle" /\ child = "none" /\ out = NoOutput
  /\ killed = FALSE /\ late = FALSE /\ heir = FALSE
  /\ status = "ok" /\ stderr = "other"

------------------------------------------------------------------------------
(* The caller.                                                             *)

\* spawn() with piped stdout and stderr, and the reader threads; it may fail,
\* and the error of the call is not one of memory.
Call ==
  /\ call = "idle"
  /\ \/ call' = "poll" /\ child' = "starting" /\ status' = "ok"
     \/ call' = "returned" /\ child' = "none" /\ status' = "failed"
  /\ killed' = FALSE /\ late' = FALSE /\ heir' = FALSE
  /\ out' = NoOutput /\ stderr' = "other"

\* try_wait() has a status.  Its error exit is left out: it does not fail for a
\* child that nobody else waits for.
SeeExit ==
  /\ call = "poll" /\ child = "exited"
  /\ call' = "join"
  /\ UNCHANGED <<killed, late, child, status, out, stderr, heir>>

\* Mutant of KillLate: the child is left behind.
KillLateNot ==
  /\ call = "poll" /\ late
  /\ call' = "returned" /\ killed' = TRUE
  /\ UNCHANGED <<late, child, status, out, stderr, heir>>

\* Mutant of KillLate: the clock is only looked at once the child has exited.
KillLateNever ==
  /\ call = "poll" /\ late /\ child = "exited"
  /\ call' = "returned" /\ killed' = TRUE
  /\ UNCHANGED <<late, child, status, out, stderr, heir>>

\* kill() and wait(); the child may have exited since try_wait().
KillLate ==
  /\ call = "poll" /\ late
  /\ call' = "returned" /\ killed' = TRUE /\ child' = "exited"
  /\ UNCHANGED <<late, status, out, stderr, heir>>

\* Both readers have seen the end of their pipe.
JoinReaders ==
  /\ call = "join" /\ ~heir
  /\ call' = "returned"
  /\ UNCHANGED <<killed, late, child, status, out, stderr, heir>>

Caller == SeeExit \/ KillLate \/ JoinReaders

TimeoutElapses ==
  /\ call = "poll" /\ ~late
  /\ late' = TRUE
  /\ UNCHANGED <<call, killed, child, status, out, stderr, heir>>

------------------------------------------------------------------------------
(* The child.                                                              *)

DriverLoads ==
  /\ child = "starting"
  /\ child' = "running"
  /\ UNCHANGED <<call, killed, late, status, out, stderr, heir>>

\* A timed iteration of a driver.
DriverMeasures ==
  /\ child = "running" /\ out.latencies < Iterations
  /\ out' = [out EXCEPT !.latencies = @ + 1]
  /\ UNCHANGED <<call, killed, late, child, status, stderr, heir>>

\* Throughput window and the memory snippet; `memory` is what it can report.
DriverReports(memory) ==
  /\ child = "running" /\ out.latencies = Iterations
  /\ out' = [out EXCEPT !.memory = memory]
  /\ child' = "exited"
  /\ UNCHANGED <<call, killed, late, status, stderr, heir>>

\* llama-bench prints its repetitions in one object at the end.
LlamaReports ==
  /\ child = "running" /\ out.latencies = 0
  /\ \E n \in 0..Iterations : out' = [out EXCEPT !.latencies = n]
  /\ child' = "exited"
  /\ UNCHANGED <<call, killed, late, status, stderr, heir>>

\* An exception the driver turns into an error record (imports, loading, and
\* any iteration of transformers).
DriverFails ==
  /\ child \in {"starting", "running"}
  /\ \E e \in Errors : out' = [out EXCEPT !.error = e]
  /\ child' = "exited" /\ status' = "failed"
  /\ UNCHANGED <<call, killed, late, stderr, heir>>

\* One that it does not catch ends up on stderr.
ChildRaises ==
  /\ child \in {"starting", "running"}
  /\ \E e \in Errors : stderr' = e
  /\ child' = "exited" /\ status' = "failed"
  /\ UNCHANGED <<call, killed, late, out, heir>>

\* The child starts a process that inherits its stdout.
ChildForks ==
  /\ child \in {"starting", "running"} /\ ~heir
  /\ heir' = TRUE
  /\ UNCHANGED <<call, killed, late, child, status, out, stderr>>

HeirExits ==
  /\ heir
  /\ heir' = FALSE
  /\ UNCHANGED <<call, killed, late, child, status, out, stderr>>

------------------------------------------------------------------------------
(* What the runtime makes of it.                                           *)

\* parse_output, parse_llama_bench: an error record counts wherever it is, and
\* no latencies are an error.
Parsed == IF out.error # "none" THEN out.error
          ELSE IF out.latencies = 0 THEN "other" ELSE "ok"

\* run_driver, LlamaCppRuntime::infer: a failed child's own error record comes
\* first, then its stderr.
Outcome ==
  IF killed THEN "other"
  ELSE IF status = "ok" THEN Parsed
  ELSE IF out.error # "none" THEN out.error ELSE stderr

------------------------------------------------------------------------------
(* Properties.                                                             *)

\* A call that has returned leaves no child running, whichever of exit, timeout
\* and kill came first (output_with_timeout).  What the child has started itself
\* may still be there.
NoChildIsLeft == call \in {"idle", "returned"} => child \in {"none", "exited"}
==============================================================================
