----------------------------- MODULE SnapshotLog -----------------------------
(***************************************************************************)
(* What `calibrate watch` promises about one monitoring session, without   *)
(* threads, channels or exporters: snapshots are observed one after the    *)
(* other, shown in the order in which they were observed, none skipped     *)
(* and none twice, and the report that closes the session describes the    *)
(* newest snapshot that was observed.  A session that is aborted (the      *)
(* process is killed, or the renderer cannot start) has no report.         *)
(*                                                                         *)
(* WatchPipeline is shown to implement this specification.                 *)
(***************************************************************************)
EXTENDS Integers, Sequences

CONSTANT MaxTicks   \* bound on the number of snapshots of a session

VARIABLES
  observed,   \* number of snapshots the analysis has produced
  shown,      \* snapshots handed to the user, in order
  phase,      \* "open", "closed" or "aborted"
  report      \* snapshot described by the closing report, 0 for none

vars == <<observed, shown, phase, report>>

Init ==
  /\ observed = 0
  /\ shown = <<>>
  /\ phase = "open"
  /\ report = 0

\* The analysis turns one more sample into a snapshot.
Observe ==
  /\ phase = "open"
  /\ observed < MaxTicks
  /\ observed' = observed + 1
  /\ UNCHANGED <<shown, phase, report>>

\* The next snapshot not shown yet is shown.
Show ==
  /\ phase = "open"
  /\ Len(shown) < observed
  /\ shown' = Append(shown, Len(shown) + 1)
  /\ UNCHANGED <<observed, phase, report>>

\* The session ends with a report of the newest snapshot (none: report 0).
Close ==
  /\ phase = "open"
  /\ phase' = "closed"
  /\ report' = observed
  /\ UNCHANGED <<observed, shown>>

\* The session ends without a report.
Abort ==
  /\ phase = "open"
  /\ phase' = "aborted"
  /\ UNCHANGED <<observed, shown, report>>

Next == Observe \/ Show \/ Close \/ Abort

Spec == Init /\ [][Next]_vars
==============================================================================
