------------------------------- MODULE Targeting -------------------------------
(***************************************************************************)
(* Choosing the process to watch and attaching to it                       *)
(* (src/process/discover.rs, attach.rs and container.rs).                  *)
(*                                                                         *)
(* /proc is read one entry after the other, then the command lines, so the *)
(* table can mix moments at which a number belonged to different           *)
(* processes; attaching looks at the chosen number later again.  A regular *)
(* expression, if it is valid, is a set of the commands it matches; a      *)
(* command is the set of the marks is_training_cmd looks for.              *)
(***************************************************************************)
EXTENDS ProcTree

CONSTANTS
  Entries,     \* ways to name the target: [by, pid, pattern, valid, terminal]
  Marks        \* sets of container markers calibrate may find

VARIABLES
  entry,       \* the entry-point of this session
  marks,       \* the container markers around calibrate
  stage,       \* "start" | "table" | "commands" | "attach" | "read" | "look" | "ready" | "failed"
  table,       \* entries of /proc read so far
  found,       \* the processes that matched, before trees are collapsed
  outcome      \* [kind, pid, warning]

targetVars == <<entry, marks, stage, table, found, outcome>>

Ended(k, p) == [kind |-> k, pid |-> p, warning |-> "none"]

TargetInit ==
  /\ entry \in Entries /\ marks \in Marks
  /\ stage = "start" /\ table = <<>> /\ found = {} /\ outcome = Ended("pending", 0)

------------------------------------------------------------------------------
(* container::classify.                                                   *)

ContextOf(m) ==
  IF m \cap {"service_account", "kubepods"} # {} THEN "kubernetes"
  ELSE IF m \cap {"dockerenv", "docker_cgroup"} # {} THEN "docker"
  ELSE IF m \cap {"containerenv", "runtime_cgroup"} # {} THEN "unknown"
  ELSE "host"

------------------------------------------------------------------------------
(* discover: which processes match, and how their trees collapse.         *)

IsTrainingCmd(cmd) ==
  "launcher" \in cmd \/ ("python" \in cmd /\ cmd \cap {"keyword", "framework"} # {})

Selects(cmd) == IF entry.by = "pattern" THEN cmd \in entry.pattern ELSE IsTrainingCmd(cmd)

ExcludeSelf(S, t) == S \ ({Self} \cup AncestorsIn(t, Self))

\* Mutant of CollapseTrees: only a match right above counts.
CollapseTreesByParent(S, t) == {c \in S : t[c] \notin S}

CollapseTrees(S, t) == {c \in S : AncestorsIn(t, c) \cap S = {}}

\* A zombie has no command line, and a process reaped since has none to read.
AllProcesses(t) == {p \in DOMAIN t : IsAlive(p)}

\* A pattern is compiled before anything is looked at.
Begin ==
  /\ stage = "start"
  /\ \/ /\ entry.by = "pid"
        /\ outcome' = Ended("chosen", entry.pid) /\ stage' = "attach"
     \/ /\ entry.by = "pattern" /\ ~entry.valid
        /\ outcome' = Ended("invalid", 0) /\ stage' = "failed"
     \/ /\ entry.by = "auto" \/ (entry.by = "pattern" /\ entry.valid)
        /\ stage' = "table" /\ UNCHANGED outcome
  /\ UNCHANGED <<entry, marks, table, found, worldVars>>

\* process_table: the directory is listed in the order of the numbers.
ReadEntry ==
  LET left == {p \in DOMAIN procs : \A q \in DOMAIN table : q < p} IN
  /\ stage = "table"
  /\ IF left = {}
     THEN stage' = "commands" /\ UNCHANGED table
     ELSE LET p == CHOOSE x \in left : \A y \in left : x <= y IN
          /\ table' = [x \in DOMAIN table \cup {p} |-> IF x = p THEN procs[p].parent ELSE table[x]]
          /\ UNCHANGED stage
  /\ UNCHANGED <<entry, marks, found, outcome, worldVars>>

\* resolve_by_pattern and resolve_auto.
Resolve ==
  LET matching == {p \in ExcludeSelf(AllProcesses(table), table) : Selects(procs[p].cmd)}
      candidates == CollapseTrees(matching, table)
  IN
  /\ stage = "commands"
  /\ found' = matching
  /\ \/ /\ candidates = {}
        /\ outcome' = Ended("nothing", 0) /\ stage' = "failed"
     \/ /\ Cardinality(candidates) = 1
        /\ outcome' = Ended("chosen", CHOOSE c \in candidates : TRUE) /\ stage' = "attach"
     \/ /\ Cardinality(candidates) > 1
        /\ entry.by = "pattern" \/ ~entry.terminal
        /\ outcome' = Ended("ambiguous", 0) /\ stage' = "failed"
     \/ /\ Cardinality(candidates) > 1 /\ entry.by = "auto" /\ entry.terminal
        /\ \/ \E c \in candidates : outcome' = Ended("picked", c) /\ stage' = "attach"
           \/ outcome' = Ended("no_selection", 0) /\ stage' = "failed"
  /\ UNCHANGED <<entry, marks, table, worldVars>>

------------------------------------------------------------------------------
(* attach: the number must be alive, its CPU time readable, and its tree  *)
(* should hold a GPU context.                                             *)

Attach ==
  /\ stage = "attach"
  /\ IF IsAlive(outcome.pid)
     THEN stage' = "read" /\ UNCHANGED outcome
     ELSE /\ stage' = "failed"
          /\ outcome' = [outcome EXCEPT
               !.kind = IF ContextOf(marks) = "host" THEN "not_found" ELSE "isolated"]
  /\ UNCHANGED <<entry, marks, table, found, worldVars>>

AttachRead ==
  /\ stage = "read"
  /\ IF outcome.pid \in DOMAIN procs
     THEN stage' = "look" /\ UNCHANGED outcome
     ELSE stage' = "failed" /\ outcome' = [outcome EXCEPT !.kind = "denied"]
  /\ UNCHANGED <<entry, marks, table, found, worldVars>>

\* In another process namespace (a container without hostPID, recognised or
\* not) the numbers NVML lists belong to nobody calibrate can see.
Hidden == marks # {} /\ "hostPID" \notin marks
GpuPids == {p \in DOMAIN procs : procs[p].gpus # {}}

\* gpu_presence_warnings; without NVML there is nothing to say.
AttachLook ==
  /\ stage = "look" /\ stage' = "ready"
  /\ \E nvml \in BOOLEAN :
       outcome' = [outcome EXCEPT !.warning =
         IF ~nvml \/ (~Hidden /\ DescendantsIn(ProcessTable, outcome.pid) \cap GpuPids # {})
         THEN "none"
         ELSE IF (Hidden /\ GpuPids # {}) \/ ContextOf(marks) # "host" THEN "namespace"
         ELSE "no_context_yet"]
  /\ UNCHANGED <<entry, marks, table, found, worldVars>>

TargetNext == Begin \/ ReadEntry \/ Resolve \/ Attach \/ AttachRead \/ AttachLook

------------------------------------------------------------------------------
(* Properties.                                                            *)

\* A process that is its own ancestor in a table read while numbers were used
\* again; collapse_trees drops it whatever else is running.
OnCycle(p) == p \in AncestorsIn(table, p)

\* The process chosen without asking covers every match: each one is the
\* process itself or below it.  An ambiguity that is reported is real: two
\* matches no other match is above.  And nothing is reported missing while
\* something matches (discover.rs collapse_trees, resolve_by_pattern,
\* resolve_auto).  Matches on a cycle of the table are the exception.
ResolutionCoversMatches ==
  /\ outcome.kind = "chosen" /\ entry.by # "pid" =>
       \A m \in found : m = outcome.pid \/ outcome.pid \in AncestorsIn(table, m) \/ OnCycle(m)
            \/ \E a \in AncestorsIn(table, m) : OnCycle(a)
  /\ outcome.kind = "nothing" => \A m \in found : OnCycle(m) \/ \E a \in AncestorsIn(table, m) : OnCycle(a)
  /\ outcome.kind = "ambiguous" =>
       \E m, n \in found :
         /\ m # n
         /\ \A x \in found : x \notin AncestorsIn(table, m) \cup AncestorsIn(table, n)
==============================================================================
