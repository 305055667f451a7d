------------------------------- MODULE ProcTree -------------------------------
(***************************************************************************)
(* The process table calibrate reads, and the walks over it                *)
(* (src/collectors/proc_tree.rs).  Every collector works on the tree below *)
(* the process it was pointed at.                                          *)
(*                                                                         *)
(* `procs` is what the kernel knows: the processes that exist, each with   *)
(* its parent, an identity no later process shares, its kind of command,   *)
(* the CPU time it has used and the GPUs it has a context on.  Processes   *)
(* fork, work, exit, are reaped, and their numbers are used again, at any  *)
(* moment between two reads of calibrate.                                  *)
(***************************************************************************)
EXTENDS Naturals, FiniteSets

CONSTANTS
  Pids,        \* process numbers; 1 is init, and 0 is nobody's number
  Self,        \* calibrate's own process
  Commands,    \* the kinds of command a new process may run
  Worlds,      \* process tables a session may start in
  MaxEvents    \* bound: events of the world in a behaviour

ASSUME PidsAssumption == Pids \subseteq Nat \ {0} /\ {1, Self} \subseteq Pids
ASSUME WorldsAssumption ==
  \A w \in Worlds :
    IsFiniteSet(DOMAIN w) /\ \A p \in DOMAIN w : w[p].born = <<p, 0>> /\ w[p].used \in Nat

VARIABLES procs, events
worldVars == <<procs, events>>

WorldInit == procs \in Worlds /\ events = 0

Happens == events < MaxEvents /\ events' = events + 1

Fork(p, c) ==
  /\ Happens
  /\ p \in DOMAIN procs /\ ~procs[p].zombie
  /\ c \in Pids \ DOMAIN procs
  /\ \E cmd \in Commands :
       procs' = [x \in DOMAIN procs \cup {c} |->
                   IF x = c
                   THEN [parent |-> p, born |-> <<c, events'>>, cmd |-> cmd, zombie |-> FALSE,
                         used |-> 0, gpus |-> {}]
                   ELSE procs[x]]

\* Children of a process that exits are handed to init.
Exit(p) ==
  /\ Happens
  /\ p \in DOMAIN procs \ {1, Self} /\ ~procs[p].zombie
  /\ procs' = [x \in DOMAIN procs |->
                 IF x = p THEN [procs[x] EXCEPT !.zombie = TRUE, !.gpus = {}]
                 ELSE IF procs[x].parent = p THEN [procs[x] EXCEPT !.parent = 1]
                 ELSE procs[x]]

Reap(p) ==
  /\ Happens
  /\ p \in DOMAIN procs /\ procs[p].zombie
  /\ procs' = [x \in DOMAIN procs \ {p} |-> procs[x]]

Work(p) ==
  /\ Happens
  /\ p \in DOMAIN procs \ {1, Self} /\ ~procs[p].zombie
  /\ procs' = [procs EXCEPT ![p].used = @ + 1]

WorldNext ==
  \/ \E p, c \in Pids : Fork(p, c)
  \/ \E p \in Pids : Exit(p) \/ Reap(p) \/ Work(p)

------------------------------------------------------------------------------
(* Walks over a table: a function from the process numbers seen to the    *)
(* parents they had when they were read.                                  *)

IsAlive(p) == p \in DOMAIN procs /\ ~procs[p].zombie

ProcessTable == [p \in DOMAIN procs |-> procs[p].parent]

Parents(t, S) == {t[c] : c \in {x \in S \cap DOMAIN t : x # 1 /\ t[x] # x}} \ {0}
Children(t, S) == {c \in DOMAIN t : t[c] # c /\ t[c] \in S}

\* The parent of p, its parent, and so on: the least set that has the parent of
\* p and those of its own members.
AncestorsIn(t, p) ==
  LET parents == {t[c] : c \in DOMAIN t}
      upward == {S \in SUBSET parents : Parents(t, S \cup {p}) \subseteq S}
  IN  {a \in parents : \A S \in upward : a \in S}

DescendantsIn(t, root) ==
  LET down[n \in Nat] ==
        IF n = 0 THEN {root} ELSE down[n - 1] \cup Children(t, down[n - 1])
  IN  IF root \in DOMAIN t THEN down[Cardinality(DOMAIN t)] ELSE {}
==============================================================================
