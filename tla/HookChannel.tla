----------------------------- MODULE HookChannel -----------------------------
(***************************************************************************)
(* The training hook's socket: a HookServer in the training process        *)
(* (python/calibrate_hook/_server.py), the watcher's HookClient for that   *)
(* process (collectors/hook.rs), and a forked worker that inherits every   *)
(* descriptor the training process has open at the fork.                   *)
(*                                                                         *)
(* Lines are what travels: 0 is the hello, n > 0 the event of step n of    *)
(* the server's hook.  A line that was cut by a full socket buffer is      *)
(* never completed and the client discards it, so it does not appear.      *)
(* A connection ends for the client when nobody holds its server end any   *)
(* more: close() in the trainer does not end it while a worker has a copy. *)
(***************************************************************************)
EXTENDS Integers, Sequences, SequencesExt

CONSTANTS
  Backlog,     \* events replayed to a new watcher (_BACKLOG, 64)
  SockCap,     \* lines that fit into the socket buffers
  MaxSteps,    \* bound: steps per server
  MaxServers,  \* bound: start()/stop() rounds in the training process
  MaxConns,    \* bound: connections the watcher makes
  Forks        \* does the training process fork a worker?

ASSUME SizeAssumption ==
  /\ Backlog \in Nat \ {0} /\ SockCap \in Nat \ {0}
  /\ MaxSteps \in Nat /\ MaxServers \in Nat \ {0} /\ MaxConns \in Nat
ASSUME ForksAssumption == Forks \in BOOLEAN

Servers == 1..MaxServers
Conns == 1..MaxConns
Procs == {"trainer", "worker"}

VARIABLES
  inst,      \* the newest HookServer
  srv,       \* progress of each server's close()
  bound,     \* does the socket path exist (bound to the newest server)?
  step,      \* last step published by each server
  backlog,   \* its _backlog
  clients,   \* its _clients
  acceptor,  \* control state of its accept thread
  accepted,  \* connection the thread has accepted and not yet registered
  listening, \* processes that hold its listening socket
  pending,   \* connections waiting in the listening socket's queue
  held,      \* processes that hold the server end of each connection
  wire,      \* lines sent on each connection and not read
  worker,    \* "none", "alive" or "gone"
  poll,      \* the watcher is about to "connect" or "drain"
  conn,      \* the watcher's connection, 0 for none
  used,      \* connections made so far
  peer,      \* connection whose hello gave the process its peer, 0 for none
  got,       \* lines the watcher has read from each connection
  unclaimed  \* history: those returned by a poll that left no peer for them

serverVars == <<inst, srv, bound, step, backlog, clients, listening>>
acceptVars == <<acceptor, accepted>>
watchVars  == <<poll, conn, used, peer, got, unclaimed>>
vars == <<serverVars, acceptVars, pending, held, wire, worker, watchVars>>

\* A server that cannot bind its path or listen on it has no thread and is
\* deaf: the training goes on and whatever it publishes stays in the backlog.
\* The old socket file is gone by then; one bound in vain stays.
Startups ==
  {[srv |-> "open", bound |-> TRUE, ears |-> {"trainer"}, thread |-> "loop"]}
    \cup {[srv |-> "deaf", bound |-> b, ears |-> {}, thread |-> "exited"] : b \in BOOLEAN}

\* hook.start() has been called once.
Init ==
  /\ inst = 1
  /\ \E s \in Startups :
       /\ bound = s.bound
       /\ srv = [i \in Servers |-> IF i = 1 THEN s.srv ELSE "none"]
       /\ acceptor = [i \in Servers |-> IF i = 1 THEN s.thread ELSE "loop"]
       /\ listening = [i \in Servers |-> IF i = 1 THEN s.ears ELSE {}]
  /\ step = [i \in Servers |-> 0]
  /\ backlog = [i \in Servers |-> <<>>]
  /\ clients = [i \in Servers |-> {}]
  /\ accepted = [i \in Servers |-> 0]
  /\ pending = [i \in Servers |-> <<>>]
  /\ held = [c \in Conns |-> {}]
  /\ wire = [c \in Conns |-> <<>>]
  /\ worker = "none"
  /\ poll = "connect" /\ conn = 0 /\ used = 0 /\ peer = 0
  /\ got = [c \in Conns |-> <<>>] /\ unclaimed = [c \in Conns |-> <<>>]

------------------------------------------------------------------------------
(* The training thread.                                                    *)

\* Under the lock the event enters the backlog, which is cut to `limit`; the
\* clients in `sent` get the line and those in `dropped` are closed.
PublishTo(sent, dropped, limit) ==
  LET n == step[inst] + 1
  IN /\ srv[inst] \in {"open", "deaf"} /\ n <= MaxSteps
     /\ step' = [step EXCEPT ![inst] = n]
     /\ backlog' = [backlog EXCEPT ![inst] =
          IF Len(@) < limit THEN Append(@, n) ELSE Append(Tail(@), n)]
     /\ wire' = [c \in Conns |-> IF c \in sent THEN Append(wire[c], n) ELSE wire[c]]
     /\ held' = [c \in Conns |-> IF c \in dropped THEN held[c] \ {"trainer"} ELSE held[c]]
     /\ clients' = [clients EXCEPT ![inst] = @ \ dropped]
     /\ UNCHANGED <<inst, srv, bound, listening, acceptVars, pending, worker, watchVars>>

\* Clients whose socket buffer has room for a line.
Ready == {c \in clients[inst] : Len(wire[c]) < SockCap}

\* Mutants of Publish: a slow client is kept without the line; the backlog
\* holds one event too many.
PublishKeepingSlow == PublishTo(Ready, {}, Backlog)
PublishOverlong    == PublishTo(Ready, clients[inst] \ Ready, Backlog + 1)

\* publish(): a client that cannot take the whole line is closed and forgotten.
Publish == PublishTo(Ready, clients[inst] \ Ready, Backlog)

\* close(): the flag is set without the lock ...
CloseFlag ==
  /\ srv[inst] = "open"
  /\ srv' = [srv EXCEPT ![inst] = "flagged"]
  /\ UNCHANGED <<inst, bound, step, backlog, clients, listening, acceptVars,
                 pending, held, wire, worker, watchVars>>

\* ... the clients are closed under the lock ...
CloseClients ==
  /\ srv[inst] = "flagged"
  /\ srv' = [srv EXCEPT ![inst] = "drained"]
  /\ held' = [c \in Conns |-> IF c \in clients[inst] THEN held[c] \ {"trainer"} ELSE held[c]]
  /\ clients' = [clients EXCEPT ![inst] = {}]
  /\ UNCHANGED <<inst, bound, step, backlog, listening, acceptVars,
                 pending, wire, worker, watchVars>>

\* A listening socket that nobody holds resets the connections in its queue.
Queues(holders) == [i \in Servers |-> IF holders[i] = {} THEN <<>> ELSE pending[i]]

\* ... the listening socket is closed ...
CloseSocket ==
  /\ srv[inst] = "drained"
  /\ srv' = [srv EXCEPT ![inst] = "unbinding"]
  /\ listening' = [listening EXCEPT ![inst] = @ \ {"trainer"}]
  /\ pending' = Queues(listening')
  /\ UNCHANGED <<inst, bound, step, backlog, clients, acceptVars, held, wire, worker, watchVars>>

\* ... and its path removed.
CloseUnlink ==
  /\ srv[inst] = "unbinding"
  /\ srv' = [srv EXCEPT ![inst] = "closed"]
  /\ bound' = FALSE
  /\ UNCHANGED <<inst, step, backlog, clients, listening, acceptVars,
                 pending, held, wire, worker, watchVars>>

\* close() of a deaf server: it has no client, no socket and no path.
CloseDeaf ==
  /\ srv[inst] = "deaf"
  /\ srv' = [srv EXCEPT ![inst] = "closed"]
  /\ UNCHANGED <<inst, bound, step, backlog, clients, listening, acceptVars,
                 pending, held, wire, worker, watchVars>>

\* start() after stop(): a new server takes the path over, if it can.
Restart ==
  /\ srv[inst] = "closed" /\ inst < MaxServers
  /\ inst' = inst + 1
  /\ \E s \in Startups :
       /\ bound' = s.bound
       /\ srv' = [srv EXCEPT ![inst'] = s.srv]
       /\ acceptor' = [acceptor EXCEPT ![inst'] = s.thread]
       /\ listening' = [listening EXCEPT ![inst'] = s.ears]
  /\ UNCHANGED <<step, backlog, clients, accepted, pending, held, wire, worker, watchVars>>

Trainer ==
  \/ Publish \/ CloseFlag \/ CloseClients \/ CloseSocket \/ CloseUnlink
  \/ CloseDeaf \/ Restart

------------------------------------------------------------------------------
(* The accept thread of server i.                                          *)

\* The condition of the loop.
AcceptorLoop(i) ==
  /\ srv[i] # "none" /\ acceptor[i] = "loop"
  /\ acceptor' = [acceptor EXCEPT ![i] = IF srv[i] = "open" THEN "select" ELSE "exited"]
  /\ UNCHANGED <<serverVars, accepted, pending, held, wire, worker, watchVars>>

\* select() reports a connection and accept() takes it.
AcceptorAccept(i) ==
  /\ acceptor[i] = "select" /\ "trainer" \in listening[i] /\ pending[i] # <<>>
  /\ accepted' = [accepted EXCEPT ![i] = Head(pending[i])]
  /\ pending' = [pending EXCEPT ![i] = Tail(@)]
  /\ held' = [held EXCEPT ![Head(pending[i])] = {"trainer"}]
  /\ acceptor' = [acceptor EXCEPT ![i] = "accepted"]
  /\ UNCHANGED <<serverVars, wire, worker, watchVars>>

\* select() times out after half a second, or fails on the closed socket.
AcceptorIdle(i) ==
  /\ acceptor[i] = "select" /\ ("trainer" \notin listening[i] \/ pending[i] = <<>>)
  /\ acceptor' = [acceptor EXCEPT ![i] = "loop"]
  /\ UNCHANGED <<serverVars, accepted, pending, held, wire, worker, watchVars>>

\* Under the lock the accepted client is sent `payload` and registered.  What
\* does not fit into the buffer is cut and the connection closed.
RegisterWith(i, payload) ==
  LET c == accepted[i]
      fits == Len(payload) <= SockCap
  IN /\ acceptor[i] = "accepted"
     /\ wire' = [wire EXCEPT ![c] = IF fits THEN payload ELSE SubSeq(payload, 1, SockCap)]
     /\ clients' = [clients EXCEPT ![i] = IF fits THEN @ \cup {c} ELSE @]
     /\ held' = [held EXCEPT ![c] = IF fits THEN @ ELSE @ \ {"trainer"}]
     /\ acceptor' = [acceptor EXCEPT ![i] = "loop"]
     /\ accepted' = [accepted EXCEPT ![i] = 0]
     /\ UNCHANGED <<inst, srv, bound, step, backlog, listening, pending, worker, watchVars>>

\* Mutants of AcceptorRegister: no replay; no hello.
AcceptorRegisterBare(i)      == RegisterWith(i, <<0>>)
AcceptorRegisterAnonymous(i) == RegisterWith(i, backlog[i])

\* Hello and backlog are sent, whether or not the server has been closed since
\* the accept.
AcceptorRegister(i) == RegisterWith(i, <<0>> \o backlog[i])

Acceptor(i) ==
  AcceptorLoop(i) \/ AcceptorAccept(i) \/ AcceptorIdle(i) \/ AcceptorRegister(i)

------------------------------------------------------------------------------
(* The forked worker.                                                      *)

\* fork(): the child has a copy of every socket the trainer has open.
Fork ==
  /\ Forks /\ worker = "none"
  /\ worker' = "alive"
  /\ held' = [c \in Conns |-> IF "trainer" \in held[c] THEN Procs ELSE held[c]]
  /\ listening' = [i \in Servers |-> IF "trainer" \in listening[i] THEN Procs ELSE listening[i]]
  /\ UNCHANGED <<inst, srv, bound, step, backlog, clients, acceptVars, pending, wire, watchVars>>

\* Mutant of WorkerClose: the process id is not compared.
WorkerCloseUnguarded ==
  /\ worker = "alive" /\ bound
  /\ bound' = FALSE
  /\ UNCHANGED <<inst, srv, step, backlog, clients, listening, acceptVars,
                 pending, held, wire, worker, watchVars>>

\* close() in the child, from its own call or from the inherited atexit
\* handler, returns at the comparison of process ids.
WorkerClose ==
  /\ worker = "alive"
  /\ UNCHANGED vars

\* The child exits and its copies are closed.
WorkerExit ==
  /\ worker = "alive"
  /\ worker' = "gone"
  /\ held' = [c \in Conns |-> held[c] \ {"worker"}]
  /\ listening' = [i \in Servers |-> listening[i] \ {"worker"}]
  /\ pending' = Queues(listening')
  /\ UNCHANGED <<inst, srv, bound, step, backlog, clients, acceptVars, wire, watchVars>>

Worker == Fork \/ WorkerClose \/ WorkerExit

------------------------------------------------------------------------------
(* The watcher's poll(), once per tick.                                    *)

\* A process without a connection is connected to if its socket exists.
PollConnect ==
  /\ poll = "connect"
  /\ poll' = "drain"
  /\ \/ /\ conn = 0 /\ bound /\ listening[inst] # {} /\ used < MaxConns
        /\ used' = used + 1
        /\ conn' = used'
        /\ pending' = [pending EXCEPT ![inst] = Append(@, used')]
     \/ /\ ~(conn = 0 /\ bound /\ listening[inst] # {})
        /\ UNCHANGED <<used, conn, pending>>
  /\ UNCHANGED <<serverVars, acceptVars, held, wire, worker, peer, got, unclaimed>>

\* End of file: the server end is closed and not waiting to be accepted.
AtEnd(c) ==
  /\ held[c] = {}
  /\ \A i \in Servers : ~Contains(pending[i], c)

\* Everything that has arrived on the connection is read; if it is `over`, the
\* connection is dropped, and the peer unless it is `kept`.  What this poll
\* has read is returned all the same.
DrainUntil(over, kept) ==
  /\ poll = "drain"
  /\ poll' = "connect"
  /\ IF conn = 0
     THEN UNCHANGED <<conn, peer, got, wire, unclaimed>>
     ELSE /\ got' = [got EXCEPT ![conn] = @ \o wire[conn]]
          /\ wire' = [wire EXCEPT ![conn] = <<>>]
          /\ conn' = IF over THEN 0 ELSE conn
          /\ peer' = IF over /\ ~kept THEN 0
                     ELSE IF Contains(wire[conn], 0) THEN conn ELSE peer
          /\ unclaimed' = [unclaimed EXCEPT ![conn] = IF peer' = 0 THEN @ \o wire[conn] ELSE @]
  /\ UNCHANGED <<serverVars, acceptVars, pending, held, worker, used>>

\* Mutants of PollDrain: a dead connection is kept; only its peer is.
PollDrainKeepingDead == DrainUntil(FALSE, FALSE)
PollDrainKeepingPeer == DrainUntil(AtEnd(conn), TRUE)

\* The end of file ends the connection.
PollDrain == DrainUntil(AtEnd(conn), FALSE)

Watcher == PollConnect \/ PollDrain

------------------------------------------------------------------------------
Next == Trainer \/ Worker \/ Watcher \/ \E i \in Servers : Acceptor(i)

\* The watcher polls at every tick and the accept threads run.  Training may
\* stop publishing, and a worker may live as long as it likes.
Fairness == WF_vars(Watcher) /\ \A i \in Servers : WF_vars(Acceptor(i))

Spec == Init /\ [][Next]_vars /\ Fairness

------------------------------------------------------------------------------
(* Properties.                                                             *)

\* What a connection has carried and still carries.
Sent(c) == got[c] \o wire[c]

StepsRead(c) == {got[c][k] : k \in 1..Len(got[c])} \ {0}

\* Within one connection no event is lost, repeated or reordered: a client
\* that misses one is disconnected (_send, publish).  No hello follows a step.
NoGapWithinConnection ==
  \A c \in Conns : \A k \in 1..(Len(Sent(c)) - 1) :
    /\ Sent(c)[k + 1] > 0
    /\ Sent(c)[k] > 0 => Sent(c)[k + 1] = Sent(c)[k] + 1

\* Steps are attributed to a process whose hello is known, and to no process
\* that is gone: from the first step of a connection to its end the peer is the
\* one that said hello on it, and with the connection it is forgotten (poll).
\* The only steps returned without a peer are those that the poll which meets
\* the end of file finds in the buffer; every earlier poll had one for its own.
StepsHaveAPeer ==
  /\ peer \in {0, conn}
  /\ conn # 0 /\ StepsRead(conn) # {} => peer = conn
  /\ \A c \in Conns :
       unclaimed[c] # <<>> => c # conn /\ Len(unclaimed[c]) <= SockCap

\* A reconnecting watcher misses steps of a server only if more than Backlog
\* of them were published since the last one it read (m; n is the first one
\* it reads then).
LossNeedsBacklogOverrun ==
  \A c, d \in Conns : \A m \in StepsRead(c), n \in StepsRead(d) :
    /\ c < d
    /\ \A k \in StepsRead(c) : k <= m
    /\ \A k \in StepsRead(d) : n <= k
    /\ n > m + 1
    => \E i \in Servers : step[i] > m + Backlog

\* Neither a forked worker nor a watcher makes the server unreachable: its
\* socket file exists as long as it is open (docs/hook.md:82).
OpenServerIsReachable == srv[inst] = "open" => bound /\ "trainer" \in listening[inst]

\* The newest step of an open server reaches the watcher, through slow reads,
\* a disconnect and the replay, unless newer ones push it out.
NewestStepArrives ==
  \A i \in Servers : \A n \in 1..MaxSteps :
    (inst = i /\ srv[i] = "open" /\ step[i] = n)
      ~> \/ \E c \in Conns : Contains(got[c], n)
         \/ ~(inst = i /\ srv[i] = "open" /\ step[i] = n)

\* docs/hook.md:84: "A watcher that cannot keep up is disconnected".  While the
\* server is open, the trainer closes a connection only for that reason.
GivenUp(c) ==
  /\ conn = c /\ srv[inst] = "open" /\ "trainer" \notin held[c]
  /\ \A i \in Servers : ~Contains(pending[i], c)

SlowWatcherIsDisconnected == \A c \in Conns : GivenUp(c) ~> conn # c

\* docs/hook.md:74: "each rank that calls `start()` is picked up", so the
\* watcher comes to the server that is running now.
StartedServerIsPickedUp ==
  \A i \in Servers :
    (inst = i /\ srv[i] = "open")
      ~> \/ \E c \in Conns : conn = c /\ c \in clients[i]
         \/ ~(inst = i /\ srv[i] = "open")
==============================================================================
