--------------------------- MODULE HookChannelProofs ---------------------------
(***************************************************************************)
(* HookChannel, for every number of servers, connections and steps and     *)
(* every size of backlog and buffer: an open server can be reached,        *)
(* whatever workers are forked and exit, watchers connect and servers were *)
(* closed before it; and what a watcher reads has no gap within a          *)
(* connection, belongs to a process it knows and is replayed after a       *)
(* reconnection as far as the backlog goes.                                *)
(*                                                                         *)
(* Reachability is about the newest server alone, and so is its invariant: *)
(* only the trainer moves `srv` and `inst`, and it does so in the order of *)
(* close() and start().                                                    *)
(***************************************************************************)
EXTENDS HookChannel, SequenceTheorems, TLAPS

Progress == {"none", "open", "deaf", "flagged", "drained", "unbinding", "closed"}

Reachable ==
  /\ inst \in Servers
  /\ srv \in [Servers -> Progress]
  /\ listening \in [Servers -> SUBSET Procs]
  /\ OpenServerIsReachable

\* A start-up is heard, or the server is deaf.
LEMMA StartupsTyped ==
  ASSUME NEW s \in Startups
  PROVE  /\ s.srv \in {"open", "deaf"} /\ s.ears \subseteq Procs
         /\ s.thread \in {"loop", "exited"}
         /\ s.srv = "open" => s.bound /\ "trainer" \in s.ears
BY DEF Startups, Procs

LEMMA InitReachable == Init => Reachable
<1> SUFFICES ASSUME Init PROVE Reachable
  OBVIOUS
<1>1. inst = 1 /\ 1 \in Servers
  BY SizeAssumption DEF Init, Servers
<1>2. PICK s \in Startups :
        /\ bound = s.bound
        /\ srv = [i \in Servers |-> IF i = 1 THEN s.srv ELSE "none"]
        /\ listening = [i \in Servers |-> IF i = 1 THEN s.ears ELSE {}]
  BY DEF Init
<1> QED
  BY <1>1, <1>2, StartupsTyped DEF Reachable, OpenServerIsReachable, Progress, Procs

\* Whatever leaves the server and the socket path alone keeps it reachable.
LEMMA ReachableKept ==
  Reachable /\ UNCHANGED <<inst, srv, bound, listening>> => Reachable'
BY DEF Reachable, OpenServerIsReachable

\* close() is past the open server, and start() makes a new one.
LEMMA TrainerReachable == Reachable /\ Trainer => Reachable'
<1> SUFFICES ASSUME Reachable, Trainer PROVE Reachable'
  OBVIOUS
<1>1. inst \in Servers /\ srv \in [Servers -> Progress] /\ listening \in [Servers -> SUBSET Procs]
  BY DEF Reachable
<1>2. CASE Publish \/ CloseClients
  <2>1. UNCHANGED <<inst, bound, listening>> /\ srv' \in {srv, [srv EXCEPT ![inst] = "drained"]}
    BY <1>2 DEF Publish, PublishTo, CloseClients
  <2> QED
    BY <2>1, <1>1 DEF Reachable, OpenServerIsReachable, Progress
<1>3. CASE CloseFlag
  BY <1>1, <1>3 DEF CloseFlag, Reachable, OpenServerIsReachable, Progress
<1>4. CASE CloseSocket
  BY <1>1, <1>4 DEF CloseSocket, Reachable, OpenServerIsReachable, Progress, Procs
<1>5. CASE CloseUnlink
  BY <1>1, <1>5 DEF CloseUnlink, Reachable, OpenServerIsReachable, Progress
<1>6. CASE Restart
  <2>1. inst' \in Servers
    BY <1>1, <1>6, SizeAssumption DEF Restart, Servers
  <2>2. PICK s \in Startups :
          /\ bound' = s.bound
          /\ srv' = [srv EXCEPT ![inst'] = s.srv]
          /\ listening' = [listening EXCEPT ![inst'] = s.ears]
    BY <1>6 DEF Restart
  <2> QED
    BY <1>1, <2>1, <2>2, StartupsTyped DEF Reachable, OpenServerIsReachable, Progress, Procs
<1>7. CASE CloseDeaf
  BY <1>1, <1>7 DEF CloseDeaf, Reachable, OpenServerIsReachable, Progress
<1> QED
  BY <1>2, <1>3, <1>4, <1>5, <1>6, <1>7 DEF Trainer

\* A fork gives the worker copies of what the trainer holds, and takes them
\* back: the trainer keeps its own.
LEMMA WorkerReachable == Reachable /\ Worker => Reachable'
<1> SUFFICES ASSUME Reachable, Worker PROVE Reachable'
  OBVIOUS
<1>1. inst \in Servers /\ listening \in [Servers -> SUBSET Procs]
  BY DEF Reachable
<1>2. CASE Fork
  <2>1. /\ UNCHANGED <<inst, srv, bound>>
        /\ listening' = [i \in Servers |-> IF "trainer" \in listening[i] THEN Procs ELSE listening[i]]
    BY <1>2 DEF Fork
  <2>2. listening' \in [Servers -> SUBSET Procs]
    BY <1>1, <2>1
  <2>3. "trainer" \in listening[inst] => "trainer" \in listening'[inst]
    BY <1>1, <2>1 DEF Procs
  <2> QED
    BY <2>1, <2>2, <2>3 DEF Reachable, OpenServerIsReachable
<1>3. CASE WorkerClose
  BY <1>3, ReachableKept DEF WorkerClose, vars, serverVars
<1>4. CASE WorkerExit
  <2>1. /\ UNCHANGED <<inst, srv, bound>>
        /\ listening' = [i \in Servers |-> listening[i] \ {"worker"}]
    BY <1>4 DEF WorkerExit
  <2>2. listening' \in [Servers -> SUBSET Procs]
    BY <1>1, <2>1
  <2>3. "trainer" \in listening[inst] => "trainer" \in listening'[inst]
    BY <1>1, <2>1
  <2> QED
    BY <2>1, <2>2, <2>3 DEF Reachable, OpenServerIsReachable
<1> QED
  BY <1>2, <1>3, <1>4 DEF Worker

\* An open server's socket file exists and its process listens on it, however
\* often it was started and stopped and whatever its workers do (close).
THEOREM ReachabilityCorrectness == Spec => []OpenServerIsReachable
<1>1. Reachable /\ [Next]_vars => Reachable'
  <2> SUFFICES ASSUME Reachable, [Next]_vars PROVE Reachable'
    OBVIOUS
  <2>1. CASE Watcher \/ \E i \in Servers : Acceptor(i)
    <3>1. UNCHANGED <<inst, srv, bound, listening>>
      BY <2>1 DEF Watcher, PollConnect, PollDrain, DrainUntil, Acceptor, AcceptorLoop,
         AcceptorAccept, AcceptorIdle, AcceptorRegister, RegisterWith, serverVars
    <3> QED
      BY <3>1, ReachableKept
  <2>2. CASE UNCHANGED vars
    BY <2>2, ReachableKept DEF vars, serverVars
  <2> QED
    BY <2>1, <2>2, TrainerReachable, WorkerReachable DEF Next
<1>2. Reachable => OpenServerIsReachable
  BY DEF Reachable
<1> QED
  BY InitReachable, <1>1, <1>2, PTL DEF Spec

------------------------------------------------------------------------------
(* What travels on the connections.  The invariant follows a connection    *)
(* from the queue of the listening socket to the accept thread and to the  *)
(* clients of a server.  It is in one of these places at most, has carried *)
(* nothing before it is a client, and has carried everything up to the     *)
(* last step of its server as long as it is one.                           *)

ChannelTypeOK ==
  /\ inst \in Servers
  /\ step \in [Servers -> Nat] /\ backlog \in [Servers -> Seq(Nat)]
  /\ clients \in [Servers -> SUBSET Conns]
  /\ acceptor \in [Servers -> {"loop", "select", "accepted", "exited"}]
  /\ accepted \in [Servers -> Conns \cup {0}]
  /\ pending \in [Servers -> Seq(Conns)]
  /\ wire \in [Conns -> Seq(Nat)] /\ got \in [Conns -> Seq(Nat)]
  /\ conn \in Conns \cup {0} /\ used \in Conns \cup {0}
  /\ peer \in Conns \cup {0} /\ unclaimed \in [Conns -> Seq(Nat)]

\* The newest `Backlog` of the steps 1..n, or all of them.
Newest(b, n) ==
  /\ Len(b) <= Backlog /\ Len(b) <= n
  /\ Len(b) < Backlog => Len(b) = n
  /\ \A k \in 1..Len(b) : b[k] = n - Len(b) + k

BacklogIsNewest == \A i \in Servers : Newest(backlog[i], step[i])

\* A connection waits in one place of one queue or is held by one thread.
OnceInLine ==
  /\ \A i, j \in Servers : \A k \in 1..Len(pending[i]), l \in 1..Len(pending[j]) :
       pending[i][k] = pending[j][l] => i = j /\ k = l
  /\ \A i, j \in Servers : \A l \in 1..Len(pending[j]) : accepted[i] # pending[j][l]
  /\ \A i, j \in Servers : accepted[i] = accepted[j] /\ accepted[i] # 0 => i = j
  /\ \A i \in Servers : acceptor[i] = "accepted" => accepted[i] # 0

InLine(c) ==
  \E i \in Servers : accepted[i] = c \/ \E k \in 1..Len(pending[i]) : pending[i][k] = c

\* A connection that is not made yet, or not registered, has carried nothing.
FreshInLine ==
  \A c \in Conns :
    /\ InLine(c) => c <= used
    /\ InLine(c) \/ c > used => wire[c] = <<>> /\ got[c] = <<>>

\* What a client was sent ends with the last step of its server.
ClientsInStep ==
  \A i \in Servers : \A c \in clients[i] :
    Sent(c) # <<>> /\ Sent(c)[Len(Sent(c))] = step[i]

OneServerPerClient ==
  \A i, j \in Servers : \A c \in Conns : c \in clients[i] /\ c \in clients[j] => i = j

\* A stream of lines: the hello, then steps without a gap.
Stream(s) ==
  s # <<>> =>
    /\ s[1] = 0
    /\ \A k \in 1..(Len(s) - 1) : s[k + 1] > 0 /\ (s[k] > 0 => s[k + 1] = s[k] + 1)

\* The step n opens a stream only if it is the first one, or the backlog was
\* full when it was replayed.
OpensAt(n) == n = 1 \/ \E i \in Servers : step[i] >= n + Backlog - 1

Streams ==
  \A c \in Conns : Stream(Sent(c)) /\ (Len(Sent(c)) > 1 => OpensAt(Sent(c)[2]))

\* A connection that has carried a line carried a hello first.  What no peer
\* was left for came from a buffer that holds SockCap lines.
PeerKnown ==
  /\ peer \in {0, conn} /\ conn <= used
  /\ conn # 0 => (got[conn] # <<>> => peer = conn)
  /\ \A c \in Conns :
       unclaimed[c] # <<>> => c # conn /\ c <= used /\ Len(unclaimed[c]) <= SockCap

WiresFit == \A c \in Conns : Len(wire[c]) <= SockCap

ChannelInv ==
  /\ ChannelTypeOK /\ BacklogIsNewest /\ OnceInLine /\ FreshInLine
  /\ ClientsInStep /\ OneServerPerClient /\ Streams /\ PeerKnown /\ WiresFit

------------------------------------------------------------------------------
(* Streams.                                                                *)

LEMMA ConcatAppend ==
  \A s, t \in Seq(Nat) : \A e \in Nat : s \o Append(t, e) = Append(s \o t, e)
<1> SUFFICES ASSUME NEW s \in Seq(Nat), NEW t \in Seq(Nat), NEW e \in Nat
             PROVE  s \o Append(t, e) = Append(s \o t, e)
  OBVIOUS
<1>1. Append(t, e) = t \o <<e>> /\ Append(s \o t, e) = (s \o t) \o <<e>>
  BY AppendIsConcat, ConcatProperties
<1>2. <<e>> \in Seq(Nat)
  OBVIOUS
<1> QED
  BY <1>1, <1>2, ConcatAssociative

\* The deque keeps the newest steps.
LEMMA NewestAppend ==
  ASSUME NEW b \in Seq(Nat), NEW s \in Nat, NEW n \in Nat, n = s + 1, Newest(b, s)
  PROVE  LET d == IF Len(b) < Backlog THEN Append(b, n) ELSE Append(Tail(b), n)
         IN d \in Seq(Nat) /\ Newest(d, n)
<1> DEFINE m == Len(b)
<1>1. /\ m \in Nat /\ m <= Backlog /\ m <= s
      /\ m < Backlog => m = s
      /\ \A k \in 1..m : b[k] = s - m + k
  BY LenProperties DEF Newest
<1>2. ASSUME m < Backlog PROVE Append(b, n) \in Seq(Nat) /\ Newest(Append(b, n), n)
  <2> DEFINE d == Append(b, n)
  <2>1. /\ d \in Seq(Nat) /\ Len(d) = m + 1
        /\ \A k \in 1..m : d[k] = b[k]
        /\ d[m + 1] = n
    BY AppendProperties
  <2> HIDE DEF d, m
  <2>2. \A k \in 1..(m + 1) : d[k] = k
    <3> SUFFICES ASSUME NEW k \in 1..(m + 1) PROVE d[k] = k
      OBVIOUS
    <3>1. m = s /\ n = m + 1
      BY <1>1, <1>2
    <3>2. CASE k = m + 1
      BY <2>1, <3>1, <3>2
    <3>3. CASE k <= m
      <4>1. k \in 1..m
        BY <3>3, <1>1
      <4>2. d[k] = b[k] /\ b[k] = s - m + k
        BY <4>1, <2>1, <1>1
      <4> QED
        BY <4>2, <3>1
    <3> QED
      BY <3>2, <3>3, <1>1
  <2>3. m + 1 <= Backlog /\ m + 1 = n
    BY <1>1, <1>2, SizeAssumption
  <2>4. Newest(d, n)
    BY <2>1, <2>2, <2>3 DEF Newest
  <2> QED
    BY <2>1, <2>4 DEF d
<1>3. ASSUME m >= Backlog PROVE Append(Tail(b), n) \in Seq(Nat) /\ Newest(Append(Tail(b), n), n)
  <2> DEFINE r == Tail(b)
             d == Append(r, n)
  <2>1. m >= 1 /\ m = Backlog
    BY <1>1, <1>3, SizeAssumption
  <2>2. b # <<>>
    BY <2>1
  <2>3. r \in Seq(Nat) /\ Len(r) = m - 1 /\ \A k \in 1..Len(r) : r[k] = b[k + 1]
    BY <2>2, HeadTailProperties
  <2> HIDE DEF r
  <2>4. /\ d \in Seq(Nat) /\ Len(d) = Len(r) + 1
        /\ \A k \in 1..Len(r) : d[k] = r[k]
        /\ d[Len(r) + 1] = n
    BY <2>3, AppendProperties
  <2> HIDE DEF d, m
  <2>5. Len(d) = m /\ d[m] = n /\ \A k \in 1..(m - 1) : d[k] = b[k + 1]
    BY <2>3, <2>4, <2>1, <1>1
  <2>6. \A k \in 1..m : d[k] = n - m + k
    <3> SUFFICES ASSUME NEW k \in 1..m PROVE d[k] = n - m + k
      OBVIOUS
    <3>1. CASE k = m
      BY <2>5, <3>1, <1>1
    <3>2. CASE k < m
      <4>1. k \in 1..(m - 1) /\ k + 1 \in 1..m
        BY <3>2, <1>1
      <4>2. d[k] = b[k + 1] /\ b[k + 1] = s - m + (k + 1)
        BY <4>1, <2>5, <1>1
      <4> QED
        BY <4>2, <1>1
    <3> QED
      BY <3>1, <3>2, <1>1
  <2>7. Newest(d, n)
    BY <2>1, <2>5, <2>6, <1>1 DEF Newest
  <2> QED
    BY <2>4, <2>7 DEF d, r
<1>4. m < Backlog \/ m >= Backlog
  BY <1>1, SizeAssumption
<1> QED
  BY <1>2, <1>3, <1>4

\* The next step keeps a stream a stream.
LEMMA StreamAppend ==
  ASSUME NEW s \in Seq(Nat), s # <<>>, Stream(s),
         NEW n \in Nat, n = s[Len(s)] + 1
  PROVE  /\ Append(s, n) \in Seq(Nat) /\ Append(s, n) # <<>>
         /\ Stream(Append(s, n))
         /\ Append(s, n)[Len(Append(s, n))] = n
         /\ Append(s, n)[2] \in {1, s[2]} /\ (Len(s) <= 1 => Append(s, n)[2] = 1)
<1> DEFINE t == Append(s, n)
           m == Len(s)
<1>1. /\ m \in Nat /\ m >= 1 /\ t \in Seq(Nat) /\ t # <<>> /\ Len(t) = m + 1
      /\ \A k \in 1..m : t[k] = s[k]
      /\ t[m + 1] = n
      /\ \A k \in 1..m : s[k] \in Nat
  BY AppendProperties, LenProperties, ElementOfSeq, EmptySeq
<1>2. s[1] = 0 /\ \A k \in 1..(m - 1) : s[k + 1] > 0 /\ (s[k] > 0 => s[k + 1] = s[k] + 1)
  BY DEF Stream
<1>3. n = s[m] + 1
  OBVIOUS
<1> HIDE DEF t, m
<1>4. t[1] = 0
  BY <1>1, <1>2
<1>5. ASSUME NEW k \in 1..(Len(t) - 1)
      PROVE  t[k + 1] > 0 /\ (t[k] > 0 => t[k + 1] = t[k] + 1)
  <2>1. CASE k = m
    BY <1>1, <1>3, <2>1
  <2>2. CASE k < m
    <3>1. k \in 1..(m - 1) /\ t[k] = s[k] /\ t[k + 1] = s[k + 1]
      BY <1>1, <2>2
    <3> QED
      BY <1>2, <3>1
  <2>3. k = m \/ k < m
    BY <1>1
  <2> QED
    BY <2>1, <2>2, <2>3
<1>6. m <= 1 => t[2] = 1
  BY <1>1, <1>2, <1>3
<1>7. m >= 2 => t[2] = s[2]
  BY <1>1
<1>8. t \in Seq(Nat) /\ t # <<>> /\ Stream(t) /\ t[Len(t)] = n
  BY <1>1, <1>4, <1>5 DEF Stream
<1>9. t[2] \in {1, s[2]} /\ (m <= 1 => t[2] = 1)
  BY <1>1, <1>6, <1>7
<1> QED
  BY <1>8, <1>9 DEF t, m

\* What a new client is sent, or as much of it as fits, is a stream that ends
\* with the server's last step.
LEMMA StreamReplay ==
  ASSUME ChannelTypeOK, BacklogIsNewest, NEW i \in Servers, NEW n \in Nat \ {0}
  PROVE  LET p == <<0>> \o backlog[i]
         IN /\ p \in Seq(Nat) /\ p # <<>> /\ p[Len(p)] = step[i]
            /\ Stream(p) /\ (Len(p) > 1 => OpensAt(p[2]))
            /\ n < Len(p) =>
                 LET q == SubSeq(p, 1, n)
                 IN q \in Seq(Nat) /\ Len(q) = n /\ Stream(q) /\ (Len(q) > 1 => OpensAt(q[2]))
<1> DEFINE b == backlog[i]
           h == <<0>>
           p == h \o b
           q == SubSeq(p, 1, n)
           m == Len(b)
           first == step[i] - m
<1>1. /\ b \in Seq(Nat) /\ h \in Seq(Nat) /\ step[i] \in Nat
      /\ Len(h) = 1 /\ h[1] = 0 /\ m \in Nat
  BY LenProperties DEF ChannelTypeOK
<1>2. /\ m <= Backlog /\ m <= step[i]
      /\ m < Backlog => m = step[i]
      /\ \A k \in 1..m : b[k] = step[i] - m + k
  BY DEF BacklogIsNewest, Newest
<1> HIDE DEF h
<1>3. /\ p \in Seq(Nat) /\ Len(p) = Len(h) + m
      /\ \A k \in 1..(Len(h) + m) :
           p[k] = IF k <= Len(h) THEN h[k] ELSE b[k - Len(h)]
  BY <1>1, ConcatProperties, Zenon
<1> HIDE DEF b, p, m
<1>4. first \in Nat /\ (first = 0 \/ m = Backlog)
  BY <1>1, <1>2, SizeAssumption
<1>5. first + m = step[i]
  BY <1>1, <1>2
<1> HIDE DEF first
<1>6. p[1] = 0
  <2>1. 1 \in 1..(Len(h) + m) /\ 1 <= Len(h)
    BY <1>1
  <2> QED
    BY <2>1, <1>3, <1>1
<1>7. ASSUME NEW k \in 1..m
      PROVE  p[k + 1] = first + k
  <2>1. k + 1 \in 1..(Len(h) + m) /\ ~(k + 1 <= Len(h)) /\ (k + 1) - Len(h) = k
    BY <1>1
  <2>2. p[k + 1] = b[(k + 1) - Len(h)]
    BY <2>1, <1>3
  <2>3. b[k] = first + k
    BY <1>1, <1>2 DEF first
  <2> QED
    BY <2>1, <2>2, <2>3
<1>8. Len(p) = m + 1 /\ p \in Seq(Nat)
  BY <1>1, <1>3
<1>9. p # <<>> /\ p[Len(p)] = step[i]
  <2>1. CASE m = 0
    <3>1. step[i] = 0
      BY <2>1, <1>4, <1>5, SizeAssumption
    <3>2. Len(p) = 1
      BY <2>1, <1>8
    <3> QED
      BY <3>1, <3>2, <1>6, <1>8
  <2>2. CASE m >= 1
    <3>1. p[m + 1] = first + m
      BY <2>2, <1>1, <1>7
    <3> QED
      BY <3>1, <2>2, <1>1, <1>5, <1>8
  <2> QED
    BY <2>1, <2>2, <1>1
<1>10. Len(p) > 1 => OpensAt(p[2])
  <2> SUFFICES ASSUME Len(p) > 1 PROVE OpensAt(p[2])
    OBVIOUS
  <2>1. 1 \in 1..m
    BY <1>1, <1>8
  <2>2. p[1 + 1] = first + 1
    BY <2>1, <1>7
  <2>3. p[2] = first + 1
    BY <2>2
  <2>4. p[2] = 1 \/ step[i] >= p[2] + Backlog - 1
    BY <2>3, <1>1, <1>4, <1>5, SizeAssumption
  <2> QED
    BY <2>4 DEF OpensAt
<1>11. Stream(p)
  <2> SUFFICES ASSUME NEW k \in 1..(Len(p) - 1)
               PROVE  p[k + 1] > 0 /\ (p[k] > 0 => p[k + 1] = p[k] + 1)
    BY <1>6 DEF Stream
  <2>1. k \in 1..m /\ p[k + 1] = first + k
    BY <1>1, <1>7, <1>8
  <2>2. CASE k = 1
    BY <2>1, <2>2, <1>4, <1>6
  <2>3. CASE k >= 2
    <3>1. k - 1 \in 1..m
      BY <2>1, <2>3, <1>1
    <3>2. p[(k - 1) + 1] = first + (k - 1)
      BY <3>1, <1>7
    <3>3. p[k] = first + k - 1
      BY <3>2, <1>4
    <3> QED
      BY <2>1, <3>3, <1>4
  <2> QED
    BY <2>1, <2>2, <2>3
<1>12. ASSUME n < Len(p)
      PROVE  q \in Seq(Nat) /\ Len(q) = n /\ Stream(q) /\ (Len(q) > 1 => OpensAt(q[2]))
  <2>1. /\ q \in Seq(Nat) /\ Len(q) = n
        /\ \A k \in 1..n : q[k] = p[k]
    <3>1. \A k \in 1..n : p[k] \in Nat
      BY <1>1, <1>8, <1>12, ElementOfSeq
    <3>2. /\ q \in Seq(Nat)
          /\ Len(q) = IF 1 <= n THEN n - 1 + 1 ELSE 0
          /\ \A k \in 1..(n - 1 + 1) : q[k] = p[1 + k - 1]
      BY <3>1, SubSeqProperties
    <3> HIDE DEF q
    <3> QED
      BY <3>2
  <2> HIDE DEF q
  <2>2. p[1] = 0 /\ \A k \in 1..m : p[k + 1] > 0 /\ (p[k] > 0 => p[k + 1] = p[k] + 1)
    BY <1>1, <1>8, <1>9, <1>11 DEF Stream
  <2>3. \A k \in 1..(n - 1) : q[k + 1] > 0 /\ (q[k] > 0 => q[k + 1] = q[k] + 1)
    <3> SUFFICES ASSUME NEW k \in 1..(n - 1)
                 PROVE  q[k + 1] > 0 /\ (q[k] > 0 => q[k + 1] = q[k] + 1)
      OBVIOUS
    <3>1. k \in 1..m /\ q[k] = p[k] /\ q[k + 1] = p[k + 1]
      BY <2>1, <1>1, <1>8, <1>12
    <3> QED
      BY <3>1, <2>2
  <2>4. Stream(q)
    BY <2>1, <2>2, <2>3 DEF Stream
  <2>5. Len(q) > 1 => OpensAt(q[2])
    <3> SUFFICES ASSUME n >= 2 PROVE q[2] = p[2] /\ Len(p) > 1
      BY <2>1, <1>10
    <3> QED
      BY <2>1, <1>8, <1>12, <1>1
  <2> QED
    BY <2>1, <2>4, <2>5
<1> QED
  BY <1>8, <1>9, <1>10, <1>11, <1>12 DEF p, h, b

------------------------------------------------------------------------------
(* The steps.                                                              *)

LEMMA SentTyped ==
  ASSUME ChannelTypeOK, NEW c \in Conns
  PROVE  /\ got[c] \in Seq(Nat) /\ wire[c] \in Seq(Nat) /\ Sent(c) \in Seq(Nat)
         /\ got[c] = <<>> => Sent(c) = wire[c]
         /\ wire[c] = <<>> /\ got[c] = <<>> => Sent(c) = <<>>
<1>1. got[c] \in Seq(Nat) /\ wire[c] \in Seq(Nat) /\ <<>> \in Seq(Nat)
  BY DEF ChannelTypeOK
<1>2. Sent(c) \in Seq(Nat)
  BY <1>1, ConcatProperties, Zenon DEF Sent
<1>3. got[c] = <<>> => Sent(c) = wire[c]
  BY <1>1, ConcatEmptySeq, Zenon DEF Sent
<1> QED
  BY <1>1, <1>2, <1>3, Zenon

LEMMA StepsReadTyped ==
  ASSUME ChannelTypeOK, NEW c \in Conns
  PROVE  StepsRead(c) \subseteq Nat
<1>1. got[c] \in Seq(Nat)
  BY DEF ChannelTypeOK
<1> SUFFICES ASSUME NEW k \in 1..Len(got[c]) PROVE got[c][k] \in Nat
  BY DEF StepsRead
<1> QED
  BY <1>1, ElementOfSeq

LEMMA InitChannel == Init => ChannelInv
<1> SUFFICES ASSUME Init PROVE ChannelInv
  OBVIOUS
<1>10. acceptor \in [Servers -> {"loop", "exited"}]
  <2> PICK s \in Startups : acceptor = [i \in Servers |-> IF i = 1 THEN s.thread ELSE "loop"]
    BY DEF Init
  <2> QED
    BY StartupsTyped
<1>1. ChannelTypeOK
  <2>1. 1 \in Servers
    BY SizeAssumption DEF Servers
  <2>2. <<>> \in Seq(Nat) /\ <<>> \in Seq(Conns)
    OBVIOUS
  <2> QED
    BY <2>1, <2>2, <1>10 DEF Init, ChannelTypeOK
<1>2. \A i \in Servers : /\ backlog[i] = <<>> /\ pending[i] = <<>> /\ accepted[i] = 0
                         /\ step[i] = 0 /\ clients[i] = {} /\ acceptor[i] # "accepted"
  BY <1>10 DEF Init
<1>3. \A c \in Conns : wire[c] = <<>> /\ got[c] = <<>> /\ Sent(c) = <<>>
  BY <1>1, SentTyped DEF Init
<1>4. BacklogIsNewest
  BY <1>2, SizeAssumption DEF BacklogIsNewest, Newest
<1>5. OnceInLine
  BY <1>2 DEF OnceInLine
<1>6. FreshInLine
  BY <1>2, <1>3 DEF FreshInLine, InLine, Conns
<1>7. ClientsInStep /\ OneServerPerClient
  BY <1>2 DEF ClientsInStep, OneServerPerClient
<1>8. Streams
  BY <1>3, EmptySeq DEF Streams, Stream
<1>9. PeerKnown /\ WiresFit
  BY <1>3, SizeAssumption DEF Init, PeerKnown, WiresFit
<1> QED
  BY <1>1, <1>4, <1>5, <1>6, <1>7, <1>8, <1>9 DEF ChannelInv

\* A step that carries no line and makes no connection can only empty a queue,
\* forget clients or move a thread that has not accepted.
SilentStep ==
  /\ inst' \in Servers
  /\ UNCHANGED <<step, backlog, accepted, wire, got, conn, used, peer, unclaimed>>
  /\ acceptor' \in [Servers -> {"loop", "select", "accepted", "exited"}]
  /\ clients' \in [Servers -> SUBSET Conns]
  /\ pending' \in [Servers -> Seq(Conns)]
  /\ \A i \in Servers :
       /\ acceptor'[i] = "accepted" => acceptor[i] = "accepted"
       /\ clients'[i] \subseteq clients[i]
       /\ pending'[i] = <<>> \/ pending'[i] = pending[i]

LEMMA SilentKeepsChannel == ChannelInv /\ SilentStep => ChannelInv'
<1> SUFFICES ASSUME ChannelInv, SilentStep PROVE ChannelInv'
  OBVIOUS
<1>1. ChannelTypeOK'
  BY DEF ChannelInv, ChannelTypeOK, SilentStep
<1>2. \A i \in Servers : \A k \in 1..Len(pending'[i]) :
        k \in 1..Len(pending[i]) /\ pending'[i][k] = pending[i][k]
  BY DEF SilentStep
<1>3. BacklogIsNewest'
  BY DEF ChannelInv, BacklogIsNewest, SilentStep
<1>4. OnceInLine'
  <2>1. OnceInLine /\ UNCHANGED accepted
    BY DEF ChannelInv, SilentStep
  <2>2. \A i \in Servers : acceptor'[i] = "accepted" => accepted'[i] # 0
    BY <2>1 DEF SilentStep, OnceInLine
  <2>3. \A i, j \in Servers : \A k \in 1..Len(pending'[i]), l \in 1..Len(pending'[j]) :
          pending'[i][k] = pending'[j][l] => i = j /\ k = l
    BY <1>2, <2>1 DEF OnceInLine
  <2>4. \A i, j \in Servers : \A l \in 1..Len(pending'[j]) : accepted'[i] # pending'[j][l]
    BY <1>2, <2>1 DEF OnceInLine
  <2>5. \A i, j \in Servers : accepted'[i] = accepted'[j] /\ accepted'[i] # 0 => i = j
    BY <2>1, Zenon DEF OnceInLine
  <2> QED
    BY <2>2, <2>3, <2>4, <2>5, Zenon DEF OnceInLine
<1>5. FreshInLine'
  <2>1. \A c \in Conns : InLine(c)' => InLine(c)
    BY <1>2 DEF InLine, SilentStep
  <2> QED
    BY <2>1, Zenon DEF FreshInLine, ChannelInv, SilentStep
<1>6. \A c \in Conns : Sent(c)' = Sent(c)
  BY DEF Sent, SilentStep
<1>7. ClientsInStep' /\ OneServerPerClient'
  <2>1. \A i \in Servers : \A c \in clients'[i] : c \in clients[i] /\ c \in Conns
    BY DEF SilentStep
  <2>2. ClientsInStep'
    BY <1>6, <2>1 DEF ClientsInStep, ChannelInv, SilentStep
  <2>3. OneServerPerClient'
    BY <2>1, Zenon DEF OneServerPerClient, ChannelInv
  <2> QED
    BY <2>2, <2>3
<1>8. Streams'
  BY <1>6 DEF Streams, Stream, OpensAt, ChannelInv, SilentStep
<1>9. PeerKnown' /\ WiresFit'
  BY DEF PeerKnown, WiresFit, ChannelInv, SilentStep
<1> QED
  BY <1>1, <1>3, <1>4, <1>5, <1>7, <1>8, <1>9 DEF ChannelInv

\* publish(): every client that is kept gets the next step.
LEMMA PublishKeepsChannel == ChannelInv /\ Publish => ChannelInv'
<1> SUFFICES ASSUME ChannelInv, Publish PROVE ChannelInv'
  OBVIOUS
<1> DEFINE n == step[inst] + 1
<1>0. /\ ChannelTypeOK /\ inst \in Servers /\ n \in Nat /\ step[inst] \in Nat
      /\ Ready \subseteq clients[inst] /\ clients[inst] \subseteq Conns
  BY DEF ChannelInv, ChannelTypeOK, Ready
<1>1. /\ step' = [step EXCEPT ![inst] = n]
      /\ backlog' = [backlog EXCEPT ![inst] =
            IF Len(@) < Backlog THEN Append(@, n) ELSE Append(Tail(@), n)]
      /\ wire' = [c \in Conns |-> IF c \in Ready THEN Append(wire[c], n) ELSE wire[c]]
      /\ clients' = [clients EXCEPT ![inst] = @ \ (clients[inst] \ Ready)]
      /\ UNCHANGED <<inst, acceptor, accepted, pending, got, conn, used, peer, unclaimed>>
  BY DEF Publish, PublishTo, acceptVars, watchVars
<1>2. /\ step' \in [Servers -> Nat] /\ step'[inst] = n
      /\ \A i \in Servers : i # inst => step'[i] = step[i]
      /\ \A i \in Servers : step'[i] >= step[i]
  BY <1>0, <1>1 DEF ChannelTypeOK
<1>3. /\ clients' \in [Servers -> SUBSET Conns] /\ clients'[inst] = Ready
      /\ \A i \in Servers : i # inst => clients'[i] = clients[i]
  BY <1>0, <1>1 DEF ChannelTypeOK
<1>4. ASSUME NEW i \in Servers
      PROVE  backlog'[i] \in Seq(Nat) /\ Newest(backlog'[i], step'[i])
  <2>1. backlog[i] \in Seq(Nat) /\ step[i] \in Nat /\ Newest(backlog[i], step[i])
    BY <1>0 DEF ChannelTypeOK, ChannelInv, BacklogIsNewest
  <2>2. CASE i # inst
    BY <2>1, <2>2, <1>0, <1>1, <1>2 DEF ChannelTypeOK
  <2>3. CASE i = inst
    <3>1. backlog'[i] = IF Len(backlog[i]) < Backlog THEN Append(backlog[i], n)
                                                    ELSE Append(Tail(backlog[i]), n)
      BY <1>0, <1>1, <2>3 DEF ChannelTypeOK
    <3> QED
      BY <3>1, <2>1, <2>3, <1>0, <1>2, NewestAppend
  <2> QED
    BY <2>2, <2>3
<1>5. ChannelTypeOK' /\ BacklogIsNewest'
  <2>1. backlog' \in [Servers -> Seq(Nat)]
    <3>1. backlog' = [i \in Servers |-> backlog'[i]]
      BY <1>0, <1>1 DEF ChannelTypeOK
    <3> QED
      BY <3>1, <1>4
  <2>2. wire' \in [Conns -> Seq(Nat)]
    BY <1>0, <1>1, AppendProperties DEF ChannelTypeOK
  <2>3. BacklogIsNewest'
    BY <1>4 DEF BacklogIsNewest, Newest
  <2> QED
    BY <1>0, <1>1, <1>2, <1>3, <2>1, <2>2, <2>3 DEF ChannelTypeOK
<1>6. OnceInLine'
  BY <1>1 DEF ChannelInv, OnceInLine
<1>7. \A c \in Conns \ Ready : wire'[c] = wire[c] /\ Sent(c)' = Sent(c)
  BY <1>1 DEF Sent
<1>8. FreshInLine'
  <2>1. \A c \in Conns : InLine(c)' = InLine(c)
    BY <1>1 DEF InLine
  <2>2. \A c \in Conns : InLine(c) \/ c > used => c \notin Ready
    <3>1. \A c \in Conns : InLine(c) \/ c > used => Sent(c) = <<>>
      BY <1>0, SentTyped, Zenon DEF FreshInLine, ChannelInv
    <3> QED
      BY <3>1, <1>0, Zenon DEF ChannelInv, ClientsInStep
  <2> QED
    BY <2>1, <2>2, <1>1, <1>7 DEF FreshInLine, ChannelInv
<1>9. ASSUME NEW c \in Ready
      PROVE  /\ c \in Conns /\ Sent(c)' = Append(Sent(c), n)
             /\ Sent(c) \in Seq(Nat) /\ Sent(c) # <<>> /\ Sent(c)[Len(Sent(c))] = step[inst]
             /\ Stream(Sent(c))
  <2>1. c \in Conns /\ c \in clients[inst]
    BY <1>0
  <2>2. wire'[c] = Append(wire[c], n) /\ got'[c] = got[c]
    BY <1>1, <2>1
  <2>3. got[c] \o Append(wire[c], n) = Append(got[c] \o wire[c], n)
    <3>1. got[c] \in Seq(Nat) /\ wire[c] \in Seq(Nat)
      BY <2>1, <1>0, SentTyped
    <3> HIDE DEF n
    <3>2. n \in Nat
      BY <1>0
    <3> QED
      BY <3>1, <3>2, ConcatAppend, Zenon
  <2>4. Sent(c)' = Append(Sent(c), n)
    BY <2>2, <2>3 DEF Sent
  <2> QED
    BY <2>1, <2>4, <1>0, SentTyped DEF ChannelInv, ClientsInStep, Streams
<1>10. ClientsInStep' /\ OneServerPerClient'
  <2>1. OneServerPerClient'
    BY <1>0, <1>3 DEF OneServerPerClient, ChannelInv
  <2>2. ASSUME NEW i \in Servers, NEW c \in clients'[i]
        PROVE  Sent(c)' # <<>> /\ Sent(c)'[Len(Sent(c)')] = step'[i]
    <3>1. CASE i = inst
      <4>1. c \in Ready
        BY <1>3, <3>1
      <4> QED
        BY <4>1, <3>1, <1>0, <1>2, <1>9, StreamAppend
    <3>2. CASE i # inst
      <4>1. c \in Conns /\ c \in clients[i] /\ c \notin Ready
        BY <1>0, <1>3, <3>2 DEF ChannelInv, OneServerPerClient
      <4> QED
        BY <4>1, <3>2, <1>2, <1>7 DEF ChannelInv, ClientsInStep
    <3> QED
      BY <3>1, <3>2
  <2> QED
    BY <2>1, <2>2 DEF ClientsInStep
<1>11. Streams'
  <2> DEFINE Opens(m) == m = 1 \/ \E i \in Servers : step'[i] >= m + Backlog - 1
  <2>1. \A m \in Nat : OpensAt(m) => Opens(m)
    BY <1>0, <1>2, SizeAssumption DEF OpensAt, ChannelTypeOK
  <2>2. Opens(1)
    OBVIOUS
  <2> SUFFICES ASSUME NEW c \in Conns
               PROVE  Stream(Sent(c)') /\ (Len(Sent(c)') > 1 => Opens(Sent(c)'[2]))
    BY DEF Streams, Stream, OpensAt
  <2> HIDE DEF Opens
  <2>3. Stream(Sent(c)) /\ (Len(Sent(c)) > 1 => OpensAt(Sent(c)[2])) /\ Sent(c) \in Seq(Nat)
    BY <1>0, SentTyped DEF ChannelInv, Streams
  <2>4. Len(Sent(c)) > 1 => Sent(c)[2] \in Nat
    <3>1. Len(Sent(c)) \in Nat
      BY <2>3, LenProperties
    <3> QED
      BY <2>3, <3>1, ElementOfSeq
  <2>5. CASE c \in Ready
    <3>1. /\ Stream(Append(Sent(c), n))
          /\ Append(Sent(c), n)[2] \in {1, Sent(c)[2]}
          /\ Len(Sent(c)) <= 1 => Append(Sent(c), n)[2] = 1
      BY <2>5, <1>0, <1>9, StreamAppend, Zenon
    <3>2. Len(Sent(c)) <= 1 \/ Len(Sent(c)) > 1
      BY <2>3, LenProperties
    <3> QED
      BY <2>1, <2>2, <2>3, <2>4, <3>1, <3>2, <2>5, <1>9, Zenon
  <2>6. CASE c \notin Ready
    BY <2>1, <2>3, <2>4, <2>6, <1>7, Zenon
  <2> QED
    BY <2>5, <2>6
<1>12. PeerKnown'
  BY <1>1 DEF PeerKnown, ChannelInv
<1>13. WiresFit'
  <2> SUFFICES ASSUME NEW c \in Conns PROVE Len(wire'[c]) <= SockCap
    BY DEF WiresFit
  <2>1. wire[c] \in Seq(Nat) /\ Len(wire[c]) \in Nat /\ Len(wire[c]) <= SockCap
    BY <1>0, SentTyped, LenProperties DEF ChannelInv, WiresFit
  <2>2. CASE c \in Ready
    <3>1. wire'[c] = Append(wire[c], n) /\ Len(wire[c]) < SockCap
      BY <1>1, <2>2 DEF Ready
    <3> HIDE DEF n
    <3>2. Len(Append(wire[c], n)) = Len(wire[c]) + 1
      BY <1>0, <2>1, AppendProperties
    <3> QED
      BY <2>1, <3>1, <3>2, SizeAssumption
  <2>3. CASE c \notin Ready
    BY <2>1, <2>3, <1>7
  <2> QED
    BY <2>2, <2>3
<1> QED
  BY <1>5, <1>6, <1>8, <1>10, <1>11, <1>12, <1>13 DEF ChannelInv

\* accept(): the connection leaves the queue for the hands of the thread.
LEMMA AcceptKeepsChannel ==
  ASSUME ChannelInv, NEW i \in Servers, AcceptorAccept(i)
  PROVE  ChannelInv'
<1> DEFINE q == pending[i]
<1>0. ChannelTypeOK /\ q \in Seq(Conns) /\ q # <<>>
  BY DEF ChannelInv, ChannelTypeOK, AcceptorAccept
<1>1. /\ accepted' = [accepted EXCEPT ![i] = Head(q)]
      /\ pending' = [pending EXCEPT ![i] = Tail(q)]
      /\ acceptor' = [acceptor EXCEPT ![i] = "accepted"]
      /\ UNCHANGED <<inst, step, backlog, clients, wire, got, conn, used, peer, unclaimed>>
  BY DEF AcceptorAccept, serverVars, watchVars
<1>2. /\ Tail(q) \in Seq(Conns) /\ Head(q) \in Conns /\ Head(q) # 0
      /\ Len(Tail(q)) = Len(q) - 1 /\ Len(q) \in Nat /\ Len(q) >= 1
      /\ Head(q) = q[1]
      /\ \A k \in 1..Len(Tail(q)) : Tail(q)[k] = q[k + 1]
  <2>1. /\ Tail(q) \in Seq(Conns) /\ Head(q) \in Conns /\ Len(Tail(q)) = Len(q) - 1
        /\ \A k \in 1..Len(Tail(q)) : Tail(q)[k] = q[k + 1]
    BY <1>0, HeadTailProperties, Zenon
  <2>2. Len(q) \in Nat /\ Len(q) >= 1
    BY <1>0, LenProperties, EmptySeq
  <2>3. Head(q) = q[1] /\ Head(q) # 0
    BY <2>1 DEF Conns
  <2> QED
    BY <2>1, <2>2, <2>3
<1>3. /\ accepted'[i] = q[1] /\ pending'[i] = Tail(q)
      /\ \A j \in Servers : j # i => accepted'[j] = accepted[j] /\ pending'[j] = pending[j]
  BY <1>0, <1>1, <1>2 DEF ChannelTypeOK
\* Where a connection that is still queued was queued before.
<1> DEFINE at(j, k) == IF j = i THEN k + 1 ELSE k
<1>4. ASSUME NEW j \in Servers, NEW k \in 1..Len(pending'[j])
      PROVE  /\ k \in Nat /\ at(j, k) \in 1..Len(pending[j])
             /\ pending'[j][k] = pending[j][at(j, k)]
             /\ j = i => at(j, k) # 1
  <2>1. CASE j = i
    BY <2>1, <1>2, <1>3
  <2>2. CASE j # i
    BY <2>2, <1>3
  <2> QED
    BY <2>1, <2>2
<1>5. 1 \in 1..Len(q)
  BY <1>2
<1>6. OnceInLine
  BY DEF ChannelInv
<1>7. ASSUME NEW j \in Servers, NEW l \in Servers,
             NEW k \in 1..Len(pending'[j]), NEW m \in 1..Len(pending'[l]),
             pending'[j][k] = pending'[l][m]
      PROVE  j = l /\ k = m
  <2>1. j = l /\ at(j, k) = at(l, m)
    <3>1. /\ at(j, k) \in 1..Len(pending[j]) /\ at(l, m) \in 1..Len(pending[l])
          /\ pending[j][at(j, k)] = pending[l][at(l, m)]
      BY <1>4, <1>7
    <3> HIDE DEF at
    <3> QED
      BY <3>1, <1>6, Zenon DEF OnceInLine
  <2> QED
    BY <2>1, <1>4
<1>8. ASSUME NEW j \in Servers, NEW l \in Servers, NEW m \in 1..Len(pending'[l])
      PROVE  accepted'[j] # pending'[l][m]
  <2>1. CASE j = i
    <3>1. q[1] = pending[l][at(l, m)] => l = i /\ at(l, m) = 1
      BY <1>4, <1>5, <1>6 DEF OnceInLine
    <3> QED
      BY <3>1, <2>1, <1>3, <1>4
  <2>2. CASE j # i
    BY <2>2, <1>3, <1>4, <1>6 DEF OnceInLine
  <2> QED
    BY <2>1, <2>2
<1>9. ASSUME NEW j \in Servers, NEW l \in Servers,
             accepted'[j] = accepted'[l], accepted'[j] # 0
      PROVE  j = l
  <2>1. \A k \in Servers : accepted[k] # q[1]
    BY <1>5, <1>6 DEF OnceInLine
  <2> QED
    BY <2>1, <1>3, <1>6, <1>9 DEF OnceInLine
<1>10. \A j \in Servers : acceptor'[j] = "accepted" => accepted'[j] # 0
  BY <1>0, <1>1, <1>2, <1>3, <1>6 DEF OnceInLine, ChannelTypeOK
<1>11. OnceInLine'
  BY <1>7, <1>8, <1>9, <1>10, Zenon DEF OnceInLine
<1>12. ChannelTypeOK'
  BY <1>0, <1>1, <1>2 DEF ChannelTypeOK
<1>13. FreshInLine'
  <2>1. ASSUME NEW c \in Conns, InLine(c)'
        PROVE  InLine(c)
    <3>1. PICK j \in Servers :
            accepted'[j] = c \/ \E k \in 1..Len(pending'[j]) : pending'[j][k] = c
      BY <2>1 DEF InLine
    <3>2. CASE accepted'[j] = c
      BY <3>2, <1>3, <1>5 DEF InLine
    <3>3. CASE \E k \in 1..Len(pending'[j]) : pending'[j][k] = c
      BY <3>3, <1>4 DEF InLine
    <3> QED
      BY <3>1, <3>2, <3>3
  <2> QED
    BY <2>1, <1>1, Zenon DEF FreshInLine, ChannelInv
<1>14. \A c \in Conns : Sent(c)' = Sent(c)
  BY <1>1 DEF Sent
<1>15. BacklogIsNewest' /\ ClientsInStep' /\ OneServerPerClient'
  <2>1. BacklogIsNewest'
    BY <1>1 DEF BacklogIsNewest, Newest, ChannelInv
  <2>2. ClientsInStep'
    BY <1>0, <1>1, <1>14 DEF ClientsInStep, ChannelInv, ChannelTypeOK
  <2>3. OneServerPerClient'
    BY <1>1 DEF OneServerPerClient, ChannelInv
  <2> QED
    BY <2>1, <2>2, <2>3
<1>16. Streams'
  BY <1>1, <1>14 DEF Streams, Stream, OpensAt, ChannelInv
<1>17. PeerKnown' /\ WiresFit'
  BY <1>1 DEF PeerKnown, WiresFit, ChannelInv
<1> QED
  BY <1>11, <1>12, <1>13, <1>15, <1>16, <1>17 DEF ChannelInv

\* The accepted connection is sent hello and backlog and becomes a client, or
\* it is cut and closed.
LEMMA RegisterKeepsChannel ==
  ASSUME ChannelInv, NEW i \in Servers, AcceptorRegister(i)
  PROVE  ChannelInv'
<1> PICK c : c = accepted[i]
  OBVIOUS
<1> DEFINE p == <<0>> \o backlog[i]
           cut == SubSeq(p, 1, SockCap)
           sent == IF Len(p) <= SockCap THEN p ELSE cut
<1>0. ChannelTypeOK /\ OnceInLine /\ FreshInLine
  BY DEF ChannelInv
<1>1. /\ acceptor[i] = "accepted"
      /\ wire' = [wire EXCEPT ![c] = sent]
      /\ clients' = [clients EXCEPT ![i] = IF Len(p) <= SockCap THEN @ \cup {c} ELSE @]
      /\ acceptor' = [acceptor EXCEPT ![i] = "loop"]
      /\ accepted' = [accepted EXCEPT ![i] = 0]
      /\ UNCHANGED <<inst, step, backlog, pending, got, conn, used, peer, unclaimed>>
  BY DEF AcceptorRegister, RegisterWith, watchVars
<1>2. c \in Conns /\ c # 0
  BY <1>0, <1>1 DEF ChannelTypeOK, OnceInLine
<1>3. InLine(c) /\ c <= used /\ wire[c] = <<>> /\ got[c] = <<>> /\ Sent(c) = <<>>
  <2>1. InLine(c)
    BY <1>2 DEF InLine
  <2>2. c <= used /\ wire[c] = <<>> /\ got[c] = <<>>
    BY <2>1, <1>0, <1>2, Zenon DEF FreshInLine
  <2> QED
    BY <2>1, <2>2, <1>0, <1>2, SentTyped
<1>4. /\ p \in Seq(Nat) /\ p # <<>> /\ p[Len(p)] = step[i] /\ Len(sent) <= SockCap
      /\ sent \in Seq(Nat) /\ Stream(sent) /\ (Len(sent) > 1 => OpensAt(sent[2]))
  <2>1. SockCap \in Nat \ {0} /\ BacklogIsNewest
    BY SizeAssumption DEF ChannelInv
  <2>2. /\ p \in Seq(Nat) /\ p # <<>> /\ p[Len(p)] = step[i]
        /\ Stream(p) /\ (Len(p) > 1 => OpensAt(p[2]))
        /\ SockCap < Len(p) =>
             cut \in Seq(Nat) /\ Stream(cut) /\ (Len(cut) > 1 => OpensAt(cut[2]))
    BY <2>1, <1>0, StreamReplay
  <2>3. Len(p) <= SockCap \/ SockCap < Len(p)
    BY <2>1, <2>2, LenProperties
  <2>4. SockCap < Len(p) => Len(cut) = SockCap
    BY <2>1, <2>2, StreamReplay, <1>0
  <2> HIDE DEF p, cut
  <2> QED
    BY <2>1, <2>2, <2>3, <2>4
<1> HIDE DEF p, sent
<1>5. /\ wire'[c] = sent /\ Sent(c)' = sent
      /\ \A d \in Conns : d # c => wire'[d] = wire[d] /\ Sent(d)' = Sent(d)
  <2>1. wire'[c] = sent /\ \A d \in Conns : d # c => wire'[d] = wire[d]
    BY <1>0, <1>1, <1>2 DEF ChannelTypeOK
  <2>2. Sent(c)' = <<>> \o sent
    BY <2>1, <1>1, <1>3 DEF Sent
  <2> QED
    BY <2>1, <2>2, <1>1, <1>4, ConcatEmptySeq DEF Sent
<1>6. /\ accepted'[i] = 0
      /\ \A j \in Servers : j # i => accepted'[j] = accepted[j]
  BY <1>0, <1>1 DEF ChannelTypeOK
<1>7. ChannelTypeOK'
  <2>1. clients' \in [Servers -> SUBSET Conns]
    BY <1>0, <1>1, <1>2 DEF ChannelTypeOK
  <2>2. wire' \in [Conns -> Seq(Nat)]
    BY <1>0, <1>1, <1>4 DEF ChannelTypeOK
  <2> QED
    BY <2>1, <2>2, <1>0, <1>1 DEF ChannelTypeOK
<1>8. OnceInLine'
  <2>1. \A j \in Servers : acceptor'[j] = "accepted" => j # i /\ acceptor[j] = "accepted"
    BY <1>0, <1>1 DEF ChannelTypeOK
  <2>2. \A j \in Servers : \A l \in 1..Len(pending'[j]) : pending'[j][l] # 0
    <3> SUFFICES ASSUME NEW j \in Servers, NEW l \in 1..Len(pending[j]) PROVE pending[j][l] # 0
      BY <1>1
    <3>1. pending[j] \in Seq(Conns)
      BY <1>0 DEF ChannelTypeOK
    <3>2. pending[j][l] \in Conns
      BY <3>1, ElementOfSeq
    <3> QED
      BY <3>2 DEF Conns
  <2>3. \A j, k \in Servers : \A l \in 1..Len(pending'[k]) : accepted'[j] # pending'[k][l]
    BY <2>2, <1>0, <1>1, <1>6 DEF OnceInLine
  <2>4. \A j, k \in Servers : accepted'[j] = accepted'[k] /\ accepted'[j] # 0 => j = k
    BY <1>0, <1>6 DEF OnceInLine
  <2>5. \A j \in Servers : acceptor'[j] = "accepted" => accepted'[j] # 0
    BY <2>1, <1>0, <1>6 DEF OnceInLine
  <2>6. UNCHANGED pending
    BY <1>1
  <2> QED
    BY <2>3, <2>4, <2>5, <2>6, <1>0 DEF OnceInLine
<1>9. ASSUME NEW d \in Conns, InLine(d)'
      PROVE  InLine(d) /\ d # c
  <2>1. PICK j \in Servers :
          accepted'[j] = d \/ \E k \in 1..Len(pending[j]) : pending[j][k] = d
    BY <1>1, <1>9 DEF InLine
  <2>2. CASE accepted'[j] = d
    <3>1. j # i
      BY <2>2, <1>6 DEF Conns
    <3>2. accepted[j] = d /\ d # 0
      BY <2>2, <3>1, <1>6 DEF Conns
    <3> QED
      BY <3>1, <3>2, <1>0 DEF InLine, OnceInLine
  <2>3. CASE \E k \in 1..Len(pending[j]) : pending[j][k] = d
    BY <2>3, <1>0 DEF InLine, OnceInLine
  <2> QED
    BY <2>1, <2>2, <2>3
<1>10. FreshInLine'
  <2>1. ASSUME NEW d \in Conns, d > used PROVE d # c
    BY <2>1, <1>3, <1>0, <1>2 DEF ChannelTypeOK, Conns
  <2> QED
    BY <2>1, <1>0, <1>1, <1>5, <1>9 DEF FreshInLine
<1>11. \A j \in Servers : c \notin clients[j]
  BY <1>3 DEF ChannelInv, ClientsInStep
<1>12. ASSUME NEW j \in Servers, NEW d \in clients'[j]
       PROVE  /\ d \in Conns
              /\ \/ d # c /\ d \in clients[j]
                 \/ d = c /\ j = i /\ sent = p
  BY <1>0, <1>1, <1>2, <1>11 DEF ChannelTypeOK, sent
<1>13. ClientsInStep'
  <2> SUFFICES ASSUME NEW j \in Servers, NEW d \in clients'[j]
               PROVE  Sent(d)' # <<>> /\ Sent(d)'[Len(Sent(d)')] = step'[j]
    BY DEF ClientsInStep
  <2>1. CASE d # c /\ d \in clients[j]
    BY <2>1, <1>1, <1>5, <1>12 DEF ChannelInv, ClientsInStep
  <2>2. CASE d = c /\ j = i /\ sent = p
    BY <2>2, <1>1, <1>4, <1>5
  <2> QED
    BY <2>1, <2>2, <1>12
<1>14. OneServerPerClient'
  BY <1>12, <1>11 DEF ChannelInv, OneServerPerClient
<1>15. Streams'
  <2> SUFFICES ASSUME NEW d \in Conns
               PROVE  Stream(Sent(d)') /\ (Len(Sent(d)') > 1 => OpensAt(Sent(d)'[2]))
    BY <1>1 DEF Streams, Stream, OpensAt
  <2>1. CASE d = c
    BY <2>1, <1>4, <1>5
  <2>2. CASE d # c
    BY <2>2, <1>5 DEF ChannelInv, Streams
  <2> QED
    BY <2>1, <2>2
<1>16. BacklogIsNewest' /\ PeerKnown'
  BY <1>1 DEF ChannelInv, BacklogIsNewest, Newest, PeerKnown
<1>17. WiresFit'
  BY <1>4, <1>5 DEF ChannelInv, WiresFit
<1> QED
  BY <1>7, <1>8, <1>10, <1>13, <1>14, <1>15, <1>16, <1>17 DEF ChannelInv

\* connect(): a connection with a number of its own enters a queue.
Connects ==
  /\ conn = 0 /\ bound /\ listening[inst] # {} /\ used < MaxConns
  /\ used' = used + 1 /\ conn' = used'
  /\ pending' = [pending EXCEPT ![inst] = Append(@, used')]
  /\ UNCHANGED <<serverVars, acceptVars, held, wire, worker, peer, got, unclaimed>>

LEMMA ConnectKeepsChannel == ChannelInv /\ Connects => ChannelInv'
<1> SUFFICES ASSUME ChannelInv, Connects PROVE ChannelInv'
  OBVIOUS
<1> PICK c : c = used + 1
  OBVIOUS
<1> DEFINE q == pending[inst]
<1>0. /\ ChannelTypeOK /\ OnceInLine /\ FreshInLine /\ inst \in Servers
      /\ q \in Seq(Conns) /\ Len(q) \in Nat
  BY LenProperties DEF ChannelInv, ChannelTypeOK
<1>1. c \in Conns /\ c > used /\ c # 0 /\ used \in Nat
  BY <1>0, SizeAssumption DEF Connects, ChannelTypeOK, Conns
<1>2. /\ used' = c /\ conn' = c
      /\ pending' = [pending EXCEPT ![inst] = Append(q, c)]
      /\ UNCHANGED <<inst, step, backlog, clients, acceptor, accepted, wire, got, peer, unclaimed>>
  BY DEF Connects, serverVars, acceptVars
<1>3. /\ Append(q, c) \in Seq(Conns) /\ Len(Append(q, c)) = Len(q) + 1
      /\ \A k \in 1..Len(q) : Append(q, c)[k] = q[k]
      /\ Append(q, c)[Len(q) + 1] = c
  BY <1>0, <1>1, AppendProperties
<1>4. /\ pending'[inst] = Append(q, c)
      /\ \A i \in Servers : i # inst => pending'[i] = pending[i]
  BY <1>0, <1>2 DEF ChannelTypeOK
<1>5. wire[c] = <<>> /\ got[c] = <<>> /\ ~InLine(c)
  <2>1. ~(c <= used)
    BY <1>1 DEF Conns
  <2> QED
    BY <2>1, <1>0, <1>1, Zenon DEF FreshInLine
<1>6. ASSUME NEW i \in Servers, NEW k \in 1..Len(pending'[i])
      PROVE  \/ k \in 1..Len(pending[i]) /\ pending'[i][k] = pending[i][k]
             \/ i = inst /\ k = Len(q) + 1 /\ pending'[i][k] = c
  <2>1. CASE i = inst
    <3>1. k \in 1..Len(q) \/ k = Len(q) + 1
      BY <2>1, <1>0, <1>3, <1>4
    <3> QED
      BY <3>1, <2>1, <1>3, <1>4
  <2>2. CASE i # inst
    BY <2>2, <1>4
  <2> QED
    BY <2>1, <2>2
<1>7. /\ \A i \in Servers : accepted[i] # c
      /\ \A i \in Servers : \A k \in 1..Len(pending[i]) : pending[i][k] # c
  BY <1>5 DEF InLine
<1>8. OnceInLine'
  <2>1. ASSUME NEW i \in Servers, NEW j \in Servers,
               NEW k \in 1..Len(pending'[i]), NEW l \in 1..Len(pending'[j]),
               pending'[i][k] = pending'[j][l]
        PROVE  i = j /\ k = l
    <3>1. CASE k \in 1..Len(pending[i]) /\ pending'[i][k] = pending[i][k]
      <4>1. pending'[j][l] # c
        BY <3>1, <2>1, <1>7
      <4>2. l \in 1..Len(pending[j]) /\ pending'[j][l] = pending[j][l]
        BY <4>1, <1>6
      <4>3. pending[i][k] = pending[j][l]
        BY <3>1, <4>2, <2>1
      <4>4. \A x, y \in Servers : \A v \in 1..Len(pending[x]), w \in 1..Len(pending[y]) :
              pending[x][v] = pending[y][w] => x = y /\ v = w
        BY <1>0, Zenon DEF OnceInLine
      <4> QED
        BY <3>1, <4>2, <4>3, <4>4, Zenon
    <3>2. CASE i = inst /\ k = Len(q) + 1 /\ pending'[i][k] = c
      <4>1. ~(l \in 1..Len(pending[j]) /\ pending'[j][l] = pending[j][l])
        BY <3>2, <2>1, <1>7
      <4> QED
        BY <3>2, <4>1, <1>6
    <3> QED
      BY <3>1, <3>2, <1>6
  <2>2. \A i, j \in Servers : \A l \in 1..Len(pending'[j]) : accepted[i] # pending'[j][l]
    BY <1>6, <1>7, <1>0 DEF OnceInLine
  <2>3. UNCHANGED <<accepted, acceptor>>
    BY <1>2
  <2> QED
    BY <2>1, <2>2, <2>3, <1>0 DEF OnceInLine
<1>9. FreshInLine'
  <2>1. ASSUME NEW d \in Conns, InLine(d)'
        PROVE  InLine(d) \/ d = c
    BY <2>1, <1>2, <1>6 DEF InLine
  <2>2. \A d \in Conns : d > c => d > used
    BY <1>0, <1>1 DEF Conns
  <2>3. \A d \in Conns : d <= used => d <= c
    BY <1>0, <1>1 DEF Conns
  <2>4. c <= c
    BY <1>1 DEF Conns
  <2> QED
    BY <2>1, <2>2, <2>3, <2>4, <1>0, <1>2, <1>5 DEF FreshInLine
<1>10. ChannelTypeOK'
  BY <1>0, <1>1, <1>2, <1>3 DEF ChannelTypeOK
<1>11. \A d \in Conns : Sent(d)' = Sent(d)
  BY <1>2 DEF Sent
<1>12. BacklogIsNewest' /\ ClientsInStep' /\ OneServerPerClient' /\ Streams'
  <2>1. BacklogIsNewest'
    BY <1>2 DEF BacklogIsNewest, Newest, ChannelInv
  <2>2. ClientsInStep'
    BY <1>0, <1>2, <1>11 DEF ClientsInStep, ChannelInv, ChannelTypeOK
  <2>3. OneServerPerClient'
    BY <1>2 DEF OneServerPerClient, ChannelInv
  <2>4. Streams'
    BY <1>2, <1>11 DEF Streams, Stream, OpensAt, ChannelInv
  <2> QED
    BY <2>1, <2>2, <2>3, <2>4
<1>13. PeerKnown' /\ WiresFit'
  <2>1. WiresFit' /\ peer' = 0
    BY <1>2 DEF WiresFit, ChannelInv, Connects, PeerKnown
  <2>2. ASSUME NEW d \in Conns, unclaimed[d] # <<>>
        PROVE  d # c /\ d <= c /\ Len(unclaimed[d]) <= SockCap
    BY <2>2, <1>0, <1>1 DEF PeerKnown, ChannelInv, Conns
  <2>3. c <= c
    BY <1>1 DEF Conns
  <2>4. conn' = c /\ used' = c /\ got'[c] = <<>> /\ unclaimed' = unclaimed
    BY <1>2, <1>5
  <2> QED
    BY <2>1, <2>2, <2>3, <2>4 DEF PeerKnown
<1> QED
  BY <1>8, <1>9, <1>10, <1>12, <1>13 DEF ChannelInv

\* drain: what has arrived on the connection is read.
LEMMA DrainKeepsChannel ==
  ASSUME ChannelInv, NEW over \in BOOLEAN, DrainUntil(over, FALSE), conn # 0
  PROVE  ChannelInv'
<1> PICK c : c = conn
  OBVIOUS
<1>0. ChannelTypeOK /\ c \in Conns /\ got[c] \in Seq(Nat) /\ wire[c] \in Seq(Nat)
  BY DEF ChannelInv, ChannelTypeOK
<1>1. /\ got' = [got EXCEPT ![c] = got[c] \o wire[c]]
      /\ wire' = [wire EXCEPT ![c] = <<>>]
      /\ conn' = IF over THEN 0 ELSE c
      /\ peer' = IF over THEN 0 ELSE IF Contains(wire[c], 0) THEN c ELSE peer
      /\ unclaimed' = [unclaimed EXCEPT ![c] =
           IF peer' = 0 THEN unclaimed[c] \o wire[c] ELSE unclaimed[c]]
      /\ UNCHANGED <<inst, step, backlog, clients, acceptor, accepted, pending, used>>
  BY DEF DrainUntil, serverVars, acceptVars
<1>2. got[c] \o wire[c] \in Seq(Nat) /\ <<>> \in Seq(Nat)
  BY <1>0, ConcatProperties
<1>3. /\ got'[c] = got[c] \o wire[c] /\ wire'[c] = <<>>
      /\ \A d \in Conns : d # c => got'[d] = got[d] /\ wire'[d] = wire[d]
  BY <1>0, <1>1 DEF ChannelTypeOK
<1>4. ChannelTypeOK'
  <2>1. unclaimed[c] \in Seq(Nat) /\ unclaimed[c] \o wire[c] \in Seq(Nat)
    BY <1>0, ConcatProperties DEF ChannelTypeOK
  <2> QED
    BY <2>1, <1>0, <1>1, <1>2 DEF ChannelTypeOK
<1>5. \A d \in Conns : Sent(d)' = Sent(d)
  <2>1. (got[c] \o wire[c]) \o <<>> = got[c] \o wire[c]
    BY <1>2, ConcatEmptySeq
  <2> QED
    BY <2>1, <1>3 DEF Sent
<1>6. \A d \in Conns : wire[d] = <<>> /\ got[d] = <<>> => wire'[d] = <<>> /\ got'[d] = <<>>
  <2>1. <<>> \o <<>> = <<>>
    BY <1>2, ConcatEmptySeq
  <2> QED
    BY <2>1, <1>0, <1>3
<1>7. FreshInLine' /\ OnceInLine'
  <2>1. \A d \in Conns : InLine(d)' = InLine(d)
    BY <1>1 DEF InLine
  <2>2. FreshInLine'
    BY <2>1, <1>1, <1>6 DEF FreshInLine, ChannelInv
  <2>3. OnceInLine'
    BY <1>1 DEF OnceInLine, ChannelInv
  <2> QED
    BY <2>2, <2>3
<1>8. BacklogIsNewest' /\ ClientsInStep' /\ OneServerPerClient' /\ Streams'
  <2>1. BacklogIsNewest'
    BY <1>1 DEF BacklogIsNewest, Newest, ChannelInv
  <2>2. ClientsInStep'
    BY <1>0, <1>1, <1>5 DEF ClientsInStep, ChannelInv, ChannelTypeOK
  <2>3. OneServerPerClient'
    BY <1>1 DEF OneServerPerClient, ChannelInv
  <2>4. Streams'
    BY <1>1, <1>5 DEF Streams, Stream, OpensAt, ChannelInv
  <2> QED
    BY <2>1, <2>2, <2>3, <2>4
\* The first line read is the hello.
<1>9. wire[c] # <<>> /\ got[c] = <<>> => Contains(wire[c], 0)
  <2> SUFFICES ASSUME wire[c] # <<>>, got[c] = <<>> PROVE Contains(wire[c], 0)
    OBVIOUS
  <2>1. Sent(c) = wire[c]
    BY <1>0, SentTyped
  <2>2. wire[c][1] = 0
    BY <2>1, <1>0 DEF ChannelInv, Streams, Stream
  <2>3. 1 \in 1..Len(wire[c])
    BY <1>0, EmptySeq, LenProperties
  <2> QED
    BY <2>2, <2>3 DEF Contains
<1>10. c # 0 /\ unclaimed[c] = <<>> /\ peer \in {0, c} /\ (got[c] # <<>> => peer = c)
  BY <1>0 DEF PeerKnown, ChannelInv, Conns
<1>11. got'[c] # <<>> => got[c] # <<>> \/ wire[c] # <<>>
  BY <1>2, <1>3, ConcatEmptySeq
<1>12. ~over /\ got'[c] # <<>> => peer' = c
  BY <1>1, <1>9, <1>10, <1>11
\* Nobody claims what the last poll has read, and nothing else.
<1>13. unclaimed'[c] # <<>> => over /\ unclaimed'[c] = wire[c]
  <2> SUFFICES ASSUME unclaimed'[c] # <<>> PROVE over /\ unclaimed'[c] = wire[c]
    OBVIOUS
  <2>1. peer' = 0 /\ unclaimed'[c] = <<>> \o wire[c]
    BY <1>0, <1>1, <1>10 DEF ChannelTypeOK
  <2>2. unclaimed'[c] = wire[c]
    BY <2>1, <1>0, ConcatEmptySeq
  <2>3. over
    BY <2>1, <2>2, <1>1, <1>9, <1>10
  <2> QED
    BY <2>2, <2>3
<1>14. PeerKnown'
  <2>1. ASSUME NEW d \in Conns, unclaimed'[d] # <<>>
        PROVE  d # conn' /\ d <= used /\ Len(unclaimed'[d]) <= SockCap
    <3>1. CASE d = c
      <4>1. c <= used
        BY DEF ChannelInv, PeerKnown
      <4> QED
        BY <3>1, <4>1, <2>1, <1>0, <1>1, <1>10, <1>13 DEF ChannelInv, WiresFit
    <3>2. CASE d # c
      <4>1. unclaimed'[d] = unclaimed[d]
        BY <3>2, <1>0, <1>1 DEF ChannelTypeOK
      <4>2. d <= used /\ Len(unclaimed[d]) <= SockCap
        BY <4>1, <2>1 DEF ChannelInv, PeerKnown
      <4> QED
        BY <3>2, <4>1, <4>2, <1>1 DEF Conns
    <3> QED
      BY <3>1, <3>2
  <2>2. used' = used /\ conn' = (IF over THEN 0 ELSE c)
    BY <1>1
  <2>3. conn' <= used'
    BY <2>2, <1>0, SizeAssumption DEF ChannelInv, PeerKnown, ChannelTypeOK, Conns
  <2>4. peer' \in {0, conn'}
    BY <2>2, <1>1, <1>10
  <2>5. conn' # 0 /\ got'[conn'] # <<>> => peer' = conn'
    BY <2>2, <1>12
  <2> QED
    BY <2>1, <2>2, <2>3, <2>4, <2>5 DEF PeerKnown
<1>15. WiresFit'
  BY <1>0, <1>3, SizeAssumption DEF ChannelInv, WiresFit
<1> QED
  BY <1>4, <1>7, <1>8, <1>14, <1>15 DEF ChannelInv

\* The steps of close(), start(), the idle accept thread, the fork and the
\* worker carry no line.
LEMMA SilentActions ==
  ASSUME ChannelInv, NEW i \in Servers
  PROVE  CloseFlag \/ CloseClients \/ CloseSocket \/ CloseUnlink \/ CloseDeaf \/ Restart
           \/ AcceptorLoop(i) \/ AcceptorIdle(i) \/ Worker \/ UNCHANGED vars
           => SilentStep
<1>0. /\ inst \in Servers /\ inst + 1 \in Nat
      /\ clients \in [Servers -> SUBSET Conns] /\ pending \in [Servers -> Seq(Conns)]
      /\ acceptor \in [Servers -> {"loop", "select", "accepted", "exited"}]
      /\ <<>> \in Seq(Conns)
  BY SizeAssumption DEF ChannelInv, ChannelTypeOK, Servers
<1>1. ASSUME /\ inst' \in Servers
             /\ UNCHANGED <<step, backlog, accepted, wire, got, conn, used, peer, unclaimed,
                            acceptor, clients, pending>>
      PROVE  SilentStep
  BY <1>0, <1>1 DEF SilentStep
<1>2. CASE CloseFlag \/ CloseUnlink \/ CloseDeaf \/ UNCHANGED vars
  BY <1>0, <1>1, <1>2 DEF CloseFlag, CloseUnlink, CloseDeaf, vars, serverVars, acceptVars, watchVars
<1>3. CASE Restart
  <2>1. inst' \in Servers
    BY <1>0, <1>3, SizeAssumption DEF Restart, Servers
  <2>2. PICK s \in Startups : acceptor' = [acceptor EXCEPT ![inst'] = s.thread]
    BY <1>3 DEF Restart
  <2>3. s.thread \in {"loop", "exited"}
    BY StartupsTyped
  <2>4. UNCHANGED <<step, backlog, accepted, wire, got, conn, used, peer, unclaimed, clients, pending>>
    BY <1>3 DEF Restart, watchVars
  <2>5. /\ acceptor' \in [Servers -> {"loop", "select", "accepted", "exited"}]
        /\ \A j \in Servers : acceptor'[j] = "accepted" => acceptor[j] = "accepted"
    BY <1>0, <2>1, <2>2, <2>3
  <2> QED
    BY <1>0, <2>1, <2>4, <2>5 DEF SilentStep
<1>4. CASE CloseClients
  <2>1. /\ clients' = [clients EXCEPT ![inst] = {}]
        /\ UNCHANGED <<inst, step, backlog, acceptor, accepted, pending, wire, got, conn, used, peer, unclaimed>>
    BY <1>4 DEF CloseClients, acceptVars, watchVars
  <2> QED
    BY <2>1, <1>0 DEF SilentStep
<1>5. ASSUME pending' = Queues(listening'),
             UNCHANGED <<inst, step, backlog, clients, acceptor, accepted, wire, got, conn, used, peer, unclaimed>>
      PROVE  SilentStep
  <2>1. pending' \in [Servers -> Seq(Conns)]
        /\ \A j \in Servers : pending'[j] = <<>> \/ pending'[j] = pending[j]
    BY <1>0, <1>5 DEF Queues
  <2> QED
    BY <2>1, <1>0, <1>5 DEF SilentStep
<1>6. CASE CloseSocket
  BY <1>5, <1>6 DEF CloseSocket, acceptVars, watchVars
<1>7. CASE AcceptorLoop(i) \/ AcceptorIdle(i)
  <2>1. /\ acceptor' \in {[acceptor EXCEPT ![i] = "select"], [acceptor EXCEPT ![i] = "exited"],
                          [acceptor EXCEPT ![i] = "loop"]}
        /\ UNCHANGED <<inst, step, backlog, clients, pending, accepted, wire, got, conn, used, peer, unclaimed>>
    BY <1>7 DEF AcceptorLoop, AcceptorIdle, serverVars, watchVars
  <2> QED
    BY <2>1, <1>0 DEF SilentStep
<1>8. CASE Worker
  <2>1. CASE Fork
    BY <1>0, <1>1, <2>1 DEF Fork, acceptVars, watchVars
  <2>2. CASE WorkerClose
    BY <1>0, <1>1, <2>2 DEF WorkerClose, vars, serverVars, acceptVars, watchVars
  <2>3. CASE WorkerExit
    BY <1>5, <2>3 DEF WorkerExit, acceptVars, watchVars
  <2> QED
    BY <1>8, <2>1, <2>2, <2>3 DEF Worker
<1> QED
  BY <1>2, <1>3, <1>4, <1>6, <1>7, <1>8

LEMMA WatcherKeepsChannel == ChannelInv /\ Watcher => ChannelInv'
<1> SUFFICES ASSUME ChannelInv, Watcher PROVE ChannelInv'
  OBVIOUS
<1>0. ChannelTypeOK /\ inst \in Servers
  BY DEF ChannelInv, ChannelTypeOK
<1>1. CASE PollConnect
  <2>1. Connects \/ UNCHANGED <<serverVars, acceptVars, wire, peer, got, unclaimed, used, conn, pending>>
    BY <1>1 DEF PollConnect, Connects
  <2>2. ASSUME UNCHANGED <<serverVars, acceptVars, wire, peer, got, unclaimed, used, conn, pending>>
        PROVE  ChannelInv'
    <3>1. SilentStep
      BY <1>0, <2>2 DEF SilentStep, ChannelTypeOK, serverVars, acceptVars
    <3> QED
      BY <3>1, SilentKeepsChannel
  <2> QED
    BY <2>1, <2>2, ConnectKeepsChannel
<1>2. CASE PollDrain /\ conn = 0
  <2>1. SilentStep
    BY <1>0, <1>2 DEF PollDrain, DrainUntil, SilentStep, ChannelTypeOK, serverVars, acceptVars
  <2> QED
    BY <2>1, SilentKeepsChannel
<1>3. CASE PollDrain /\ conn # 0
  <2>1. AtEnd(conn) \in BOOLEAN
    BY DEF AtEnd
  <2> QED
    BY <2>1, <1>3, DrainKeepsChannel DEF PollDrain
<1> QED
  BY <1>1, <1>2, <1>3 DEF Watcher

LEMMA NextChannel == ChannelInv /\ [Next]_vars => ChannelInv'
<1> SUFFICES ASSUME ChannelInv, [Next]_vars PROVE ChannelInv'
  OBVIOUS
<1>1. CASE \E i \in Servers : Acceptor(i)
  <2> PICK i \in Servers : Acceptor(i)
    BY <1>1
  <2> QED
    BY SilentActions, SilentKeepsChannel, AcceptKeepsChannel, RegisterKeepsChannel DEF Acceptor
<1>2. CASE Trainer \/ Worker \/ UNCHANGED vars
  <2>1. inst \in Servers
    BY DEF ChannelInv, ChannelTypeOK
  <2> QED
    BY <2>1, <1>2, SilentActions, SilentKeepsChannel, PublishKeepsChannel DEF Trainer
<1>3. CASE Watcher
  BY <1>3, WatcherKeepsChannel
<1> QED
  BY <1>1, <1>2, <1>3 DEF Next

LEMMA ChannelInvariance == Spec => []ChannelInv
BY InitChannel, NextChannel, PTL DEF Spec

------------------------------------------------------------------------------
(* What the invariant says.                                                *)

\* No event is lost, repeated or reordered within a connection, whatever the
\* buffer size, the number of watchers' connections and of steps (_send drops
\* the client that misses one).
THEOREM NoGapCorrectness == Spec => []NoGapWithinConnection
<1>1. ChannelInv => NoGapWithinConnection
  <2> SUFFICES ASSUME ChannelInv, NEW c \in Conns, NEW k \in 1..(Len(Sent(c)) - 1)
               PROVE  Sent(c)[k + 1] > 0 /\ (Sent(c)[k] > 0 => Sent(c)[k + 1] = Sent(c)[k] + 1)
    BY DEF NoGapWithinConnection
  <2>1. Stream(Sent(c)) /\ Sent(c) \in Seq(Nat)
    BY SentTyped DEF ChannelInv, Streams
  <2>2. Sent(c) # <<>>
    <3>1. Len(Sent(c)) \in Nat
      BY <2>1, LenProperties
    <3> QED
      BY <3>1
  <2> QED
    BY <2>1, <2>2 DEF Stream
<1> QED
  BY <1>1, ChannelInvariance, PTL

\* The watcher knows the process a step belongs to from the first step of the
\* connection on, because the hello opens every stream (_accept_loop), and
\* forgets it with the connection; only the poll that meets the end of file
\* returns steps of a peer it has forgotten (poll).
THEOREM PeerCorrectness == Spec => []StepsHaveAPeer
<1>1. ChannelInv => StepsHaveAPeer
  <2> SUFFICES ASSUME ChannelInv, conn # 0, StepsRead(conn) # {} PROVE peer = conn
    BY DEF StepsHaveAPeer, ChannelInv, PeerKnown
  <2>1. conn \in Conns /\ got[conn] \in Seq(Nat)
    BY DEF ChannelInv, ChannelTypeOK
  <2>2. got[conn] # <<>>
    BY DEF StepsRead
  <2> QED
    BY <2>2 DEF ChannelInv, PeerKnown
<1> QED
  BY <1>1, ChannelInvariance, PTL

\* The replay covers what a reconnecting watcher has missed as long as no more
\* than the backlog was published (deque(maxlen=_BACKLOG)).
THEOREM ReplayCorrectness == Spec => []LossNeedsBacklogOverrun
<1>1. ChannelInv => LossNeedsBacklogOverrun
  <2> SUFFICES ASSUME ChannelInv, NEW c \in Conns, NEW d \in Conns,
                      NEW m \in StepsRead(c), NEW n \in StepsRead(d),
                      \A k \in StepsRead(d) : n <= k,
                      n > m + 1
               PROVE  \E i \in Servers : step[i] > m + Backlog
    BY DEF LossNeedsBacklogOverrun
  <2> DEFINE s == Sent(d)
             g == got[d]
  <2>1. /\ s \in Seq(Nat) /\ g \in Seq(Nat) /\ wire[d] \in Seq(Nat) /\ got[c] \in Seq(Nat)
        /\ step \in [Servers -> Nat]
    BY SentTyped DEF ChannelInv, ChannelTypeOK
  <2>2. m \in Nat /\ n \in Nat /\ Len(g) \in Nat
    BY <2>1, StepsReadTyped, LenProperties DEF ChannelInv
  <2>3. Len(s) = Len(g) + Len(wire[d]) /\ Len(wire[d]) \in Nat
        /\ \A k \in 1..Len(g) : s[k] = g[k]
    <3>1. Len(g) \in Nat /\ Len(wire[d]) \in Nat
      BY <2>1, LenProperties
    <3>2. Len(s) = Len(g) + Len(wire[d])
          /\ \A k \in 1..(Len(g) + Len(wire[d])) :
               s[k] = IF k <= Len(g) THEN g[k] ELSE wire[d][k - Len(g)]
      BY <2>1, ConcatProperties, Zenon DEF Sent
    <3> HIDE DEF s, g
    <3>3. ASSUME NEW k \in 1..Len(g) PROVE s[k] = g[k]
      <4>1. k \in 1..(Len(g) + Len(wire[d])) /\ k <= Len(g)
        BY <3>1
      <4> QED
        BY <4>1, <3>2
    <3> QED
      BY <3>1, <3>2, <3>3
  <2>4. Stream(s) /\ (Len(s) > 1 => OpensAt(s[2]))
    BY DEF ChannelInv, Streams
  <2>5. PICK k \in 1..Len(g) : g[k] = n /\ n # 0
    BY DEF StepsRead
  <2>6. s # <<>> /\ s[1] = 0
    <3> HIDE DEF s, g
    <3>1. Len(s) >= 1
      BY <2>2, <2>3, <2>5
    <3> QED
      BY <3>1, <2>4 DEF Stream
  <2> HIDE DEF s, g
  <2>7. k # 1
    BY <2>3, <2>5, <2>6
  <2>8. 2 \in 1..Len(g) /\ Len(s) > 1 /\ 1 \in 1..(Len(s) - 1)
    BY <2>2, <2>3, <2>5, <2>7
  <2>9. s[1 + 1] > 0
    BY <2>4, <2>6, <2>8 DEF Stream
  <2>10. g[2] = s[2] /\ s[2] \in Nat /\ s[2] # 0
    <3>1. g[2] = s[2] /\ g[2] \in Nat
      BY <2>1, <2>3, <2>8, ElementOfSeq
    <3> QED
      BY <3>1, <2>9
  <2>11. n <= s[2]
    <3>1. g[2] \in StepsRead(d)
      BY <2>8, <2>10 DEF StepsRead, g
    <3> QED
      BY <3>1, <2>10
  <2>12. PICK i \in Servers : step[i] >= s[2] + Backlog - 1
    BY <2>2, <2>4, <2>8, <2>10, <2>11 DEF OpensAt
  <2> QED
    BY <2>1, <2>2, <2>10, <2>11, <2>12, SizeAssumption, SMTT(30)
<1> QED
  BY <1>1, ChannelInvariance, PTL
==============================================================================
