----------------------------- MODULE HookApiProofs -----------------------------
(***************************************************************************)
(* HookApi: however a program begins and ends its steps, starts and stops  *)
(* its hooks, the steps a hook publishes tile the run; and the parts of a  *)
(* step fit into it, and its tokens are those that were counted in it,     *)
(* where the loop uses the context managers or the Trainer's callback.     *)
(*                                                                         *)
(* `TimeIsTiled` compares two messages.  It is inductive together with     *)
(* what relates a message to its hook (`Filed`): a hook's newest step ends *)
(* where the next one will begin, and no message is numbered beyond it.    *)
(* `PartsFit` needs what holds of a step that is still open (`OpenStep`),  *)
(* `TokensAreOfTheStep` that the Trainer's counter is what the callback     *)
(* read last, or what it was set to since, and what was counted after that. *)
(***************************************************************************)
EXTENDS HookApi, TLAPS

HookType ==
  [open : BOOLEAN, flops : Nat, step : Nat, lastEnd : Nat \cup {Untimed},
   begin : Nat \cup {Untimed}, phases : [Names -> Int]]

MessageType ==
  [hook : Nat, step : Nat, end : Nat, time : Int, data : Int, compute : Int,
   optimizer : Int, tokens : Int, flops : Int]

HookTypes ==
  /\ perf \in Nat /\ seen \in Nat /\ counted \in Nat
  /\ hooks \in Seq(HookType) /\ published \in Seq(MessageType)
  /\ held \in 0..Len(hooks) /\ global \in 0..Len(hooks)
  /\ phase \in [name : Names \cup {"none"}, since : Int]

\* Where a message stands to its hook.
Filed(hs, m) ==
  /\ m.hook \in 1..Len(hs) /\ m.step <= hs[m.hook].step
  /\ m.step = hs[m.hook].step => m.end = hs[m.hook].lastEnd

\* TimeIsTiled of a sequence of messages.
Tiled(ms) ==
  \A i, j \in 1..Len(ms) :
    ms[i].hook = ms[j].hook /\ ms[j].step = ms[i].step + 1 => ms[j].end - ms[j].time = ms[i].end

Tiling ==
  /\ HookTypes
  /\ \A i \in 1..Len(hooks) : hooks[i].lastEnd <= perf
  /\ \A i \in 1..Len(published) : Filed(hooks, published[i])
  /\ Tiled(published)

------------------------------------------------------------------------------

LEMMA NewHookType ==
  ASSUME NEW m \in Models
  PROVE  /\ NewHook(FlopsPerToken(m)) \in HookType
         /\ NewHook(FlopsPerToken(m)).lastEnd = Untimed
<1> DEFINE attention == m.layers * m.hidden * m.seq
<1>1. attention \in Nat /\ m.params \in Nat
  BY ModelsAssumption
<1>2. FlopsPerToken(m) \in Nat
  <2> HIDE DEF attention
  <2> QED
    BY <1>1 DEF FlopsPerToken, attention
<1> QED
  BY <1>2 DEF NewHook, HookType

\* What has ended stays in the past.
LEMMA EndsPassed ==
  ASSUME Tiling, perf' \in Nat, perf' >= perf
  PROVE  \A i \in 1..Len(hooks) : hooks[i].lastEnd <= perf'
<1>1. hooks \in Seq(HookType) /\ perf \in Nat
  BY DEF Tiling, HookTypes
<1> TAKE i \in 1..Len(hooks)
<1>2. hooks[i] \in HookType /\ hooks[i].lastEnd <= perf
  BY <1>1 DEF Tiling
<1>3. hooks[i].lastEnd \in Int
  BY <1>2 DEF HookType, Untimed
<1> QED
  BY <1>1, <1>2, <1>3

\* A hook changes in what no message depends on.
LEMMA HookKept ==
  ASSUME Tiling, NEW h, held # 0, hooks' = [hooks EXCEPT ![held] = h], h \in HookType,
         h.step = hooks[held].step, h.lastEnd = hooks[held].lastEnd,
         perf' \in Nat, perf' >= perf, phase' \in [name : Names \cup {"none"}, since : Int],
         UNCHANGED <<held, global, seen, counted, published>>
  PROVE  Tiling'
<1>1. held \in 1..Len(hooks) /\ hooks \in Seq(HookType) /\ perf \in Nat
  BY DEF Tiling, HookTypes
<1>2. hooks' \in Seq(HookType) /\ Len(hooks') = Len(hooks)
  BY <1>1
<1>3. \A i \in 1..Len(hooks) : hooks'[i].step = hooks[i].step /\ hooks'[i].lastEnd = hooks[i].lastEnd
  BY <1>1
<1>4. HookTypes'
  BY <1>2 DEF Tiling, HookTypes
<1>5. \A i \in 1..Len(hooks') : hooks'[i].lastEnd <= perf'
  <2>1. \A i \in 1..Len(hooks) : hooks[i].lastEnd \in Int /\ hooks[i].lastEnd <= perf
    <3>1. \A i \in 1..Len(hooks) : hooks[i] \in HookType
      BY <1>1
    <3> QED
      BY <3>1, SMTT(30) DEF Tiling, HookType, Untimed
  <2> QED
    BY <1>1, <1>2, <1>3, <2>1
<1>6. \A i \in 1..Len(published') : Filed(hooks', published'[i])
  BY <1>2, <1>3 DEF Tiling, Filed
<1>7. Tiled(published')
  BY DEF Tiling, Tiled
<1> QED
  BY <1>4, <1>5, <1>6, <1>7 DEF Tiling

LEMMA StartTiling ==
  ASSUME Tiling, NEW m \in Models, Start(m)
  PROVE  Tiling'
<1>1. hooks \in Seq(HookType) /\ held \in 0..Len(hooks) /\ global \in 0..Len(hooks)
  BY DEF Tiling, HookTypes
<1>0. seen' \in Nat /\ counted' = counted
  BY CheckpointsAssumption DEF Start, Tiling, HookTypes
<1>2. CASE global # 0
  BY <1>0, <1>1, <1>2 DEF Start, Tiling, HookTypes, Filed
<1>3. CASE global = 0
  <2> DEFINE h == NewHook(FlopsPerToken(m))
  <2>1. h \in HookType /\ h.lastEnd = Untimed
    BY NewHookType
  <2>2. hooks' = Append(hooks, h) /\ global' = Len(hooks') /\ held' = Len(hooks')
    BY <1>3 DEF Start
  <2> HIDE DEF h
  <2>3. /\ hooks' \in Seq(HookType) /\ Len(hooks') = Len(hooks) + 1
        /\ \A i \in 1..Len(hooks) : hooks'[i] = hooks[i]
        /\ hooks'[Len(hooks) + 1] = h
    BY <1>1, <2>1, <2>2
  <2>4. HookTypes'
    BY <1>0, <2>2, <2>3 DEF Start, Tiling, HookTypes
  <2>5. \A i \in 1..Len(hooks') : hooks'[i].lastEnd <= perf'
    <3> SUFFICES ASSUME NEW i \in 1..Len(hooks') PROVE hooks'[i].lastEnd <= perf
      BY <2>3 DEF Start
    <3>1. perf \in Nat
      BY DEF Tiling, HookTypes
    <3>2. CASE i \in 1..Len(hooks)
      BY <1>1, <2>3, <3>2 DEF Tiling
    <3>3. CASE i = Len(hooks) + 1
      BY <2>1, <2>3, <3>1, <3>3 DEF Untimed
    <3> QED
      BY <1>1, <2>3, <3>2, <3>3
  <2>6. \A i \in 1..Len(published') : Filed(hooks', published'[i])
    BY <1>1, <2>3 DEF Start, Tiling, Filed
  <2>7. Tiled(published')
    BY DEF Start, Tiling
  <2> QED
    BY <2>4, <2>5, <2>6, <2>7 DEF Tiling
<1> QED
  BY <1>2, <1>3

LEMMA StopTiling == Tiling /\ Stop => Tiling'
<1> SUFFICES ASSUME Tiling, Stop PROVE Tiling'
  OBVIOUS
<1> DEFINE h == [hooks[global] EXCEPT !.open = FALSE]
<1>1. hooks \in Seq(HookType) /\ global \in 1..Len(hooks)
  BY DEF Tiling, HookTypes, Stop
<1>2. /\ h \in HookType /\ h.step = hooks[global].step /\ h.lastEnd = hooks[global].lastEnd
      /\ hooks' = [hooks EXCEPT ![global] = h]
  <2>1. hooks[global] \in HookType
    BY <1>1
  <2>2. h \in HookType /\ h.step = hooks[global].step /\ h.lastEnd = hooks[global].lastEnd
    BY <2>1 DEF HookType
  <2>3. hooks' = [hooks EXCEPT ![global] = h]
    BY DEF Stop
  <2> QED
    BY <2>2, <2>3
<1> HIDE DEF h
<1>3. /\ hooks' \in Seq(HookType) /\ Len(hooks') = Len(hooks)
      /\ \A i \in 1..Len(hooks) : hooks'[i].step = hooks[i].step /\ hooks'[i].lastEnd = hooks[i].lastEnd
  BY <1>1, <1>2
<1>4. HookTypes'
  BY <1>3 DEF Tiling, HookTypes, Stop
<1>5. \A i \in 1..Len(hooks') : hooks'[i].lastEnd <= perf'
  BY <1>3 DEF Tiling, Stop
<1>6. \A i \in 1..Len(published') : Filed(hooks', published'[i])
  BY <1>3 DEF Tiling, Filed, Stop
<1>7. Tiled(published')
  BY DEF Stop, Tiling
<1> QED
  BY <1>4, <1>5, <1>6, <1>7 DEF Tiling

------------------------------------------------------------------------------
(* The end of a step.                                                      *)

\* A hook ends at the present; what it has published stands to it as before.
LEMMA EndedHook ==
  ASSUME Tiling, held # 0, NEW g \in HookType, hooks' = [hooks EXCEPT ![held] = g],
         perf' \in Nat, perf' >= perf, g.lastEnd = perf',
         \/ g.step = hooks[held].step + 1
         \/ g.step = hooks[held].step /\ hooks[held].lastEnd \in {Untimed, perf'}
  PROVE  /\ hooks' \in Seq(HookType) /\ Len(hooks') = Len(hooks)
         /\ \A i \in 1..Len(hooks') : hooks'[i].lastEnd <= perf'
         /\ \A i \in 1..Len(published) : Filed(hooks', published[i])
<1>1. /\ held \in 1..Len(hooks) /\ hooks \in Seq(HookType) /\ published \in Seq(MessageType)
      /\ perf \in Nat
  BY DEF Tiling, HookTypes
<1>2. /\ hooks' \in Seq(HookType) /\ Len(hooks') = Len(hooks) /\ hooks'[held] = g
      /\ \A i \in 1..Len(hooks) : i # held => hooks'[i] = hooks[i]
  BY <1>1
<1>3. ASSUME NEW i \in 1..Len(hooks) PROVE hooks'[i].lastEnd <= perf'
  <2>1. hooks[i] \in HookType /\ hooks[i].lastEnd <= perf
    BY <1>1 DEF Tiling
  <2>2. hooks[i].lastEnd \in Int
    BY <2>1 DEF HookType, Untimed
  <2> QED
    BY <2>1, <2>2, <1>1, <1>2
<1>4. ASSUME NEW i \in 1..Len(published) PROVE Filed(hooks', published[i])
  <2>1. published[i] \in MessageType /\ Filed(hooks, published[i])
    BY <1>1 DEF Tiling
  <2>2. published[i].step \in Nat /\ published[i].end \in Nat
    BY <2>1 DEF MessageType
  <2>3. hooks[held].step \in Nat
    <3>1. hooks[held] \in HookType
      BY <1>1
    <3> QED
      BY <3>1 DEF HookType
  <2>4. CASE published[i].hook # held
    BY <2>1, <2>4, <1>2 DEF Filed
  <2>5. CASE published[i].hook = held
    <3>1. /\ published[i].step <= hooks[held].step
          /\ published[i].step = hooks[held].step => published[i].end = hooks[held].lastEnd
      BY <2>1, <2>5 DEF Filed
    <3>2. CASE g.step = hooks[held].step + 1
      <4>1. published[i].step < g.step
        BY <2>2, <2>3, <3>1, <3>2
      <4> QED
        BY <2>2, <2>3, <2>5, <3>2, <4>1, <1>1, <1>2 DEF Filed
    <3>3. CASE g.step = hooks[held].step /\ hooks[held].lastEnd \in {Untimed, perf'}
      <4>1. published[i].step = g.step => published[i].end = g.lastEnd
        BY <2>2, <3>1, <3>3 DEF Untimed
      <4> QED
        BY <2>5, <3>1, <3>3, <4>1, <1>1, <1>2 DEF Filed
    <3> QED
      BY <3>2, <3>3
  <2> QED
    BY <2>4, <2>5
<1> QED
  BY <1>2, <1>3, <1>4

\* A message that is numbered next and begins where the hook has ended.
LEMMA PublishedTiled ==
  ASSUME Tiling, held # 0, NEW m \in MessageType,
         m.hook = held, m.step = hooks[held].step + 1,
         hooks[held].lastEnd # Untimed => m.end - m.time = hooks[held].lastEnd
  PROVE  Tiled(Append(published, m))
<1> DEFINE ms == Append(published, m)
           last == Len(published) + 1
<1>1. published \in Seq(MessageType) /\ hooks[held].step \in Nat
  <2>1. published \in Seq(MessageType) /\ hooks[held] \in HookType
    BY DEF Tiling, HookTypes
  <2> QED
    BY <2>1 DEF HookType
<1>2. /\ Len(ms) = last /\ ms[last] = m
      /\ \A i \in 1..Len(published) : ms[i] = published[i]
  BY <1>1
<1>3. \A i \in 1..Len(ms) : i \in 1..Len(published) \/ i = last
  BY <1>1, <1>2
<1> HIDE DEF ms, last
<1>4. ASSUME NEW i \in 1..Len(published), published[i].hook = held
      PROVE  /\ published[i].step \in Nat /\ published[i].step <= hooks[held].step
             /\ published[i].step = hooks[held].step => published[i].end = hooks[held].lastEnd
             /\ published[i].end # Untimed
  <2>1. published[i] \in MessageType /\ Filed(hooks, published[i])
    BY <1>1 DEF Tiling
  <2>2. published[i].step \in Nat /\ published[i].end \in Nat
    BY <2>1 DEF MessageType
  <2>3. /\ published[i].step <= hooks[held].step
        /\ published[i].step = hooks[held].step => published[i].end = hooks[held].lastEnd
    BY <2>1, <1>4 DEF Filed
  <2> QED
    BY <2>2, <2>3 DEF Untimed
<1>5. ASSUME NEW i \in 1..Len(ms), NEW j \in 1..Len(ms),
             ms[i].hook = ms[j].hook, ms[j].step = ms[i].step + 1
      PROVE  ms[j].end - ms[j].time = ms[i].end
  <2>1. CASE i \in 1..Len(published) /\ j \in 1..Len(published)
    BY <2>1, <1>2, <1>5 DEF Tiling, Tiled
  <2>2. CASE i \in 1..Len(published) /\ j = last
    <3>1. published[i].hook = held /\ hooks[held].step + 1 = published[i].step + 1
      BY <2>2, <1>2, <1>5
    <3>2. published[i].step = hooks[held].step
      BY <3>1, <1>1, <1>4, <2>2
    <3> QED
      BY <3>1, <3>2, <2>2, <1>2, <1>4
  <2>3. CASE i = last /\ j \in 1..Len(published)
    <3>1. published[j].hook = held /\ published[j].step = hooks[held].step + 1 + 1
      BY <2>3, <1>2, <1>5
    <3> QED
      BY <3>1, <2>3, <1>1, <1>4
  <2>4. CASE i = last /\ j = last
    BY <2>4, <1>1, <1>2, <1>5
  <2> QED
    BY <2>1, <2>2, <2>3, <2>4, <1>3
<1> QED
  BY <1>5 DEF Tiled, ms

\* What step_end makes of the hook, and what it says.
LEMMA MessageSays ==
  ASSUME HookTypes, held # 0, NEW h \in HookType, NEW end \in Nat, NEW tokens \in Int,
         h.lastEnd <= end
  PROVE  /\ Message(h, end, tokens) \in MessageType
         /\ Message(h, end, tokens).hook = held
         /\ Message(h, end, tokens).step = h.step + 1
         /\ Message(h, end, tokens).end = end
         /\ h.lastEnd # Untimed => Message(h, end, tokens).time = end - h.lastEnd
<1>1. /\ h.step \in Nat /\ h.flops \in Nat /\ h.lastEnd \in Nat \cup {Untimed}
      /\ h.begin \in Nat \cup {Untimed} /\ h.phases \in [Names -> Int] /\ held \in Nat
  BY DEF HookType, HookTypes
<1> DEFINE begin == IF h.begin # Untimed THEN h.begin ELSE end
           since == IF h.lastEnd # Untimed THEN h.lastEnd ELSE begin
           timed == sync = "phases" /\ \E n \in Names : h.phases[n] > 0
           data == IF h.lastEnd = Untimed THEN Untimed
                   ELSE IF begin > h.lastEnd THEN begin - h.lastEnd ELSE 0
           compute == IF timed THEN h.phases["compute"] ELSE 0
           optimizer == IF timed THEN h.phases["optimizer"] ELSE 0
           flops == IF h.flops > 0 /\ tokens > 0 THEN h.flops * tokens ELSE Untimed
<1>2. Message(h, end, tokens) =
        [hook |-> held, step |-> h.step + 1, end |-> end, time |-> end - since, data |-> data,
         compute |-> compute, optimizer |-> optimizer, tokens |-> tokens, flops |-> flops]
  BY DEF Message
<1>3. begin \in Nat /\ since \in Nat /\ (h.lastEnd # Untimed => since = h.lastEnd)
  BY <1>1
<1> HIDE DEF begin
<1>4. data \in Int
  BY <1>1, <1>3 DEF Untimed
<1> HIDE DEF timed
<1>5. compute \in Int /\ optimizer \in Int
  BY <1>1 DEF Names
<1>6. flops \in Int
  BY <1>1 DEF Untimed
<1> HIDE DEF since, data, compute, optimizer, flops
<1> QED
  BY <1>1, <1>2, <1>3, <1>4, <1>5, <1>6 DEF MessageType

LEMMA FinishTiling ==
  ASSUME Tiling, NEW tokens \in Int, held # 0, Finish(tokens), seen' \in Nat, counted' \in Nat,
         UNCHANGED <<held, global, phase>>
  PROVE  Tiling'
<1> DEFINE h == hooks[held]
<1>1. PICK wait \in {0, 1} :
        /\ perf' = perf + wait
        /\ hooks' = [hooks EXCEPT ![held] =
             [h EXCEPT !.lastEnd = perf + wait, !.begin = Untimed, !.step =
                IF Message(h, perf + wait, tokens).time > 0 THEN h.step + 1 ELSE h.step]]
        /\ published' = IF Message(h, perf + wait, tokens).time > 0 /\ h.open
                        THEN Append(published, Message(h, perf + wait, tokens)) ELSE published
  BY DEF Finish, SyncTakes
<1>2. /\ held \in 1..Len(hooks) /\ hooks \in Seq(HookType) /\ published \in Seq(MessageType)
      /\ perf \in Nat /\ perf' \in Nat /\ perf' >= perf
  BY <1>1 DEF Tiling, HookTypes
<1>3. h \in HookType /\ h.lastEnd <= perf'
  <2>1. h \in HookType /\ h.lastEnd <= perf
    BY <1>2 DEF Tiling
  <2>2. h.lastEnd \in Int
    BY <2>1 DEF HookType, Untimed
  <2> QED
    BY <1>2, <2>1, <2>2
<1> DEFINE m == Message(h, perf', tokens)
           g == [h EXCEPT !.lastEnd = perf', !.begin = Untimed,
                          !.step = IF m.time > 0 THEN h.step + 1 ELSE h.step]
<1>4. /\ m \in MessageType /\ m.hook = held /\ m.step = h.step + 1 /\ m.end = perf'
      /\ h.lastEnd # Untimed => m.time = perf' - h.lastEnd
  BY <1>2, <1>3, MessageSays DEF Tiling
<1>5. /\ hooks' = [hooks EXCEPT ![held] = g]
      /\ published' \in {published, Append(published, m)}
      /\ published' = published \/ m.time > 0
  <2>1. perf' = perf + wait
    BY <1>1
  <2>2. published' = IF m.time > 0 /\ h.open THEN Append(published, m) ELSE published
    BY <1>1, <2>1
  <2>3. hooks' = [hooks EXCEPT ![held] =
             [h EXCEPT !.lastEnd = perf + wait, !.begin = Untimed, !.step =
                IF Message(h, perf + wait, tokens).time > 0 THEN h.step + 1 ELSE h.step]]
    BY <1>1
  <2>4. g = [h EXCEPT !.lastEnd = perf + wait, !.begin = Untimed, !.step =
               IF Message(h, perf + wait, tokens).time > 0 THEN h.step + 1 ELSE h.step]
    BY <2>1
  <2>5. hooks' = [hooks EXCEPT ![held] = g]
    <3> HIDE DEF g
    <3> QED
      BY <2>3, <2>4
  <2> HIDE DEF m, g
  <2> QED
    BY <2>2, <2>5
<1> HIDE DEF m, h
<1>6. /\ g \in HookType /\ g.lastEnd = perf'
      /\ m.time > 0 => g.step = h.step + 1
      /\ ~(m.time > 0) => g.step = h.step
  <2>1. CASE m.time > 0
    <3>1. g = [h EXCEPT !.lastEnd = perf', !.begin = Untimed, !.step = h.step + 1]
      BY <2>1
    <3> HIDE DEF g
    <3>2. h.step \in Nat /\ h.step + 1 \in Nat
      BY <1>3 DEF HookType
    <3>3. g \in HookType /\ g.lastEnd = perf' /\ g.step = h.step + 1
      BY <3>1, <3>2, <1>2, <1>3 DEF HookType
    <3> QED
      BY <3>3, <2>1
  <2>2. CASE ~(m.time > 0)
    <3>1. g = [h EXCEPT !.lastEnd = perf', !.begin = Untimed]
      BY <2>2, <1>3 DEF HookType
    <3> HIDE DEF g
    <3> QED
      BY <3>1, <2>2, <1>2, <1>3 DEF HookType
  <2> QED
    BY <2>1, <2>2
<1> HIDE DEF g
<1>7. m.time \in Int /\ h.lastEnd \in Nat \cup {Untimed} /\ h.step \in Nat
  BY <1>3, <1>4 DEF HookType, MessageType
<1>8. g.step = h.step + 1 \/ (g.step = h.step /\ h.lastEnd \in {Untimed, perf'})
  BY <1>2, <1>3, <1>4, <1>6, <1>7
<1>9. /\ hooks' \in Seq(HookType) /\ Len(hooks') = Len(hooks)
      /\ \A i \in 1..Len(hooks') : hooks'[i].lastEnd <= perf'
      /\ \A i \in 1..Len(published) : Filed(hooks', published[i])
  BY <1>2, <1>5, <1>6, <1>8, EndedHook DEF h
<1>10. published' \in Seq(MessageType)
  BY SMTT(30), <1>2, <1>4, <1>5
<1>11. HookTypes'
  BY <1>2, <1>9, <1>10 DEF Tiling, HookTypes
<1>12. CASE published' = published
  BY <1>9, <1>11, <1>12 DEF Tiling
<1>13. CASE published' = Append(published, m) /\ m.time > 0
  <2>1. h.lastEnd # Untimed => m.end - m.time = h.lastEnd
    BY <1>2, <1>4, <1>7
  <2>2. Tiled(published')
    BY <2>1, <1>4, <1>13, PublishedTiled DEF h
  <2>3. /\ Len(published') = Len(published) + 1 /\ published'[Len(published) + 1] = m
        /\ \A i \in 1..Len(published) : published'[i] = published[i]
    BY <1>2, <1>4, <1>13
  <2>4. hooks'[held] = g /\ Filed(hooks', m)
    BY <1>2, <1>4, <1>5, <1>6, <1>7, <1>9, <1>13 DEF Filed
  <2>5. ASSUME NEW i \in 1..Len(published') PROVE Filed(hooks', published'[i])
    <3>1. i \in 1..Len(published) \/ i = Len(published) + 1
      BY <2>3, <1>2
    <3> QED
      BY <3>1, <2>3, <2>4, <1>9
  <2> QED
    BY <2>2, <2>5, <1>9, <1>11 DEF Tiling
<1> QED
  BY <1>5, <1>12, <1>13

------------------------------------------------------------------------------

LEMMA NextTiling == Tiling /\ [HookNext]_hookVars => Tiling'
<1> SUFFICES ASSUME Tiling, [HookNext]_hookVars PROVE Tiling'
  OBVIOUS
<1>1. HookTypes /\ hooks \in Seq(HookType)
  BY DEF Tiling, HookTypes
<1>2. ASSUME held # 0 PROVE hooks[held] \in HookType
  BY <1>1, <1>2 DEF HookTypes
<1>3. CASE StepBegin
  <2> DEFINE h == Begun(hooks[held])
  <2>1. h \in HookType /\ h.step = hooks[held].step /\ h.lastEnd = hooks[held].lastEnd
    <3>1. held # 0 /\ hooks[held] \in HookType /\ perf \in Nat
      BY <1>1, <1>2, <1>3 DEF StepBegin, HookTypes
    <3> DEFINE none == [n \in Names |-> 0]
    <3>2. none \in [Names -> Int] /\ h = [hooks[held] EXCEPT !.begin = perf, !.phases = none]
      BY DEF Begun
    <3> HIDE DEF h, none
    <3> QED
      BY <3>1, <3>2 DEF HookType
  <2>2. hooks' = [hooks EXCEPT ![held] = h]
    BY <1>3 DEF StepBegin
  <2> HIDE DEF h
  <2> QED
    <3>1. /\ held # 0 /\ perf' = perf /\ phase' = phase
          /\ UNCHANGED <<held, global, seen, counted, published>>
      BY <1>3 DEF StepBegin
    <3>2. perf' \in Nat /\ perf' >= perf /\ phase' \in [name : Names \cup {"none"}, since : Int]
      BY <3>1, <1>1 DEF HookTypes
    <3> QED
      BY <2>1, <2>2, <3>1, <3>2, HookKept
<1>4. CASE \E n \in Names : PhaseEnter(n)
  BY <1>1, <1>4 DEF PhaseEnter, Tiling, HookTypes, Filed, Tiled
<1>5. CASE PhaseExit
  <2>1. PICK wait \in {0, 1} :
          /\ perf' = perf + wait
          /\ hooks' = [hooks EXCEPT ![held].phases[phase.name] = @ + perf' - phase.since]
    BY <1>5 DEF PhaseExit, SyncTakes
  <2>2. perf' \in Nat /\ perf' >= perf /\ phase' \in [name : Names \cup {"none"}, since : Int]
    BY <1>1, <1>5, <2>1 DEF PhaseExit, HookTypes, NoPhase, Untimed
  <2>3. CASE held # 0
    <3> DEFINE h == [hooks[held] EXCEPT !.phases[phase.name] = @ + perf' - phase.since]
    <3>1. hooks' = [hooks EXCEPT ![held] = h]
      BY <2>1
    <3>2. h \in HookType /\ h.step = hooks[held].step /\ h.lastEnd = hooks[held].lastEnd
      <4>1. hooks[held] \in HookType /\ phase.since \in Int
        BY <1>1, <1>2, <2>3 DEF HookTypes
      <4> DEFINE old == hooks[held].phases
                 new == [old EXCEPT ![phase.name] = @ + perf' - phase.since]
      <4>2. old \in [Names -> Int]
        BY <4>1 DEF HookType
      <4>3. new \in [Names -> Int]
        <5> HIDE DEF old
        <5>1. CASE phase.name \in Names
          <6>1. old[phase.name] + perf' - phase.since \in Int
            BY <4>1, <4>2, <2>2, <5>1
          <6> QED
            BY <4>2, <6>1
        <5>2. CASE phase.name \notin Names
          BY <4>2, <5>2
        <5> QED
          BY <5>1, <5>2
      <4>4. h = [hooks[held] EXCEPT !.phases = new]
        OBVIOUS
      <4> HIDE DEF h, new
      <4> QED
        BY <4>1, <4>3, <4>4 DEF HookType
    <3> HIDE DEF h
    <3> QED
      BY <3>1, <3>2, <2>2, <2>3, <1>5, HookKept DEF PhaseExit
  <2>4. CASE held = 0
    <3>1. hooks' = hooks
      BY <1>1, <2>1, <2>4
    <3> QED
      BY <3>1, <2>2, <1>1, <1>5, EndsPassed DEF PhaseExit, Tiling, HookTypes
  <2> QED
    BY <2>3, <2>4
<1>6. CASE StepEnd
  BY <1>1, <1>6, FinishTiling DEF StepEnd, HookTypes
<1>7. CASE OnStepEnd
  <2>1. Gained \in Int
    BY <1>1 DEF Gained, HookTypes, Untimed
  <2> QED
    BY <2>1, <1>1, <1>7, FinishTiling DEF OnStepEnd, HookTypes
<1>8. CASE TimeGoesBy
  <2>1. perf' = perf + 1 /\ perf' \in Nat /\ seen' \in Nat
    BY <1>1, <1>8 DEF TimeGoesBy, HookTypes
  <2>2. \A i \in 1..Len(hooks) : hooks[i].lastEnd <= perf'
    BY <2>1, <1>1, EndsPassed DEF HookTypes
  <2> QED
    BY <2>1, <2>2, <1>1, <1>8 DEF TimeGoesBy, Tiling, HookTypes, Filed, Tiled
<1>9. CASE UNCHANGED hookVars
  BY <1>9 DEF hookVars, Tiling, HookTypes, Filed, Tiled
<1> QED
  BY <1>3, <1>4, <1>5, <1>6, <1>7, <1>8, <1>9, StartTiling, StopTiling DEF HookNext

LEMMA TiledMessages == Tiling => TimeIsTiled
<1>1. ASSUME Tiling PROVE DOMAIN published = 1..Len(published)
  BY <1>1 DEF Tiling, HookTypes
<1> QED
  BY <1>1 DEF Tiling, Tiled, TimeIsTiled

\* However a loop begins and ends its steps, and however often it starts and
\* stops its hook, each step it publishes begins where the hook's step before
\* has ended: no moment is counted in two steps or in none (step_end).
THEOREM TilingCorrectness == HookSpec => []TimeIsTiled
<1>1. HookInit => Tiling
  BY DEF HookInit, Tiling, HookTypes, Tiled, NoPhase, Untimed
<1> QED
  BY <1>1, NextTiling, TiledMessages, PTL DEF HookSpec
------------------------------------------------------------------------------
(* The parts of a step.  While a step is open its phases so far fit between *)
(* its beginning and the present, or the beginning of a phase that is open. *)

Fits(m) == (IF m.data = Untimed THEN 0 ELSE m.data) + m.compute + m.optimizer <= m.time

\* The phases of h fit between its beginning and `now`.
OpenStep(h, now) ==
  /\ h.begin # Untimed /\ h.lastEnd <= h.begin /\ h.begin <= now
  /\ h.begin + h.phases["compute"] + h.phases["optimizer"] <= now

Fitting ==
  usage # "explicit" =>
    /\ phase # NoPhase => usage = "managed" /\ inStep /\ phase.name \in Names
    /\ phase # NoPhase => phase.since <= perf
    /\ inStep => held # 0
    /\ inStep => OpenStep(hooks[held], IF phase = NoPhase THEN perf ELSE phase.since)
    /\ \A i \in 1..Len(published) : Fits(published[i])

TokensOf(m, t) ==
  /\ t.anew = Untimed => TokensIn(m) = t.earned
  /\ t.anew = 0 => TokensIn(m) <= t.earned

\* The counter is what it was set to, or what the callback read last, and what
\* was earned since.
Telling ==
  usage = "callback" =>
    /\ earned \in Nat /\ anew \in Nat \cup {Untimed}
    /\ seen = (IF anew = Untimed THEN counted ELSE anew) + earned
    /\ truth \in Seq([earned : Nat, anew : Nat \cup {Untimed}])
    /\ Len(truth) = Len(published)
    /\ \A i \in 1..Len(published) : TokensOf(published[i], truth[i])

\* What a finished step says fits, if it was opened.
LEMMA MessageFits ==
  ASSUME NEW h \in HookType, NEW end \in Nat, NEW tokens \in Int, OpenStep(h, end)
  PROVE  Fits(Message(h, end, tokens))
<1>1. /\ h.lastEnd \in Nat \cup {Untimed} /\ h.begin \in Nat
      /\ h.phases["compute"] \in Int /\ h.phases["optimizer"] \in Int
  BY DEF HookType, OpenStep, Names
<1> DEFINE since == IF h.lastEnd # Untimed THEN h.lastEnd ELSE h.begin
           timed == sync = "phases" /\ \E n \in Names : h.phases[n] > 0
           data == IF h.lastEnd = Untimed THEN Untimed
                   ELSE IF h.begin > h.lastEnd THEN h.begin - h.lastEnd ELSE 0
           compute == IF timed THEN h.phases["compute"] ELSE 0
           optimizer == IF timed THEN h.phases["optimizer"] ELSE 0
           m == Message(h, end, tokens)
<1>2. m.time = end - since /\ m.data = data /\ m.compute = compute /\ m.optimizer = optimizer
  BY DEF Message, OpenStep
<1>3. (IF data = Untimed THEN 0 ELSE data) = h.begin - since
  BY <1>1 DEF OpenStep, Untimed
<1>4. since \in Int
  BY <1>1 DEF Untimed
<1>5. compute + optimizer <= end - h.begin /\ compute \in Int /\ optimizer \in Int
  <2> HIDE DEF timed
  <2> QED
    BY <1>1 DEF OpenStep
<1> HIDE DEF since, data, compute, optimizer, m
<1>6. (IF m.data = Untimed THEN 0 ELSE m.data) = h.begin - since
  BY <1>2, <1>3
<1>7. (h.begin - since) + compute + optimizer <= end - since
  BY <1>1, <1>4, <1>5
<1>8. /\ m.time = end - since /\ m.compute = compute /\ m.optimizer = optimizer
      /\ h.begin - since \in Int /\ end - since \in Int
  BY <1>1, <1>2, <1>4
<1>9. Fits(m) <=> (IF m.data = Untimed THEN 0 ELSE m.data) + m.compute + m.optimizer <= m.time
  BY DEF Fits
<1> QED
  BY <1>5, <1>6, <1>7, <1>8, <1>9 DEF m

\* The end of a step: what it says of its parts fits, and of its tokens it
\* says `tokens`.
LEMMA FinishFits ==
  ASSUME Tiling, NEW tokens \in Int, held # 0, Finish(tokens)
  PROVE  /\ \/ published' = published /\ truth' = truth
            \/ \E m : /\ published' = Append(published, m)
                      /\ truth' = Append(truth, [earned |-> earned, anew |-> anew])
                      /\ m.tokens = tokens
                      /\ OpenStep(hooks[held], perf) => Fits(m)
<1> DEFINE h == hooks[held]
<1>1. h \in HookType /\ perf \in Nat
  BY DEF Tiling, HookTypes
<1> DEFINE Says(end) == Message(h, end, tokens)
<1>2. PICK wait \in {0, 1} :
        /\ published' = IF Says(perf + wait).time > 0 /\ h.open
                        THEN Append(published, Says(perf + wait)) ELSE published
        /\ truth' = IF Says(perf + wait).time > 0 /\ h.open
                    THEN Append(truth, [earned |-> earned, anew |-> anew]) ELSE truth
  BY DEF Finish, SyncTakes
<1> DEFINE m == Says(perf + wait)
<1>3. m.tokens = tokens
  BY DEF Message
<1>4. ASSUME OpenStep(h, perf) PROVE Fits(m)
  <2>1. perf + wait \in Nat /\ perf + wait >= perf
    BY <1>1
  <2>2. OpenStep(h, perf + wait)
    <3>1. /\ h.begin \in Nat /\ h.phases["compute"] \in Int /\ h.phases["optimizer"] \in Int
      BY <1>1, <1>4 DEF HookType, OpenStep, Names
    <3> HIDE DEF h
    <3> QED
      BY <1>1, <1>4, <2>1, <3>1 DEF OpenStep
  <2> HIDE DEF h
  <2> QED
    BY <1>1, <2>1, <2>2, MessageFits
<1> HIDE DEF m, Says, h
<1> QED
  BY <1>2, <1>3, <1>4 DEF m, h

LEMMA AppendedFits ==
  ASSUME Tiling, NEW m, \A i \in 1..Len(published) : Fits(published[i]), Fits(m)
  PROVE  \A i \in 1..Len(Append(published, m)) : Fits(Append(published, m)[i])
<1>1. published \in Seq(MessageType)
  BY DEF Tiling, HookTypes
<1> DEFINE ms == Append(published, m)
<1>2. /\ Len(ms) = Len(published) + 1 /\ ms[Len(published) + 1] = m
      /\ \A i \in 1..Len(published) : ms[i] = published[i]
  BY <1>1
<1> HIDE DEF ms
<1>3. \A i \in 1..Len(ms) : i \in 1..Len(published) \/ i = Len(published) + 1
  BY <1>1, <1>2
<1> QED
  BY <1>2, <1>3 DEF ms

LEMMA NextFitting == Tiling /\ Fitting /\ [HookNext]_hookVars => Fitting'
<1> SUFFICES ASSUME Tiling, Fitting, [HookNext]_hookVars, usage # "explicit" PROVE Fitting'
  BY DEF Fitting, HookNext, hookVars, Start, Stop, StepBegin, StepEnd, OnStepEnd, PhaseExit,
         TimeGoesBy, PhaseEnter
<1>1. /\ hooks \in Seq(HookType) /\ perf \in Nat /\ held \in 0..Len(hooks)
      /\ phase \in [name : Names \cup {"none"}, since : Int]
      /\ \A i \in 1..Len(hooks) : hooks[i] \in HookType /\ hooks[i].lastEnd <= perf
  BY DEF Tiling, HookTypes
<1>2. /\ phase # NoPhase => usage = "managed" /\ inStep /\ phase.name \in Names
      /\ phase # NoPhase => phase.since <= perf
      /\ inStep => held # 0
      /\ inStep => OpenStep(hooks[held], IF phase = NoPhase THEN perf ELSE phase.since)
      /\ \A i \in 1..Len(published) : Fits(published[i])
  BY DEF Fitting
<1>3. usage' = usage
  BY DEF HookNext, hookVars, Start, Stop, StepBegin, StepEnd, OnStepEnd, PhaseExit,
         TimeGoesBy, PhaseEnter
<1>4. CASE \E m \in Models : Start(m)
  BY <1>2, <1>3, <1>4 DEF Start, Fitting
<1>5. CASE Stop
  <2>1. /\ UNCHANGED <<perf, held, inStep, phase, published>>
        /\ hooks' = [hooks EXCEPT ![global].open = FALSE]
    BY <1>5 DEF Stop
  <2>2. ASSUME inStep
        PROVE  /\ hooks'[held].begin = hooks[held].begin
               /\ hooks'[held].lastEnd = hooks[held].lastEnd
               /\ hooks'[held].phases = hooks[held].phases
    <3>1. hooks[held] \in HookType /\ held \in 1..Len(hooks)
      BY <1>1, <1>2, <2>2
    <3> QED
      BY <1>1, <2>1, <3>1, SMTT(30) DEF HookType
  <2>3. inStep => OpenStep(hooks'[held], IF phase = NoPhase THEN perf ELSE phase.since)
    BY <1>2, <2>2 DEF OpenStep
  <2> QED
    BY <1>2, <1>3, <2>1, <2>3 DEF Fitting
<1>6. CASE StepBegin
  <2>1. phase = NoPhase /\ held \in 1..Len(hooks) /\ hooks[held] \in HookType
    BY <1>1, <1>2, <1>6 DEF StepBegin
  <2>2. /\ UNCHANGED <<perf, held, phase, published>>
        /\ hooks' = [hooks EXCEPT ![held] = Begun(hooks[held])]
    BY <1>6 DEF StepBegin
  <2> DEFINE h == hooks'[held]
  <2>3. h.begin = perf /\ h.lastEnd = hooks[held].lastEnd /\ h.phases = [n \in Names |-> 0]
    BY <1>1, <2>1, <2>2 DEF Begun, HookType
  <2>4. h.phases["compute"] = 0 /\ h.phases["optimizer"] = 0
    BY <2>3 DEF Names
  <2> HIDE DEF h
  <2>5. OpenStep(h, perf)
    BY <1>1, <2>1, <2>3, <2>4 DEF OpenStep, Untimed
  <2> QED
    BY <1>2, <1>3, <2>1, <2>2, <2>5 DEF Fitting, h
<1>7. CASE \E n \in Names : PhaseEnter(n)
  <2>1. PICK n \in Names : PhaseEnter(n)
    BY <1>7
  <2>2. /\ UNCHANGED <<perf, hooks, held, inStep, published>>
        /\ phase = NoPhase /\ inStep /\ usage = "managed"
        /\ phase' = [name |-> n, since |-> perf]
    BY <2>1 DEF PhaseEnter
  <2>3. phase'.name = n /\ phase'.since = perf /\ phase' # NoPhase
    BY <2>2, <1>1 DEF NoPhase, Names
  <2>4. OpenStep(hooks[held], perf)
    BY <1>2, <2>2
  <2> QED
    BY <1>1, <1>2, <1>3, <2>2, <2>3, <2>4 DEF Fitting
<1>8. CASE PhaseExit
  <2>1. PICK wait \in {0, 1} :
          /\ perf' = perf + wait /\ phase' = NoPhase /\ phase # NoPhase
          /\ hooks' = [hooks EXCEPT ![held].phases[phase.name] = @ + perf' - phase.since]
          /\ UNCHANGED <<held, inStep, published>>
    BY <1>8 DEF PhaseExit, SyncTakes
  <2>2. /\ inStep /\ held \in 1..Len(hooks) /\ hooks[held] \in HookType /\ phase.name \in Names
        /\ OpenStep(hooks[held], phase.since) /\ phase.since \in Int /\ phase.since <= perf
        /\ perf' \in Nat
    BY <1>1, <1>2, <2>1
  <2> DEFINE h == hooks[held]
             g == hooks'[held]
  <2>3. /\ g.begin = h.begin /\ g.lastEnd = h.lastEnd
        /\ g.phases = [h.phases EXCEPT ![phase.name] = @ + perf' - phase.since]
        /\ h.phases \in [Names -> Int] /\ h.begin \in Nat /\ h.lastEnd \in Int
    <3>1. h \in HookType /\ h.begin # Untimed
      BY <2>2 DEF OpenStep
    <3>2. g = [h EXCEPT !.phases[phase.name] = @ + perf' - phase.since]
      BY <1>1, <2>1, <2>2, SMTT(30)
    <3> HIDE DEF g, h
    <3> QED
      BY <3>1, <3>2 DEF HookType, Untimed
  <2> HIDE DEF g, h
  <2>4. /\ h.phases["compute"] \in Int /\ h.phases["optimizer"] \in Int
        /\ g.phases["compute"] + g.phases["optimizer"] =
             h.phases["compute"] + h.phases["optimizer"] + perf' - phase.since
    BY <2>2, <2>3, SMTT(30) DEF Names
  <2>5. g.phases["compute"] \in Int /\ g.phases["optimizer"] \in Int
    BY <2>2, <2>3 DEF Names
  <2>6. OpenStep(h, phase.since)
    BY <2>2 DEF h
  <2>7. OpenStep(g, perf')
    <3>1. /\ h.begin # Untimed /\ h.lastEnd <= h.begin /\ h.begin <= phase.since
          /\ h.begin + h.phases["compute"] + h.phases["optimizer"] <= phase.since
      BY <2>6 DEF OpenStep
    <3>2. perf \in Nat /\ perf' >= perf
      BY <1>1, <2>1
    <3>3. g.begin <= perf'
      BY <2>2, <2>3, <3>1, <3>2
    <3>4. g.begin + g.phases["compute"] + g.phases["optimizer"] <= perf'
      <4>1. g.begin = h.begin /\ h.begin \in Int /\ phase.since \in Int /\ perf' \in Int
        BY <2>2, <2>3
      <4> DEFINE a == h.phases["compute"] + h.phases["optimizer"]
                 b == g.phases["compute"] + g.phases["optimizer"]
      <4>2. a \in Int /\ b \in Int /\ b = a + perf' - phase.since
        BY <2>2, <2>4, <2>5, SMTT(30)
      <4>3. h.begin + a <= phase.since
        BY <2>4, <3>1, <4>1
      <4> HIDE DEF a, b
      <4>4. h.begin + b <= perf'
        BY <4>1, <4>2, <4>3
      <4> QED
        BY <2>5, <4>1, <4>4 DEF b
    <3> QED
      BY <2>3, <3>1, <3>3, <3>4 DEF OpenStep
  <2> QED
    BY <1>2, <1>3, <2>1, <2>2, <2>7 DEF Fitting, g
<1>9. ASSUME NEW tokens \in Int, held # 0, inStep, phase = NoPhase, Finish(tokens),
             inStep' = FALSE, UNCHANGED <<held, phase>>
      PROVE  Fitting'
  <2>1. OpenStep(hooks[held], perf)
    BY <1>2, <1>9
  <2>2. \A i \in 1..Len(published') : Fits(published'[i])
    <3>1. CASE published' = published
      BY <1>2, <3>1
    <3>2. ASSUME NEW m, published' = Append(published, m), Fits(m)
          PROVE  \A i \in 1..Len(published') : Fits(published'[i])
      BY <1>2, <3>2, AppendedFits
    <3> QED
      BY <1>9, <2>1, <3>1, <3>2, FinishFits
  <2> QED
    BY <1>3, <1>9, <2>2 DEF Fitting
<1>10. CASE StepEnd
  <2>1. /\ held # 0 /\ inStep /\ phase = NoPhase /\ inStep' = FALSE /\ Finish(2)
        /\ UNCHANGED <<held, phase>>
    BY <1>10 DEF StepEnd
  <2>2. 2 \in Int
    OBVIOUS
  <2> QED
    BY <1>9, <2>1, <2>2
<1>11. CASE OnStepEnd
  <2>1. Gained \in Int
    BY DEF Gained, Untimed, Tiling, HookTypes
  <2>2. phase = NoPhase
    BY <1>2, <1>11 DEF OnStepEnd
  <2> QED
    BY <1>9, <1>11, <2>1, <2>2 DEF OnStepEnd
<1>12. CASE TimeGoesBy
  <2>1. perf' = perf + 1 /\ UNCHANGED <<hooks, held, inStep, phase, published>>
    BY <1>12 DEF TimeGoesBy
  <2>2. inStep => OpenStep(hooks[held], IF phase = NoPhase THEN perf' ELSE phase.since)
    <3> SUFFICES ASSUME inStep, phase = NoPhase PROVE OpenStep(hooks[held], perf')
      BY <1>2
    <3>1. OpenStep(hooks[held], perf) /\ hooks[held] \in HookType
      BY <1>1, <1>2
    <3> DEFINE h == hooks[held]
    <3>2. /\ h.begin \in Nat /\ h.phases["compute"] \in Int /\ h.phases["optimizer"] \in Int
      BY <3>1 DEF HookType, OpenStep, Names
    <3> HIDE DEF h
    <3> QED
      BY <1>1, <2>1, <3>1, <3>2 DEF OpenStep, h
  <2>3. phase # NoPhase => phase.since <= perf'
    BY <1>1, <1>2, <2>1
  <2> QED
    BY <1>2, <1>3, <2>1, <2>2, <2>3 DEF Fitting
<1>13. CASE UNCHANGED hookVars
  BY <1>2, <1>13 DEF hookVars, Fitting
<1> QED
  BY <1>4, <1>5, <1>6, <1>7, <1>8, <1>10, <1>11, <1>12, <1>13 DEF HookNext

LEMMA TruthAppended ==
  ASSUME Tiling, Telling, usage = "callback", NEW m, NEW t,
         t \in [earned : Nat, anew : Nat \cup {Untimed}], TokensOf(m, t)
  PROVE  /\ Append(truth, t) \in Seq([earned : Nat, anew : Nat \cup {Untimed}])
         /\ Len(Append(truth, t)) = Len(Append(published, m))
         /\ \A i \in 1..Len(Append(published, m)) :
              TokensOf(Append(published, m)[i], Append(truth, t)[i])
<1> DEFINE T == [earned : Nat, anew : Nat \cup {Untimed}]
           n == Len(published)
           ms == Append(published, m)
           ts == Append(truth, t)
<1>1. /\ published \in Seq(MessageType) /\ truth \in Seq(T) /\ Len(truth) = n /\ t \in T
      /\ \A i \in 1..n : TokensOf(published[i], truth[i])
  BY DEF Tiling, HookTypes, Telling
<1> HIDE DEF T
<1>2. /\ n \in Nat /\ Len(ms) = n + 1 /\ ms[n + 1] = m
      /\ \A i \in 1..n : ms[i] = published[i]
  BY <1>1
<1>3. /\ ts \in Seq(T) /\ Len(ts) = n + 1 /\ ts[n + 1] = t
      /\ \A i \in 1..n : ts[i] = truth[i]
  BY <1>1
<1> HIDE DEF ms, ts, n
<1>4. ASSUME NEW i \in 1..(n + 1) PROVE TokensOf(ms[i], ts[i])
  <2>1. CASE i = n + 1
    BY <2>1, <1>2, <1>3
  <2>2. CASE i # n + 1
    <3>1. i \in 1..n
      BY <2>2, <1>2
    <3> QED
      BY <3>1, <1>1, <1>2, <1>3
  <2> QED
    BY <2>1, <2>2
<1> QED
  BY <1>2, <1>3, <1>4 DEF ms, ts, T

LEMMA NextTelling == Tiling /\ Telling /\ [HookNext]_hookVars => Telling'
<1> SUFFICES ASSUME Tiling, Telling, [HookNext]_hookVars, usage = "callback" PROVE Telling'
  BY DEF Telling, HookNext, hookVars, Start, Stop, StepBegin, StepEnd, OnStepEnd, PhaseExit,
         TimeGoesBy, PhaseEnter
<1>1. /\ counted \in Nat /\ seen \in Nat /\ earned \in Nat /\ anew \in Nat \cup {Untimed}
      /\ seen = (IF anew = Untimed THEN counted ELSE anew) + earned
  BY DEF Telling, Tiling, HookTypes
<1>2. CASE OnStepEnd
  <2> DEFINE t == [earned |-> earned, anew |-> anew]
  <2>1. /\ held # 0 /\ Finish(Gained) /\ counted' = seen /\ seen' = seen
        /\ earned' = 0 /\ anew' = Untimed
    BY <1>2 DEF OnStepEnd
  <2>2. Gained \in Int /\ t \in [earned : Nat, anew : Nat \cup {Untimed}]
    BY <1>1 DEF Gained, Untimed
  <2>3. ASSUME NEW m, m.tokens = Gained PROVE TokensOf(m, t)
    <3>1. TokensIn(m) = IF seen = 0 \/ seen <= counted THEN 0 ELSE seen - counted
      BY <1>1, <2>3 DEF TokensIn, Gained, Untimed
    <3>2. anew = Untimed => TokensIn(m) = earned
      BY <1>1, <3>1
    <3>3. anew = 0 => TokensIn(m) <= earned
      BY <1>1, <3>1 DEF Untimed
    <3> QED
      BY <3>2, <3>3 DEF TokensOf
  <2>4. seen' = (IF anew' = Untimed THEN counted' ELSE anew') + earned'
    BY <1>1, <2>1
  <2> HIDE DEF t
  <2>5. CASE UNCHANGED <<published, truth>>
    BY <2>1, <2>4, <2>5, <1>2 DEF Telling, Untimed, OnStepEnd
  <2>6. ASSUME NEW m, published' = Append(published, m), truth' = Append(truth, t),
               m.tokens = Gained
        PROVE  Telling'
    <3>1. TokensOf(m, t)
      BY <2>3, <2>6
    <3>2. /\ truth' \in Seq([earned : Nat, anew : Nat \cup {Untimed}])
          /\ Len(truth') = Len(published')
          /\ \A i \in 1..Len(published') : TokensOf(published'[i], truth'[i])
      BY <3>1, <2>2, <2>6, TruthAppended
    <3> QED
      BY <3>2, <2>1, <2>4 DEF Telling, Untimed
  <2> QED
    BY <2>1, <2>2, <2>5, <2>6, FinishFits DEF t
<1>3. CASE TimeGoesBy
  <2>1. /\ UNCHANGED <<counted, anew, published, truth>>
        /\ \/ UNCHANGED <<seen, earned>>
           \/ seen' = seen + 2 /\ earned' = earned + 2
    BY <1>3 DEF TimeGoesBy
  <2>2. earned' \in Nat /\ seen' = (IF anew' = Untimed THEN counted' ELSE anew') + earned'
    BY <1>1, <2>1
  <2> QED
    BY <1>1, <2>1, <2>2 DEF Telling
<1>4. CASE \E m \in Models : Start(m)
  <2>1. PICK n \in Checkpoints : seen' = n /\ anew' = n /\ earned' = 0
    BY <1>4 DEF Start
  <2>2. n \in Nat /\ n # Untimed /\ UNCHANGED <<published, truth>>
    BY <1>4, CheckpointsAssumption DEF Start, Untimed
  <2>3. earned' \in Nat /\ seen' = (IF anew' = Untimed THEN counted' ELSE anew') + earned'
    BY <2>1, <2>2
  <2> QED
    BY <2>1, <2>2, <2>3 DEF Telling
<1>5. ASSUME UNCHANGED <<counted, seen, published, history>> PROVE Telling'
  BY <1>5 DEF Telling, history
<1>6. ~StepEnd
  BY DEF StepEnd
<1> QED
  BY <1>2, <1>3, <1>4, <1>5, <1>6 DEF HookNext, hookVars, Stop, StepBegin, PhaseExit, PhaseEnter

\* The steps the hook publishes add up: their times tile the run, the waiting
\* and the phases that each of them reports fit into it, wherever its phases
\* wait for the device, and the tokens a Trainer's step reports are those that
\* were counted in it (step_end, phase and hf_callback).
THEOREM MeasurementCorrectness == HookSpec => []MeasurementsAddUp
<1>1. HookInit => Tiling /\ Fitting /\ Telling
  BY DEF HookInit, Tiling, HookTypes, Tiled, NoPhase, Untimed, Fitting, Telling
<1>2. Tiling /\ Fitting /\ Telling /\ [HookNext]_hookVars => (Tiling /\ Fitting /\ Telling)'
  BY NextTiling, NextFitting, NextTelling
<1>3. Tiling /\ Fitting /\ Telling => PartsFit /\ TokensAreOfTheStep
  <2> SUFFICES ASSUME Tiling, Fitting, Telling PROVE PartsFit /\ TokensAreOfTheStep
    OBVIOUS
  <2>1. DOMAIN published = 1..Len(published) /\ seen \in Nat /\ counted \in Nat
    BY DEF Tiling, HookTypes
  <2>2. PartsFit
    BY <2>1 DEF PartsFit, Fitting, Fits
  <2>3. TokensAreOfTheStep
    BY <2>1 DEF TokensAreOfTheStep, Telling, TokensOf
  <2> QED
    BY <2>2, <2>3
<1>4. Tiling => TimeIsTiled
  BY TiledMessages
<1>5. Tiling /\ Fitting /\ Telling => MeasurementsAddUp
  BY <1>3, <1>4 DEF MeasurementsAddUp
<1> QED
  BY <1>1, <1>2, <1>5, PTL DEF HookSpec
==============================================================================
