------------------------- MODULE WatchPipelineProofs -------------------------
(***************************************************************************)
(* Proofs about the watch pipeline, for every mode, queue capacity, trace  *)
(* length and configuration.  The invariants of WatchPipeline are not      *)
(* inductive: nothing in them says what a tick that is still in the queue, *)
(* in the session's hand or in the stream will become.  IInv adds that:    *)
(* every container holds consecutive numbers, and they join up.            *)
(***************************************************************************)
EXTENDS WatchPipeline, SequenceTheorems, TLAPS

\* s holds the numbers n+1, n+2, ... in this order.
CountsFrom(s, n) == \A i \in 1..Len(s) : s[i] = n + i

\* The tick channel, the session's hand and the trace.
TickInv ==
  /\ CountsFrom(raw, 0)
  /\ CountsFrom(queue, Len(raw))
  /\ Len(raw) <= sampled
  /\ session # "done" =>
       sampled = Len(raw) + Len(queue) + (IF producer = "send" THEN 1 ELSE 0)

\* What the session has done with the tick in its hand.
SessionInv ==
  /\ CountsFrom(ingested, 0)
  /\ Len(raw) = Len(ingested) + (IF session = "analyze" THEN 1 ELSE 0)
  /\ session \in {"analyze", "publish"} => inHand = Len(raw)
  /\ latest = Len(ingested) - (IF session = "publish" THEN 1 ELSE 0)

\* The stream continues what has been rendered, until the report.
StreamInv ==
  /\ CountsFrom(rendered, 0)
  /\ CountsFrom(stream, Len(rendered))
  /\ Len(rendered) <= Len(ingested)
  /\ open => Len(rendered) + Len(stream) = Len(ingested)
  /\ ~open => stream = <<>>
  /\ open /\ Len(rendered) = 0 => last = 0

\* The report is the newest snapshot, and the sender is dropped with it.
ReportInv ==
  /\ main \in {"start", "select", "check", "await"} => open
  /\ main \in {"linger", "exited"} => ~open
  /\ open => summary = 0
  /\ ~open => session = "done" /\ summary = Len(ingested)

\* The push task never runs ahead of the watch channel, and after the channel
\* is closed its request carries the final value.
OtlpInv ==
  /\ pushed <= latest /\ inFlight <= latest
  /\ otlp = "push" => pushed <= inFlight
  /\ ended => ~open
  /\ otlp = "push" /\ ended => inFlight = latest
  /\ otlp = "done" => ended /\ pushed = latest

IInv == TypeOK /\ TickInv /\ SessionInv /\ StreamInv /\ ReportInv /\ OtlpInv

------------------------------------------------------------------------------
(* Consecutive numbers in sequences.                                       *)

\* Appending the next number keeps a sequence consecutive.
LEMMA CountsAppend ==
  ASSUME NEW s \in Seq(Int), NEW n \in Int, CountsFrom(s, n)
  PROVE  CountsFrom(Append(s, n + Len(s) + 1), n)
<1> DEFINE t == Append(s, n + Len(s) + 1)
<1>1. Len(t) = Len(s) + 1
  OBVIOUS
<1>2. ASSUME NEW i \in 1..Len(t) PROVE t[i] = n + i
  <2>1. CASE i = Len(s) + 1
    BY <2>1
  <2>2. CASE i \in 1..Len(s)
    BY <2>2 DEF CountsFrom
  <2> QED BY <1>1, <2>1, <2>2
<1> QED BY <1>2 DEF CountsFrom

\* The head of a consecutive sequence is the first number, its tail starts at
\* the second.
LEMMA CountsTail ==
  ASSUME NEW s \in Seq(Int), NEW n \in Int, CountsFrom(s, n), s # <<>>
  PROVE  /\ Head(s) = n + 1
         /\ CountsFrom(Tail(s), n + 1)
         /\ Len(Tail(s)) = Len(s) - 1
<1>1. Len(s) >= 1 /\ Len(Tail(s)) = Len(s) - 1
  OBVIOUS
<1>2. Head(s) = n + 1
  BY <1>1 DEF CountsFrom
<1>3. ASSUME NEW i \in 1..Len(Tail(s)) PROVE Tail(s)[i] = (n + 1) + i
  <2>1. i + 1 \in 1..Len(s) /\ Tail(s)[i] = s[i + 1]
    BY <1>1
  <2> QED BY <2>1 DEF CountsFrom
<1> QED BY <1>1, <1>2, <1>3 DEF CountsFrom

\* The empty sequence is consecutive from anywhere.
LEMMA CountsEmpty == ASSUME NEW n PROVE CountsFrom(<<>>, n)
  BY DEF CountsFrom

\* Two consecutive sequences that start at the same number and have the same
\* length are equal.
LEMMA CountsEqual ==
  ASSUME NEW s \in Seq(Int), NEW t \in Seq(Int), NEW n \in Int,
         CountsFrom(s, n), CountsFrom(t, n), Len(s) = Len(t)
  PROVE  s = t
<1>1. \A i \in 1..Len(s) : s[i] = t[i]
  BY DEF CountsFrom
<1> QED BY <1>1, SeqEqual

\* Two consecutive sequences that join up form one.
LEMMA CountsConcat ==
  ASSUME NEW s \in Seq(Int), NEW t \in Seq(Int), NEW n \in Int,
         CountsFrom(s, n), CountsFrom(t, n + Len(s))
  PROVE  /\ s \o t \in Seq(Int)
         /\ Len(s \o t) = Len(s) + Len(t)
         /\ CountsFrom(s \o t, n)
<1>1. /\ s \o t \in Seq(Int)
      /\ Len(s \o t) = Len(s) + Len(t)
      /\ \A i \in 1..Len(s) + Len(t) :
           (s \o t)[i] = IF i <= Len(s) THEN s[i] ELSE t[i - Len(s)]
  BY ConcatProperties
<1>2. ASSUME NEW i \in 1..Len(s) + Len(t) PROVE (s \o t)[i] = n + i
  <2>1. CASE i <= Len(s)
    BY <1>1, <2>1 DEF CountsFrom
  <2>2. CASE i > Len(s)
    <3>1. i - Len(s) \in 1..Len(t)
      BY <2>2
    <3>2. t[i - Len(s)] = (n + Len(s)) + (i - Len(s))
      BY <3>1 DEF CountsFrom
    <3> QED BY <1>1, <2>2, <3>2
  <2> QED BY <2>1, <2>2
<1> QED BY <1>1, <1>2 DEF CountsFrom

\* The channels and files hold integers.
LEMMA SeqTypes ==
  TypeOK => /\ queue \in Seq(Int) /\ stream \in Seq(Int) /\ raw \in Seq(Int)
            /\ ingested \in Seq(Int) /\ rendered \in Seq(Int)
            /\ Len(raw) \in Nat /\ Len(queue) \in Nat /\ Len(ingested) \in Nat
            /\ Len(rendered) \in Nat /\ Len(stream) \in Nat
<1>1. 1..MaxTicks \subseteq Int
  OBVIOUS
<1>2. \A s \in Seq(1..MaxTicks) : s \in Seq(Int) /\ Len(s) \in Nat
  BY <1>1, SeqMonotonic, LenProperties
<1> QED BY <1>2 DEF TypeOK

------------------------------------------------------------------------------
(* What each thread and task leaves alone.                                 *)

Environment == Signal \/ TargetExit \/ TimeUp \/ Kill \/ Ended

\* The producer writes its own state and the tick channel.
LEMMA ProducerFrame ==
  Producer => Running /\ UNCHANGED <<stop, stream, sessionVars, mainVars, otlpVars>>
  BY DEF Producer, ProducerStop, ProducerSample, ProducerSend, ProducerDisconnect, ProducerSleep,
     vars, producerVars, sessionVars, mainVars, otlpVars, envVars

\* The session writes its own state and both channels.
LEMMA SessionFrame ==
  Session => Running /\ UNCHANGED <<producerVars, mainVars, otlpVars>>
  BY DEF Session, SessionCheck, SessionReceive, SessionAnalyze, SessionPublish, SessionTimeout, SessionDisconnect,
     vars, producerVars, sessionVars, mainVars, otlpVars, envVars

\* The main task consumes the stream.
LEMMA MainFrame ==
  Main => UNCHANGED <<queue, producerVars, sessionVars, otlpVars>>
  BY DEF Main, MainStart, MainBail, MainRender, MainIdle, MainStreamClosed, MainCheck, MainReport, MainExit,
     vars, producerVars, sessionVars, mainVars, otlpVars, envVars

\* The push task only reads what is not its own.
LEMMA OtlpFrame ==
  Otlp => Running /\ UNCHANGED <<stop, queue, stream, producerVars, sessionVars, mainVars>>
  BY DEF Otlp, OtlpChanged, OtlpClosed, OtlpRead, OtlpPush, OtlpIntervalElapses,
     vars, producerVars, sessionVars, mainVars, otlpVars, envVars

\* The environment can only end the process, set flags and kill the target.
LEMMA EnvironmentFrame ==
  Environment =>
    /\ UNCHANGED <<queue, stream, producerVars, sessionVars, otlpVars,
                   rendered, last, summary, open>>
    /\ main' \in {main, "killed"}
  BY DEF Environment, Signal, TargetExit, TimeUp, Kill, Ended,
     vars, producerVars, sessionVars, mainVars, otlpVars, envVars

------------------------------------------------------------------------------
(* The inductive invariant.                                                *)

\* The invariant holds initially.
LEMMA InitIInv == Init => IInv
<1> SUFFICES ASSUME Init PROVE IInv
  OBVIOUS
<1>1. TypeOK
  <2>1. Len(<<>>) <= QueueCap
    BY QueueCapAssumption
  <2>2. stop \in BOOLEAN /\ timeUp \in BOOLEAN /\ ended \in BOOLEAN /\ recent \in BOOLEAN
    BY Zenon DEF Init
  <2>3. otlp \in {"wait", "off"}
    BY DEF Init
  <2> QED
    BY <2>1, <2>2, <2>3, MaxTicksAssumption DEF Init, TypeOK, Final
<1>2. TickInv /\ SessionInv /\ StreamInv
  BY CountsEmpty DEF Init, TickInv, SessionInv, StreamInv
<1>3. ReportInv /\ OtlpInv
  BY FlagAssumption DEF Init, ReportInv, OtlpInv
<1> QED BY <1>1, <1>2, <1>3 DEF IInv

\* Types are preserved; a tick in flight has a positive number.
LEMMA TypeStep ==
  ASSUME IInv, Next PROVE TypeOK'
<1>1. CASE ProducerStop
  BY <1>1, MaxTicksAssumption DEF ProducerStop, IInv, TypeOK, Final,
    vars, producerVars, sessionVars, mainVars, otlpVars, envVars
<1>2. CASE ProducerSample
  BY <1>2, MaxTicksAssumption DEF ProducerSample, IInv, TypeOK, Final,
    vars, producerVars, sessionVars, mainVars, otlpVars, envVars
<1>3. CASE ProducerSend
  <2>1. sampled \in 1..MaxTicks
    BY <1>3 DEF IInv, TypeOK, TickInv, ProducerSend
  <2>2. Append(queue, sampled) \in Seq(1..MaxTicks) /\ Len(Append(queue, sampled)) <= QueueCap
    BY <2>1, <1>3, QueueCapAssumption DEF IInv, TypeOK, ProducerSend
  <2> QED
    BY <2>1, <2>2, <1>3, MaxTicksAssumption DEF ProducerSend, IInv, TypeOK, TickInv, SessionInv, Final,
      vars, producerVars, sessionVars, mainVars, otlpVars, envVars
<1>4. CASE ProducerDisconnect
  BY <1>4, MaxTicksAssumption DEF ProducerDisconnect, IInv, TypeOK, Final,
    vars, producerVars, sessionVars, mainVars, otlpVars, envVars
<1>5. CASE ProducerSleep
  BY <1>5, MaxTicksAssumption DEF ProducerSleep, IInv, TypeOK, Final,
    vars, producerVars, sessionVars, mainVars, otlpVars, envVars
<1>6. CASE SessionCheck
  BY <1>6, MaxTicksAssumption DEF SessionCheck, IInv, TypeOK, Final,
    vars, producerVars, sessionVars, mainVars, otlpVars, envVars
<1>7. CASE SessionReceive
  <2>1. queue \in Seq(1..MaxTicks) /\ queue # <<>>
    BY <1>7 DEF IInv, TypeOK, SessionReceive
  <2>2. Head(queue) \in 1..MaxTicks /\ Tail(queue) \in Seq(1..MaxTicks)
    BY <2>1, HeadTailProperties
  <2>3. Len(Tail(queue)) = Len(queue) - 1
    BY <2>1
  <2>4. Len(Tail(queue)) <= QueueCap
    BY <2>1, <2>3, QueueCapAssumption DEF IInv, TypeOK
  <2>5. Append(raw, Head(queue)) \in Seq(1..MaxTicks)
    BY <2>2 DEF IInv, TypeOK
  <2> QED
    BY <2>2, <2>4, <2>5, <1>7, MaxTicksAssumption DEF SessionReceive, IInv, TypeOK, Final,
      vars, producerVars, sessionVars, mainVars, otlpVars, envVars
<1>8. CASE SessionAnalyze
  BY <1>8, MaxTicksAssumption DEF SessionAnalyze, IInv, TypeOK, TickInv, SessionInv, Final,
    vars, producerVars, sessionVars, mainVars, otlpVars, envVars
<1>9. CASE SessionPublish
  BY <1>9, MaxTicksAssumption DEF SessionPublish, IInv, TypeOK, Final,
    vars, producerVars, sessionVars, mainVars, otlpVars, envVars
<1>10. CASE SessionTimeout
  BY <1>10, MaxTicksAssumption DEF SessionTimeout, IInv, TypeOK, Final,
    vars, producerVars, sessionVars, mainVars, otlpVars, envVars
<1>11. CASE SessionDisconnect
  BY <1>11, MaxTicksAssumption DEF SessionDisconnect, IInv, TypeOK, Final,
    vars, producerVars, sessionVars, mainVars, otlpVars, envVars
<1>12. CASE MainStart
  BY <1>12, MaxTicksAssumption DEF MainStart, IInv, TypeOK, Final,
    vars, producerVars, sessionVars, mainVars, otlpVars, envVars
<1>13. CASE MainBail
  BY <1>13, MaxTicksAssumption DEF MainBail, IInv, TypeOK, Final,
    vars, producerVars, sessionVars, mainVars, otlpVars, envVars
<1>14. CASE MainRender
  BY <1>14, MaxTicksAssumption DEF MainRender, IInv, TypeOK, Final,
    vars, producerVars, sessionVars, mainVars, otlpVars, envVars
<1>15. CASE MainIdle
  BY <1>15, MaxTicksAssumption DEF MainIdle, IInv, TypeOK, Final,
    vars, producerVars, sessionVars, mainVars, otlpVars, envVars
<1>16. CASE MainStreamClosed
  BY <1>16, MaxTicksAssumption DEF MainStreamClosed, IInv, TypeOK, Final,
    vars, producerVars, sessionVars, mainVars, otlpVars, envVars
<1>17. CASE MainCheck
  BY <1>17, MaxTicksAssumption DEF MainCheck, IInv, TypeOK, Final,
    vars, producerVars, sessionVars, mainVars, otlpVars, envVars
<1>18. CASE MainReport
  <2>1. last' \in 0..MaxTicks
    <3>1. CASE stream = <<>>
      BY <1>18, <3>1 DEF IInv, TypeOK, MainReport
    <3>2. CASE stream # <<>>
      <4>1. Len(stream) \in 1..Len(stream)
        BY <3>2 DEF IInv, TypeOK
      <4>2. stream[Len(stream)] \in 0..MaxTicks
        BY <4>1, MaxTicksAssumption DEF IInv, TypeOK
      <4>3. last' = stream[Len(stream)]
        BY <1>18, <3>2, Zenon DEF MainReport
      <4> QED BY <4>2, <4>3
    <3> QED BY <3>1, <3>2
  <2>2. summary' \in 0..MaxTicks
    BY <2>1, <1>18 DEF IInv, TypeOK, MainReport
  <2>3. stream' \in Seq(1..MaxTicks)
    BY <1>18 DEF MainReport
  <2>4. open' \in BOOLEAN
    BY <1>18, Zenon DEF MainReport
  <2> QED
    BY <2>1, <2>2, <2>3, <2>4, <1>18, MaxTicksAssumption DEF MainReport, IInv, TypeOK, Final,
      vars, producerVars, sessionVars, mainVars, otlpVars, envVars
<1>19. CASE MainExit
  BY <1>19, MaxTicksAssumption DEF MainExit, IInv, TypeOK, Final,
    vars, producerVars, sessionVars, mainVars, otlpVars, envVars
<1>20. CASE OtlpChanged
  BY <1>20, MaxTicksAssumption DEF OtlpChanged, IInv, TypeOK, Final,
    vars, producerVars, sessionVars, mainVars, otlpVars, envVars
<1>21. CASE OtlpClosed
  BY <1>21, MaxTicksAssumption DEF OtlpClosed, IInv, TypeOK, Final,
    vars, producerVars, sessionVars, mainVars, otlpVars, envVars
<1>22. CASE OtlpRead
  BY <1>22, MaxTicksAssumption DEF OtlpRead, IInv, TypeOK, Final,
    vars, producerVars, sessionVars, mainVars, otlpVars, envVars
<1>23. CASE OtlpPush
  BY <1>23, MaxTicksAssumption DEF OtlpPush, IInv, TypeOK, Final,
    vars, producerVars, sessionVars, mainVars, otlpVars, envVars
<1>24. CASE OtlpIntervalElapses
  <2>1. recent' \in BOOLEAN
    BY <1>24, Zenon DEF OtlpIntervalElapses
  <2> QED
    BY <2>1, <1>24, MaxTicksAssumption DEF OtlpIntervalElapses, IInv, TypeOK, Final,
      vars, producerVars, sessionVars, mainVars, otlpVars, envVars
<1>25. CASE Signal
  BY <1>25, MaxTicksAssumption DEF Signal, IInv, TypeOK, Final,
    vars, producerVars, sessionVars, mainVars, otlpVars, envVars
<1>26. CASE TargetExit
  <2>1. targetAlive' \in BOOLEAN
    BY <1>26, Zenon DEF TargetExit
  <2> QED
    BY <2>1, <1>26, MaxTicksAssumption DEF TargetExit, IInv, TypeOK, Final,
      vars, producerVars, sessionVars, mainVars, otlpVars, envVars
<1>27. CASE TimeUp
  BY <1>27, MaxTicksAssumption DEF TimeUp, IInv, TypeOK, Final,
    vars, producerVars, sessionVars, mainVars, otlpVars, envVars
<1>28. CASE Kill
  BY <1>28, MaxTicksAssumption DEF Kill, IInv, TypeOK, Final,
    vars, producerVars, sessionVars, mainVars, otlpVars, envVars
<1>29. CASE Ended
  BY <1>29, MaxTicksAssumption DEF Ended, IInv, TypeOK,
    vars, producerVars, sessionVars, mainVars, otlpVars, envVars
<1> QED
  BY <1>1, <1>2, <1>3, <1>4, <1>5, <1>6, <1>7, <1>8, <1>9, <1>10, <1>11, <1>12, <1>13, <1>14, <1>15, <1>16, <1>17, <1>18, <1>19, <1>20, <1>21, <1>22, <1>23, <1>24, <1>25, <1>26, <1>27, <1>28, <1>29
  DEF Next, Environment, Producer, Session, Main, Otlp

\* Ticks keep their order from the sampler to the trace, and none is lost while
\* the session receives.
LEMMA TickStep ==
  ASSUME IInv, Next PROVE TickInv'
<1> USE DEF TickInv
<1>1. CASE ProducerStop \/ ProducerSample \/ ProducerDisconnect \/ ProducerSleep
  <2>1. UNCHANGED <<queue, raw, session>>
    BY <1>1 DEF ProducerStop, ProducerSample, ProducerDisconnect, ProducerSleep, sessionVars
  <2>2. \/ producer' = "send" /\ producer # "send" /\ sampled' = sampled + 1
        \/ producer' # "send" /\ sampled' = sampled /\ (producer # "send" \/ session = "done")
    BY <1>1 DEF ProducerStop, ProducerSample, ProducerDisconnect, ProducerSleep
  <2>3. sampled \in Nat /\ Len(raw) \in Nat /\ Len(queue) \in Nat
    BY SeqTypes DEF IInv, TypeOK
  <2> QED BY <2>1, <2>2, <2>3 DEF IInv
<1>2. CASE ProducerSend
  <2>1. sampled = Len(raw) + Len(queue) + 1
    BY <1>2 DEF IInv, ProducerSend
  <2>2. queue \in Seq(Int) /\ raw \in Seq(Int) /\ Len(raw) \in Int
    BY SeqTypes DEF IInv
  <2>3. CountsFrom(Append(queue, sampled), Len(raw))
    BY <2>1, <2>2, CountsAppend DEF IInv
  <2>4. Len(Append(queue, sampled)) = Len(queue) + 1
    BY <2>2
  <2> QED
    BY <1>2, <2>1, <2>2, <2>3, <2>4 DEF IInv, TypeOK, ProducerSend, sessionVars
<1>3. CASE SessionReceive
  <2>1. queue \in Seq(Int) /\ raw \in Seq(Int) /\ Len(raw) \in Int /\ queue # <<>>
    BY <1>3, SeqTypes DEF IInv, SessionReceive
  <2>2. /\ Head(queue) = Len(raw) + 1
        /\ CountsFrom(Tail(queue), Len(raw) + 1)
        /\ Len(Tail(queue)) = Len(queue) - 1
    BY <2>1, CountsTail DEF IInv
  <2>3. CountsFrom(Append(raw, 0 + Len(raw) + 1), 0)
    BY <2>1, CountsAppend DEF IInv
  <2>4. Len(Append(raw, Head(queue))) = Len(raw) + 1
    BY <2>1
  <2>5. Len(raw) + 1 <= sampled
    BY SMTT(30), <1>3, <2>1 DEF IInv, TypeOK, SessionReceive
  <2>6. raw' = Append(raw, Len(raw) + 1) /\ queue' = Tail(queue)
    BY <1>3, <2>2 DEF SessionReceive
  <2>7. CountsFrom(raw', 0) /\ CountsFrom(queue', Len(raw')) /\ Len(raw') <= sampled
    BY <2>1, <2>2, <2>3, <2>4, <2>5, <2>6
  <2> QED
    BY <1>3, <2>1, <2>2, <2>4, <2>6, <2>7 DEF IInv, TypeOK, SessionReceive, producerVars
<1>4. CASE SessionCheck \/ SessionAnalyze \/ SessionPublish \/ SessionTimeout \/ SessionDisconnect
  BY <1>4 DEF IInv, TypeOK, SessionCheck, SessionAnalyze, SessionPublish, SessionTimeout,
    SessionDisconnect, producerVars
<1>5. CASE Main \/ Otlp \/ Environment
  <2>1. UNCHANGED <<queue, raw, sampled, producer, session>>
    BY <1>5, MainFrame, OtlpFrame, EnvironmentFrame DEF producerVars, sessionVars
  <2> QED BY <2>1 DEF IInv
<1> QED
  BY <1>1, <1>2, <1>3, <1>4, <1>5 DEF Next, Environment, Producer, Session

\* The analyzer takes in what the trace holds, in the same order.
LEMMA SessionStep ==
  ASSUME IInv, Next PROVE SessionInv'
<1> USE DEF SessionInv
<1>1. CASE SessionReceive
  <2>1. Len(raw') = Len(raw) + 1
    BY SMTT(30), <1>1 DEF IInv, TypeOK, SessionReceive
  <2>2. Head(queue) = Len(raw) + 1
    BY <1>1, SeqTypes, CountsTail DEF IInv, TickInv, SessionReceive
  <2> QED
    BY <1>1, <2>1, <2>2 DEF IInv, TypeOK, SessionReceive
<1>2. CASE SessionAnalyze
  <2>1. inHand = Len(ingested) + 1 /\ ingested \in Seq(Int)
    BY <1>2, SeqTypes DEF IInv, SessionAnalyze
  <2>2. CountsFrom(ingested', 0)
    BY <1>2, <2>1, CountsAppend DEF IInv, SessionAnalyze
  <2>3. Len(ingested') = Len(ingested) + 1
    BY <1>2, <2>1 DEF SessionAnalyze
  <2> QED
    BY <1>2, <2>1, <2>2, <2>3 DEF IInv, TypeOK, SessionAnalyze
<1>3. CASE SessionPublish
  BY <1>3 DEF IInv, TypeOK, SessionPublish
<1>4. CASE SessionCheck \/ SessionTimeout \/ SessionDisconnect
  BY <1>4 DEF IInv, TypeOK, SessionCheck, SessionTimeout, SessionDisconnect
<1>5. CASE Producer \/ Main \/ Otlp \/ Environment
  <2>1. UNCHANGED sessionVars
    BY <1>5, ProducerFrame, MainFrame, OtlpFrame, EnvironmentFrame
  <2> QED BY <2>1 DEF IInv, sessionVars
<1> QED
  BY <1>1, <1>2, <1>3, <1>4, <1>5 DEF Next, Environment, Session

\* Rendering takes the snapshots from the stream in order.
LEMMA StreamStep ==
  ASSUME IInv, Next PROVE StreamInv'
<1> USE DEF StreamInv
<1>1. CASE SessionAnalyze
  <2>1. /\ inHand = Len(ingested) + 1 /\ stream \in Seq(Int) /\ ingested \in Seq(Int)
        /\ rendered \in Seq(Int) /\ Len(rendered) \in Int
    BY <1>1, SeqTypes DEF IInv, SessionInv, SessionAnalyze
  <2>2. open
    BY <1>1 DEF IInv, TypeOK, ReportInv, SessionAnalyze
  <2>3. CountsFrom(stream', Len(rendered))
    BY <1>1, <2>1, <2>2, CountsAppend DEF IInv, SessionAnalyze
  <2>4. Len(stream') = Len(stream) + 1 /\ Len(ingested') = Len(ingested) + 1
    BY <1>1, <2>1 DEF SessionAnalyze
  <2>5. UNCHANGED <<rendered, open, last>>
    BY <1>1 DEF SessionAnalyze, mainVars
  <2>6. Len(stream) \in Nat /\ Len(ingested) \in Nat
    BY SeqTypes DEF IInv
  <2>7. Len(rendered) + Len(stream) = Len(ingested)
    BY <2>2 DEF IInv
  <2>8. Len(rendered) + Len(stream') = Len(ingested')
    BY <2>1, <2>4, <2>6, <2>7
  <2>9. Len(rendered) <= Len(ingested')
    BY <2>1, <2>4, <2>6 DEF IInv
  <2> QED
    BY <2>2, <2>3, <2>5, <2>8, <2>9 DEF IInv
<1>2. CASE MainRender
  <2>1. stream \in Seq(Int) /\ rendered \in Seq(Int) /\ Len(rendered) \in Int /\ stream # <<>>
    BY <1>2, SeqTypes DEF IInv, MainRender
  <2>2. open
    BY <1>2 DEF IInv, ReportInv, MainRender
  <2>3. /\ Head(stream) = Len(rendered) + 1
        /\ CountsFrom(Tail(stream), Len(rendered) + 1)
        /\ Len(Tail(stream)) = Len(stream) - 1
    BY <2>1, CountsTail DEF IInv
  <2>4. rendered' = Append(rendered, 0 + Len(rendered) + 1)
    BY <1>2, <2>1, <2>3 DEF MainRender
  <2>5. CountsFrom(rendered', 0) /\ Len(rendered') = Len(rendered) + 1
    BY <2>1, <2>4, CountsAppend DEF IInv
  <2>6. CountsFrom(stream', Len(rendered'))
    BY <1>2, <2>3, <2>5 DEF MainRender
  <2>7. Len(stream) \in Nat \ {0} /\ Len(ingested) \in Nat /\ Len(rendered) \in Nat
    BY <2>1, SeqTypes DEF IInv
  <2>8. UNCHANGED <<ingested, open>>
    BY <1>2 DEF MainRender, sessionVars
  <2>9. Len(stream') = Len(stream) - 1
    BY <1>2, <2>3 DEF MainRender
  <2>10. Len(rendered') # 0 /\ Len(rendered') <= Len(ingested')
    BY <2>1, <2>2, <2>5, <2>7, <2>8 DEF IInv
  <2>11. Len(rendered') + Len(stream') = Len(ingested')
    <3>1. Len(rendered) + Len(stream) = Len(ingested)
      BY <2>2 DEF IInv
    <3>2. Len(ingested') = Len(ingested)
      BY <2>8
    <3> HIDE DEF StreamInv
    <3> QED BY <3>1, <3>2, <2>5, <2>7, <2>9
  <2> QED
    BY <2>2, <2>5, <2>6, <2>8, <2>10, <2>11 DEF IInv
<1>3. CASE MainReport
  <2>1. stream' = <<>> /\ ~open' /\ UNCHANGED <<rendered, ingested>>
    BY <1>3 DEF MainReport, sessionVars
  <2> QED BY <2>1, CountsEmpty DEF IInv
<1>4. CASE \/ Producer \/ Otlp \/ Environment
           \/ SessionCheck \/ SessionReceive \/ SessionPublish
           \/ SessionTimeout \/ SessionDisconnect
           \/ MainStart \/ MainBail \/ MainIdle \/ MainStreamClosed
           \/ MainCheck \/ MainExit
  <2>1. UNCHANGED <<stream, rendered, ingested, open, last>>
    BY <1>4, ProducerFrame, OtlpFrame, EnvironmentFrame
    DEF SessionCheck, SessionReceive, SessionPublish, SessionTimeout, SessionDisconnect,
      MainStart, MainBail, MainIdle, MainStreamClosed, MainCheck, MainExit,
      sessionVars, mainVars
  <2> QED BY <2>1 DEF IInv
<1> QED
  BY <1>1, <1>2, <1>3, <1>4 DEF Next, Environment, Session, Main

\* The report is written once, after the session task has ended.
LEMMA ReportStep ==
  ASSUME IInv, Next PROVE ReportInv'
<1> USE DEF ReportInv
<1>1. CASE MainReport
  <2>1. latest = Len(ingested) /\ Len(ingested) \in Nat
    BY <1>1 DEF IInv, TypeOK, SessionInv, MainReport
  <2>2. summary' = Len(ingested)
    <3>1. CASE latest # 0
      BY <1>1, <2>1, <3>1 DEF MainReport
    <3>2. CASE latest = 0
      <4>1. Len(rendered) = 0 /\ stream = <<>>
        BY <1>1, <2>1, <3>2 DEF IInv, TypeOK, StreamInv, MainReport
      <4>2. last = 0
        BY <1>1, <4>1 DEF IInv, StreamInv, MainReport
      <4> QED BY <1>1, <2>1, <3>2, <4>1, <4>2 DEF MainReport
    <3> QED BY <3>1, <3>2
  <2> QED
    BY <1>1, <2>2, Zenon DEF MainReport, sessionVars
<1>2. CASE \/ MainStart \/ MainBail \/ MainRender \/ MainIdle \/ MainStreamClosed
           \/ MainCheck \/ MainExit
  BY <1>2 DEF IInv, MainStart, MainBail, MainRender, MainIdle, MainStreamClosed,
    MainCheck, MainExit, sessionVars
<1>3. CASE Session
  BY <1>3, SessionFrame DEF IInv, mainVars, Session, SessionCheck, SessionReceive,
    SessionAnalyze, SessionPublish, SessionTimeout, SessionDisconnect
<1>4. CASE Producer \/ Otlp
  BY <1>4, ProducerFrame, OtlpFrame DEF IInv, sessionVars, mainVars
<1>5. CASE Environment
  BY <1>5, EnvironmentFrame DEF IInv, sessionVars
<1> QED
  BY <1>1, <1>2, <1>3, <1>4, <1>5 DEF Next, Environment, Main

\* The push task follows the watch channel.
LEMMA OtlpStep ==
  ASSUME IInv, Next PROVE OtlpInv'
<1> USE DEF OtlpInv
<1>1. CASE OtlpChanged
  BY <1>1 DEF IInv, TypeOK, OtlpChanged, sessionVars, mainVars
<1>2. CASE OtlpClosed
  BY <1>2 DEF IInv, TypeOK, OtlpClosed, sessionVars, mainVars
<1>3. CASE OtlpRead
  BY <1>3 DEF IInv, TypeOK, OtlpRead, sessionVars, mainVars
<1>4. CASE OtlpPush
  BY <1>4 DEF IInv, TypeOK, OtlpPush, sessionVars, mainVars
<1>5. CASE OtlpIntervalElapses
  BY <1>5 DEF IInv, TypeOK, OtlpIntervalElapses, sessionVars, mainVars
<1>6. CASE SessionPublish
  <2>1. latest' = latest + 1 /\ open
    BY <1>6 DEF IInv, TypeOK, SessionInv, ReportInv, SessionPublish
  <2>2. UNCHANGED <<otlpVars, open>>
    BY <1>6 DEF SessionPublish, mainVars
  <2> QED BY <2>1, <2>2 DEF IInv, TypeOK, otlpVars
<1>7. CASE \/ Producer \/ Environment \/ SessionCheck \/ SessionReceive \/ SessionAnalyze
           \/ SessionTimeout \/ SessionDisconnect
  <2>1. UNCHANGED <<otlpVars, latest, open>>
    BY <1>7, ProducerFrame, EnvironmentFrame
    DEF SessionCheck, SessionReceive, SessionAnalyze, SessionTimeout, SessionDisconnect,
      sessionVars, mainVars
  <2> QED BY <2>1 DEF IInv, otlpVars
<1>8. CASE Main
  <2>1. UNCHANGED <<otlpVars, latest>> /\ (~open => ~open')
    BY <1>8, MainFrame DEF Main, MainStart, MainBail, MainRender, MainIdle,
      MainStreamClosed, MainCheck, MainReport, MainExit, sessionVars
  <2> QED BY <2>1 DEF IInv, otlpVars
<1> QED
  BY <1>1, <1>2, <1>3, <1>4, <1>5, <1>6, <1>7, <1>8 DEF Next, Environment, Session, Otlp

\* Every step preserves the invariant.
LEMMA NextIInv == IInv /\ [Next]_vars => IInv'
<1> SUFFICES ASSUME IInv, [Next]_vars PROVE IInv'
  OBVIOUS
<1>1. CASE Next
  BY <1>1, TypeStep, TickStep, SessionStep, StreamStep, ReportStep, OtlpStep DEF IInv
<1>2. CASE UNCHANGED vars
  <2> USE <1>2 DEF IInv, vars, producerVars, sessionVars, mainVars, otlpVars, envVars
  <2>1. TypeOK'
    BY DEF TypeOK
  <2>2. TickInv' /\ SessionInv'
    BY DEF TickInv, SessionInv
  <2>3. StreamInv' /\ ReportInv'
    BY DEF StreamInv, ReportInv
  <2>4. OtlpInv'
    BY DEF OtlpInv
  <2> QED BY <2>1, <2>2, <2>3, <2>4
<1> QED BY <1>1, <1>2

\* The inductive invariant holds in every reachable state of every session.
THEOREM InductiveInvariant == Spec => []IInv
  BY InitIInv, NextIInv, PTL DEF Spec

------------------------------------------------------------------------------
(* The properties.                                                         *)

\* Types: in particular the bounded tick channel never exceeds its capacity.
THEOREM TypeCorrectness == Spec => []TypeOK
<1>1. IInv => TypeOK
  BY DEF IInv
<1> QED BY <1>1, InductiveInvariant, PTL

\* The stream between the session and the render loop is lossless.
THEOREM StreamCorrectness == Spec => []RenderedThenStreamed
<1>1. IInv => RenderedThenStreamed
  <2> SUFFICES ASSUME IInv, main \in {"start", "select", "check", "await"}
               PROVE  rendered \o stream = ingested
    BY DEF RenderedThenStreamed
  <2>1. /\ rendered \in Seq(Int) /\ stream \in Seq(Int) /\ ingested \in Seq(Int)
        /\ Len(rendered) \in Nat
    BY SeqTypes DEF IInv
  <2>2. CountsFrom(rendered, 0) /\ CountsFrom(stream, 0 + Len(rendered)) /\ CountsFrom(ingested, 0)
    BY <2>1 DEF IInv, StreamInv, SessionInv
  <2>3. Len(rendered) + Len(stream) = Len(ingested)
    BY DEF IInv, StreamInv, ReportInv
  <2> DEFINE both == rendered \o stream
  <2>4. both \in Seq(Int) /\ Len(both) = Len(ingested) /\ CountsFrom(both, 0)
    BY <2>1, <2>2, <2>3, CountsConcat
  <2> HIDE DEF both
  <2>5. both = ingested
    BY <2>1, <2>2, <2>4, CountsEqual
  <2> QED BY <2>5 DEF both
<1> QED BY <1>1, InductiveInvariant, PTL

\* The final report describes the newest snapshot.
THEOREM SummaryCorrectness == Spec => []SummaryIsNewest
<1>1. IInv => SummaryIsNewest
  BY DEF IInv, ReportInv, SummaryIsNewest
<1> QED BY <1>1, InductiveInvariant, PTL

\* Everything that left the pipeline can be recomputed from the raw trace.
THEOREM RawTraceCorrectness == Spec => []RawCoversExposed
<1>1. IInv => RawCoversExposed
  <2> SUFFICES ASSUME IInv,
                      NEW n \in {rendered[i] : i \in 1..Len(rendered)}
                                  \cup {latest, inFlight, pushed, summary},
                      n # 0
               PROVE  n \in {raw[i] : i \in 1..Len(raw)}
    BY DEF RawCoversExposed
  <2>1. Len(raw) \in Nat /\ Len(ingested) \in Nat /\ Len(rendered) \in Nat
    BY SeqTypes DEF IInv
  <2>2. Len(ingested) <= Len(raw)
    BY <2>1 DEF IInv, SessionInv
  <2>3. \A i \in 1..Len(rendered) : rendered[i] \in 1..Len(ingested)
    BY <2>1 DEF IInv, StreamInv, CountsFrom
  <2>4. latest \in 0..Len(ingested)
    BY <2>1 DEF IInv, TypeOK, SessionInv
  <2>5. inFlight \in 0..Len(ingested) /\ pushed \in 0..Len(ingested)
    BY <2>1, <2>4, SMTT(30) DEF IInv, TypeOK, OtlpInv
  <2>6. summary \in 0..Len(ingested)
    BY <2>1 DEF IInv, TypeOK, ReportInv
  <2>7. n \in 1..Len(raw)
    BY <2>1, <2>2, <2>3, <2>4, <2>5, <2>6
  <2>8. raw[n] = n
    BY <2>7 DEF IInv, TickInv, CountsFrom
  <2> QED BY <2>7, <2>8
<1> QED BY <1>1, InductiveInvariant, PTL

\* A push task that ended by itself has pushed the reported snapshot.
THEOREM FinalPushCorrectness == Spec => []FinalPush
<1>1. IInv => FinalPush
  <2> SUFFICES ASSUME IInv, otlp = "done" PROVE pushed = summary
    BY DEF FinalPush
  <2>1. ~open /\ pushed = latest
    BY DEF IInv, OtlpInv
  <2>2. latest = Len(ingested) /\ summary = Len(ingested)
    BY <2>1, SeqTypes DEF IInv, SessionInv, ReportInv
  <2> QED BY <2>1, <2>2
<1> QED BY <1>1, InductiveInvariant, PTL

\* Pushes carry newer and newer snapshots.
THEOREM PushOrder == Spec => PushesNeverGoBack
<1>1. IInv /\ [Next]_vars => [pushed' >= pushed]_vars
  <2> SUFFICES ASSUME IInv, Next PROVE pushed' >= pushed
    OBVIOUS
  <2>1. pushed \in Nat /\ inFlight \in Nat
    BY DEF IInv, TypeOK
  <2>2. CASE OtlpPush
    BY <2>1, <2>2 DEF IInv, OtlpInv, OtlpPush
  <2>3. CASE OtlpChanged \/ OtlpClosed \/ OtlpRead \/ OtlpIntervalElapses
    BY <2>1, <2>3 DEF OtlpChanged, OtlpClosed, OtlpRead, OtlpIntervalElapses
  <2>4. CASE Producer \/ Session \/ Main \/ Environment
    BY <2>1, <2>4, ProducerFrame, SessionFrame, MainFrame, EnvironmentFrame DEF otlpVars
  <2> QED BY <2>2, <2>3, <2>4 DEF Next, Environment, Otlp
<1> QED BY <1>1, InductiveInvariant, PTL DEF Spec, PushesNeverGoBack

\* Only SessionDisconnect takes the session from waiting to its end.
LEMMA SessionEnd ==
  Next /\ session = "recv" /\ session' = "done" => SessionDisconnect
<1> SUFFICES ASSUME Next, session = "recv", session' = "done" PROVE SessionDisconnect
  OBVIOUS
<1>1. Session
  BY ProducerFrame, MainFrame, OtlpFrame, EnvironmentFrame DEF Next, Environment, sessionVars
<1> QED
  BY <1>1 DEF Session, SessionCheck, SessionReceive, SessionAnalyze, SessionPublish,
    SessionTimeout

\* An input that ended has been analyzed to its last tick, in order.
THEOREM InputCompleteness == Spec => DisconnectIsComplete
<1>1. IInv /\ [Next]_vars =>
        [session = "recv" /\ session' = "done" => ingested = [i \in 1..sampled |-> i]]_vars
  <2> SUFFICES ASSUME IInv, Next, session = "recv", session' = "done"
               PROVE  ingested = [i \in 1..sampled |-> i]
    OBVIOUS
  <2>1. queue = <<>> /\ producer = "done"
    BY SessionEnd DEF SessionDisconnect
  <2>2. sampled = Len(raw)
    BY <2>1, SeqTypes DEF IInv, TickInv
  <2>3. ingested \in Seq(Int) /\ Len(ingested) = sampled /\ sampled \in Nat
    BY <2>2, SeqTypes DEF IInv, SessionInv
  <2>4. ingested = [i \in 1..sampled |-> ingested[i]]
    BY <2>3, LenProperties
  <2>5. \A i \in 1..sampled : ingested[i] = i
    BY <2>3 DEF IInv, SessionInv, CountsFrom
  <2> QED BY <2>4, <2>5, Zenon
<1> QED BY <1>1, InductiveInvariant, PTL DEF Spec, DisconnectIsComplete

\* A render loop that ended with its stream has shown every snapshot.
THEOREM StreamCompleteness == Spec => StreamEndIsComplete
<1>1. IInv /\ [Next]_vars =>
        [main = "select" /\ main' = "await" => rendered = ingested]_vars
  <2> SUFFICES ASSUME IInv, Next, main = "select", main' = "await"
               PROVE  rendered = ingested
    OBVIOUS
  <2>1. Main
    BY ProducerFrame, SessionFrame, OtlpFrame, EnvironmentFrame
    DEF Next, Environment, mainVars
  <2>2. stream = <<>>
    BY <2>1 DEF Main, MainStart, MainBail, MainRender, MainIdle, MainStreamClosed,
      MainCheck, MainReport, MainExit
  <2>3. Len(rendered) = Len(ingested)
    BY <2>2, SeqTypes DEF IInv, StreamInv, ReportInv
  <2> QED
    BY <2>3, SeqTypes, CountsEqual DEF IInv, StreamInv, SessionInv
<1> QED BY <1>1, InductiveInvariant, PTL DEF Spec, StreamEndIsComplete

------------------------------------------------------------------------------
(* The refinement.                                                         *)

\* The threads, channels and exporters implement the ordered snapshot log.
THEOREM Refinement == Spec => ImplementsLog
<1>1. Init => Log!Init
  BY Zenon DEF Init, Log!Init
<1>2. IInv /\ [Next]_vars => [Log!Next]_Log!vars
  <2> SUFFICES ASSUME IInv, Next PROVE Log!Next \/ UNCHANGED Log!vars
    BY DEF vars, mainVars, sessionVars, Log!vars
  <2>1. CASE SessionAnalyze
    <3>1. open /\ main \notin {"bailed", "killed"}
      BY <2>1 DEF IInv, ReportInv, SessionAnalyze, Running, Final
    <3>2. Len(ingested') = Len(ingested) + 1 /\ Len(ingested) < MaxTicks
      <4>1. ingested \in Seq(Int) /\ Len(ingested) \in Nat
        BY SeqTypes DEF IInv
      <4>2. Len(ingested') = Len(ingested) + 1
        BY <2>1, <4>1 DEF SessionAnalyze
      <4>3. Len(raw) = Len(ingested) + 1 /\ Len(raw) <= sampled
        BY <2>1 DEF IInv, SessionInv, TickInv, SessionAnalyze
      <4>4. sampled \in 0..MaxTicks
        BY DEF IInv, TypeOK
      <4> QED BY <4>1, <4>2, <4>3, <4>4, MaxTicksAssumption
    <3>3. UNCHANGED <<rendered, open, main, summary>>
      BY <2>1 DEF SessionAnalyze, mainVars
    <3>4. Log!Observe
      BY <3>1, <3>2, <3>3 DEF Log!Observe
    <3> QED BY <3>4 DEF Log!Next
  <2>2. CASE MainRender
    <3>1. open /\ main \notin {"bailed", "killed"} /\ main' \notin {"bailed", "killed"}
      BY <2>2 DEF IInv, ReportInv, MainRender
    <3>2. Len(rendered) < Len(ingested)
      BY <2>2, <3>1, SeqTypes DEF IInv, StreamInv, MainRender
    <3>3. rendered' = Append(rendered, Len(rendered) + 1)
      BY <2>2, SeqTypes, CountsTail DEF IInv, StreamInv, MainRender
    <3>4. UNCHANGED <<ingested, open, summary>>
      BY <2>2 DEF MainRender, sessionVars
    <3>5. Log!Show
      BY <3>1, <3>2, <3>3, <3>4 DEF Log!Show
    <3> QED BY <3>5 DEF Log!Next
  <2>3. CASE MainReport
    <3>1. open /\ main \notin {"bailed", "killed"} /\ ~open'
      BY <2>3 DEF IInv, ReportInv, MainReport
    <3>2. summary' = Len(ingested)
      BY <2>3, ReportStep DEF ReportInv, MainReport, sessionVars
    <3>3. UNCHANGED <<ingested, rendered>>
      BY <2>3 DEF MainReport, sessionVars
    <3>4. Log!Close
      BY <3>1, <3>2, <3>3 DEF Log!Close
    <3> QED BY <3>4 DEF Log!Next
  <2>4. CASE MainBail \/ Kill
    <3>1. UNCHANGED <<ingested, rendered, open, summary>>
      BY <2>4 DEF MainBail, Kill, sessionVars
    <3>2. main' \in {"bailed", "killed"} /\ main \notin {"bailed", "killed"}
      BY <2>4 DEF MainBail, Kill, Running, Final
    <3>3. CASE open
      <4>1. Log!Abort
        BY <3>1, <3>2, <3>3 DEF Log!Abort
      <4> QED BY <4>1 DEF Log!Next
    <3>4. CASE ~open
      BY <3>1, <3>2, <3>4 DEF Log!vars
    <3> QED BY <3>3, <3>4
  <2>5. CASE MainStart \/ MainIdle \/ MainStreamClosed \/ MainCheck \/ MainExit
    <3>1. UNCHANGED <<ingested, rendered, open, summary>>
      BY <2>5 DEF MainStart, MainIdle, MainStreamClosed, MainCheck, MainExit, sessionVars
    <3>2. main \notin {"bailed", "killed"} /\ main' \notin {"bailed", "killed"}
      BY <2>5 DEF MainStart, MainIdle, MainStreamClosed, MainCheck, MainExit
    <3> QED BY <3>1, <3>2 DEF Log!vars
  <2>6. CASE \/ Producer \/ Otlp \/ Signal \/ TargetExit \/ TimeUp \/ Ended
             \/ SessionCheck \/ SessionReceive \/ SessionPublish
             \/ SessionTimeout \/ SessionDisconnect
    <3>1. UNCHANGED <<ingested, mainVars>>
      BY <2>6, ProducerFrame, OtlpFrame
      DEF Signal, TargetExit, TimeUp, Ended, SessionCheck, SessionReceive, SessionPublish,
        SessionTimeout, SessionDisconnect, sessionVars, vars
    <3> QED BY <3>1 DEF Log!vars, mainVars
  <2> QED
    BY <2>1, <2>2, <2>3, <2>4, <2>5, <2>6 DEF Next, Session, Main
<1> QED BY <1>1, <1>2, InductiveInvariant, PTL DEF Spec, ImplementsLog, Log!Spec
==============================================================================
