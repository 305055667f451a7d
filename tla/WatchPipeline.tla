---------------------------- MODULE WatchPipeline ----------------------------
(***************************************************************************)
(* `calibrate watch`: the threads and tasks of one monitoring session and  *)
(* the channels between them.                                              *)
(*                                                                         *)
(*   producer  the OS thread that samples a live target                    *)
(*             (collectors/runner.rs) or replays a trace                   *)
(*             (collectors/replay.rs) into the bounded tick channel;       *)
(*   session   the task of session/lifecycle.rs that turns ticks into      *)
(*             snapshots, sends each of them down the unbounded `stream`   *)
(*             and publishes it on the latest-only watch channel;          *)
(*   main      the render loop of commands/watch.rs, which also writes     *)
(*             --record and ends the session;                              *)
(*   otlp      the push task of export/otlp.rs, reading the watch channel. *)
(*                                                                         *)
(* A tick is its number (the n-th sample of the session) and the snapshot  *)
(* computed from it has the same number, so that order, loss and           *)
(* duplication are visible; 0 stands for "no snapshot" (None).  The tokio  *)
(* watch channel's version is incremented by each send and each send has a *)
(* higher number, so `latest` is value and version in one.                 *)
(***************************************************************************)
EXTENDS Integers, Sequences

CONSTANTS
  Mode,        \* "process", "device" or "replay"
  QueueCap,    \* capacity of the tick channel (256 live, 1024 replay)
  MaxTicks,    \* bound: samples a live producer takes; length of the trace
  HasOtlp      \* is --otlp-endpoint given?

ASSUME ModeAssumption == Mode \in {"process", "device", "replay"}
ASSUME QueueCapAssumption == QueueCap \in Nat \ {0}
ASSUME MaxTicksAssumption == MaxTicks \in Nat \ {0}
ASSUME FlagAssumption == HasOtlp \in BOOLEAN

VARIABLES
  stop,        \* the shared AtomicBool
  targetAlive, \* does the monitored root process exist?
  timeUp,      \* quit requested in the TUI, or --duration elapsed
  producer,    \* control state of the producer thread
  sampled,     \* ticks taken so far
  queue,       \* the bounded tick channel
  session,     \* control state of the session task
  inHand,      \* tick the session is working on, 0 for none
  raw,         \* ticks written to --record-raw, each flushed
  ingested,    \* ticks the analyzer has taken in
  stream,      \* the unbounded snapshot channel
  latest,      \* value (and version) of the watch channel
  open,        \* the watch channel's sender still exists
  main,        \* control state of the main task
  rendered,    \* snapshots written to --record and rendered, in order
  last,        \* main's `last`
  summary,     \* snapshot of the final report and the session_end line
  otlp,        \* control state of the push task
  seen,        \* version the push task has marked as seen
  ended,       \* push task: the channel was closed
  recent,      \* push task: last push younger than min_interval
  inFlight,    \* snapshot of the request being sent, 0 for none
  pushed       \* snapshot of the last completed request, 0 for none

producerVars == <<producer, sampled>>
sessionVars  == <<session, inHand, raw, ingested, latest>>
mainVars     == <<main, rendered, last, summary, open>>
otlpVars     == <<otlp, seen, ended, recent, inFlight, pushed>>
envVars      == <<targetAlive, timeUp>>
vars == <<stop, queue, stream, producerVars, sessionVars, mainVars, otlpVars, envVars>>

Final == {"exited", "bailed", "killed"}

\* Threads and tasks live as long as the process does: none is joined except
\* the session task, and the producer dies with the process.
Running == main \notin Final

TypeOK ==
  /\ stop \in BOOLEAN /\ targetAlive \in BOOLEAN /\ timeUp \in BOOLEAN
  /\ producer \in {"check", "send", "sleep", "done"}
  /\ sampled \in 0..MaxTicks
  /\ queue \in Seq(1..MaxTicks) /\ Len(queue) <= QueueCap
  /\ session \in {"check", "recv", "analyze", "publish", "done"}
  /\ inHand \in 0..MaxTicks
  /\ raw \in Seq(1..MaxTicks) /\ ingested \in Seq(1..MaxTicks)
  /\ stream \in Seq(1..MaxTicks) /\ rendered \in Seq(1..MaxTicks)
  /\ latest \in 0..MaxTicks /\ open \in BOOLEAN
  /\ main \in {"start", "select", "check", "await", "linger"} \cup Final
  /\ last \in 0..MaxTicks /\ summary \in 0..MaxTicks
  /\ otlp \in {"off", "wait", "read", "push", "done"}
  /\ seen \in 0..MaxTicks /\ inFlight \in 0..MaxTicks /\ pushed \in 0..MaxTicks
  /\ ended \in BOOLEAN /\ recent \in BOOLEAN

Init ==
  /\ stop = FALSE /\ targetAlive = TRUE /\ timeUp = FALSE
  /\ producer = "check" /\ sampled = 0
  /\ queue = <<>> /\ stream = <<>>
  /\ session = "check" /\ inHand = 0 /\ raw = <<>> /\ ingested = <<>>
  /\ latest = 0 /\ open = TRUE
  /\ main = "start" /\ rendered = <<>> /\ last = 0 /\ summary = 0
  /\ otlp = IF HasOtlp THEN "wait" ELSE "off"
  /\ seen = 0 /\ ended = FALSE /\ recent = FALSE /\ inFlight = 0 /\ pushed = 0

------------------------------------------------------------------------------
(* The producer thread.                                                    *)

\* The monitored root process is gone, or the trace has been replayed.
EndOfInput ==
  \/ Mode = "process" /\ ~targetAlive
  \/ Mode = "replay" /\ sampled = MaxTicks

\* Top of the loop: leave on `stop` or at the end of the input.
ProducerStop ==
  /\ Running /\ producer = "check"
  /\ stop \/ EndOfInput
  /\ producer' = "done"
  /\ UNCHANGED <<stop, queue, stream, sampled, sessionVars, mainVars, otlpVars, envVars>>

\* Top of the loop: take the next sample.
ProducerSample ==
  /\ Running /\ producer = "check"
  /\ ~stop /\ ~EndOfInput
  /\ sampled < MaxTicks
  /\ sampled' = sampled + 1
  /\ producer' = "send"
  /\ UNCHANGED <<stop, queue, stream, sessionVars, mainVars, otlpVars, envVars>>

\* Mutants of ProducerSend: the capacity is off by one; the newest tick is put
\* in front.
ProducerSendOffByOne ==
  /\ Running /\ producer = "send" /\ session # "done"
  /\ Len(queue) <= QueueCap
  /\ queue' = Append(queue, sampled)
  /\ producer' = IF Mode = "replay" THEN "check" ELSE "sleep"
  /\ UNCHANGED <<stop, stream, sampled, sessionVars, mainVars, otlpVars, envVars>>

ProducerSendInFront ==
  /\ Running /\ producer = "send" /\ session # "done"
  /\ Len(queue) < QueueCap
  /\ queue' = <<sampled>> \o queue
  /\ producer' = IF Mode = "replay" THEN "check" ELSE "sleep"
  /\ UNCHANGED <<stop, stream, sampled, sessionVars, mainVars, otlpVars, envVars>>

\* tx.send: waits while the channel is full ...
ProducerSend ==
  /\ Running /\ producer = "send" /\ session # "done"
  /\ Len(queue) < QueueCap
  /\ queue' = Append(queue, sampled)
  /\ producer' = IF Mode = "replay" THEN "check" ELSE "sleep"
  /\ UNCHANGED <<stop, stream, sampled, sessionVars, mainVars, otlpVars, envVars>>

\* ... and fails once the session has dropped the receiver.
ProducerDisconnect ==
  /\ Running /\ producer = "send" /\ session = "done"
  /\ producer' = "done"
  /\ UNCHANGED <<stop, queue, stream, sampled, sessionVars, mainVars, otlpVars, envVars>>

\* The sliced sleep between live samples: `stop` ends the thread, otherwise
\* the interval passes.
ProducerSleep ==
  /\ Running /\ producer = "sleep"
  /\ producer' = IF stop THEN "done" ELSE "check"
  /\ UNCHANGED <<stop, queue, stream, sampled, sessionVars, mainVars, otlpVars, envVars>>

Producer ==
  \/ ProducerStop \/ ProducerSample \/ ProducerSend
  \/ ProducerDisconnect \/ ProducerSleep

------------------------------------------------------------------------------
(* The session task.                                                       *)

SessionCheck ==
  /\ Running /\ session = "check"
  /\ session' = IF stop THEN "done" ELSE "recv"
  /\ UNCHANGED <<stop, queue, stream, inHand, raw, ingested, latest,
                 producerVars, mainVars, otlpVars, envVars>>

\* Mutant of SessionReceive: the trace writer does not flush.
SessionReceiveUnflushed ==
  /\ Running /\ session = "recv" /\ queue # <<>>
  /\ inHand' = Head(queue)
  /\ queue' = Tail(queue)
  /\ session' = "analyze"
  /\ UNCHANGED <<stop, stream, raw, ingested, latest, producerVars, mainVars, otlpVars, envVars>>

\* A tick is received and passed to on_tick, which writes and flushes it.
SessionReceive ==
  /\ Running /\ session = "recv" /\ queue # <<>>
  /\ inHand' = Head(queue)
  /\ queue' = Tail(queue)
  /\ raw' = Append(raw, Head(queue))
  /\ session' = "analyze"
  /\ UNCHANGED <<stop, stream, ingested, latest, producerVars, mainVars, otlpVars, envVars>>

\* Mutants of SessionAnalyze: a bounded stream that drops what does not fit,
\* and one that waits for room.
SessionAnalyzeDropping ==
  /\ Running /\ session = "analyze"
  /\ ingested' = Append(ingested, inHand)
  /\ stream' = IF stream = <<>> THEN <<inHand>> ELSE stream
  /\ session' = "publish"
  /\ UNCHANGED <<stop, queue, inHand, raw, latest, producerVars, mainVars, otlpVars, envVars>>

SessionAnalyzeBounded ==
  /\ Running /\ session = "analyze" /\ stream = <<>>
  /\ ingested' = Append(ingested, inHand)
  /\ stream' = <<inHand>>
  /\ session' = "publish"
  /\ UNCHANGED <<stop, queue, inHand, raw, latest, producerVars, mainVars, otlpVars, envVars>>

\* The analyzer takes the tick in and the snapshot goes down the stream.
SessionAnalyze ==
  /\ Running /\ session = "analyze"
  /\ ingested' = Append(ingested, inHand)
  /\ stream' = Append(stream, inHand)
  /\ session' = "publish"
  /\ UNCHANGED <<stop, queue, inHand, raw, latest, producerVars, mainVars, otlpVars, envVars>>

\* The snapshot replaces the value of the watch channel.
SessionPublish ==
  /\ Running /\ session = "publish"
  /\ latest' = inHand
  /\ inHand' = 0
  /\ session' = "check"
  /\ UNCHANGED <<stop, queue, stream, raw, ingested, producerVars, mainVars, otlpVars, envVars>>

\* 200 ms without a tick: back to the check of `stop`.
SessionTimeout ==
  /\ Running /\ session = "recv" /\ queue = <<>> /\ producer # "done"
  /\ session' = "check"
  /\ UNCHANGED <<stop, queue, stream, inHand, raw, ingested, latest,
                 producerVars, mainVars, otlpVars, envVars>>

\* Mutants of SessionDisconnect: it ends with ticks still queued; it takes the
\* closed channel for a timeout.
SessionDisconnectEager ==
  /\ Running /\ session = "recv" /\ producer = "done"
  /\ session' = "done"
  /\ UNCHANGED <<stop, queue, stream, inHand, raw, ingested, latest,
                 producerVars, mainVars, otlpVars, envVars>>

SessionDisconnectRetried ==
  /\ Running /\ session = "recv" /\ queue = <<>> /\ producer = "done"
  /\ session' = "check"
  /\ UNCHANGED <<stop, queue, stream, inHand, raw, ingested, latest,
                 producerVars, mainVars, otlpVars, envVars>>

\* The producer is gone and every tick it sent has been received.
SessionDisconnect ==
  /\ Running /\ session = "recv" /\ queue = <<>> /\ producer = "done"
  /\ session' = "done"
  /\ UNCHANGED <<stop, queue, stream, inHand, raw, ingested, latest,
                 producerVars, mainVars, otlpVars, envVars>>

Session ==
  \/ SessionCheck \/ SessionReceive \/ SessionAnalyze
  \/ SessionPublish \/ SessionTimeout \/ SessionDisconnect

------------------------------------------------------------------------------
(* The main task.                                                          *)

\* The renderer is created after the session task has been spawned.
MainStart ==
  /\ main = "start"
  /\ main' = "select"
  /\ UNCHANGED <<stop, queue, stream, rendered, last, summary, open,
                 producerVars, sessionVars, otlpVars, envVars>>

\* No interactive terminal, or the TUI cannot be set up: run() returns an
\* error and the process ends with everything in it.
MainBail ==
  /\ main = "start"
  /\ main' = "bailed"
  /\ UNCHANGED <<stop, queue, stream, rendered, last, summary, open,
                 producerVars, sessionVars, otlpVars, envVars>>

\* Mutant of MainRender: only the newest snapshot in the stream is shown.
MainRenderNewest ==
  /\ main = "select" /\ stream # <<>>
  /\ rendered' = Append(rendered, stream[Len(stream)])
  /\ last' = stream[Len(stream)]
  /\ stream' = <<>>
  /\ main' = "check"
  /\ UNCHANGED <<stop, queue, summary, open, producerVars, sessionVars, otlpVars, envVars>>

\* select!: a snapshot arrives, is recorded, flushed and rendered.
MainRender ==
  /\ main = "select" /\ stream # <<>>
  /\ rendered' = Append(rendered, Head(stream))
  /\ last' = Head(stream)
  /\ stream' = Tail(stream)
  /\ main' = "check"
  /\ UNCHANGED <<stop, queue, summary, open, producerVars, sessionVars, otlpVars, envVars>>

\* select!: 200 ms pass without a snapshot (the TUI repaints `last`).
MainIdle ==
  /\ main = "select" /\ stream = <<>> /\ session # "done"
  /\ main' = "check"
  /\ UNCHANGED <<stop, queue, stream, rendered, last, summary, open,
                 producerVars, sessionVars, otlpVars, envVars>>

\* Mutant of MainStreamClosed: the end of the session is noticed before the
\* stream is empty.
MainStreamClosedEager ==
  /\ main = "select" /\ session = "done"
  /\ main' = "await"
  /\ stop' = TRUE
  /\ UNCHANGED <<queue, stream, rendered, last, summary, open,
                 producerVars, sessionVars, otlpVars, envVars>>

\* select!: the session has dropped the stream and it is empty.
MainStreamClosed ==
  /\ main = "select" /\ stream = <<>> /\ session = "done"
  /\ main' = "await"
  /\ stop' = TRUE
  /\ UNCHANGED <<queue, stream, rendered, last, summary, open,
                 producerVars, sessionVars, otlpVars, envVars>>

\* Mutant of MainCheck: the deadline is not looked at.
MainCheckNoDeadline ==
  /\ main = "check"
  /\ main' = IF stop THEN "await" ELSE "select"
  /\ UNCHANGED <<stop, queue, stream, rendered, last, summary, open,
                 producerVars, sessionVars, otlpVars, envVars>>

\* End of the loop body: a quit request or the deadline sets `stop`, and
\* `stop` leaves the loop.
MainCheck ==
  /\ main = "check"
  /\ stop' = (stop \/ timeUp)
  /\ main' = IF stop \/ timeUp THEN "await" ELSE "select"
  /\ UNCHANGED <<queue, stream, rendered, last, summary, open,
                 producerVars, sessionVars, otlpVars, envVars>>

\* Mutant of MainReport: the session task is not joined.
MainReportUnjoined ==
  /\ main = "await"
  /\ last' = IF stream = <<>> THEN last ELSE stream[Len(stream)]
  /\ stream' = <<>>
  /\ summary' = IF latest # 0 THEN latest ELSE last'
  /\ open' = FALSE
  /\ main' = "linger"
  /\ UNCHANGED <<stop, queue, rendered, producerVars, sessionVars, otlpVars, envVars>>

\* After the loop: join the session task, drain the stream into `last`, take
\* the watch channel's value as the final snapshot, drop its sender, report.
MainReport ==
  /\ main = "await" /\ session = "done"
  /\ last' = IF stream = <<>> THEN last ELSE stream[Len(stream)]
  /\ stream' = <<>>
  /\ summary' = IF latest # 0 THEN latest ELSE last'
  /\ open' = FALSE
  /\ main' = "linger"
  /\ UNCHANGED <<stop, queue, rendered, producerVars, sessionVars, otlpVars, envVars>>

\* Mutant of MainExit: the push task is awaited without a timeout.
MainExitUnbounded ==
  /\ main = "linger" /\ otlp \in {"off", "done"}
  /\ main' = "exited"
  /\ UNCHANGED <<stop, queue, stream, rendered, last, summary, open,
                 producerVars, sessionVars, otlpVars, envVars>>

\* The push task is awaited for at most five seconds; without one, or after
\* that time, run() returns.
MainExit ==
  /\ main = "linger"
  /\ main' = "exited"
  /\ UNCHANGED <<stop, queue, stream, rendered, last, summary, open,
                 producerVars, sessionVars, otlpVars, envVars>>

Main ==
  \/ MainStart \/ MainBail \/ MainRender \/ MainIdle \/ MainStreamClosed
  \/ MainCheck \/ MainReport \/ MainExit

------------------------------------------------------------------------------
(* The OTLP push task.                                                     *)

\* changed() returns Ok: a version not seen yet.  Within min_interval of the
\* last push the loop continues without pushing.
OtlpChanged ==
  /\ Running /\ otlp = "wait" /\ seen # latest
  /\ seen' = latest
  /\ otlp' = IF recent THEN "wait" ELSE "read"
  /\ UNCHANGED <<stop, queue, stream, ended, recent, inFlight, pushed,
                 producerVars, sessionVars, mainVars, envVars>>

\* Mutant of OtlpClosed: the task ends without the final push.
OtlpClosedNoPush ==
  /\ Running /\ otlp = "wait" /\ seen = latest /\ ~open
  /\ ended' = TRUE
  /\ otlp' = "done"
  /\ UNCHANGED <<stop, queue, stream, seen, recent, inFlight, pushed,
                 producerVars, sessionVars, mainVars, envVars>>

\* changed() fails: nothing unseen and the sender is gone.
OtlpClosed ==
  /\ Running /\ otlp = "wait" /\ seen = latest /\ ~open
  /\ ended' = TRUE
  /\ otlp' = "read"
  /\ UNCHANGED <<stop, queue, stream, seen, recent, inFlight, pushed,
                 producerVars, sessionVars, mainVars, envVars>>

\* borrow() the current value, which may be newer than the version seen, and
\* start the request; nothing to push if no snapshot was ever published.
OtlpRead ==
  /\ Running /\ otlp = "read"
  /\ inFlight' = latest
  /\ otlp' = IF latest # 0 THEN "push" ELSE IF ended THEN "done" ELSE "wait"
  /\ UNCHANGED <<stop, queue, stream, seen, ended, recent, pushed,
                 producerVars, sessionVars, mainVars, envVars>>

\* The request is answered, refused or times out; only a log line depends on
\* which.  The push counts against the rate limit in every case.
OtlpPush ==
  /\ Running /\ otlp = "push"
  /\ pushed' = inFlight
  /\ inFlight' = 0
  /\ recent' = TRUE
  /\ otlp' = IF ended THEN "done" ELSE "wait"
  /\ UNCHANGED <<stop, queue, stream, seen, ended,
                 producerVars, sessionVars, mainVars, envVars>>

\* min_interval has passed since the last push.
OtlpIntervalElapses ==
  /\ Running /\ recent
  /\ recent' = FALSE
  /\ UNCHANGED <<stop, queue, stream, otlp, seen, ended, inFlight, pushed,
                 producerVars, sessionVars, mainVars, envVars>>

Otlp ==
  \/ OtlpChanged \/ OtlpClosed \/ OtlpRead \/ OtlpPush \/ OtlpIntervalElapses

------------------------------------------------------------------------------
(* The environment.                                                        *)

\* SIGINT or SIGTERM: the handler task stores TRUE in `stop`.
Signal ==
  /\ Running /\ ~stop
  /\ stop' = TRUE
  /\ UNCHANGED <<queue, stream, producerVars, sessionVars, mainVars, otlpVars, envVars>>

\* The monitored process exits.
TargetExit ==
  /\ Running /\ Mode = "process" /\ targetAlive
  /\ targetAlive' = FALSE
  /\ UNCHANGED <<stop, queue, stream, timeUp, producerVars, sessionVars, mainVars, otlpVars>>

\* The user presses a quit key, or the deadline passes.
TimeUp ==
  /\ Running /\ ~timeUp
  /\ timeUp' = TRUE
  /\ UNCHANGED <<stop, queue, stream, targetAlive, producerVars, sessionVars, mainVars, otlpVars>>

\* SIGKILL, or the host's OOM killer: the files keep what was flushed.
Kill ==
  /\ Running
  /\ main' = "killed"
  /\ UNCHANGED <<stop, queue, stream, rendered, last, summary, open,
                 producerVars, sessionVars, otlpVars, envVars>>

\* The process has ended.
Ended == ~Running /\ UNCHANGED vars

Next ==
  \/ Producer \/ Session \/ Main \/ Otlp
  \/ Signal \/ TargetExit \/ TimeUp \/ Kill \/ Ended

Spec == Init /\ [][Next]_vars

\* The OS runs the producer thread and tokio its tasks.  The push task gets no
\* fairness: its request may take arbitrarily long.  The target need not exit
\* and the user need not act.
Fairness == WF_vars(Producer) /\ WF_vars(Session) /\ WF_vars(Main)

FairSpec == Spec /\ Fairness

------------------------------------------------------------------------------
(* Properties.                                                             *)

\* Until the session is reported, what has been recorded and rendered followed
\* by what is still in the stream is exactly what the analyzer took in: the
\* unbounded stream loses, repeats and reorders nothing (lifecycle.rs run()).
RenderedThenStreamed ==
  main \in {"start", "select", "check", "await"} => rendered \o stream = ingested

\* The report (and the session_end line) describes the newest snapshot the
\* analyzer produced, also when the render loop had not reached it, and never
\* a snapshot that was not analyzed.
SummaryIsNewest ==
  main \in {"linger", "exited"} => summary = Len(ingested)

\* Whatever a user, a file or an exporter has been given was computed from a
\* tick that is in the --record-raw trace on disk, at every instant: a killed
\* session can be replayed up to and beyond everything it showed.
RawCoversExposed ==
  LET Exposed == {rendered[i] : i \in 1..Len(rendered)}
                   \cup {latest, inFlight, pushed, summary}
  IN Exposed \ {0} \subseteq {raw[i] : i \in 1..Len(raw)}

\* When the push task has ended on its own, its last request carried the very
\* snapshot of the final report ("then once more", otlp.rs).
FinalPush == otlp = "done" => pushed = summary

\* A collector never sees the metrics of an older snapshot after those of a
\* newer one.
PushesNeverGoBack == [][pushed' >= pushed]_vars

\* When the session ends because its input did, every tick that was sampled
\* has been analyzed, in order.
DisconnectIsComplete ==
  [][session = "recv" /\ session' = "done" => ingested = [i \in 1..sampled |-> i]]_vars

\* When the render loop ends because the stream did, every snapshot has been
\* recorded and rendered.
StreamEndIsComplete ==
  [][main = "select" /\ main' = "await" => rendered = ingested]_vars

\* Stopping is prompt in every state: with a full tick channel, a producer
\* asleep, a session waiting for ticks, a push that never returns.
StopLeadsToExit == stop ~> ~Running

\* A session whose input ended ends too.
InputEndLeadsToExit == producer = "done" ~> ~Running

\* A quit key or --duration ends the session even if the target runs on and
\* no snapshot arrives.
QuitLeadsToExit == timeUp ~> ~Running

\* The producer is never blocked for good on the full tick channel.
BackpressureIsReleased == producer = "send" ~> producer # "send" \/ ~Running

\* The render loop may be stuck writing to a terminal or a pipe nobody reads.
StalledRendererSpec == Spec /\ WF_vars(Producer) /\ WF_vars(Session)

\* lifecycle.rs:427 and docs/deployment.md:12: the stream is "lossless, for JSON
\* output and recording", stopping cleanly "flush[es] recordings".
RecordingIsLossless == main = "exited" => rendered = ingested

------------------------------------------------------------------------------
(* The pipeline implements the session log.                                *)

Log == INSTANCE SnapshotLog WITH
  observed <- Len(ingested),
  shown    <- rendered,
  phase    <- IF ~open THEN "closed"
              ELSE IF main \in {"bailed", "killed"} THEN "aborted" ELSE "open",
  report   <- summary

\* Every behaviour of the threads, channels and exporters is one of an ordered
\* log that is shown as a prefix and reported at its newest entry.
ImplementsLog == Log!Spec
==============================================================================
