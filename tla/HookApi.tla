-------------------------------- MODULE HookApi --------------------------------
(***************************************************************************)
(* The Python side of the training hook: a process-wide hook that times    *)
(* steps and phases (src/python/calibrate_hook/__init__.py) and the Trainer *)
(* callback that drives it (integrations.py).  How a message travels is    *)
(* HookChannel's; here it is what the training loop's calls make it say.   *)
(***************************************************************************)
EXTENDS Integers, Sequences

CONSTANTS
  Usages,      \* "managed": `with step()` and `with phase()`; "callback": the Trainer's;
               \* "explicit": step_begin and step_end in any order
  Models,      \* models a program may start a hook for: [params, layers, hidden, seq, lora]
  Checkpoints, \* what the Trainer may have counted when it begins to train
  MaxTokens,   \* bound: the Trainer counts no further
  MaxClockTicks, \* bound: ticks of the clock in a behaviour
  MaxHooks,    \* bound: hooks created
  MaxMessages  \* bound: steps published

ASSUME ModelsAssumption ==
  \A m \in Models : m.params \in Nat /\ m.layers \in Nat /\ m.hidden \in Nat /\ m.seq \in Nat

ASSUME CheckpointsAssumption == Checkpoints \subseteq Nat

Untimed == -1   \* Python's None for a time or a count

VARIABLES
  usage,       \* how this program reports its steps
  sync,        \* the hook's sync mode: "step" | "phases" | "none"
  perf,        \* perf_counter
  hooks,       \* every Hook created, in order
  global,      \* index of _GLOBAL in hooks, 0 when there is none
  held,        \* the hook the training loop was given
  inStep,      \* is a `with step()` or a Trainer step open?
  phase,       \* the phase open: [name, since], or NoPhase
  seen,        \* the Trainer's num_input_tokens_seen
  counted,     \* the callback's _tokens_seen
  published,   \* the messages handed to the server, oldest first
  earned,      \* history: tokens the Trainer has counted since its last step or its beginning
  anew,        \* history: what its counter was set to since, Untimed if it was not
  truth        \* history: the two for each of the messages

history == <<earned, anew, truth>>
hookVars ==
  <<usage, sync, perf, hooks, global, held, inStep, phase, seen, counted, published, history>>

Names == {"compute", "optimizer"}
NoPhase == [name |-> "none", since |-> Untimed]
NewHook(flops) ==
  [open |-> TRUE, flops |-> flops, step |-> 0, lastEnd |-> Untimed, begin |-> Untimed,
   phases |-> [n \in Names |-> 0]]

HookInit ==
  /\ usage \in Usages /\ sync \in {"step", "phases", "none"}
  /\ perf = 0 /\ hooks = <<>> /\ global = 0 /\ held = 0
  /\ inStep = FALSE /\ phase = NoPhase
  /\ seen = 0 /\ counted = 0 /\ published = <<>>
  /\ earned = 0 /\ anew = Untimed /\ truth = <<>>

------------------------------------------------------------------------------
(* start and stop: one hook per process, whatever it is started with again. *)

\* transformer_flops_per_token: without a parameter count there is none.
FlopsPerToken(m) ==
  LET attention == m.layers * m.hidden * m.seq IN
  IF m.params = 0 THEN 0
  ELSE IF m.lora THEN 4 * m.params + 8 * attention ELSE 6 * m.params + 12 * attention

\* The Trainer's callback starts it at every train(), which counts from nothing
\* or on from a checkpoint, and may follow one that broke off within a step.
Start(model) ==
  /\ usage = "callback" \/ ~inStep
  /\ inStep' = FALSE
  /\ IF usage = "callback"
     THEN \E n \in Checkpoints : seen' = n /\ anew' = n /\ earned' = 0
     ELSE UNCHANGED <<seen, anew, earned>>
  /\ IF global # 0
     THEN held' = global /\ UNCHANGED <<hooks, global>>
     ELSE /\ Len(hooks) < MaxHooks
          /\ hooks' = Append(hooks, NewHook(FlopsPerToken(model)))
          /\ global' = Len(hooks') /\ held' = Len(hooks')
  /\ UNCHANGED <<usage, sync, perf, phase, counted, published, truth>>

Stop ==
  /\ global # 0
  /\ hooks' = [hooks EXCEPT ![global].open = FALSE]
  /\ global' = 0
  /\ UNCHANGED <<usage, sync, perf, held, inStep, phase, seen, counted, published, history>>

------------------------------------------------------------------------------
(* Steps and phases.                                                      *)

\* Mutant of Begun: the phases of the step before are still there.
BegunKeepingPhases(h) == [h EXCEPT !.begin = perf]

Begun(h) == [h EXCEPT !.begin = perf, !.phases = [n \in Names |-> 0]]

StepBegin ==
  /\ held # 0
  /\ usage = "explicit" \/ ~inStep
  /\ inStep' = (usage # "explicit")
  /\ hooks' = [hooks EXCEPT ![held] = Begun(@)]
  /\ UNCHANGED <<usage, sync, perf, global, held, phase, seen, counted, published, history>>

\* _synchronize waits for the device.
SyncTakes(syncs) == IF syncs THEN {0, 1} ELSE {0}

\* Mutant of Message: a step lasts from its own beginning.
MessageSinceBegin(h, end, tokens) ==
  [hook |-> held, step |-> h.step + 1, end |-> end,
   time |-> end - (IF h.begin # Untimed THEN h.begin ELSE end),
   data |-> Untimed, compute |-> 0, optimizer |-> 0, tokens |-> tokens, flops |-> Untimed]

\* A step lasts from the end of the one before, so what passes between two
\* steps is its data wait.
Message(h, end, tokens) ==
  LET begin == IF h.begin # Untimed THEN h.begin ELSE end
      since == IF h.lastEnd # Untimed THEN h.lastEnd ELSE begin
      timed == sync = "phases" /\ \E n \in Names : h.phases[n] > 0
  IN  [hook |-> held, step |-> h.step + 1, end |-> end, time |-> end - since,
       data |-> IF h.lastEnd = Untimed THEN Untimed
                ELSE IF begin > h.lastEnd THEN begin - h.lastEnd ELSE 0,
       compute |-> IF timed THEN h.phases["compute"] ELSE 0,
       optimizer |-> IF timed THEN h.phases["optimizer"] ELSE 0,
       tokens |-> tokens,
       flops |-> IF h.flops > 0 /\ tokens > 0 THEN h.flops * tokens ELSE Untimed]

\* A step without a length is not a step, but still ends the one before.
Finish(tokens) ==
  \E wait \in SyncTakes(sync # "none") :
    LET h == hooks[held]
        end == perf + wait
        m == Message(h, end, tokens)
        said == m.time > 0
    IN
    /\ perf' = end /\ end <= MaxClockTicks
    /\ hooks' = [hooks EXCEPT ![held] =
         [h EXCEPT !.lastEnd = end, !.begin = Untimed,
                   !.step = IF said THEN h.step + 1 ELSE h.step]]
    /\ published' = IF said /\ h.open THEN Append(published, m) ELSE published
    /\ truth' = IF said /\ h.open THEN Append(truth, [earned |-> earned, anew |-> anew])
                ELSE truth

\* step_end, from the loop or when `with step()` is left, normally or not.
StepEnd ==
  /\ held # 0 /\ usage # "callback" /\ Len(published) < MaxMessages
  /\ usage = "explicit" \/ (inStep /\ phase = NoPhase)
  /\ inStep' = FALSE
  /\ Finish(2)
  /\ UNCHANGED <<usage, sync, global, held, phase, seen, counted, earned, anew>>

PhaseEnter(n) ==
  /\ held # 0 /\ usage = "managed" /\ inStep /\ phase = NoPhase
  /\ phase' = [name |-> n, since |-> perf]
  /\ UNCHANGED <<usage, sync, perf, hooks, global, held, inStep, seen, counted, published,
                 history>>

PhaseExit ==
  /\ phase # NoPhase /\ phase' = NoPhase
  /\ \E wait \in SyncTakes(sync = "phases") :
       /\ perf' = perf + wait /\ perf' <= MaxClockTicks
       /\ hooks' = [hooks EXCEPT ![held].phases[phase.name] = @ + perf' - phase.since]
  /\ UNCHANGED <<usage, sync, global, held, inStep, seen, counted, published, history>>

------------------------------------------------------------------------------
(* hf_callback: on_step_end reports what the Trainer's counter has gained.  *)

\* Mutant of Gained: all tokens so far are reported.
GainedAll == IF seen = 0 THEN Untimed ELSE seen

Gained == IF seen = 0 \/ seen <= counted THEN Untimed ELSE seen - counted

OnStepEnd ==
  /\ held # 0 /\ usage = "callback" /\ inStep /\ Len(published) < MaxMessages
  /\ inStep' = FALSE
  /\ counted' = seen
  /\ earned' = 0 /\ anew' = Untimed
  /\ Finish(Gained)
  /\ UNCHANGED <<usage, sync, global, held, phase, seen>>

\* The training program: time goes by, and a step of the Trainer counts its
\* tokens, unless counting is off.
TimeGoesBy ==
  /\ perf < MaxClockTicks /\ perf' = perf + 1
  /\ \/ UNCHANGED <<seen, earned>>
     \/ /\ usage = "callback" /\ inStep /\ seen < MaxTokens
        /\ seen' = seen + 2 /\ earned' = earned + 2
  /\ UNCHANGED <<usage, sync, hooks, global, held, inStep, phase, counted, published, anew,
                 truth>>

HookNext ==
  \/ \E m \in Models : Start(m)
  \/ Stop \/ StepBegin \/ StepEnd \/ OnStepEnd \/ PhaseExit \/ TimeGoesBy
  \/ \E n \in Names : PhaseEnter(n)

HookSpec == HookInit /\ [][HookNext]_hookVars

------------------------------------------------------------------------------
(* Properties.                                                            *)

\* Each step of a hook is numbered after, and begins where, the one before
\* ended: no moment of the run is in two steps or in none, even when the loop
\* forgets to begin a step or begins it twice (docs/hook.md, `step_s`).
TimeIsTiled ==
  \A i, j \in DOMAIN published :
    LET m == published[i]  n == published[j] IN
    m.hook = n.hook /\ n.step = m.step + 1 => n.end - n.time = m.end

\* What a message says of the parts of a step fits into it, when the loop
\* opens and closes steps and phases as the context managers do.
PartsFit ==
  usage # "explicit" =>
    \A i \in DOMAIN published :
      LET m == published[i] IN
      (IF m.data = Untimed THEN 0 ELSE m.data) + m.compute + m.optimizer <= m.time

TokensIn(m) == IF m.tokens = Untimed THEN 0 ELSE m.tokens

\* A message of the callback reports the tokens the Trainer counted in that
\* step, those and no others, whichever steps before it went unpublished.  In
\* the first step after the counter was set to nothing it may report fewer.
\* One set to a checkpoint's count is left to FlopsAreOfTheStep.
TokensAreOfTheStep ==
  usage = "callback" =>
    \A i \in DOMAIN published :
      /\ truth[i].anew = Untimed => TokensIn(published[i]) = truth[i].earned
      /\ truth[i].anew = 0 => TokensIn(published[i]) <= truth[i].earned

\* The steps the hook publishes add up: their times cover the run once, their
\* parts fit into them and their tokens are those counted in them, at most once
\* each: a step without a length and a closed hook take theirs with them
\* (calibrate_hook step_end, phase and hf_callback).
MeasurementsAddUp == TimeIsTiled /\ PartsFit /\ TokensAreOfTheStep

\* docs/hook.md:104: `flops` are the "model FLOPs performed in this step", so
\* those of the tokens that the Trainer counted in it.
FlopsAreOfTheStep ==
  usage = "callback" =>
    \A i \in DOMAIN published :
      LET m == published[i] IN
      m.flops # Untimed => m.flops = hooks[m.hook].flops * truth[i].earned
==============================================================================
