------------------------------ MODULE MCVerdict -------------------------------
(***************************************************************************)
(* A steady job, watched from the middle of its run, and one long step.    *)
(***************************************************************************)
EXTENDS Verdict

Step(time) == [step |-> 11, time |-> time, data |-> Unknown, compute |-> Unknown,
               optimizer |-> Unknown, tokens |-> 100]
Saw(steps) ==
  [gpus |-> <<[busy |-> 90, mem |-> 20, throttle |-> {}, clock |-> 100]>>, cpu |-> 10,
   steps |-> steps, framework |-> "pytorch", mfu |-> 50, upper |-> FALSE]

MCSessions == {[backend |-> TRUE, target |-> 40, accelerator |-> "cuda"]}
MCObservations == {Saw(<<Step(1), Step(1), Step(1), Step(1), Step(1)>>), Saw(<<Step(8)>>)}
==============================================================================
