------------------------------ MODULE MCHookApi ------------------------------
(***************************************************************************)
(* HookApi on its own, with one model.                                     *)
(***************************************************************************)
EXTENDS HookApi

MCModels == {[params |-> 1, layers |-> 1, hidden |-> 1, seq |-> 1, lora |-> FALSE]}
==============================================================================
