----------------------------- MODULE MCBlocking -----------------------------
(* Instances of Blocking for TLC: slot 0 is init, slots 1 and up the tasks  *)
(* of the run, whose roles the configurations choose.                       *)
EXTENDS Blocking
=============================================================================
