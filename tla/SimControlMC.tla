----------------------------- MODULE SimControlMC -----------------------------
(***************************************************************************)
(* Controller processes for model checking SimControl.  They are strings,  *)
(* as is the name of the init process they share the set "due" with.       *)
(***************************************************************************)
EXTENDS SimControl

TwoControllers == {"p_transmit", "p_receive"}
=============================================================================
