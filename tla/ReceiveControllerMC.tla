------------------------- MODULE ReceiveControllerMC -------------------------
(***************************************************************************)
(* Instances of ReceiveController: a client that only enables listening,   *)
(* and one that switches it.                                               *)
(***************************************************************************)
EXTENDS ReceiveController

EnableOnly == {TRUE}
OnAndOff == BOOLEAN
=============================================================================
