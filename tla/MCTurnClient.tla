------------------------------ MODULE MCTurnClient ------------------------------
(* Instances of TurnClient for TLC; the constants are given in the .cfg. *)
EXTENDS TurnClient, TLC

=============================================================================
