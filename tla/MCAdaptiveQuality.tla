--------------------------- MODULE MCAdaptiveQuality ---------------------------
(* Instances of AdaptiveQuality for TLC; the constants are given in the .cfg. *)
EXTENDS AdaptiveQuality, TLC

=============================================================================
