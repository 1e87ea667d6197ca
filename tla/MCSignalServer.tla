--------------------------- MODULE MCSignalServer ---------------------------
(* Instances of SignalServer for TLC. *)
EXTENDS SignalServer, TLC

\* Connections of one role are interchangeable, and so are room ids.
Symmetry == Permutations(Device) \cup Permutations(Client) \cup Permutations(RoomId)

=============================================================================
