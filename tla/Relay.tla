-------------------------------- MODULE Relay --------------------------------
(***************************************************************************)
(* What the signalling server promises its connections, with no rooms      *)
(* table, slots, locks or goroutines.                                      *)
(*                                                                         *)
(* A connection joins a room, says messages, is sent some, and leaves.  A  *)
(* message that is accepted goes to at most one member of the same room    *)
(* with the other role, at the end of that member's box, or is dropped.  A *)
(* joining client may in addition be sent an offer that a device of its    *)
(* room said before.  A connection that left is sent nothing any more.     *)
(***************************************************************************)
EXTENDS Naturals, Sequences

CONSTANTS Device, Client, RoomId, Kind, MaxMsgs, Nil

Conn == Device \cup Client

VARIABLES
    phase,   \* connection -> "out", "in" or "left"
    member,  \* connection -> the room it asked for
    said,    \* connection -> number of messages accepted from it
    box,     \* connection -> messages waiting to be delivered to it
    got      \* connection -> messages delivered to it

vars == <<phase, member, said, box, got>>

Msg == [from : Conn, kind : Kind, n : 1..MaxMsgs]

Opposite(c, d) == (c \in Device) # (d \in Device)

Init ==
    /\ phase = [c \in Conn |-> "out"]
    /\ member = [c \in Conn |-> Nil]
    /\ said = [c \in Conn |-> 0]
    /\ box = [c \in Conn |-> <<>>]
    /\ got = [c \in Conn |-> <<>>]

Join(c, i) ==
    /\ phase[c] = "out"
    /\ phase' = [phase EXCEPT ![c] = "in"]
    /\ member' = [member EXCEPT ![c] = i]
    /\ UNCHANGED <<said, box, got>>

Leave(c) ==
    /\ phase[c] = "in"
    /\ phase' = [phase EXCEPT ![c] = "left"]
    /\ UNCHANGED <<member, said, box, got>>

Put(d, m) == box' = [box EXCEPT ![d] = Append(@, m)]

\* A message of c is accepted, and dropped or put in one peer's box.
Say(c, k) ==
    /\ phase[c] = "in"
    /\ said[c] < MaxMsgs
    /\ said' = [said EXCEPT ![c] = @ + 1]
    /\ \/ UNCHANGED box
       \/ \E d \in Conn :
            /\ phase[d] = "in" /\ member[d] = member[c] /\ Opposite(c, d)
            /\ Put(d, [from |-> c, kind |-> k, n |-> said[c] + 1])
    /\ UNCHANGED <<phase, member, got>>

\* An offer said earlier by a device of the room is put in a client's box.
Replay(c, m) ==
    /\ c \in Client /\ phase[c] = "in"
    /\ m.kind = "offer" /\ m.from \in Device
    /\ member[m.from] = member[c] /\ m.n <= said[m.from]
    /\ Put(c, m)
    /\ UNCHANGED <<phase, member, said, got>>

Deliver(c) ==
    /\ box[c] # <<>>
    /\ got' = [got EXCEPT ![c] = Append(@, Head(box[c]))]
    /\ box' = [box EXCEPT ![c] = Tail(@)]
    /\ UNCHANGED <<phase, member, said>>

\* A delivery that failed: the message is lost, the order of the rest is not.
Lose(c) ==
    /\ box[c] # <<>>
    /\ box' = [box EXCEPT ![c] = Tail(@)]
    /\ UNCHANGED <<phase, member, said, got>>

Next ==
    \E c \in Conn :
        \/ \E i \in RoomId : Join(c, i)
        \/ Leave(c)
        \/ \E k \in Kind : Say(c, k)
        \/ \E m \in Msg : Replay(c, m)
        \/ Deliver(c)
        \/ Lose(c)

Spec == Init /\ [][Next]_vars

=============================================================================
