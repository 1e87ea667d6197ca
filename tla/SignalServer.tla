---------------------------- MODULE SignalServer ----------------------------
(***************************************************************************)
(* The signalling server (signal/main.go).                                 *)
(*                                                                         *)
(* Every accepted WebSocket is served by two goroutines: the handler       *)
(* (wsHandler, program counter pc) and the write pump (writePump, program  *)
(* counter wp).  They meet the other connections in two places only: the   *)
(* global table rooms (under roomsMu) and the room objects it points to    *)
(* (each under its own mu).  An action is one critical section or one      *)
(* channel operation, so the interleavings are those of the goroutines.    *)
(*                                                                         *)
(* A room object is identified by the connection whose getOrCreate made    *)
(* it: a handler calls getOrCreate once, so the name is unique, and two    *)
(* objects for the same room id can coexist, as they can in the program.   *)
(***************************************************************************)
EXTENDS Naturals, Sequences, FiniteSets

CONSTANTS
    Device,     \* connections made with role=device
    Client,     \* connections made with role=client
    RoomId,     \* room names
    Kind,       \* message types that can be told apart
    SendCap,    \* capacity of peer.send (64 in the code)
    MaxMsgs,    \* bound: messages a connection sends during its life
    Talker,     \* bound: the connections whose peer sends messages at all
    Staller,    \* bound: the connections whose peer may stop reading
    Nil         \* Go's nil

Conn == Device \cup Client

ASSUME RolesDisjoint == Device \cap Client = {}
ASSUME NilIsNoConn == Nil \notin Conn
ASSUME OfferIsAKind == "offer" \in Kind
ASSUME BoundsAssumption == SendCap \in Nat \ {0} /\ MaxMsgs \in Nat
ASSUME PeersAssumption == Talker \subseteq Conn /\ Staller \subseteq Conn

VARIABLES
    pc,          \* where each handler is
    wp,          \* where each write pump is
    wire,        \* the TCP connection, as the server can experience it
    rid,         \* the room id the handler was called with
    rm,          \* the room object the handler holds a pointer to
    cached,      \* the handler's local copy of the cached offer
    open,        \* whether p.send has not been closed
    queue,       \* the contents of p.send
    got,         \* history: what the pump wrote to the peer, in order
    lost,        \* history: what was dropped because p.send was full
    nsent,       \* history: messages read from the peer so far
    rooms,       \* the global table: room id -> room object
    slot,        \* room object -> role -> the peer in that slot
    offerCache,  \* room object -> the offer kept for later clients
    deviceName   \* room object -> the device that last wrote name and time

handlerVars == <<pc, rid, rm, cached, nsent>>
pumpVars    == <<wp, wire, got>>
chanVars    == <<open, queue, lost>>
roomVars    == <<rooms, slot, offerCache, deviceName>>
vars == <<pc, wp, wire, rid, rm, cached, open, queue, got, lost, nsent,
          rooms, slot, offerCache, deviceName>>

Role == {"device", "client"}
RoleOf(c) == IF c \in Device THEN "device" ELSE "client"
\* Mutant of Other: a message goes back to the sender's own slot.
OtherMutant(role) == role
Other(role) == IF role = "device" THEN "client" ELSE "device"

\* A message: who sent it, its type, and its position in the sender's stream.
Msg == [from : Conn, kind : Kind, n : 1..MaxMsgs]

Handler == {"idle", "joining", "joined", "replaying", "reading",
            "leaving", "closing", "deleting", "done"}

TypeOK ==
    /\ pc \in [Conn -> Handler]
    /\ wp \in [Conn -> {"off", "run", "done"}]
    /\ wire \in [Conn -> {"up", "stalled", "gone", "closed"}]
    /\ rid \in [Conn -> RoomId \cup {Nil}]
    /\ rm \in [Conn -> Conn \cup {Nil}]
    /\ \A c \in Conn : pc[c] # "idle" => rm[c] \in Conn /\ rid[c] \in RoomId
    /\ cached \in [Conn -> Msg \cup {Nil}]
    /\ \A c \in Conn : pc[c] = "replaying" => cached[c] \in Msg
    /\ open \in [Conn -> BOOLEAN]
    /\ queue \in [Conn -> Seq(Msg)]
    /\ \A c \in Conn : Len(queue[c]) <= SendCap
    /\ got \in [Conn -> Seq(Msg)]
    /\ lost \in [Conn -> SUBSET Msg]
    /\ nsent \in [Conn -> 0..MaxMsgs]
    /\ rooms \in [RoomId -> Conn \cup {Nil}]
    /\ slot \in [Conn -> [Role -> Conn \cup {Nil}]]
    /\ offerCache \in [Conn -> Msg \cup {Nil}]
    /\ deviceName \in [Conn -> Conn \cup {Nil}]

Init ==
    /\ pc = [c \in Conn |-> "idle"]
    /\ wp = [c \in Conn |-> "off"]
    /\ wire = [c \in Conn |-> "up"]
    /\ rid = [c \in Conn |-> Nil]
    /\ rm = [c \in Conn |-> Nil]
    /\ cached = [c \in Conn |-> Nil]
    /\ open = [c \in Conn |-> TRUE]
    /\ queue = [c \in Conn |-> <<>>]
    /\ got = [c \in Conn |-> <<>>]
    /\ lost = [c \in Conn |-> {}]
    /\ nsent = [c \in Conn |-> 0]
    /\ rooms = [i \in RoomId |-> Nil]
    /\ slot = [o \in Conn |-> [r \in Role |-> Nil]]
    /\ offerCache = [o \in Conn |-> Nil]
    /\ deviceName = [o \in Conn |-> Nil]

-----------------------------------------------------------------------------
(* Channel operations *)

\* Mutant of TrySend: an unbounded channel.
TrySendUnbounded(c, m) ==
    queue' = [queue EXCEPT ![c] = Append(@, m)] /\ UNCHANGED lost

\* select { case p.send <- msg: default: }  -- the sender never blocks.
TrySend(c, m) ==
    IF Len(queue[c]) < SendCap
    THEN queue' = [queue EXCEPT ![c] = Append(@, m)] /\ UNCHANGED lost
    ELSE lost' = [lost EXCEPT ![c] = @ \cup {m}] /\ UNCHANGED queue

-----------------------------------------------------------------------------
(* The handler goroutine *)

\* The upgrade succeeded: newPeer, then getOrCreate under roomsMu.
GetOrCreate(c, i) ==
    /\ pc[c] = "idle"
    /\ pc' = [pc EXCEPT ![c] = "joining"]
    /\ rid' = [rid EXCEPT ![c] = i]
    /\ IF rooms[i] = Nil
       THEN rooms' = [rooms EXCEPT ![i] = c] /\ rm' = [rm EXCEPT ![c] = c]
       ELSE rm' = [rm EXCEPT ![c] = rooms[i]] /\ UNCHANGED rooms
    /\ UNCHANGED <<cached, nsent, slot, offerCache, deviceName>>
    /\ UNCHANGED <<pumpVars, chanVars>>

\* room.set: the role's slot is overwritten whoever is in it.  A client's
\* pump starts right after; a device first writes its name (NameDevice).
SetSlot(c) ==
    /\ pc[c] = "joining"
    /\ pc' = [pc EXCEPT ![c] = "joined"]
    /\ slot' = [slot EXCEPT ![rm[c]][RoleOf(c)] = c]
    /\ wp' = IF c \in Client THEN [wp EXCEPT ![c] = "run"] ELSE wp
    /\ UNCHANGED <<rid, rm, cached, nsent, wire, got, chanVars>>
    /\ UNCHANGED <<rooms, offerCache, deviceName>>

\* Second critical section of a device: name and connection time.
NameDevice(c) ==
    /\ c \in Device /\ pc[c] = "joined"
    /\ pc' = [pc EXCEPT ![c] = "reading"]
    /\ deviceName' = [deviceName EXCEPT ![rm[c]] = c]
    /\ wp' = [wp EXCEPT ![c] = "run"]
    /\ UNCHANGED <<rid, rm, cached, nsent, wire, got, chanVars>>
    /\ UNCHANGED <<rooms, slot, offerCache>>

\* Mutant of PeekOffer: replays only while a device is in its slot.
PeekOfferIfDevice(c) ==
    /\ c \in Client /\ pc[c] = "joined"
    /\ cached' = [cached EXCEPT ![c] = offerCache[rm[c]]]
    /\ pc' = [pc EXCEPT ![c] =
                IF offerCache[rm[c]] = Nil \/ slot[rm[c]]["device"] = Nil
                THEN "reading" ELSE "replaying"]
    /\ UNCHANGED <<rid, rm, nsent, pumpVars, chanVars, roomVars>>

\* Mutant of PeekOffer: the offer is never replayed.
PeekOfferForgotten(c) ==
    /\ c \in Client /\ pc[c] = "joined"
    /\ pc' = [pc EXCEPT ![c] = "reading"]
    /\ UNCHANGED <<rid, rm, cached, nsent, pumpVars, chanVars, roomVars>>

\* A client copies the cached offer under the lock and releases it.
PeekOffer(c) ==
    /\ c \in Client /\ pc[c] = "joined"
    /\ cached' = [cached EXCEPT ![c] = offerCache[rm[c]]]
    /\ pc' = [pc EXCEPT ![c] = IF offerCache[rm[c]] = Nil
                               THEN "reading" ELSE "replaying"]
    /\ UNCHANGED <<rid, rm, nsent, pumpVars, chanVars, roomVars>>

\* ... and only then sends the copy to itself, without the lock.
ReplayOffer(c) ==
    /\ pc[c] = "replaying"
    /\ pc' = [pc EXCEPT ![c] = "reading"]
    /\ TrySend(c, cached[c])
    /\ UNCHANGED <<rid, rm, cached, nsent, open, pumpVars, roomVars>>

\* ReadMessage returned a valid message: room.forward, all of it under mu.
\* Talker and MaxMsgs are the model's bounds.
Forward(c, k) ==
    LET m == [from |-> c, kind |-> k, n |-> nsent[c] + 1]
        target == slot[rm[c]][Other(RoleOf(c))]
    IN  /\ pc[c] = "reading" /\ wire[c] # "gone"
        /\ c \in Talker /\ nsent[c] < MaxMsgs
        /\ nsent' = [nsent EXCEPT ![c] = @ + 1]
        /\ offerCache' = IF c \in Device /\ k = "offer"
                         THEN [offerCache EXCEPT ![rm[c]] = m]
                         ELSE offerCache
        /\ IF target = Nil THEN UNCHANGED <<queue, lost>> ELSE TrySend(target, m)
        /\ UNCHANGED <<pc, rid, rm, cached, open, pumpVars>>
        /\ UNCHANGED <<rooms, slot, deviceName>>

\* Mutant of ReadError: p.send is closed before the slot is cleared.
ReadErrorCloseFirst(c) ==
    /\ pc[c] = "reading"
    /\ wire[c] \in {"gone", "closed"}
    /\ pc' = [pc EXCEPT ![c] = "leaving"]
    /\ open' = [open EXCEPT ![c] = FALSE]
    /\ UNCHANGED <<rid, rm, cached, nsent, queue, lost, pumpVars, roomVars>>

\* ReadMessage failed: the peer went away (or no pong for pongWait), or the
\* pump closed the connection.  The deferred clean-up starts.
ReadError(c) ==
    /\ pc[c] = "reading"
    /\ wire[c] \in {"gone", "closed"}
    /\ pc' = [pc EXCEPT ![c] = "leaving"]
    /\ UNCHANGED <<rid, rm, cached, nsent, pumpVars, chanVars, roomVars>>

\* Mutant of Clear: the slot is left as it is.
ClearKeepsSlot(c) ==
    /\ pc[c] = "leaving"
    /\ pc' = [pc EXCEPT ![c] = "closing"]
    /\ offerCache' = IF c \in Device THEN [offerCache EXCEPT ![rm[c]] = Nil]
                                     ELSE offerCache
    /\ UNCHANGED <<rid, rm, cached, nsent, pumpVars, chanVars>>
    /\ UNCHANGED <<rooms, slot, deviceName>>

\* Mutant of Clear: the offer is left as it is.
ClearKeepsOffer(c) ==
    /\ pc[c] = "leaving"
    /\ pc' = [pc EXCEPT ![c] = "closing"]
    /\ slot' = [slot EXCEPT ![rm[c]][RoleOf(c)] = Nil]
    /\ UNCHANGED <<rid, rm, cached, nsent, pumpVars, chanVars>>
    /\ UNCHANGED <<rooms, offerCache, deviceName>>

\* room.clear: empties the role's slot, and for a device the offer cache.
Clear(c) ==
    /\ pc[c] = "leaving"
    /\ pc' = [pc EXCEPT ![c] = "closing"]
    /\ slot' = [slot EXCEPT ![rm[c]][RoleOf(c)] = Nil]
    /\ offerCache' = IF c \in Device THEN [offerCache EXCEPT ![rm[c]] = Nil]
                                     ELSE offerCache
    /\ UNCHANGED <<rid, rm, cached, nsent, pumpVars, chanVars>>
    /\ UNCHANGED <<rooms, deviceName>>

\* close(p.send)
CloseSend(c) ==
    /\ pc[c] = "closing"
    /\ pc' = [pc EXCEPT ![c] = "deleting"]
    /\ open' = [open EXCEPT ![c] = FALSE]
    /\ UNCHANGED <<rid, rm, cached, nsent, queue, lost, pumpVars, roomVars>>

IsEmpty(o) == \A r \in Role : slot[o][r] = Nil

\* Mutant of TryDelete: a room is removed by the handler that made it only.
TryDeleteByCreator(c) ==
    /\ pc[c] = "deleting"
    /\ pc' = [pc EXCEPT ![c] = "done"]
    /\ rooms' = IF rooms[rid[c]] = c /\ IsEmpty(c)
                THEN [rooms EXCEPT ![rid[c]] = Nil] ELSE rooms
    /\ UNCHANGED <<rid, rm, cached, nsent, pumpVars, chanVars>>
    /\ UNCHANGED <<slot, offerCache, deviceName>>

\* tryDelete: removes whatever object the table has for the id, if empty.
TryDelete(c) ==
    /\ pc[c] = "deleting"
    /\ pc' = [pc EXCEPT ![c] = "done"]
    /\ rooms' = IF rooms[rid[c]] # Nil /\ IsEmpty(rooms[rid[c]])
                THEN [rooms EXCEPT ![rid[c]] = Nil] ELSE rooms
    /\ UNCHANGED <<rid, rm, cached, nsent, pumpVars, chanVars>>
    /\ UNCHANGED <<slot, offerCache, deviceName>>

-----------------------------------------------------------------------------
(* The write pump goroutine *)

\* Mutant of PumpWrite: the newest message is taken first.
PumpWriteNewest(c) ==
    /\ wp[c] = "run" /\ queue[c] # <<>>
    /\ wire[c] \in {"up", "gone"}
    /\ got' = [got EXCEPT ![c] = Append(@, queue[c][Len(queue[c])])]
    /\ queue' = [queue EXCEPT ![c] = SubSeq(@, 1, Len(@) - 1)]
    /\ UNCHANGED <<wp, wire, open, lost, handlerVars, roomVars>>

\* A queued message, even of a closed channel, is written to the socket.
PumpWrite(c) ==
    /\ wp[c] = "run" /\ queue[c] # <<>>
    /\ wire[c] \in {"up", "gone"}
    /\ got' = [got EXCEPT ![c] = Append(@, Head(queue[c]))]
    /\ queue' = [queue EXCEPT ![c] = Tail(@)]
    /\ UNCHANGED <<wp, wire, open, lost, handlerVars, roomVars>>

\* Mutant of PumpWriteError: the pump returns without closing conn.
PumpWriteErrorKeepsConn(c) ==
    /\ wp[c] = "run" /\ queue[c] # <<>>
    /\ wire[c] # "up"
    /\ queue' = [queue EXCEPT ![c] = Tail(@)]
    /\ wp' = [wp EXCEPT ![c] = "done"]
    /\ UNCHANGED <<wire, got, open, lost, handlerVars, roomVars>>

\* The write fails (or writeWait expires): the pump returns and closes conn.
PumpWriteError(c) ==
    /\ wp[c] = "run" /\ queue[c] # <<>>
    /\ wire[c] # "up"
    /\ queue' = [queue EXCEPT ![c] = Tail(@)]
    /\ wp' = [wp EXCEPT ![c] = "done"]
    /\ wire' = [wire EXCEPT ![c] = "closed"]
    /\ UNCHANGED <<got, open, lost, handlerVars, roomVars>>

\* The periodic ping fails.
PumpPingError(c) ==
    /\ wp[c] = "run"
    /\ wire[c] # "up"
    /\ wp' = [wp EXCEPT ![c] = "done"]
    /\ wire' = [wire EXCEPT ![c] = "closed"]
    /\ UNCHANGED <<got, chanVars, handlerVars, roomVars>>

\* The channel is closed and drained: a close frame, then conn.Close.
PumpClose(c) ==
    /\ wp[c] = "run" /\ queue[c] = <<>> /\ ~open[c]
    /\ wp' = [wp EXCEPT ![c] = "done"]
    /\ wire' = [wire EXCEPT ![c] = "closed"]
    /\ UNCHANGED <<got, chanVars, handlerVars, roomVars>>

-----------------------------------------------------------------------------
(* The remote end, as the server sees it *)

\* The peer closes, crashes or becomes unreachable: nothing more is read.
PeerGone(c) ==
    /\ pc[c] # "idle" /\ wire[c] \in {"up", "stalled"}
    /\ wire' = [wire EXCEPT ![c] = "gone"]
    /\ UNCHANGED <<wp, got, handlerVars, chanVars, roomVars>>

\* The peer stops reading but still sends: writes time out, reads succeed.
PeerStalls(c) ==
    /\ c \in Staller
    /\ pc[c] # "idle" /\ wire[c] = "up"
    /\ wire' = [wire EXCEPT ![c] = "stalled"]
    /\ UNCHANGED <<wp, got, handlerVars, chanVars, roomVars>>

-----------------------------------------------------------------------------

HandlerStep(c) ==
    \/ SetSlot(c) \/ NameDevice(c) \/ PeekOffer(c) \/ ReplayOffer(c)
    \/ ReadError(c) \/ Clear(c) \/ CloseSend(c) \/ TryDelete(c)

PumpStep(c) ==
    PumpWrite(c) \/ PumpWriteError(c) \/ PumpPingError(c) \/ PumpClose(c)

Next ==
    \E c \in Conn :
        \/ \E i \in RoomId : GetOrCreate(c, i)
        \/ \E k \in Kind : Forward(c, k)
        \/ HandlerStep(c)
        \/ PumpStep(c)
        \/ PeerGone(c)
        \/ PeerStalls(c)

Spec == Init /\ [][Next]_vars

(***************************************************************************)
(* The Go scheduler runs every runnable goroutine: a handler that can take *)
(* a step and a pump that can take one eventually do.  Connections,        *)
(* messages and faults come from outside and are under no obligation.      *)
(***************************************************************************)
FairSpec ==
    /\ Spec
    /\ \A c \in Conn : WF_vars(HandlerStep(c)) /\ WF_vars(PumpStep(c))

-----------------------------------------------------------------------------
(* Views of the state *)

\* agentsHandler: the rooms that have a device.
Agents == {i \in RoomId : rooms[i] # Nil /\ slot[rooms[i]]["device"] # Nil}

\* Between set and clear the handler owns a place in its room.
Present(c) == pc[c] \in {"joined", "replaying", "reading", "leaving"}

\* Between getOrCreate and the end of tryDelete the handler is running.
Running(c) == pc[c] \notin {"idle", "done"}

-----------------------------------------------------------------------------
(* Properties *)

\* No goroutine sends on a closed channel (which would panic): forward's
\* target is an open channel, and a handler that replays has its own open.
\* This is what the order "clear, then close" in the deferred clean-up is for.
SendTargetsOpen ==
    /\ \A o \in Conn, r \in Role : slot[o][r] # Nil => open[slot[o][r]]
    /\ \A c \in Conn : pc[c] = "replaying" => open[c]

\* A peer in a slot is a connection of that role, attached to that very room
\* object and not yet past clear, whatever replacements happened before.
SlotOwned ==
    \A o \in Conn, r \in Role :
        slot[o][r] # Nil =>
            /\ RoleOf(slot[o][r]) = r
            /\ rm[slot[o][r]] = o
            /\ Present(slot[o][r])

\* The cached offer comes from a device of this room whose handler has not
\* cleared yet: a device's leaving removes its offer, so that no later client
\* is handed the offer of a finished connection.
CacheOwned ==
    \A o \in Conn :
        offerCache[o] # Nil =>
            /\ offerCache[o].from \in Device
            /\ offerCache[o].kind = "offer"
            /\ rm[offerCache[o].from] = o
            /\ pc[offerCache[o].from] \in {"reading", "leaving"}

\* A room in the table has a running handler, of that room id, attached to it:
\* tryDelete leaves no room behind, so /healthz and the table do not grow.
NoRoomLeak ==
    \A i \in RoomId :
        rooms[i] # Nil =>
            \E c \in Conn : rm[c] = rooms[i] /\ rid[c] = i /\ Running(c)

\* The three facts the invariants above rest on.  A handler that has not
\* closed its channel finds it open.
OpenUntilClose ==
    \A c \in Conn : pc[c] \notin {"deleting", "done"} => open[c]

\* Every room object belongs to one room id: that of the handler that made it.
RoomsApart ==
    /\ \A c \in Conn : pc[c] = "idle" => rm[c] = Nil
    /\ \A c \in Conn : rm[c] # Nil => pc[rm[c]] # "idle" /\ rid[rm[c]] = rid[c]
    /\ \A i \in RoomId : rooms[i] # Nil => pc[rooms[i]] # "idle" /\ rid[rooms[i]] = i

\* An offer kept by a room, or about to be replayed, was said by a device that
\* asked for that room.
Said(m, i) ==
    /\ m.from \in Device /\ m.kind = "offer" /\ pc[m.from] # "idle"
    /\ rid[m.from] = i /\ m.n <= nsent[m.from]

OffersSaid ==
    /\ \A o \in Conn : offerCache[o] # Nil => Said(offerCache[o], rid[o])
    /\ \A c \in Conn : pc[c] = "replaying" =>
         c \in Client /\ Said(cached[c], rid[c])

Outbox(c) == got[c] \o queue[c]

\* The client that holds the slot of its room and has finished connecting has
\* been sent, or has lost to a full buffer or a dead pump, the offer the room
\* keeps, in every order of set, offer, peek and replay.
NoMissedOffer ==
    \A c \in Client :
        (/\ pc[c] = "reading" /\ wp[c] = "run"
         /\ slot[rm[c]]["client"] = c
         /\ offerCache[rm[c]] # Nil)
        => \/ \E j \in 1..Len(Outbox(c)) : Outbox(c)[j] = offerCache[rm[c]]
           \/ offerCache[rm[c]] \in lost[c]

\* What is not an offer is relayed at most once and in the order it was read.
RelayInOrder ==
    \A c \in Conn : \A j, k \in 1..Len(Outbox(c)) :
        (/\ j < k /\ Outbox(c)[j].from = Outbox(c)[k].from
         /\ Outbox(c)[j].kind # "offer" /\ Outbox(c)[k].kind # "offer")
        => Outbox(c)[j].n < Outbox(c)[k].n

\* A connection is in its room from getOrCreate to clear.
Phase ==
    [c \in Conn |-> IF pc[c] = "idle" THEN "out"
                    ELSE IF pc[c] \in {"closing", "deleting", "done"} THEN "left"
                    ELSE "in"]

Abstract == INSTANCE Relay WITH
    phase <- Phase,
    member <- rid,
    said <- nsent,
    box <- queue

\* The server implements Relay: a message goes from a connection to at most
\* one live connection of the other role and the same room, in order, never
\* duplicated but for the replayed offer, never to a connection that left.
ImplementsRelay == Abstract!Spec

\* The two goroutines of a connection end together: a pump that died takes the
\* handler with it (conn.Close fails the read), and the other way round.
GoroutinesEnd ==
    \A c \in Conn :
        /\ wp[c] = "done" ~> pc[c] = "done"
        /\ pc[c] = "done" ~> wp[c] = "done"

\* Rendezvous: once a client holds its room's slot and the room keeps an
\* offer, the client is sent that offer, in whichever order the two arrived,
\* unless its buffer overflowed or its connection failed.
OfferReachesClient ==
    \A c \in Client, o \in Conn, m \in Msg :
        (Present(c) /\ rm[c] = o /\ slot[o]["client"] = c /\ offerCache[o] = m)
        ~> (\/ \E j \in 1..Len(got[c]) : got[c][j] = m
            \/ m \in lost[c]
            \/ wire[c] # "up"
            \/ offerCache[o] # m)

-----------------------------------------------------------------------------
(* What the comments and documents promise and the program does not keep     *)

\* agentsHandler "returns the list of rooms with a device online": a device
\* whose handler is reading from a healthy connection is in the list.  The
\* handler of a connection it replaced clears the slot of the new one.
AgentListsOnlineDevices ==
    \A c \in Device : pc[c] = "reading" /\ wire[c] = "up" => rid[c] \in Agents

\* A room id names one session: a device and a client that connected with the
\* same id are in the same room.  tryDelete can remove the object a handler has already
\* been given by getOrCreate and is about to enter: one device and two clients
\* refute it.
PeersShareRoom ==
    \A c \in Device, d \in Client :
        (/\ pc[c] = "reading" /\ pc[d] = "reading" /\ rid[c] = rid[d]
         /\ wire[c] = "up" /\ wire[d] = "up")
        => rm[c] = rm[d]

\* The replay hands a new client the latest offer: the last offer a client was
\* sent is the one the room keeps.  The copy is made under the lock but sent
\* after it is released, behind an offer that was forwarded in between: two
\* devices that replace one another and a client refute it.
LatestOfferLast ==
    \A c \in Client : \A j \in 1..Len(Outbox(c)) :
        (/\ pc[c] = "reading" /\ slot[rm[c]]["client"] = c
         /\ offerCache[rm[c]] # Nil /\ lost[c] = {}
         /\ Outbox(c)[j].kind = "offer"
         /\ \A k \in (j+1)..Len(Outbox(c)) : Outbox(c)[k].kind # "offer")
        => Outbox(c)[j] = offerCache[rm[c]]

=============================================================================
