-------------------------- MODULE SignalServerProofs --------------------------
(***************************************************************************)
(* Proofs about SignalServer, for any sets of connections and room ids,    *)
(* any buffer capacity and any number of messages.                         *)
(***************************************************************************)
EXTENDS SignalServer, SequenceTheorems, TLAPS

-----------------------------------------------------------------------------
(* Type correctness *)

\* A non-blocking send leaves the buffer typed and within its capacity,
\* whether the message is queued or dropped (the default branch of select).
LEMMA TrySendType ==
    ASSUME NEW c \in Conn, NEW m \in Msg, TypeOK, TrySend(c, m)
    PROVE  /\ queue' \in [Conn -> Seq(Msg)]
           /\ \A d \in Conn : Len(queue'[d]) <= SendCap
           /\ lost' \in [Conn -> SUBSET Msg]
<1> USE BoundsAssumption DEF TypeOK, TrySend
<1>1. CASE Len(queue[c]) < SendCap
  <2>1. queue' = [queue EXCEPT ![c] = Append(queue[c], m)] /\ lost' = lost
    BY <1>1
  <2>2. Append(queue[c], m) \in Seq(Msg)
    OBVIOUS
  <2>3. Len(Append(queue[c], m)) = Len(queue[c]) + 1 /\ Len(queue[c]) \in Nat
    OBVIOUS
  <2> QED
    BY <1>1, <2>1, <2>2, <2>3
<1>2. CASE ~(Len(queue[c]) < SendCap)
  <2>1. lost' = [lost EXCEPT ![c] = lost[c] \cup {m}] /\ queue' = queue
    BY <1>2
  <2>2. lost[c] \cup {m} \in SUBSET Msg
    OBVIOUS
  <2> QED
    BY <2>1, <2>2
<1> QED
  BY <1>1, <1>2

\* Every step of the handlers and the pumps keeps the variables typed and no
\* send buffer ever holds more than its capacity.
LEMMA TypeStep == TypeOK /\ [Next]_vars => TypeOK'
<1> SUFFICES ASSUME TypeOK, [Next]_vars PROVE TypeOK'
  OBVIOUS
<1> USE DEF Handler, Role, RoleOf, handlerVars, pumpVars, chanVars, roomVars
<1>1. ASSUME NEW c \in Conn, NEW i \in RoomId, GetOrCreate(c, i) PROVE TypeOK'
  BY <1>1 DEF TypeOK, GetOrCreate
<1>2. ASSUME NEW c \in Conn, NEW k \in Kind, Forward(c, k) PROVE TypeOK'
  <2> DEFINE m == [from |-> c, kind |-> k, n |-> nsent[c] + 1]
             target == slot[rm[c]][Other(RoleOf(c))]
  <2>1. nsent[c] + 1 \in 1..MaxMsgs /\ nsent' \in [Conn -> 0..MaxMsgs]
    BY <1>2, BoundsAssumption DEF TypeOK, Forward
  <2>2. m \in Msg
    BY <2>1 DEF Msg
  <2>3. offerCache' \in [Conn -> Msg \cup {Nil}]
    BY <1>2, <2>2 DEF TypeOK, Forward
  <2>4. /\ queue' \in [Conn -> Seq(Msg)]
        /\ \A d \in Conn : Len(queue'[d]) <= SendCap
        /\ lost' \in [Conn -> SUBSET Msg]
    <3>1. CASE target = Nil
      BY <1>2, <3>1 DEF TypeOK, Forward
    <3>2. CASE target # Nil
      <4>1. TrySend(target, m)
        BY <1>2, <3>2 DEF Forward
      <4>2. target \in Conn
        BY <1>2, <3>2 DEF TypeOK, Forward, Other, Conn
      <4> QED
        BY <4>1, <4>2, <2>2, TrySendType
    <3> QED
      BY <3>1, <3>2
  <2> QED
    BY <1>2, <2>1, <2>3, <2>4 DEF TypeOK, Forward
<1>3. ASSUME NEW c \in Conn, SetSlot(c) PROVE TypeOK'
  <2>1. rm[c] \in Conn /\ RoleOf(c) \in Role
    BY <1>3 DEF TypeOK, SetSlot
  <2>2. slot' \in [Conn -> [Role -> Conn \cup {Nil}]]
    BY <1>3, <2>1 DEF TypeOK, SetSlot
  <2> QED
    BY <1>3, <2>2 DEF TypeOK, SetSlot
<1>4. ASSUME NEW c \in Conn, NameDevice(c) PROVE TypeOK'
  BY <1>4 DEF TypeOK, NameDevice
<1>5. ASSUME NEW c \in Conn, PeekOffer(c) PROVE TypeOK'
  BY <1>5 DEF TypeOK, PeekOffer
<1>6. ASSUME NEW c \in Conn, ReplayOffer(c) PROVE TypeOK'
  <2>1. cached[c] \in Msg /\ TrySend(c, cached[c])
    BY <1>6 DEF TypeOK, ReplayOffer
  <2>2. /\ queue' \in [Conn -> Seq(Msg)]
        /\ \A d \in Conn : Len(queue'[d]) <= SendCap
        /\ lost' \in [Conn -> SUBSET Msg]
    BY <2>1, TrySendType
  <2> QED
    BY <1>6, <2>2 DEF TypeOK, ReplayOffer
<1>7. ASSUME NEW c \in Conn, ReadError(c) PROVE TypeOK'
  BY <1>7 DEF TypeOK, ReadError
<1>8. ASSUME NEW c \in Conn, Clear(c) PROVE TypeOK'
  <2>1. rm[c] \in Conn /\ RoleOf(c) \in Role
    BY <1>8 DEF TypeOK, Clear
  <2>2. slot' \in [Conn -> [Role -> Conn \cup {Nil}]]
    BY <1>8, <2>1 DEF TypeOK, Clear
  <2>3. offerCache' \in [Conn -> Msg \cup {Nil}]
    BY <1>8, <2>1 DEF TypeOK, Clear
  <2> QED
    BY <1>8, <2>2, <2>3 DEF TypeOK, Clear
<1>9. ASSUME NEW c \in Conn, CloseSend(c) PROVE TypeOK'
  BY <1>9 DEF TypeOK, CloseSend
<1>10. ASSUME NEW c \in Conn, TryDelete(c) PROVE TypeOK'
  BY <1>10 DEF TypeOK, TryDelete
<1>11. ASSUME NEW c \in Conn, PumpWrite(c) PROVE TypeOK'
  <2>1. /\ Head(queue[c]) \in Msg /\ Tail(queue[c]) \in Seq(Msg)
        /\ Len(Tail(queue[c])) = Len(queue[c]) - 1 /\ Len(queue[c]) \in Nat
    BY <1>11 DEF TypeOK, PumpWrite
  <2>2. Append(got[c], Head(queue[c])) \in Seq(Msg)
    BY <2>1 DEF TypeOK
  <2>3. \A d \in Conn : Len(queue'[d]) <= SendCap
    BY <1>11, <2>1, BoundsAssumption DEF TypeOK, PumpWrite
  <2> QED
    BY <1>11, <2>1, <2>2, <2>3 DEF TypeOK, PumpWrite
<1>12. ASSUME NEW c \in Conn, PumpWriteError(c) PROVE TypeOK'
  <2>1. /\ Tail(queue[c]) \in Seq(Msg)
        /\ Len(Tail(queue[c])) = Len(queue[c]) - 1 /\ Len(queue[c]) \in Nat
    BY <1>12 DEF TypeOK, PumpWriteError
  <2>2. \A d \in Conn : Len(queue'[d]) <= SendCap
    BY <1>12, <2>1, BoundsAssumption DEF TypeOK, PumpWriteError
  <2> QED
    BY <1>12, <2>1, <2>2 DEF TypeOK, PumpWriteError
<1>13. ASSUME NEW c \in Conn, PumpPingError(c) PROVE TypeOK'
  BY <1>13 DEF TypeOK, PumpPingError
<1>14. ASSUME NEW c \in Conn, PumpClose(c) PROVE TypeOK'
  BY <1>14 DEF TypeOK, PumpClose
<1>15. ASSUME NEW c \in Conn, PeerGone(c) PROVE TypeOK'
  BY <1>15 DEF TypeOK, PeerGone
<1>16. ASSUME NEW c \in Conn, PeerStalls(c) PROVE TypeOK'
  BY <1>16 DEF TypeOK, PeerStalls
<1>17. CASE UNCHANGED vars
  BY <1>17 DEF TypeOK, vars
<1> QED
  BY <1>1, <1>2, <1>3, <1>4, <1>5, <1>6, <1>7, <1>8, <1>9, <1>10, <1>11,
     <1>12, <1>13, <1>14, <1>15, <1>16, <1>17 DEF Next, HandlerStep, PumpStep

\* Type correctness: every variable keeps its type, a handler past getOrCreate
\* has a room, one that replays has an offer, and no buffer overflows.
THEOREM TypeCorrect == Spec => []TypeOK
<1>1. Init => TypeOK
  BY BoundsAssumption DEF Init, TypeOK, Handler
<1> QED
  BY <1>1, TypeStep, PTL DEF Spec

-----------------------------------------------------------------------------
(* Safety *)

RegistryVars == <<handlerVars, roomVars, open>>

\* The steps that touch the handlers, the rooms or the closing of a channel;
\* the pumps and the peers do not.
LEMMA StepCases ==
    ASSUME [Next]_vars
    PROVE  \/ \E c \in Conn, i \in RoomId : GetOrCreate(c, i)
           \/ \E c \in Conn : SetSlot(c) \/ NameDevice(c) \/ PeekOffer(c)
           \/ \E c \in Conn : ReplayOffer(c)
           \/ \E c \in Conn, k \in Kind : Forward(c, k)
           \/ \E c \in Conn : ReadError(c) \/ Clear(c) \/ CloseSend(c)
           \/ \E c \in Conn : TryDelete(c)
           \/ UNCHANGED RegistryVars
BY DEF Next, HandlerStep, PumpStep, vars, RegistryVars, handlerVars, roomVars,
       chanVars, PumpWrite, PumpWriteError, PumpPingError, PumpClose, PeerGone,
       PeerStalls

\* A room object stays with the room id it was made for.
LEMMA RoomsApartStep ==
    ASSUME TypeOK, RoomsApart, [Next]_vars
    PROVE  RoomsApart'
<1> USE DEF TypeOK, RoomsApart, handlerVars, roomVars, chanVars, pumpVars
<1>1. ASSUME NEW c \in Conn, NEW i \in RoomId, GetOrCreate(c, i)
      PROVE  RoomsApart'
  <2>1. /\ pc' = [pc EXCEPT ![c] = "joining"] /\ pc[c] = "idle"
        /\ rid' = [rid EXCEPT ![c] = i]
        /\ \A d \in Conn \ {c} : rm'[d] = rm[d]
    BY <1>1 DEF GetOrCreate
  <2>2. rm'[c] \in Conn /\ pc'[rm'[c]] # "idle" /\ rid'[rm'[c]] = i
    BY <1>1, NilIsNoConn DEF GetOrCreate
  <2>3. \A d \in Conn \ {c} : rm[d] # Nil =>
          pc'[rm[d]] # "idle" /\ rid'[rm[d]] = rid[d]
    BY <2>1
  <2>4. \A j \in RoomId : rooms'[j] # Nil =>
          pc'[rooms'[j]] # "idle" /\ rid'[rooms'[j]] = j
    <3>1. CASE rooms[i] = Nil
      <4>1. rooms' = [rooms EXCEPT ![i] = c]
        BY <1>1, <3>1 DEF GetOrCreate
      <4> QED
        BY <2>1, <4>1
    <3>2. CASE rooms[i] # Nil
      <4>1. rooms' = rooms
        BY <1>1, <3>2 DEF GetOrCreate
      <4> QED
        BY <2>1, <4>1
    <3> QED
      BY <3>1, <3>2
  <2> QED
    BY <2>1, <2>2, <2>3, <2>4
<1>2. ASSUME NEW c \in Conn, SetSlot(c) \/ NameDevice(c) \/ PeekOffer(c)
      PROVE  RoomsApart'
  BY <1>2 DEF SetSlot, NameDevice, PeekOffer
<1>3. ASSUME NEW c \in Conn, ReplayOffer(c)
      PROVE  RoomsApart'
  BY <1>3 DEF ReplayOffer
<1>4. ASSUME NEW c \in Conn, NEW k \in Kind, Forward(c, k)
      PROVE  RoomsApart'
  BY <1>4 DEF Forward
<1>5. ASSUME NEW c \in Conn, ReadError(c) \/ Clear(c) \/ CloseSend(c)
      PROVE  RoomsApart'
  BY <1>5 DEF ReadError, Clear, CloseSend
<1>6. ASSUME NEW c \in Conn, TryDelete(c)
      PROVE  RoomsApart'
  BY <1>6 DEF TryDelete
<1>7. CASE UNCHANGED RegistryVars
  BY <1>7 DEF RegistryVars
<1> QED
  BY <1>1, <1>2, <1>3, <1>4, <1>5, <1>6, <1>7, StepCases

\* Only a handler's own close closes its channel.
LEMMA OpenStep ==
    ASSUME TypeOK, OpenUntilClose, [Next]_vars
    PROVE  OpenUntilClose'
<1> USE DEF TypeOK, OpenUntilClose, handlerVars, roomVars, chanVars, pumpVars
<1>1. ASSUME NEW c \in Conn, NEW i \in RoomId, GetOrCreate(c, i)
      PROVE  OpenUntilClose'
  BY <1>1 DEF GetOrCreate
<1>2. ASSUME NEW c \in Conn, SetSlot(c) \/ NameDevice(c) \/ PeekOffer(c)
      PROVE  OpenUntilClose'
  BY <1>2 DEF SetSlot, NameDevice, PeekOffer
<1>3. ASSUME NEW c \in Conn, ReplayOffer(c)
      PROVE  OpenUntilClose'
  BY <1>3 DEF ReplayOffer
<1>4. ASSUME NEW c \in Conn, NEW k \in Kind, Forward(c, k)
      PROVE  OpenUntilClose'
  BY <1>4 DEF Forward
<1>5. ASSUME NEW c \in Conn, ReadError(c) \/ Clear(c) \/ CloseSend(c)
      PROVE  OpenUntilClose'
  BY <1>5 DEF ReadError, Clear, CloseSend
<1>6. ASSUME NEW c \in Conn, TryDelete(c)
      PROVE  OpenUntilClose'
  BY <1>6 DEF TryDelete
<1>7. CASE UNCHANGED RegistryVars
  BY <1>7 DEF RegistryVars
<1> QED
  BY <1>1, <1>2, <1>3, <1>4, <1>5, <1>6, <1>7, StepCases

\* A slot is filled by its owner's set and is empty after its owner's clear,
\* whatever the other handlers of the room do in between.
LEMMA SlotStep ==
    ASSUME TypeOK, SlotOwned, [Next]_vars
    PROVE  SlotOwned'
<1> USE DEF SlotOwned, Present, handlerVars, roomVars, chanVars, pumpVars
<1>1. ASSUME NEW c \in Conn, NEW i \in RoomId, GetOrCreate(c, i)
      PROVE  SlotOwned'
  BY <1>1 DEF GetOrCreate, TypeOK
<1>2. ASSUME NEW c \in Conn, SetSlot(c)
      PROVE  SlotOwned'
  <2>1. rm[c] \in Conn /\ RoleOf(c) \in Role
    BY <1>2 DEF TypeOK, SetSlot, RoleOf, Role
  <2>2. \A o \in Conn, r \in Role :
          slot'[o][r] = IF o = rm[c] /\ r = RoleOf(c) THEN c ELSE slot[o][r]
    BY <1>2, <2>1 DEF TypeOK, SetSlot
  <2>3. rm' = rm /\ pc' = [pc EXCEPT ![c] = "joined"] /\ pc[c] = "joining"
    BY <1>2 DEF SetSlot
  <2> QED
    BY <2>1, <2>2, <2>3, NilIsNoConn DEF TypeOK
<1>3. ASSUME NEW c \in Conn, NameDevice(c) \/ PeekOffer(c) \/ ReplayOffer(c)
      PROVE  SlotOwned'
  <2>1. slot' = slot /\ rm' = rm /\ \A d \in Conn : Present(d) => Present(d)'
    BY <1>3 DEF NameDevice, PeekOffer, ReplayOffer, TypeOK
  <2> QED
    BY <2>1 DEF TypeOK
<1>4. ASSUME NEW c \in Conn, NEW k \in Kind, Forward(c, k)
      PROVE  SlotOwned'
  BY <1>4 DEF Forward
<1>5. ASSUME NEW c \in Conn, Clear(c)
      PROVE  SlotOwned'
  <2>1. rm[c] \in Conn /\ RoleOf(c) \in Role
    BY <1>5 DEF TypeOK, Clear, RoleOf, Role
  <2>2. \A o \in Conn, r \in Role :
          slot'[o][r] = IF o = rm[c] /\ r = RoleOf(c) THEN Nil ELSE slot[o][r]
    BY <1>5, <2>1 DEF TypeOK, Clear
  <2>3. rm' = rm /\ pc' = [pc EXCEPT ![c] = "closing"]
    BY <1>5 DEF Clear
  <2>4. \A o \in Conn, r \in Role : slot'[o][r] # Nil => slot'[o][r] # c
    BY <2>1, <2>2
  <2> QED
    BY <2>2, <2>3, <2>4 DEF TypeOK
<1>6. ASSUME NEW c \in Conn, ReadError(c) \/ CloseSend(c) \/ TryDelete(c)
      PROVE  SlotOwned'
  <2>1. slot' = slot /\ rm' = rm /\ \A d \in Conn : Present(d) => Present(d)'
    BY <1>6 DEF ReadError, CloseSend, TryDelete, TypeOK
  <2> QED
    BY <2>1 DEF TypeOK
<1>7. CASE UNCHANGED RegistryVars
  BY <1>7 DEF RegistryVars
<1> QED
  BY <1>1, <1>2, <1>3, <1>4, <1>5, <1>6, <1>7, StepCases

\* A cached offer is put there by a device that is reading, and its own clear
\* empties the cache of its room, so the device of a cached offer is present.
LEMMA CacheStep ==
    ASSUME TypeOK, CacheOwned, [Next]_vars
    PROVE  CacheOwned'
<1> USE DEF CacheOwned, handlerVars, roomVars, chanVars, pumpVars
<1>1. ASSUME NEW c \in Conn, NEW i \in RoomId, GetOrCreate(c, i)
      PROVE  CacheOwned'
  BY <1>1 DEF GetOrCreate, TypeOK, Msg
<1>2. ASSUME NEW c \in Conn,
             SetSlot(c) \/ NameDevice(c) \/ PeekOffer(c) \/ ReplayOffer(c)
      PROVE  CacheOwned'
  <2>1. /\ offerCache' = offerCache /\ rm' = rm
        /\ pc[c] \notin {"reading", "leaving"}
        /\ \A d \in Conn \ {c} : pc'[d] = pc[d]
    BY <1>2 DEF SetSlot, NameDevice, PeekOffer, ReplayOffer, TypeOK
  <2>2. \A o \in Conn : offerCache[o] # Nil => offerCache[o].from \in Conn \ {c}
    BY <2>1 DEF TypeOK, Msg
  <2> QED
    BY <2>1, <2>2
<1>3. ASSUME NEW c \in Conn, NEW k \in Kind, Forward(c, k)
      PROVE  CacheOwned'
  <2>1. pc' = pc /\ rm' = rm /\ pc[c] = "reading" /\ rm[c] \in Conn
    BY <1>3 DEF Forward, TypeOK
  <2>2. CASE c \in Device /\ k = "offer"
    <3>1. offerCache' = [offerCache EXCEPT ![rm[c]] =
                            [from |-> c, kind |-> k, n |-> nsent[c] + 1]]
      BY <1>3, <2>2 DEF Forward
    <3> QED
      BY <2>1, <2>2, <3>1 DEF TypeOK
  <2>3. CASE ~(c \in Device /\ k = "offer")
    BY <1>3, <2>1, <2>3 DEF Forward
  <2> QED
    BY <2>2, <2>3
<1>4. ASSUME NEW c \in Conn, Clear(c)
      PROVE  CacheOwned'
  <2>1. /\ pc[c] = "leaving" /\ pc' = [pc EXCEPT ![c] = "closing"]
        /\ rm' = rm /\ rm[c] \in Conn
    BY <1>4 DEF Clear, TypeOK
  <2>2. CASE c \in Device
    <3>1. offerCache' = [offerCache EXCEPT ![rm[c]] = Nil]
      BY <1>4, <2>2 DEF Clear
    <3>2. \A o \in Conn : offerCache'[o] # Nil =>
            offerCache'[o] = offerCache[o] /\ offerCache[o].from # c
      BY <2>1, <3>1 DEF TypeOK
    <3> QED
      BY <2>1, <3>2 DEF TypeOK, Msg
  <2>3. CASE c \notin Device
    <3>1. offerCache' = offerCache
      BY <1>4, <2>3 DEF Clear
    <3> QED
      BY <2>1, <2>3, <3>1 DEF TypeOK, Msg
  <2> QED
    BY <2>2, <2>3
<1>5. ASSUME NEW c \in Conn, ReadError(c) \/ CloseSend(c) \/ TryDelete(c)
      PROVE  CacheOwned'
  <2>1. /\ offerCache' = offerCache /\ rm' = rm
        /\ \A d \in Conn : pc[d] \in {"reading", "leaving"}
                             => pc'[d] \in {"reading", "leaving"}
    BY <1>5 DEF ReadError, CloseSend, TryDelete, TypeOK
  <2> QED
    BY <2>1 DEF TypeOK, Msg
<1>6. CASE UNCHANGED RegistryVars
  BY <1>6 DEF RegistryVars
<1> QED
  BY <1>1, <1>2, <1>3, <1>4, <1>5, <1>6, StepCases

\* When tryDelete keeps a room it is because a slot is taken, and then the
\* owner of the slot is running: the table never keeps a room for nobody.
LEMMA NoRoomLeakStep ==
    ASSUME TypeOK, RoomsApart, SlotOwned, NoRoomLeak, [Next]_vars
    PROVE  NoRoomLeak'
<1> USE DEF handlerVars, roomVars, chanVars, pumpVars
<1>1. ASSUME NEW c \in Conn, NEW i \in RoomId, GetOrCreate(c, i)
      PROVE  NoRoomLeak'
  <2> SUFFICES ASSUME NEW j \in RoomId, rooms'[j] # Nil
               PROVE  \E d \in Conn : rm'[d] = rooms'[j] /\ rid'[d] = j
                                       /\ Running(d)'
    BY DEF NoRoomLeak
  <2>1. CASE j = i
    <3>1. rm'[c] = rooms'[i] /\ rid'[c] = i /\ Running(c)'
      BY <1>1 DEF GetOrCreate, TypeOK, Running
    <3> QED
      BY <2>1, <3>1
  <2>2. CASE j # i
    <3>1. rooms'[j] = rooms[j]
      BY <1>1, <2>2 DEF GetOrCreate, TypeOK
    <3>2. PICK d \in Conn : rm[d] = rooms[j] /\ rid[d] = j /\ Running(d)
      BY <3>1 DEF NoRoomLeak
    <3>3. d # c
      BY <1>1, <3>2 DEF GetOrCreate, Running
    <3>4. rm'[d] = rm[d] /\ rid'[d] = rid[d] /\ pc'[d] = pc[d]
      BY <1>1, <3>3 DEF GetOrCreate, TypeOK
    <3> QED
      BY <3>1, <3>2, <3>4 DEF Running
  <2> QED
    BY <2>1, <2>2
<1>2. ASSUME NEW c \in Conn,
             \/ SetSlot(c) \/ NameDevice(c) \/ PeekOffer(c) \/ ReplayOffer(c)
             \/ ReadError(c) \/ Clear(c) \/ CloseSend(c)
      PROVE  NoRoomLeak'
  <2>1. rooms' = rooms /\ rm' = rm /\ rid' = rid
    BY <1>2 DEF SetSlot, NameDevice, PeekOffer, ReplayOffer, ReadError, Clear,
                CloseSend
  <2>2. \A d \in Conn : Running(d) => Running(d)'
    BY <1>2 DEF TypeOK, Running, SetSlot, NameDevice, PeekOffer, ReplayOffer,
                ReadError, Clear, CloseSend
  <2> QED
    BY <2>1, <2>2 DEF NoRoomLeak
<1>3. ASSUME NEW c \in Conn, NEW k \in Kind, Forward(c, k)
      PROVE  NoRoomLeak'
  BY <1>3 DEF Forward, NoRoomLeak, Running
<1>4. ASSUME NEW c \in Conn, TryDelete(c)
      PROVE  NoRoomLeak'
  <2>0. /\ pc[c] = "deleting" /\ pc' = [pc EXCEPT ![c] = "done"]
        /\ rm' = rm /\ rid' = rid /\ rid[c] \in RoomId
    BY <1>4 DEF TryDelete, TypeOK
  <2> SUFFICES ASSUME NEW j \in RoomId, rooms'[j] # Nil
               PROVE  \E d \in Conn : rm[d] = rooms'[j] /\ rid[d] = j
                                       /\ Running(d)'
    BY <2>0 DEF NoRoomLeak
  <2>1. rooms'[j] = rooms[j]
    BY <1>4 DEF TryDelete, TypeOK
  <2>2. CASE j # rid[c]
    <3>1. PICK d \in Conn : rm[d] = rooms[j] /\ rid[d] = j /\ Running(d)
      BY <2>1 DEF NoRoomLeak
    <3>2. d # c
      BY <2>2, <3>1
    <3> QED
      BY <2>0, <2>1, <3>1, <3>2 DEF TypeOK, Running
  <2>3. CASE j = rid[c]
    <3>1. ~IsEmpty(rooms[j]) /\ rooms[j] \in Conn
      BY <1>4, <2>1, <2>3 DEF TryDelete, TypeOK
    <3>2. PICK r \in Role : slot[rooms[j]][r] # Nil
      BY <3>1 DEF IsEmpty
    <3>3. PICK d \in Conn : rm[d] = rooms[j] /\ Present(d)
      BY <3>1, <3>2 DEF SlotOwned, TypeOK
    <3>4. d # c /\ Running(d)'
      BY <2>0, <3>3 DEF Present, Running, TypeOK
    <3>5. rid[d] = j
      BY <2>1, <3>1, <3>3 DEF RoomsApart
    <3> QED
      BY <2>1, <3>3, <3>4, <3>5
  <2> QED
    BY <2>2, <2>3
<1>5. CASE UNCHANGED RegistryVars
  BY <1>5 DEF RegistryVars, NoRoomLeak, Running
<1> QED
  BY <1>1, <1>2, <1>3, <1>4, <1>5, StepCases

\* What the registry of rooms keeps: inductive as a whole, and none of its
\* parts but the type and RoomsApart is inductive alone.
SafetyInv ==
    TypeOK /\ RoomsApart /\ OpenUntilClose /\ SlotOwned /\ CacheOwned /\ NoRoomLeak

\* The inductive invariant of the server.
THEOREM Safety == Spec => []SafetyInv
<1>1. Init => SafetyInv
  <2> SUFFICES ASSUME Init PROVE SafetyInv
    OBVIOUS
  <2>1. TypeOK
    BY BoundsAssumption DEF Init, TypeOK, Handler
  <2> QED
    BY <2>1 DEF Init, SafetyInv, RoomsApart, OpenUntilClose, SlotOwned,
                CacheOwned, NoRoomLeak
<1>2. SafetyInv /\ [Next]_vars => SafetyInv'
  BY TypeStep, RoomsApartStep, OpenStep, SlotStep, CacheStep, NoRoomLeakStep
     DEF SafetyInv
<1> QED
  BY <1>1, <1>2, PTL DEF Spec

\* The target of a forward is always an open channel: the clean-up order
\* "clear the slot, then close" excludes the send-on-closed-channel panic for
\* any number of connections replacing one another in a room.
THEOREM SendsAreSafe == Spec => []SendTargetsOpen
<1>1. SafetyInv => SendTargetsOpen
  <2> SUFFICES ASSUME SafetyInv PROVE SendTargetsOpen
    OBVIOUS
  <2>1. \A o \in Conn, r \in Role : slot[o][r] # Nil => slot[o][r] \in Conn
    BY DEF SafetyInv, TypeOK
  <2> QED
    BY <2>1 DEF SafetyInv, SlotOwned, OpenUntilClose, Present, SendTargetsOpen
<1> QED
  BY <1>1, Safety, PTL

\* A slot of a room holds a connection of that role, attached to that room
\* object and not yet past clear, whatever replaced whatever before.
THEOREM SlotsAreOwned == Spec => []SlotOwned
<1>1. SafetyInv => SlotOwned
  BY DEF SafetyInv
<1> QED
  BY <1>1, Safety, PTL

\* tryDelete leaves no room behind: every room of the table has a running
\* handler attached to it.
THEOREM RoomsAreReclaimed == Spec => []NoRoomLeak
<1>1. SafetyInv => NoRoomLeak
  BY DEF SafetyInv
<1> QED
  BY <1>1, Safety, PTL

\* No client is handed the offer of a device whose handler has cleared it.
THEOREM CacheIsLive == Spec => []CacheOwned
<1>1. SafetyInv => CacheOwned
  BY DEF SafetyInv
<1> QED
  BY <1>1, Safety, PTL

-----------------------------------------------------------------------------
(* Refinement *)

\* What a room keeps and what a client is about to replay was said by a device
\* of that room, however stale the copy has become.
LEMMA OffersSaidStep ==
    ASSUME SafetyInv, OffersSaid, [Next]_vars
    PROVE  OffersSaid'
<1> USE DEF handlerVars, roomVars, chanVars, pumpVars
<1>0. TypeOK /\ RoomsApart /\ CacheOwned
  BY DEF SafetyInv
<1>1. ASSUME NEW c \in Conn, NEW i \in RoomId, GetOrCreate(c, i)
      PROVE  OffersSaid'
  <2>1. /\ pc[c] = "idle" /\ pc' = [pc EXCEPT ![c] = "joining"]
        /\ rid' = [rid EXCEPT ![c] = i]
        /\ offerCache' = offerCache /\ cached' = cached /\ nsent' = nsent
    BY <1>1 DEF GetOrCreate
  <2>2. ASSUME NEW m \in Msg, NEW j, Said(m, j) PROVE Said(m, j)'
    BY <1>0, <2>1, <2>2 DEF Said, TypeOK, Msg
  <2>3. ASSUME NEW o \in Conn, offerCache[o] # Nil PROVE o # c
    <3>1. PICK d \in Conn : rm[d] = o
      BY <1>0, <2>3 DEF CacheOwned, TypeOK, Msg
    <3> QED
      BY <1>0, <2>1, <3>1, NilIsNoConn DEF RoomsApart
  <2>4. ASSUME NEW o \in Conn, offerCache[o] # Nil
        PROVE  Said(offerCache[o], rid[o])'
    <3>1. offerCache[o] \in Msg /\ Said(offerCache[o], rid[o]) /\ rid'[o] = rid[o]
      BY <1>0, <2>1, <2>3, <2>4 DEF OffersSaid, TypeOK
    <3> QED
      BY <2>1, <2>2, <3>1 DEF Said
  <2>5. ASSUME NEW d \in Conn, pc'[d] = "replaying"
        PROVE  d \in Client /\ Said(cached[d], rid[d])'
    <3>1. d # c /\ pc[d] = "replaying" /\ rid'[d] = rid[d]
      BY <1>0, <2>1, <2>5 DEF TypeOK
    <3>2. cached[d] \in Msg /\ d \in Client /\ Said(cached[d], rid[d])
      BY <1>0, <3>1 DEF OffersSaid, TypeOK
    <3> QED
      BY <2>1, <2>2, <3>1, <3>2 DEF Said
  <2> QED
    BY <2>1, <2>4, <2>5 DEF OffersSaid
<1>2. ASSUME NEW c \in Conn, PeekOffer(c)
      PROVE  OffersSaid'
  <2>1. /\ rm[c] \in Conn /\ rid[rm[c]] = rid[c] /\ c \in Client
        /\ pc[c] = "joined"
    BY <1>0, <1>2, NilIsNoConn DEF PeekOffer, TypeOK, RoomsApart
  <2>2. \A d \in Conn : pc'[d] # "idle" <=> pc[d] # "idle"
    BY <1>0, <1>2 DEF PeekOffer, TypeOK
  <2>3. \A d \in Conn \ {c} : cached'[d] = cached[d] /\ pc'[d] = pc[d]
    BY <1>0, <1>2 DEF PeekOffer, TypeOK
  <2>4. pc'[c] = "replaying" => cached'[c] = offerCache[rm[c]]
                                /\ offerCache[rm[c]] # Nil
    BY <1>0, <1>2 DEF PeekOffer, TypeOK
  <2>5. offerCache' = offerCache /\ rid' = rid /\ nsent' = nsent
    BY <1>2 DEF PeekOffer
  <2>6. ASSUME NEW m \in Msg, NEW j, Said(m, j) PROVE Said(m, j)'
    BY <2>2, <2>5, <2>6 DEF Said, Msg
  <2>7. ASSUME NEW o \in Conn, offerCache[o] # Nil
        PROVE  Said(offerCache[o], rid[o])'
    <3>1. offerCache[o] \in Msg /\ Said(offerCache[o], rid[o])
      BY <1>0, <2>7 DEF OffersSaid, TypeOK
    <3> QED
      BY <2>5, <2>6, <3>1 DEF Said
  <2>8. ASSUME NEW d \in Conn, pc'[d] = "replaying"
        PROVE  d \in Client /\ Said(cached[d], rid[d])'
    <3>1. CASE d = c
      BY <2>1, <2>4, <2>5, <2>7, <2>8, <3>1 DEF Said
    <3>2. CASE d # c
      <4>1. cached[d] \in Msg /\ d \in Client /\ Said(cached[d], rid[d])
        BY <1>0, <2>3, <2>8, <3>2 DEF OffersSaid, TypeOK
      <4> QED
        BY <2>3, <2>5, <2>6, <3>2, <4>1 DEF Said
    <3> QED
      BY <3>1, <3>2
  <2> QED
    BY <2>5, <2>7, <2>8 DEF OffersSaid
<1>3. ASSUME NEW c \in Conn, NEW k \in Kind, Forward(c, k)
      PROVE  OffersSaid'
  <2>0. PICK m \in Msg : m = [from |-> c, kind |-> k, n |-> nsent[c] + 1]
    <3>1. nsent[c] + 1 \in 1..MaxMsgs
      BY <1>0, <1>3, BoundsAssumption DEF Forward, TypeOK
    <3> QED
      BY <3>1 DEF Msg
  <2>1. /\ pc[c] = "reading" /\ rm[c] \in Conn /\ rid[rm[c]] = rid[c]
        /\ pc' = pc /\ rid' = rid /\ rm' = rm /\ cached' = cached
        /\ nsent' = [nsent EXCEPT ![c] = @ + 1]
    BY <1>0, <1>3, NilIsNoConn DEF Forward, TypeOK, RoomsApart
  <2>2. \A d \in Conn : nsent[d] \in Nat /\ nsent[d] <= nsent'[d]
    BY <1>0, <2>1, BoundsAssumption DEF TypeOK
  <2>3. ASSUME NEW x \in Msg, NEW j, Said(x, j) PROVE Said(x, j)'
    <3>1. x.n \in Nat /\ x.from \in Conn
      BY BoundsAssumption DEF Msg
    <3>2. nsent[x.from] \in Nat /\ nsent'[x.from] \in Nat
      BY <1>0, <2>1, <3>1, BoundsAssumption DEF TypeOK
    <3>3. x.n <= nsent'[x.from]
      BY <2>2, <2>3, <3>1, <3>2 DEF Said
    <3> QED
      BY <2>1, <2>3, <3>3 DEF Said
  <2>4. CASE c \in Device /\ k = "offer"
    <3>1. offerCache' = [offerCache EXCEPT ![rm[c]] = m]
      BY <1>3, <2>0, <2>4 DEF Forward
    <3>2. nsent'[c] = nsent[c] + 1 /\ nsent[c] \in Nat
      BY <1>0, <2>1, BoundsAssumption DEF TypeOK
    <3>3. Said(m, rid[rm[c]])'
      BY <2>0, <2>1, <2>4, <3>2 DEF Said
    <3>4. ASSUME NEW o \in Conn, offerCache'[o] # Nil
          PROVE  Said(offerCache[o], rid[o])'
      <4>1. CASE o = rm[c]
        <5>1. offerCache'[o] = m
          BY <1>0, <3>1, <4>1 DEF TypeOK
        <5> QED
          BY <2>1, <3>3, <4>1, <5>1 DEF Said
      <4>2. CASE o # rm[c]
        <5>1. /\ offerCache'[o] = offerCache[o] /\ offerCache[o] \in Msg
              /\ Said(offerCache[o], rid[o])
          BY <1>0, <3>1, <3>4, <4>2 DEF TypeOK, OffersSaid
        <5> QED
          BY <2>1, <2>3, <5>1 DEF Said
      <4> QED
        BY <4>1, <4>2
    <3>5. ASSUME NEW d \in Conn, pc'[d] = "replaying"
          PROVE  d \in Client /\ Said(cached[d], rid[d])'
      <4>1. cached[d] \in Msg /\ d \in Client /\ Said(cached[d], rid[d])
        BY <1>0, <2>1, <3>5 DEF OffersSaid, TypeOK
      <4> QED
        BY <2>1, <2>3, <4>1 DEF Said
    <3> QED
      BY <3>4, <3>5 DEF OffersSaid
  <2>5. CASE ~(c \in Device /\ k = "offer")
    <3>1. offerCache' = offerCache
      BY <1>3, <2>5 DEF Forward
    <3>2. ASSUME NEW o \in Conn, offerCache'[o] # Nil
          PROVE  Said(offerCache[o], rid[o])'
      <4>1. offerCache[o] \in Msg /\ Said(offerCache[o], rid[o])
        BY <1>0, <3>1, <3>2 DEF OffersSaid, TypeOK
      <4> QED
        BY <2>1, <2>3, <3>1, <4>1 DEF Said
    <3>3. ASSUME NEW d \in Conn, pc'[d] = "replaying"
          PROVE  d \in Client /\ Said(cached[d], rid[d])'
      <4>1. cached[d] \in Msg /\ d \in Client /\ Said(cached[d], rid[d])
        BY <1>0, <2>1, <3>3 DEF OffersSaid, TypeOK
      <4> QED
        BY <2>1, <2>3, <4>1 DEF Said
    <3> QED
      BY <3>2, <3>3 DEF OffersSaid
  <2> QED
    BY <2>4, <2>5
<1>4. ASSUME NEW c \in Conn,
             \/ SetSlot(c) \/ NameDevice(c) \/ ReplayOffer(c)
             \/ ReadError(c) \/ Clear(c) \/ CloseSend(c) \/ TryDelete(c)
      PROVE  OffersSaid'
  <2>1. /\ rid' = rid /\ nsent' = nsent /\ cached' = cached
        /\ \A d \in Conn : pc'[d] # "idle" <=> pc[d] # "idle"
        /\ \A d \in Conn : pc'[d] = "replaying" => pc[d] = "replaying"
    BY <1>0, <1>4 DEF TypeOK, SetSlot, NameDevice, ReplayOffer, ReadError, Clear,
                      CloseSend, TryDelete
  <2>2. \A o \in Conn : offerCache'[o] # Nil => offerCache'[o] = offerCache[o]
    BY <1>0, <1>4 DEF TypeOK, SetSlot, NameDevice, ReplayOffer, ReadError, Clear,
                      CloseSend, TryDelete
  <2>3. ASSUME NEW m \in Msg, NEW j, Said(m, j) PROVE Said(m, j)'
    BY <2>1, <2>3 DEF Said, Msg
  <2>4. ASSUME NEW o \in Conn, offerCache'[o] # Nil
        PROVE  Said(offerCache[o], rid[o])'
    <3>1. offerCache[o] \in Msg /\ Said(offerCache[o], rid[o])
      BY <1>0, <2>2, <2>4 DEF OffersSaid, TypeOK
    <3> QED
      BY <2>1, <2>2, <2>3, <2>4, <3>1 DEF Said
  <2>5. ASSUME NEW d \in Conn, pc'[d] = "replaying"
        PROVE  d \in Client /\ Said(cached[d], rid[d])'
    <3>1. cached[d] \in Msg /\ d \in Client /\ Said(cached[d], rid[d])
      BY <1>0, <2>1, <2>5 DEF OffersSaid, TypeOK
    <3> QED
      BY <2>1, <2>3, <3>1 DEF Said
  <2> QED
    BY <2>4, <2>5 DEF OffersSaid
<1>5. CASE UNCHANGED RegistryVars
  BY <1>5 DEF RegistryVars, OffersSaid, Said
<1> QED
  BY <1>1, <1>2, <1>3, <1>4, <1>5, StepCases

\* A non-blocking send is Relay's Put or leaves the boxes alone.
LEMMA TrySendPuts ==
    ASSUME NEW c \in Conn, NEW m, TrySend(c, m)
    PROVE  Abstract!Put(c, m) \/ queue' = queue
BY DEF TrySend, Abstract!Put

\* Every step of the server is a step of Relay or changes nothing Relay sees.
LEMMA RelayStep ==
    ASSUME SafetyInv, OffersSaid, [Next]_vars
    PROVE  [Abstract!Next]_(Abstract!vars)
<1> USE DEF handlerVars, roomVars, chanVars, pumpVars, Abstract!Conn, Conn
<1>0. TypeOK /\ RoomsApart /\ SlotOwned
  BY DEF SafetyInv
<1> DEFINE Same == Phase' = Phase /\ rid' = rid /\ nsent' = nsent
<1>a. ASSUME Same, queue' = queue, got' = got
      PROVE  [Abstract!Next]_(Abstract!vars)
  BY <1>a DEF Abstract!vars
<1>1. ASSUME NEW c \in Conn, NEW i \in RoomId, GetOrCreate(c, i)
      PROVE  [Abstract!Next]_(Abstract!vars)
  <2>1. Phase[c] = "out" /\ Phase' = [Phase EXCEPT ![c] = "in"]
    BY <1>0, <1>1 DEF GetOrCreate, Phase, TypeOK
  <2>2. Abstract!Join(c, i)
    BY <1>1, <2>1 DEF Abstract!Join, GetOrCreate
  <2> QED
    BY <2>2 DEF Abstract!Next
<1>2. ASSUME NEW c \in Conn,
             \/ SetSlot(c) \/ NameDevice(c) \/ PeekOffer(c) \/ ReadError(c)
             \/ CloseSend(c) \/ TryDelete(c)
      PROVE  [Abstract!Next]_(Abstract!vars)
  <2>1. Phase' = Phase
    BY <1>0, <1>2 DEF SetSlot, NameDevice, PeekOffer, ReadError, CloseSend,
                      TryDelete, Phase, TypeOK
  <2> QED
    BY <1>a, <1>2, <2>1 DEF SetSlot, NameDevice, PeekOffer, ReadError, CloseSend,
                            TryDelete
<1>3. ASSUME NEW c \in Conn, ReplayOffer(c)
      PROVE  [Abstract!Next]_(Abstract!vars)
  <2>1. /\ Phase' = Phase /\ Phase[c] = "in" /\ rid' = rid /\ nsent' = nsent
        /\ got' = got /\ TrySend(c, cached[c])
    BY <1>0, <1>3 DEF ReplayOffer, Phase, TypeOK
  <2>2. c \in Client /\ cached[c] \in Msg /\ Said(cached[c], rid[c])
    BY <1>0, <1>3 DEF ReplayOffer, OffersSaid, TypeOK
  <2>3. CASE Abstract!Put(c, cached[c])
    <3>1. Abstract!Replay(c, cached[c])
      BY <2>1, <2>2, <2>3 DEF Abstract!Replay, Said
    <3> QED
      BY <2>2, <3>1 DEF Abstract!Next, Abstract!Msg, Msg
  <2>4. CASE queue' = queue
    BY <1>a, <2>1, <2>4
  <2> QED
    BY <2>1, <2>3, <2>4, TrySendPuts
<1>4. ASSUME NEW c \in Conn, NEW k \in Kind, Forward(c, k)
      PROVE  [Abstract!Next]_(Abstract!vars)
  <2> DEFINE m == [from |-> c, kind |-> k, n |-> nsent[c] + 1]
             d == slot[rm[c]][Other(RoleOf(c))]
  <2>1. /\ Phase' = Phase /\ Phase[c] = "in" /\ rid' = rid /\ got' = got
        /\ nsent[c] < MaxMsgs /\ nsent' = [nsent EXCEPT ![c] = nsent[c] + 1]
    BY <1>0, <1>4 DEF Forward, Phase, TypeOK
  <2>2. CASE d = Nil
    <3>1. queue' = queue
      BY <1>4, <2>2 DEF Forward
    <3>2. Abstract!Say(c, k)
      BY <2>1, <3>1 DEF Abstract!Say
    <3> QED
      BY <3>2 DEF Abstract!Next
  <2>3. CASE d # Nil
    <3>1. /\ d \in Conn /\ RoleOf(d) = Other(RoleOf(c)) /\ rm[d] = rm[c]
          /\ Present(d) /\ rm[c] \in Conn
      BY <1>0, <1>4, <2>3 DEF Forward, SlotOwned, TypeOK, Role, RoleOf, Other
    <3>2. Phase[d] = "in"
      BY <3>1 DEF Present, Phase
    <3>3. rid[d] = rid[c]
      BY <1>0, <3>1, NilIsNoConn DEF RoomsApart
    <3>4. Abstract!Opposite(c, d)
      BY <3>1, RolesDisjoint DEF Abstract!Opposite, RoleOf, Other
    <3>5. Abstract!Put(d, m) \/ queue' = queue
      BY <1>4, <2>3, <3>1, TrySendPuts DEF Forward
    <3>6. Abstract!Say(c, k)
      BY <2>1, <3>1, <3>2, <3>3, <3>4, <3>5 DEF Abstract!Say
    <3> QED
      BY <3>6 DEF Abstract!Next
  <2> QED
    BY <2>2, <2>3
<1>5. ASSUME NEW c \in Conn, Clear(c)
      PROVE  [Abstract!Next]_(Abstract!vars)
  <2>1. Phase[c] = "in" /\ Phase' = [Phase EXCEPT ![c] = "left"]
    BY <1>0, <1>5 DEF Clear, Phase, TypeOK
  <2>2. Abstract!Leave(c)
    BY <1>5, <2>1 DEF Abstract!Leave, Clear
  <2> QED
    BY <2>2 DEF Abstract!Next
<1>6. ASSUME NEW c \in Conn, PumpWrite(c)
      PROVE  [Abstract!Next]_(Abstract!vars)
  <2>1. Abstract!Deliver(c)
    BY <1>6 DEF Abstract!Deliver, PumpWrite, Phase
  <2> QED
    BY <2>1 DEF Abstract!Next
<1>7. ASSUME NEW c \in Conn, PumpWriteError(c)
      PROVE  [Abstract!Next]_(Abstract!vars)
  <2>1. Abstract!Lose(c)
    BY <1>7 DEF Abstract!Lose, PumpWriteError, Phase
  <2> QED
    BY <2>1 DEF Abstract!Next
<1>8. ASSUME NEW c \in Conn,
             PumpPingError(c) \/ PumpClose(c) \/ PeerGone(c) \/ PeerStalls(c)
      PROVE  [Abstract!Next]_(Abstract!vars)
  <2>1. Phase' = Phase
    BY <1>8 DEF PumpPingError, PumpClose, PeerGone, PeerStalls, Phase
  <2> QED
    BY <1>a, <1>8, <2>1 DEF PumpPingError, PumpClose, PeerGone, PeerStalls
<1>9. CASE UNCHANGED vars
  BY <1>a, <1>9 DEF vars, Phase
<1> QED
  BY <1>1, <1>2, <1>3, <1>4, <1>5, <1>6, <1>7, <1>8, <1>9
     DEF Next, HandlerStep, PumpStep

\* The server implements Relay: whatever the interleaving of connections,
\* replacements, replays and failures, a message reaches at most one live peer
\* of the other role in the same room, and a departed connection gets nothing.
THEOREM RelayRefinement == Spec => ImplementsRelay
<1>1. Init => OffersSaid /\ Abstract!Init
  BY DEF Init, OffersSaid, Said, Abstract!Init, Abstract!Conn, Conn, Phase
<1>2. SafetyInv /\ OffersSaid /\ [Next]_vars => OffersSaid'
  BY OffersSaidStep
<1>3. SafetyInv /\ OffersSaid /\ [Next]_vars => [Abstract!Next]_(Abstract!vars)
  BY RelayStep
<1> QED
  BY <1>1, <1>2, <1>3, Safety, PTL DEF Spec, ImplementsRelay, Abstract!Spec

-----------------------------------------------------------------------------
(* Order and completeness of what a connection is sent *)

\* A sequence of messages in which no number exceeds what its sender sent and
\* what is not an offer comes in the order of the numbers.
InOrder(o, sent) ==
    /\ \A j \in 1..Len(o) : o[j].n <= sent[o[j].from]
    /\ \A j, k \in 1..Len(o) :
         (/\ j < k /\ o[j].from = o[k].from
          /\ o[j].kind # "offer" /\ o[k].kind # "offer")
         => o[j].n < o[k].n

\* RelayInOrder, and that a message under way was read from its sender: what
\* makes the next message of the same sender the newest.
OrderInv == \A c \in Conn : InOrder(Outbox(c), nsent)

\* The counters of the senders grow.
Grows(sent, sent2) ==
    /\ sent \in [Conn -> Nat] /\ sent2 \in [Conn -> Nat]
    /\ \A d \in Conn : sent[d] <= sent2[d]

\* A sequence stays in order while its senders go on.
LEMMA OrderLasts ==
    ASSUME NEW o \in Seq(Msg), NEW sent, NEW sent2, Grows(sent, sent2), InOrder(o, sent)
    PROVE  InOrder(o, sent2)
<1>1. ASSUME NEW j \in 1..Len(o) PROVE o[j].n <= sent2[o[j].from]
  <2>1. o[j] \in Msg
    OBVIOUS
  <2>2. o[j].from \in Conn /\ o[j].n \in Nat /\ o[j].n <= sent[o[j].from]
    BY <2>1, BoundsAssumption DEF Msg, InOrder
  <2>3. sent[o[j].from] \in Nat /\ sent2[o[j].from] \in Nat
        /\ sent[o[j].from] <= sent2[o[j].from]
    BY <2>2 DEF Grows
  <2> QED
    BY <2>2, <2>3
<1> QED
  BY <1>1 DEF InOrder

\* A message queued behind what was written and what waits comes last.
LEMMA QueueAppends ==
    ASSUME NEW g \in Seq(Msg), NEW q \in Seq(Msg), NEW m \in Msg
    PROVE  /\ Len(g \o Append(q, m)) = Len(g \o q) + 1
           /\ \A j \in 1..Len(g \o q) : (g \o Append(q, m))[j] = (g \o q)[j]
           /\ (g \o Append(q, m))[Len(g \o q) + 1] = m
           /\ Len(g \o q) \in Nat
OBVIOUS

\* A message behind the others keeps the order when it is an offer that was
\* said, or newer than all its sender said before.
LEMMA OrderAppends ==
    ASSUME NEW g \in Seq(Msg), NEW q \in Seq(Msg), NEW m \in Msg,
           NEW sent, NEW sent2, Grows(sent, sent2), InOrder(g \o q, sent),
           m.n <= sent2[m.from],
           m.kind # "offer" => sent[m.from] < m.n
    PROVE  InOrder(g \o Append(q, m), sent2)
<1> DEFINE old == g \o q
           new == g \o Append(q, m)
<1>1. old \in Seq(Msg) /\ Len(old) \in Nat /\ Len(new) = Len(old) + 1
  BY QueueAppends
<1>2. \A j \in 1..Len(old) : new[j] = old[j]
  BY QueueAppends
<1>3. new[Len(old) + 1] = m
  BY QueueAppends
<1>4. InOrder(old, sent2) /\ InOrder(old, sent)
  BY <1>1, OrderLasts
<1> HIDE DEF old, new
<1>5. ASSUME NEW j \in 1..Len(new) PROVE new[j].n <= sent2[new[j].from]
  <2>1. CASE j = Len(old) + 1
    BY <1>3, <2>1
  <2>2. CASE j # Len(old) + 1
    BY <1>1, <1>2, <1>4, <2>2 DEF InOrder
  <2> QED
    BY <2>1, <2>2
<1>6. ASSUME NEW j \in 1..Len(new), NEW k \in 1..Len(new), j < k,
             new[j].from = new[k].from,
             new[j].kind # "offer", new[k].kind # "offer"
      PROVE  new[j].n < new[k].n
  <2>1. j \in 1..Len(old) /\ new[j] = old[j] /\ old[j] \in Msg
    BY <1>1, <1>2, <1>6
  <2>2. CASE k = Len(old) + 1
    <3>1. old[j].n <= sent[old[j].from]
      BY <1>4, <2>1 DEF InOrder
    <3>2. new[k] = m /\ sent[old[j].from] < m.n
      BY <1>3, <1>6, <2>1, <2>2
    <3>3. old[j].from \in Conn /\ old[j].n \in Nat /\ m.n \in Nat
      BY <2>1, BoundsAssumption DEF Msg
    <3>4. sent[old[j].from] \in Nat
      BY <3>3 DEF Grows
    <3> QED
      BY <2>1, <3>1, <3>2, <3>3, <3>4
  <2>3. CASE k # Len(old) + 1
    <3>1. k \in 1..Len(old) /\ new[k] = old[k]
      BY <1>1, <1>2, <2>3
    <3> QED
      BY <1>4, <1>6, <2>1, <3>1 DEF InOrder
  <2> QED
    BY <2>2, <2>3
<1>7. InOrder(new, sent2)
  BY <1>5, <1>6 DEF InOrder
<1> QED
  BY <1>7 DEF new

\* Writing the oldest message that waits changes nothing of the outbox.
LEMMA QueueWrites ==
    ASSUME NEW g \in Seq(Msg), NEW q \in Seq(Msg), q # <<>>
    PROVE  Append(g, Head(q)) \o Tail(q) = g \o q
<1> DEFINE old == g \o q
           new == Append(g, Head(q)) \o Tail(q)
<1>1. Head(q) \in Msg /\ Tail(q) \in Seq(Msg) /\ Append(g, Head(q)) \in Seq(Msg)
  OBVIOUS
<1>2. old \in Seq(Msg) /\ new \in Seq(Msg)
  BY <1>1
<1>3. Len(new) = Len(old)
  OBVIOUS
<1>4. \A j \in 1..Len(new) : new[j] = old[j]
  OBVIOUS
<1> HIDE DEF old, new
<1>5. new = old
  BY <1>2, <1>3, <1>4, SeqEqual
<1> QED
  BY <1>5 DEF old, new

\* Losing the oldest message that waits keeps the others, in their order.
LEMMA OrderDrops ==
    ASSUME NEW g \in Seq(Msg), NEW q \in Seq(Msg), q # <<>>,
           NEW sent, InOrder(g \o q, sent)
    PROVE  InOrder(g \o Tail(q), sent)
<1> DEFINE old == g \o q
           new == g \o Tail(q)
           at(j) == IF j <= Len(g) THEN j ELSE j + 1
<1>1. Len(new) + 1 = Len(old) /\ Len(new) \in Nat /\ Len(g) \in Nat
  OBVIOUS
<1>2. \A j \in 1..Len(new) : new[j] = old[at(j)]
  OBVIOUS
<1>3. InOrder(old, sent)
  OBVIOUS
<1> HIDE DEF old, new
<1>4. \A j \in 1..Len(new) : at(j) \in 1..Len(old)
  BY <1>1
<1>5. \A j, k \in 1..Len(new) : j < k => at(j) < at(k)
  BY <1>1
<1> HIDE DEF at
<1>6. InOrder(new, sent)
  BY <1>2, <1>3, <1>4, <1>5 DEF InOrder
<1> QED
  BY <1>6 DEF new

\* A non-blocking send queues the message at the end of one connection's
\* outbox or loses it to that connection, and leaves the others alone.
LEMMA TrySendOutbox ==
    ASSUME NEW c \in Conn, NEW m \in Msg, TypeOK, TrySend(c, m), got' = got
    PROVE  /\ \A d \in Conn \ {c} : Outbox(d)' = Outbox(d) /\ lost'[d] = lost[d]
           /\ \/ /\ Outbox(c)' = got[c] \o Append(queue[c], m) /\ lost' = lost
              \/ /\ Outbox(c)' = Outbox(c) /\ lost'[c] = lost[c] \cup {m}
<1>1. CASE Len(queue[c]) < SendCap
  <2>1. queue' = [queue EXCEPT ![c] = Append(queue[c], m)] /\ lost' = lost
    BY <1>1 DEF TrySend
  <2> QED
    BY <2>1 DEF TypeOK, Outbox
<1>2. CASE ~(Len(queue[c]) < SendCap)
  <2>1. lost' = [lost EXCEPT ![c] = lost[c] \cup {m}] /\ queue' = queue
    BY <1>2 DEF TrySend
  <2> QED
    BY <2>1 DEF TypeOK, Outbox
<1> QED
  BY <1>1, <1>2

\* What a step can do to what is sent: a handler forwards or replays, a pump
\* that fails drops the oldest message and stops, nothing else matters.
LEMMA OutboxStep ==
    ASSUME TypeOK, [Next]_vars
    PROVE  \/ \E c \in Conn, k \in Kind : Forward(c, k)
           \/ \E c \in Conn : ReplayOffer(c)
           \/ \E c \in Conn : PumpWriteError(c)
           \/ /\ \A d \in Conn : Outbox(d)' = Outbox(d)
              /\ lost' = lost /\ nsent' = nsent
<1> DEFINE Quiet == /\ \A d \in Conn : Outbox(d)' = Outbox(d)
                    /\ lost' = lost /\ nsent' = nsent
<1> USE DEF handlerVars, pumpVars, chanVars, roomVars
<1>1. ASSUME got' = got, queue' = queue, lost' = lost, nsent' = nsent
      PROVE  Quiet
  BY <1>1 DEF Outbox
<1>2. ASSUME NEW c \in Conn, PumpWrite(c) PROVE Quiet
  <2>1. /\ queue[c] # <<>> /\ lost' = lost /\ nsent' = nsent
        /\ got' = [got EXCEPT ![c] = Append(got[c], Head(queue[c]))]
        /\ queue' = [queue EXCEPT ![c] = Tail(queue[c])]
    BY <1>2 DEF PumpWrite
  <2>2. got[c] \in Seq(Msg) /\ queue[c] \in Seq(Msg)
    BY DEF TypeOK
  <2>3. Append(got[c], Head(queue[c])) \o Tail(queue[c]) = got[c] \o queue[c]
    BY <2>1, <2>2, QueueWrites
  <2> QED
    BY <2>1, <2>3 DEF TypeOK, Outbox
<1>3. ASSUME NEW c \in Conn,
             \/ \E i \in RoomId : GetOrCreate(c, i)
             \/ SetSlot(c) \/ NameDevice(c) \/ PeekOffer(c) \/ ReadError(c)
             \/ Clear(c) \/ CloseSend(c) \/ TryDelete(c) \/ PumpPingError(c)
             \/ PumpClose(c) \/ PeerGone(c) \/ PeerStalls(c)
      PROVE  Quiet
  BY <1>1, <1>3 DEF GetOrCreate, SetSlot, NameDevice, PeekOffer, ReadError, Clear,
     CloseSend, TryDelete, PumpPingError, PumpClose, PeerGone, PeerStalls
<1>4. CASE UNCHANGED vars
  BY <1>1, <1>4 DEF vars
<1> QED
  BY <1>2, <1>3, <1>4 DEF Next, HandlerStep, PumpStep

\* Messages leave the outbox in the order in which they were read: a new
\* message has the highest number of its sender, and a replay is an offer.
LEMMA OrderStep ==
    ASSUME SafetyInv, OffersSaid, OrderInv, [Next]_vars
    PROVE  OrderInv'
<1>0. TypeOK
  BY DEF SafetyInv
<1>1. \A d \in Conn : /\ got[d] \in Seq(Msg) /\ queue[d] \in Seq(Msg)
                      /\ Outbox(d) \in Seq(Msg) /\ InOrder(Outbox(d), nsent)
  BY <1>0 DEF TypeOK, Outbox, OrderInv
<1>2. nsent \in [Conn -> Nat]
  BY <1>0, BoundsAssumption DEF TypeOK
<1>3. ASSUME NEW c \in Conn, NEW m \in Msg, Grows(nsent, nsent'),
             \/ Outbox(c)' = got[c] \o Append(queue[c], m)
             \/ Outbox(c)' = Outbox(c),
             \A d \in Conn \ {c} : Outbox(d)' = Outbox(d),
             m.n <= nsent'[m.from],
             m.kind # "offer" => nsent[m.from] < m.n
      PROVE  OrderInv'
  <2>1. InOrder(got[c] \o Append(queue[c], m), nsent')
    BY <1>1, <1>3, OrderAppends DEF Outbox
  <2>2. \A d \in Conn : InOrder(Outbox(d), nsent')
    BY <1>1, <1>3, OrderLasts
  <2> QED
    BY <1>3, <2>1, <2>2 DEF OrderInv
<1>4. ASSUME NEW c \in Conn, NEW k \in Kind, Forward(c, k)
      PROVE  OrderInv'
  <2> DEFINE m == [from |-> c, kind |-> k, n |-> nsent[c] + 1]
             target == slot[rm[c]][Other(RoleOf(c))]
  <2>1. /\ nsent' = [nsent EXCEPT ![c] = nsent[c] + 1] /\ got' = got
        /\ nsent[c] < MaxMsgs
    BY <1>4 DEF Forward, pumpVars
  <2>2. m \in Msg
    BY <1>2, <2>1, BoundsAssumption DEF Msg
  <2>3. Grows(nsent, nsent')
    BY <1>2, <2>1 DEF Grows
  <2>4. m.n <= nsent'[m.from] /\ nsent[m.from] < m.n
    BY <1>2, <2>1
  <2>5. CASE target = Nil
    <3>1. queue' = queue
      BY <1>4, <2>5 DEF Forward
    <3>2. \A d \in Conn : Outbox(d)' = Outbox(d)
      BY <2>1, <3>1 DEF Outbox
    <3> QED
      BY <1>3, <2>2, <2>3, <2>4, <3>2
  <2>6. CASE target # Nil
    <3>1. target \in Conn
      BY <1>0, <1>4, <2>6 DEF TypeOK, Forward, Other, Role
    <3>2. TrySend(target, m)
      BY <1>4, <2>6 DEF Forward
    <3> HIDE DEF m, target
    <3> QED
      BY <1>0, <1>3, <2>1, <2>2, <2>3, <2>4, <3>1, <3>2, TrySendOutbox
  <2> QED
    BY <2>5, <2>6
<1>5. ASSUME NEW c \in Conn, ReplayOffer(c)
      PROVE  OrderInv'
  <2>1. /\ pc[c] = "replaying" /\ TrySend(c, cached[c])
        /\ nsent' = nsent /\ got' = got
    BY <1>5 DEF ReplayOffer, pumpVars
  <2>2. cached[c] \in Msg /\ Said(cached[c], rid[c])
    BY <1>0, <2>1 DEF TypeOK, OffersSaid
  <2>3. cached[c].kind = "offer" /\ cached[c].n <= nsent'[cached[c].from]
    BY <2>1, <2>2 DEF Said
  <2>4. Grows(nsent, nsent')
    BY <1>2, <2>1 DEF Grows
  <2> QED
    BY <1>0, <1>3, <2>1, <2>2, <2>3, <2>4, TrySendOutbox
<1>6. ASSUME NEW c \in Conn, PumpWriteError(c)
      PROVE  OrderInv'
  <2>1. /\ queue[c] # <<>> /\ queue' = [queue EXCEPT ![c] = Tail(queue[c])]
        /\ got' = got /\ nsent' = nsent
    BY <1>6 DEF PumpWriteError, handlerVars
  <2>2. Outbox(c)' = got[c] \o Tail(queue[c])
    BY <1>0, <2>1 DEF TypeOK, Outbox
  <2>3. \A d \in Conn \ {c} : Outbox(d)' = Outbox(d)
    BY <1>0, <2>1 DEF TypeOK, Outbox
  <2>4. InOrder(got[c] \o Tail(queue[c]), nsent)
    BY <1>1, <2>1, OrderDrops DEF Outbox
  <2> QED
    BY <1>1, <2>1, <2>2, <2>3, <2>4 DEF OrderInv
<1>7. CASE nsent' = nsent /\ \A d \in Conn : Outbox(d)' = Outbox(d)
  BY <1>1, <1>7 DEF OrderInv
<1> QED
  BY <1>0, <1>4, <1>5, <1>6, <1>7, OutboxStep

\* What the server said and what it keeps is an invariant of the specification.
LEMMA OffersHold == Spec => []OffersSaid
<1>1. Init => OffersSaid
  BY DEF Init, OffersSaid
<1>2. SafetyInv /\ OffersSaid /\ [Next]_vars => OffersSaid'
  BY OffersSaidStep
<1> QED
  BY <1>1, <1>2, Safety, PTL DEF Spec

\* The relay neither reorders nor repeats what one peer says to another, for
\* any number of connections, replacements, lost messages and replays; only a
\* cached offer can arrive twice.
THEOREM RelayKeepsOrder == Spec => []RelayInOrder
<1>1. Init => OrderInv
  BY DEF Init, OrderInv, InOrder, Outbox
<1>2. SafetyInv /\ OffersSaid /\ OrderInv /\ [Next]_vars => OrderInv'
  BY OrderStep
<1>3. OrderInv => RelayInOrder
  BY DEF OrderInv, InOrder, RelayInOrder
<1> QED
  BY <1>1, <1>2, <1>3, Safety, OffersHold, PTL DEF Spec


\* The client has been sent message m, or lost it to a full buffer.
Served(c, m) ==
    \/ \E j \in 1..Len(Outbox(c)) : Outbox(c)[j] = m
    \/ m \in lost[c]

\* NoMissedOffer from the moment the client peeks: the copy it is about to
\* replay is the offer its room keeps, or a newer one was forwarded to it.
ReplayCoversOffer ==
    \A c \in Client :
        (/\ pc[c] \in {"replaying", "reading"} /\ wp[c] = "run"
         /\ slot[rm[c]]["client"] = c
         /\ offerCache[rm[c]] # Nil)
        => \/ Served(c, offerCache[rm[c]])
           \/ pc[c] = "replaying" /\ cached[c] = offerCache[rm[c]]

\* What a connection was sent, or lost, stays so until its pump fails.
LEMMA ServedLasts ==
    ASSUME TypeOK, [Next]_vars, NEW c \in Conn, NEW m, Served(c, m),
           wp'[c] = "run"
    PROVE  Served(c, m)'
<1>1. ASSUME NEW d \in Conn, NEW x \in Msg, TrySend(d, x), got' = got
      PROVE  Served(c, m)'
  <2>1. CASE c = d
    <3>1. /\ got[c] \in Seq(Msg) /\ queue[c] \in Seq(Msg) /\ Outbox(c) = got[c] \o queue[c]
      BY DEF TypeOK, Outbox
    <3>2. CASE Outbox(c)' = got[c] \o Append(queue[c], x) /\ lost' = lost
      <4>1. /\ Len(got[c] \o Append(queue[c], x)) = Len(got[c] \o queue[c]) + 1
            /\ Len(got[c] \o queue[c]) \in Nat
            /\ \A j \in 1..Len(got[c] \o queue[c]) :
                 (got[c] \o Append(queue[c], x))[j] = (got[c] \o queue[c])[j]
        BY <3>1, QueueAppends
      <4>2. CASE m \in lost[c]
        BY <3>2, <4>2 DEF Served
      <4>3. ASSUME NEW j \in 1..Len(Outbox(c)), Outbox(c)[j] = m
            PROVE  Served(c, m)'
        <5> DEFINE old == got[c] \o queue[c]
                   new == got[c] \o Append(queue[c], x)
        <5>1. j \in 1..Len(old) /\ old[j] = m
          BY <3>1, <4>3
        <5>2. Len(new) = Len(old) + 1 /\ Len(old) \in Nat /\ new[j] = old[j]
          BY <4>1, <5>1
        <5> HIDE DEF old, new
        <5>3. \E i \in 1..Len(new) : new[i] = m
          BY <5>1, <5>2
        <5> QED
          BY <3>2, <5>3 DEF Served, new
      <4> QED
        BY <4>2, <4>3 DEF Served
    <3>3. CASE Outbox(c)' = Outbox(c) /\ lost'[c] = lost[c] \cup {x}
      BY <3>3 DEF Served
    <3> QED
      BY <1>1, <2>1, <3>2, <3>3, TrySendOutbox
  <2>2. CASE c # d
    <3>1. Outbox(c)' = Outbox(c) /\ lost'[c] = lost[c]
      BY <1>1, <2>2, TrySendOutbox
    <3> QED
      BY <3>1 DEF Served
  <2> QED
    BY <2>1, <2>2
<1>2. CASE Outbox(c)' = Outbox(c) /\ lost' = lost
  BY <1>2 DEF Served
<1>3. ASSUME NEW d \in Conn, NEW k \in Kind, Forward(d, k)
      PROVE  Served(c, m)'
  <2> DEFINE x == [from |-> d, kind |-> k, n |-> nsent[d] + 1]
             target == slot[rm[d]][Other(RoleOf(d))]
  <2>1. got' = got /\ x \in Msg
    BY <1>3, BoundsAssumption DEF Forward, TypeOK, Msg, pumpVars
  <2>2. CASE target = Nil
    BY <1>2, <1>3, <2>1, <2>2 DEF Forward, Outbox
  <2>3. CASE target # Nil
    <3>1. target \in Conn
      BY <1>3, <2>3 DEF TypeOK, Forward, Other, Role
    <3>2. TrySend(target, x)
      BY <1>3, <2>3 DEF Forward
    <3> QED
      BY <1>1, <2>1, <3>1, <3>2
  <2> QED
    BY <2>2, <2>3
<1>4. ASSUME NEW d \in Conn, ReplayOffer(d)
      PROVE  Served(c, m)'
  <2>1. cached[d] \in Msg /\ TrySend(d, cached[d]) /\ got' = got
    BY <1>4 DEF ReplayOffer, TypeOK, pumpVars
  <2> QED
    BY <1>1, <2>1
<1>5. ASSUME NEW d \in Conn, PumpWriteError(d)
      PROVE  Served(c, m)'
  <2>1. d # c
    BY <1>5 DEF PumpWriteError, TypeOK
  <2>2. Outbox(c)' = Outbox(c) /\ lost' = lost
    BY <1>5, <2>1 DEF PumpWriteError, TypeOK, Outbox
  <2> QED
    BY <1>2, <2>2
<1> QED
  BY <1>2, <1>3, <1>4, <1>5, OutboxStep

\* A message that is sent without blocking is in the outbox or is lost.
LEMMA SentIsServed ==
    ASSUME TypeOK, NEW c \in Conn, NEW m \in Msg, TrySend(c, m), got' = got
    PROVE  Served(c, m)'
<1>1. got[c] \in Seq(Msg) /\ queue[c] \in Seq(Msg)
  BY DEF TypeOK
<1>2. CASE Outbox(c)' = got[c] \o Append(queue[c], m)
  <2> DEFINE old == got[c] \o queue[c]
             new == got[c] \o Append(queue[c], m)
  <2>1. Len(new) = Len(old) + 1 /\ Len(old) \in Nat /\ new[Len(old) + 1] = m
    BY <1>1, QueueAppends
  <2> HIDE DEF old, new
  <2>2. Len(old) + 1 \in 1..Len(new)
    BY <2>1
  <2>3. \E j \in 1..Len(new) : new[j] = m
    BY <2>1, <2>2
  <2> QED
    BY <1>2, <2>3 DEF Served, new
<1>3. CASE lost'[c] = lost[c] \cup {m}
  BY <1>3 DEF Served
<1> QED
  BY <1>2, <1>3, TrySendOutbox

\* Whatever comes between a client's set, peek and replay, the offer its room
\* keeps reaches it: the copy it made is replaced only by an offer that is
\* forwarded to it.
LEMMA ReplayCoversStep ==
    ASSUME SafetyInv, ReplayCoversOffer, [Next]_vars
    PROVE  ReplayCoversOffer'
<1>0. TypeOK /\ SlotOwned
  BY DEF SafetyInv
<1> SUFFICES ASSUME NEW c \in Client,
                    pc'[c] \in {"replaying", "reading"}, wp'[c] = "run",
                    slot'[rm'[c]]["client"] = c, offerCache'[rm'[c]] # Nil
             PROVE  \/ Served(c, offerCache[rm[c]])'
                    \/ pc'[c] = "replaying" /\ cached'[c] = offerCache'[rm'[c]]
  BY DEF ReplayCoversOffer
<1> USE DEF handlerVars, pumpVars, chanVars, roomVars
<1>a. c \in Conn /\ c \notin Device /\ RoleOf(c) = "client"
  BY RolesDisjoint DEF Conn, RoleOf
\* Nothing the client depends on changes.
<1>1. ASSUME pc'[c] = pc[c], wp[c] = "run", rm'[c] = rm[c], cached'[c] = cached[c],
             slot[rm[c]]["client"] = c, offerCache'[rm[c]] = offerCache[rm[c]]
      PROVE  \/ Served(c, offerCache[rm[c]])'
             \/ pc'[c] = "replaying" /\ cached'[c] = offerCache'[rm'[c]]
  <2>1. CASE Served(c, offerCache[rm[c]])
    <3>1. PICK m : m = offerCache[rm[c]]
      OBVIOUS
    <3>2. Served(c, m)'
      BY <1>0, <1>a, <2>1, <3>1, ServedLasts
    <3> QED
      BY <1>1, <3>1, <3>2 DEF Served
  <2>2. CASE pc[c] = "replaying" /\ cached[c] = offerCache[rm[c]]
    BY <1>1, <2>2
  <2> QED
    BY <1>1, <2>1, <2>2 DEF ReplayCoversOffer
\* The steps of the client's own handler.
<1>2. CASE PeekOffer(c)
  <2>1. offerCache' = offerCache /\ rm' = rm /\ cached'[c] = offerCache[rm[c]]
    BY <1>0, <1>2, <1>a DEF PeekOffer, TypeOK
  <2>2. pc'[c] = "replaying"
    BY <1>0, <1>2, <1>a, <2>1 DEF PeekOffer, TypeOK
  <2> QED
    BY <2>1, <2>2
<1>3. CASE ReplayOffer(c)
  <2>1. /\ pc[c] = "replaying" /\ cached[c] \in Msg /\ TrySend(c, cached[c])
        /\ got' = got /\ wp' = wp /\ rm' = rm /\ slot' = slot
        /\ offerCache' = offerCache
    BY <1>0, <1>3, <1>a DEF ReplayOffer, TypeOK
  <2>2. \/ Served(c, offerCache[rm[c]])
        \/ cached[c] = offerCache[rm[c]]
    BY <2>1 DEF ReplayCoversOffer
  <2>3. PICK m : m = offerCache[rm[c]]
    OBVIOUS
  <2>4. Served(c, m)'
    <3>1. CASE Served(c, m)
      BY <1>0, <1>a, <3>1, ServedLasts
    <3>2. CASE m = cached[c]
      BY <1>0, <1>a, <2>1, <3>2, SentIsServed
    <3> QED
      BY <2>2, <2>3, <3>1, <3>2
  <2> QED
    BY <2>1, <2>3, <2>4 DEF Served
\* A message is forwarded: to this client, if it is a new offer of its room.
<1>4. ASSUME NEW d \in Conn, NEW k \in Kind, Forward(d, k)
      PROVE  \/ Served(c, offerCache[rm[c]])'
             \/ pc'[c] = "replaying" /\ cached'[c] = offerCache'[rm'[c]]
  <2> DEFINE x == [from |-> d, kind |-> k, n |-> nsent[d] + 1]
             target == slot[rm[d]][Other(RoleOf(d))]
  <2>1. /\ pc' = pc /\ wp' = wp /\ rm' = rm /\ slot' = slot /\ cached' = cached
        /\ got' = got /\ pc[d] = "reading"
    BY <1>4 DEF Forward
  <2>2. rm[c] \in Conn /\ rm[d] \in Conn
    BY <1>0, <1>a, <2>1 DEF TypeOK
  <2>3. CASE d \in Device /\ k = "offer" /\ rm[d] = rm[c]
    <3>1. offerCache'[rm[c]] = x
      BY <1>0, <1>4, <2>2, <2>3 DEF Forward, TypeOK
    <3>2. target = c /\ c # Nil
      BY <1>a, <2>1, <2>3, NilIsNoConn DEF Other, RoleOf
    <3>3. TrySend(c, x)
      <4>1. IF target = Nil THEN UNCHANGED <<queue, lost>> ELSE TrySend(target, x)
        BY <1>4 DEF Forward
      <4> HIDE DEF target, x
      <4> QED
        BY <3>2, <4>1
    <3>4. x \in Msg
      <4>1. nsent[d] + 1 \in 1..MaxMsgs
        BY <1>0, <1>4, BoundsAssumption DEF Forward, TypeOK
      <4> QED
        BY <4>1 DEF Msg
    <3> HIDE DEF x
    <3>5. PICK m \in Msg : m = x
      BY <3>4
    <3>6. Served(c, m)'
      BY <1>0, <1>a, <2>1, <3>3, <3>5, SentIsServed
    <3> QED
      BY <2>1, <3>1, <3>5, <3>6 DEF Served
  <2>4. CASE ~(d \in Device /\ k = "offer" /\ rm[d] = rm[c])
    <3>1. offerCache'[rm[c]] = offerCache[rm[c]]
      BY <1>0, <1>4, <2>2, <2>4 DEF Forward, TypeOK
    <3> QED
      BY <1>1, <2>1, <3>1
  <2> QED
    BY <2>3, <2>4
\* A slot or an offer is cleared: the client's own obligation only ends.
<1>5. ASSUME NEW d \in Conn, Clear(d)
      PROVE  \/ Served(c, offerCache[rm[c]])'
             \/ pc'[c] = "replaying" /\ cached'[c] = offerCache'[rm'[c]]
  <2>1. /\ wp' = wp /\ rm' = rm /\ cached' = cached
        /\ pc' = [pc EXCEPT ![d] = "closing"]
        /\ rm[d] \in Conn /\ RoleOf(d) \in Role
        /\ slot' = [slot EXCEPT ![rm[d]][RoleOf(d)] = Nil]
    BY <1>0, <1>5 DEF Clear, TypeOK, RoleOf, Role
  <2>2. pc'[c] = pc[c] /\ d # c
    BY <1>0, <1>a, <2>1 DEF TypeOK
  <2>3. rm[c] \in Conn
    BY <1>0, <1>a, <2>2 DEF TypeOK
  <2>4. slot[rm[c]]["client"] = c
    BY <1>0, <1>a, <2>1, <2>3, NilIsNoConn DEF TypeOK, Role
  <2>5. offerCache'[rm[c]] = offerCache[rm[c]]
    BY <1>0, <1>5, <2>1, <2>3 DEF Clear, TypeOK
  <2> QED
    BY <1>1, <2>1, <2>2, <2>4, <2>5
\* Another connection takes a place in a room.
<1>6. ASSUME NEW d \in Conn, SetSlot(d)
      PROVE  \/ Served(c, offerCache[rm[c]])'
             \/ pc'[c] = "replaying" /\ cached'[c] = offerCache'[rm'[c]]
  <2>1. /\ rm' = rm /\ cached' = cached /\ offerCache' = offerCache
        /\ pc' = [pc EXCEPT ![d] = "joined"]
        /\ rm[d] \in Conn /\ RoleOf(d) \in Role
        /\ slot' = [slot EXCEPT ![rm[d]][RoleOf(d)] = d]
        /\ \A e \in Conn \ {d} : wp'[e] = wp[e]
    BY <1>0, <1>6 DEF SetSlot, TypeOK, RoleOf, Role
  <2>2. pc'[c] = pc[c] /\ d # c
    BY <1>0, <1>a, <2>1 DEF TypeOK
  <2>3. rm[c] \in Conn
    BY <1>0, <1>a, <2>2 DEF TypeOK
  <2>4. slot[rm[c]]["client"] = c
    BY <1>0, <1>a, <2>1, <2>2, <2>3 DEF TypeOK, Role
  <2> QED
    BY <1>1, <1>a, <2>1, <2>2, <2>4
<1>7. ASSUME NEW d \in Conn,
             \/ \E i \in RoomId : GetOrCreate(d, i)
             \/ d # c /\ (PeekOffer(d) \/ ReplayOffer(d))
             \/ NameDevice(d) \/ ReadError(d) \/ CloseSend(d) \/ TryDelete(d)
             \/ PumpStep(d) \/ PeerGone(d) \/ PeerStalls(d)
      PROVE  \/ Served(c, offerCache[rm[c]])'
             \/ pc'[c] = "replaying" /\ cached'[c] = offerCache'[rm'[c]]
  <2>1. slot' = slot /\ offerCache' = offerCache
    BY <1>7 DEF GetOrCreate, NameDevice, PeekOffer, ReplayOffer, ReadError,
       CloseSend, TryDelete, PumpStep, PumpWrite, PumpWriteError, PumpPingError,
       PumpClose, PeerGone, PeerStalls
  <2>2. pc'[c] = pc[c] /\ rm'[c] = rm[c] /\ cached'[c] = cached[c]
    BY <1>0, <1>7, <1>a DEF TypeOK, GetOrCreate, NameDevice, PeekOffer, ReplayOffer,
       ReadError, CloseSend, TryDelete, PumpStep, PumpWrite, PumpWriteError,
       PumpPingError, PumpClose, PeerGone, PeerStalls
  <2>3. wp[c] = "run"
    BY <1>0, <1>7, <1>a DEF TypeOK, GetOrCreate, NameDevice, PeekOffer, ReplayOffer,
       ReadError, CloseSend, TryDelete, PumpStep, PumpWrite, PumpWriteError,
       PumpPingError, PumpClose, PeerGone, PeerStalls
  <2> QED
    BY <1>1, <2>1, <2>2, <2>3
<1>8. CASE UNCHANGED vars
  BY <1>1, <1>8 DEF vars
<1>9. ASSUME NEW d \in Conn, HandlerStep(d)
      PROVE  \/ Served(c, offerCache[rm[c]])'
             \/ pc'[c] = "replaying" /\ cached'[c] = offerCache'[rm'[c]]
  <2>1. CASE d = c /\ (PeekOffer(d) \/ ReplayOffer(d))
    BY <1>2, <1>3, <2>1
  <2>2. CASE d # c /\ (PeekOffer(d) \/ ReplayOffer(d))
    BY <1>7, <2>2
  <2>3. CASE \/ NameDevice(d) \/ ReadError(d) \/ CloseSend(d) \/ TryDelete(d)
    BY <1>7, <2>3
  <2>4. CASE SetSlot(d) \/ Clear(d)
    BY <1>5, <1>6, <2>4
  <2> QED
    BY <1>9, <2>1, <2>2, <2>3, <2>4 DEF HandlerStep
<1> QED
  BY <1>4, <1>7, <1>8, <1>9 DEF Next

\* No client misses the offer of its room: in every order of set, offer, peek
\* and replay, and however often devices and clients replace one another, a
\* client that holds its slot has been sent, or has lost to a full buffer, the
\* offer the room keeps.
THEOREM OffersAreNotMissed == Spec => []NoMissedOffer
<1>1. Init => ReplayCoversOffer
  BY DEF Init, ReplayCoversOffer, Conn
<1>2. SafetyInv /\ ReplayCoversOffer /\ [Next]_vars => ReplayCoversOffer'
  BY ReplayCoversStep
<1>3. ReplayCoversOffer => NoMissedOffer
  BY DEF ReplayCoversOffer, NoMissedOffer, Served
<1> QED
  BY <1>1, <1>2, <1>3, Safety, PTL DEF Spec

=============================================================================
