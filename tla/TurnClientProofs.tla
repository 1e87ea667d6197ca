-------------------------- MODULE TurnClientProofs --------------------------
(***************************************************************************)
(* Theorems about TurnClient, for any peers, lifetimes and refresh period. *)
(***************************************************************************)
EXTENDS TurnClient, TLAPS

\* An action of the client, the server, the network or the clock, one
\* disjunct for each.
LEMMA StepCases ==
    ASSUME Next
    PROVE  \/ StunBinding \/ BindingEnds \/ Allocate1Answered
           \/ Allocate2Answered \/ AllocateTimeout \/ BrowserAnswers
           \/ (\E p \in Peer : RemoteCandidate(p))
           \/ PermissionDrops \/ PermissionEnds \/ TurnRefresh \/ LoopIgnores
           \/ Connected \/ Disconnected \/ HidWaits \/ HidTakes \/ RoundAborted
           \/ Lose \/ ServeBinding \/ ServeUnauthorized \/ ServeAllocate
           \/ ServeRefresh \/ (\E p \in Peer : ServePermission(p))
           \/ Minute
  BY Zenon DEF Next, Loop, Serve

-----------------------------------------------------------------------------
(* Types *)

FlagsOK == turn \in BOOLEAN /\ ice_connected \in BOOLEAN /\ stale \in BOOLEAN

PlacesOK ==
    /\ phase \in Waits \cup {"start", "answer", "loop", "held"}
    /\ turn => phase \in {"answer", "permission", "loop", "held"}
    /\ turn_perms \subseteq remote /\ remote \subseteq Peer
    /\ pending \in Peer \cup {None} /\ (pending # None <=> phase = "permission")
    /\ toServer \subseteq Request /\ toAgent \subseteq Response

TimesOK ==
    /\ refreshIn \in 0..RefreshEvery
    /\ lease \in 0..Lifetime /\ permission \in [Peer -> 0..PermLifetime]
    /\ idle \in 0..MaxIdle /\ missed \in 0..MaxMissed

\* How the actions may change the flags.
LEMMA FlagsStep ==
    ASSUME FlagsOK, [Next]_vars
    PROVE  FlagsOK'
<1> USE DEF FlagsOK, clientVars, serverVars, NewSocket
<1>1. CASE UNCHANGED vars
  BY <1>1 DEF vars
<1>2. CASE StunBinding
  BY <1>2, Zenon DEF StunBinding
<1>3. CASE BindingEnds
  BY <1>3, Zenon DEF BindingEnds, Allocate1
<1>4. CASE Allocate1Answered
  BY <1>4, Zenon DEF Allocate1Answered, OfferWaits
<1>5. CASE Allocate2Answered
  BY <1>5, Zenon DEF Allocate2Answered, OfferWaits, Granted
<1>6. CASE AllocateTimeout
  BY <1>6, Zenon DEF AllocateTimeout, OfferWaits
<1>7. CASE BrowserAnswers
  BY <1>7, Zenon DEF BrowserAnswers
<1>8. CASE \E p \in Peer : RemoteCandidate(p)
  BY <1>8, Zenon DEF RemoteCandidate
<1>9. CASE PermissionDrops \/ LoopIgnores
  BY <1>9, Zenon DEF PermissionDrops, LoopIgnores
<1>10. CASE PermissionEnds
  BY <1>10, Zenon DEF PermissionEnds
<1>11. CASE TurnRefresh
  BY <1>11, Zenon DEF TurnRefresh
<1>12. CASE Connected
  BY <1>12, Zenon DEF Connected
<1>13. CASE Disconnected \/ RoundAborted
  BY <1>13, Zenon DEF Disconnected, RoundAborted
<1>14. CASE Lose \/ ServeBinding \/ ServeUnauthorized
  BY <1>14, Zenon DEF Lose, ServeBinding, ServeUnauthorized
<1>15. CASE ServeAllocate
  BY <1>15, Zenon DEF ServeAllocate
<1>16. CASE ServeRefresh
  BY <1>16, Zenon DEF ServeRefresh
<1>17. CASE \E p \in Peer : ServePermission(p)
  BY <1>17, Zenon DEF ServePermission
<1>18. CASE Minute
  BY <1>18 DEF Minute
<1>19. CASE HidWaits \/ HidTakes
  BY <1>19 DEF HidWaits, HidTakes
<1> QED
  BY <1>1, <1>2, <1>3, <1>4, <1>5, <1>6, <1>7, <1>8, <1>9, <1>10, <1>11,
     <1>12, <1>13, <1>14, <1>15, <1>16, <1>17, <1>18, <1>19, StepCases

\* Where the client is, whom it deals with and what is under way.
LEMMA PlacesStep ==
    ASSUME PlacesOK, [Next]_vars
    PROVE  PlacesOK'
<1> USE TurnAssumption
    DEF PlacesOK, clientVars, serverVars, NewSocket, Waits, Request, Plain,
        Response, Send, Answer, Take
<1>1. CASE UNCHANGED vars
  BY <1>1 DEF vars
<1>2. CASE StunBinding
  BY <1>2 DEF StunBinding
<1>3. CASE BindingEnds
  BY <1>3 DEF BindingEnds, Allocate1
<1>4. CASE Allocate1Answered
  BY <1>4 DEF Allocate1Answered, OfferWaits
<1>5. CASE Allocate2Answered
  BY <1>5 DEF Allocate2Answered, OfferWaits, Granted
<1>6. CASE AllocateTimeout
  BY <1>6 DEF AllocateTimeout, OfferWaits
<1>7. CASE BrowserAnswers
  BY <1>7 DEF BrowserAnswers
<1>8. CASE \E p \in Peer : RemoteCandidate(p)
  BY <1>8 DEF RemoteCandidate
<1>9. CASE PermissionDrops \/ LoopIgnores
  BY <1>9 DEF PermissionDrops, LoopIgnores
<1>10. CASE PermissionEnds
  BY <1>10 DEF PermissionEnds
<1>11. CASE TurnRefresh
  BY <1>11 DEF TurnRefresh
<1>12. CASE Connected
  BY <1>12 DEF Connected
<1>13. CASE Disconnected \/ RoundAborted
  BY <1>13 DEF Disconnected, RoundAborted
<1>14. CASE Lose \/ ServeBinding \/ ServeUnauthorized
  <2>1. CASE Lose
    BY <2>1 DEF Lose
  <2>2. CASE ServeBinding
    BY <2>2 DEF ServeBinding
  <2>3. CASE ServeUnauthorized
    BY <2>3 DEF ServeUnauthorized
  <2> QED
    BY <1>14, <2>1, <2>2, <2>3
<1>15. CASE ServeAllocate
  BY <1>15 DEF ServeAllocate
<1>16. CASE ServeRefresh
  BY <1>16 DEF ServeRefresh
<1>17. CASE \E p \in Peer : ServePermission(p)
  <2> PICK p \in Peer : ServePermission(p)
    BY <1>17
  <2>1. UNCHANGED <<phase, turn, turn_perms, remote, pending>>
    BY DEF ServePermission
  <2>2. Answer(p, "permissionOk") \/ Answer(p, "permissionError")
    BY DEF ServePermission
  <2>3. toServer' \subseteq Request /\ toAgent' \subseteq Response
    BY <2>2
  <2> QED
    BY <2>1, <2>3
<1>18. CASE Minute
  BY <1>18 DEF Minute
<1>19. CASE HidWaits \/ HidTakes
  BY <1>19 DEF HidWaits, HidTakes
<1> QED
  BY <1>1, <1>2, <1>3, <1>4, <1>5, <1>6, <1>7, <1>8, <1>9, <1>10, <1>11,
     <1>12, <1>13, <1>14, <1>15, <1>16, <1>17, <1>18, <1>19, StepCases

\* The clocks stay within their ranges.
LEMMA TimesStep ==
    ASSUME TimesOK, [Next]_vars
    PROVE  TimesOK'
<1> USE TurnAssumption DEF TimesOK, clientVars, serverVars, history, NewSocket
<1>1. CASE UNCHANGED vars
  BY <1>1 DEF vars
<1>2. CASE StunBinding \/ BindingEnds \/ Allocate1Answered
           \/ Allocate2Answered \/ AllocateTimeout
  BY <1>2 DEF StunBinding, BindingEnds, Allocate1, Allocate1Answered,
     Allocate2Answered, AllocateTimeout, OfferWaits
<1>3. CASE BrowserAnswers
  BY <1>3 DEF BrowserAnswers
<1>4. CASE (\E p \in Peer : RemoteCandidate(p)) \/ PermissionDrops
           \/ PermissionEnds \/ LoopIgnores \/ Connected \/ HidWaits \/ HidTakes
  BY <1>4 DEF RemoteCandidate, PermissionDrops, PermissionEnds, LoopIgnores,
     Connected, HidWaits, HidTakes
<1>5. CASE TurnRefresh
  BY <1>5 DEF TurnRefresh
<1>6. CASE Disconnected \/ RoundAborted
  BY <1>6 DEF Disconnected, RoundAborted
<1>7. CASE Lose \/ ServeBinding \/ ServeUnauthorized
  BY <1>7 DEF Lose, ServeBinding, ServeUnauthorized
<1>8. CASE ServeAllocate
  BY <1>8 DEF ServeAllocate
<1>9. CASE ServeRefresh
  BY <1>9 DEF ServeRefresh
<1>10. CASE \E p \in Peer : ServePermission(p)
  BY <1>10 DEF ServePermission
<1>11. CASE Minute
  <2>1. refreshIn' \in 0..RefreshEvery /\ lease' \in 0..Lifetime
    BY <1>11 DEF Minute, Down
  <2>2. permission' \in [Peer -> 0..PermLifetime]
    BY <1>11 DEF Minute, Down
  <2>3. idle' \in 0..MaxIdle /\ missed' \in 0..MaxMissed
    BY <1>11 DEF Minute, NoRefresh
  <2> QED
    BY <2>1, <2>2, <2>3
<1> QED
  BY <1>1, <1>2, <1>3, <1>4, <1>5, <1>6, <1>7, <1>8, <1>9, <1>10, <1>11,
     StepCases

\* Type correctness, for any peers and periods.
THEOREM TypeCorrect == Spec => []TypeOK
<1>1. TypeOK <=> FlagsOK /\ PlacesOK /\ TimesOK
  BY DEF TypeOK, FlagsOK, PlacesOK, TimesOK
<1>2. Init => TypeOK
  <2> SUFFICES ASSUME Init PROVE FlagsOK /\ PlacesOK /\ TimesOK
    BY <1>1
  <2>1. FlagsOK
    BY Zenon DEF Init, FlagsOK
  <2>2. PlacesOK
    BY TurnAssumption DEF Init, PlacesOK, Waits
  <2>3. TimesOK
    BY TurnAssumption DEF Init, TimesOK
  <2> QED
    BY <2>1, <2>2, <2>3
<1>3. TypeOK /\ [Next]_vars => TypeOK'
  <2>1. TypeOK' <=> FlagsOK' /\ PlacesOK' /\ TimesOK'
    BY DEF TypeOK, FlagsOK, PlacesOK, TimesOK
  <2> QED
    BY <1>1, <2>1, FlagsStep, PlacesStep, TimesStep
<1> QED
  BY <1>2, <1>3, PTL DEF Spec

-----------------------------------------------------------------------------
(* How old the allocation is *)

Before == {"start", "binding", "allocate1", "allocate2"}
InLoop == {"loop", "permission", "held"}

\* No time passes before the offer.  From then on what is left of the lease
\* and the time since the last success, counted by the wait, what a held-up
\* loop is late, the refreshes that failed and the running period, together
\* cover its lifetime.
AgeInv ==
    /\ phase \notin InLoop => missed = 0
    /\ phase \in Before => idle = 0
    /\ phase \in Before /\ "allocateOk" \in toAgent => lease = Lifetime
    /\ turn /\ phase = "answer" => lease + idle >= Lifetime
    /\ turn /\ phase \in InLoop =>
          lease + idle + RefreshEvery * missed + RefreshEvery >= Lifetime + refreshIn

\* A product with a counter, for the steps that count.
LEMMA Products ==
    /\ RefreshEvery * 0 = 0
    /\ \A n \in Nat : RefreshEvery * n \in Nat
    /\ \A n \in Nat : RefreshEvery * (n + 1) = RefreshEvery * n + RefreshEvery
  BY TurnAssumption

\* A minute takes no more from the lease than it adds to the wait, or takes
\* from the time to the next refresh.
LEMMA Balance ==
    ASSUME NEW l \in Nat, NEW l1 \in Nat, NEW i \in Nat, NEW r \in Nat,
           NEW k \in Nat, NEW total \in Nat, l1 + 1 >= l
    PROVE  /\ l + i >= total => l1 + (i + 1) >= total
           /\ l + i + k >= total + (r + 1) => l1 + i + k >= total + r
           /\ l + i + k >= total => l1 + (i + 1) + k >= total
  OBVIOUS

\* Every step keeps the balance between the lease, the time idle and the
\* refreshes missed.
LEMMA AgeStep ==
    ASSUME TypeOK, AgeInv, [Next]_vars
    PROVE  AgeInv'
<1> USE TurnAssumption
    DEF AgeInv, Before, InLoop, clientVars, serverVars, history, Waits
<1>0. /\ lease \in 0..Lifetime /\ idle \in Nat /\ missed \in Nat
      /\ refreshIn \in 0..RefreshEvery
      /\ phase \in Waits \cup {"start", "answer", "loop", "held"}
      /\ turn => phase \in {"answer", "permission", "loop", "held"}
  BY DEF TypeOK
<1>1. CASE UNCHANGED vars
  BY <1>1 DEF vars
<1>2. CASE StunBinding \/ BindingEnds
  BY <1>2, <1>0 DEF StunBinding, BindingEnds, Allocate1, Take
<1>3. CASE Allocate1Answered
  BY <1>3, <1>0 DEF Allocate1Answered, OfferWaits, Take
<1>4. CASE Allocate2Answered
  <2>1. turn' => "allocateOk" \in toAgent
    BY <1>4, Zenon DEF Allocate2Answered, OfferWaits, Take, Granted
  <2>2. /\ phase = "allocate2" /\ phase' = "answer"
        /\ UNCHANGED <<lease, idle, missed>>
    BY <1>4 DEF Allocate2Answered, OfferWaits
  <2> QED
    BY <2>1, <2>2, <1>0
<1>5. CASE AllocateTimeout
  BY <1>5, <1>0 DEF AllocateTimeout, OfferWaits
<1>6. CASE BrowserAnswers
  <2>1. RefreshEvery * missed' = 0 /\ refreshIn' = RefreshEvery
    BY <1>6, Products DEF BrowserAnswers
  <2> QED
    BY <2>1, <1>6, <1>0 DEF BrowserAnswers
<1>7. CASE TurnRefresh
  <2>1. RefreshEvery * missed' = RefreshEvery * missed + RefreshEvery
    BY <1>7, <1>0, Products DEF TurnRefresh
  <2>2. RefreshEvery * missed \in Nat
    BY <1>0, Products
  <2> QED
    BY <2>1, <2>2, <1>7, <1>0 DEF TurnRefresh
<1>8. CASE (\E p \in Peer : RemoteCandidate(p)) \/ PermissionDrops
           \/ PermissionEnds \/ LoopIgnores \/ Connected \/ HidWaits \/ HidTakes
  <2>1. /\ phase \in InLoop /\ phase' \in InLoop
        /\ UNCHANGED <<turn, refreshIn, lease, idle, missed>>
    BY <1>8 DEF RemoteCandidate, PermissionDrops, PermissionEnds, LoopIgnores,
       Connected, HidWaits, HidTakes
  <2> QED
    BY <2>1
<1>9. CASE Disconnected \/ RoundAborted
  BY <1>9 DEF Disconnected, RoundAborted, NewSocket
<1>10. CASE Lose
  BY <1>10 DEF Lose
<1>11. CASE ServeBinding \/ ServeUnauthorized \/ \E p \in Peer : ServePermission(p)
  <2>1. /\ "allocateOk" \in toAgent' => "allocateOk" \in toAgent
        /\ UNCHANGED <<phase, turn, refreshIn, lease, idle, missed>>
    BY <1>11 DEF ServeBinding, ServeUnauthorized, ServePermission, Answer
  <2> QED
    BY <2>1
<1>12. CASE ServeAllocate
  <2>1. RefreshEvery * missed \in Nat
    BY <1>0, Products
  <2>2. /\ UNCHANGED <<phase, turn, refreshIn, idle, missed>>
        /\ \/ lease' = Lifetime
           \/ lease' = lease /\ toAgent' = toAgent \cup {"staleNonce"}
    BY <1>12 DEF ServeAllocate, Answer
  <2> QED
    BY <2>1, <2>2, <1>0
<1>13. CASE ServeRefresh
  <2>1. RefreshEvery * 0 = 0
    BY Products
  <2>2. /\ UNCHANGED <<phase, turn, refreshIn>>
        /\ "allocateOk" \in toAgent' => "allocateOk" \in toAgent
        /\ \/ lease' = Lifetime /\ idle' = 0 /\ missed' = 0
           \/ lease' = lease /\ idle' = idle /\ missed' = missed
    BY <1>13 DEF ServeRefresh, Answer
  <2> QED
    BY <2>1, <2>2, <1>0
<1>14. CASE Minute
  <2>1. RefreshEvery * missed \in Nat
    BY <1>0, Products
  <2>2. /\ UNCHANGED <<phase, turn, missed>>
        /\ phase \in {"answer", "loop", "held"}
        /\ phase = "loop" /\ turn => refreshIn > 0
    BY <1>14 DEF Minute
  <2>3. lease' \in Nat /\ lease' + 1 >= lease
    BY <1>14, <1>0 DEF Minute, Down
  <2>4. /\ refreshIn > 0 => refreshIn' \in Nat /\ refreshIn = refreshIn' + 1
        /\ refreshIn = 0 => refreshIn' = 0
    BY <1>14, <1>0 DEF Minute, Down
  <2>5. idle' = IF NoRefresh THEN idle + 1 ELSE idle
    BY <1>14 DEF Minute
  <2>6. CASE phase = "answer"
    <3>1. turn => lease + idle >= Lifetime
      BY <2>6
    <3>2. turn => idle' = idle + 1
      BY <2>5, <2>6 DEF NoRefresh
    <3> HIDE DEF AgeInv
    <3>3. turn => lease' + idle' >= Lifetime
      <4> SUFFICES ASSUME turn
                   PROVE  lease' + idle' >= Lifetime
        OBVIOUS
      <4>1. lease + idle >= Lifetime /\ idle' = idle + 1
        BY <3>1, <3>2
      <4>2. lease \in Nat /\ idle \in Nat /\ Lifetime \in Nat
        BY <1>0
      <4> QED
        BY <4>1, <4>2, <2>3, Balance
    <3> QED
      BY <3>3, <2>2, <2>6 DEF AgeInv
  <2>7. CASE phase \in {"loop", "held"}
    <3> DEFINE k == RefreshEvery * missed + RefreshEvery
    <3>1. k \in Nat /\ lease \in Nat /\ idle \in Nat /\ Lifetime \in Nat
      BY <2>1, <1>0
    <3>2. turn => lease + idle + k >= Lifetime + refreshIn
      BY <2>1, <2>7, <1>0
    <3>3. CASE turn /\ refreshIn > 0
      <4>1. idle' = idle
        BY <2>5, <2>7, <3>3 DEF NoRefresh
      <4>2. lease + idle + k >= Lifetime + (refreshIn' + 1) /\ refreshIn' \in Nat
        BY <3>2, <3>3, <2>4
      <4> HIDE DEF k, AgeInv
      <4>3. lease' + idle + k >= Lifetime + refreshIn'
        BY <4>2, <3>1, <2>3, Balance
      <4>4. lease' + idle' + RefreshEvery * missed' + RefreshEvery
              >= Lifetime + refreshIn'
        BY <4>1, <4>3, <2>1, <2>2, <2>3, <3>1 DEF k
      <4> QED
        BY <4>4, <2>2, <2>7 DEF AgeInv
    <3>4. CASE turn /\ ~(refreshIn > 0)
      <4>1. refreshIn = 0 /\ refreshIn' = 0 /\ idle' = idle + 1
        BY <3>4, <1>0, <2>2, <2>4, <2>5, <2>7 DEF NoRefresh
      <4>2. lease + idle + k >= Lifetime
        BY <3>2, <3>4, <4>1, <3>1
      <4> HIDE DEF k, AgeInv
      <4>3. lease' + (idle + 1) + k >= Lifetime
        BY <4>2, <3>1, <2>3, Balance
      <4>4. lease' + idle' + RefreshEvery * missed' + RefreshEvery
              >= Lifetime + refreshIn'
        BY <4>1, <4>3, <2>1, <2>2, <2>3, <3>1 DEF k
      <4> QED
        BY <4>4, <2>2, <2>7 DEF AgeInv
    <3>5. CASE ~turn
      BY <3>5, <2>2, <2>7
    <3> QED
      BY <3>3, <3>4, <3>5, <1>0
  <2> QED
    BY <2>2, <2>6, <2>7
<1> QED
  BY <1>1, <1>2, <1>3, <1>4, <1>5, <1>6, <1>7, <1>8, <1>9, <1>10, <1>11,
     <1>12, <1>13, <1>14, StepCases

\* The age of the allocation, over every round.
THEOREM AgeHolds == Spec => []AgeInv
<1>1. Init => AgeInv
  BY DEF Init, AgeInv, Before, InLoop
<1> QED
  BY <1>1, AgeStep, TypeCorrect, PTL DEF Spec

\* No late, lost or repeated answer makes the agent offer a relay that it was
\* not granted.
THEOREM OfferedRelayIsReal == Spec => []RelayIsReal
<1>1. TypeOK /\ AgeInv => RelayIsReal
  BY TurnAssumption DEF TypeOK, AgeInv, RelayIsReal
<1> QED
  BY <1>1, AgeHolds, TypeCorrect, PTL

\* Whatever the lifetime and the period of the refreshes: an allocation is
\* there as long as the wait and the failed refreshes leave it time.
THEOREM LossIsOutlived == Spec => []AllocationOutlivesLoss
<1>1. TypeOK /\ AgeInv => AllocationOutlivesLoss
  <2> SUFFICES ASSUME TypeOK, AgeInv, turn, phase \in InLoop,
                      idle + RefreshEvery * (missed + 1) < Lifetime
               PROVE  lease > 0
    BY DEF AllocationOutlivesLoss, InLoop
  <2>1. /\ lease \in Nat /\ idle \in Nat /\ missed \in Nat
        /\ refreshIn \in 0..RefreshEvery
    BY TurnAssumption DEF TypeOK
  <2>2. RefreshEvery * (missed + 1) = RefreshEvery * missed + RefreshEvery
    BY <2>1, Products
  <2>3. RefreshEvery * missed \in Nat
    BY <2>1, Products
  <2>4. lease + idle + RefreshEvery * missed + RefreshEvery >= Lifetime + refreshIn
    BY DEF AgeInv
  <2> QED
    BY <2>1, <2>2, <2>3, <2>4, TurnAssumption
<1> QED
  BY <1>1, AgeHolds, TypeCorrect, PTL

=============================================================================
