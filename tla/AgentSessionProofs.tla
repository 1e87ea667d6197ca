------------------------- MODULE AgentSessionProofs -------------------------
(***************************************************************************)
(* Theorems about AgentSession, for every capacity of the two channels and *)
(* any number of rounds.                                                   *)
(***************************************************************************)
EXTENDS AgentSession, TLAPS

\* An action of the process, one disjunct for each.
LEMMA StepCases ==
    ASSUME Next
    PROVE  \/ Spawn \/ WebrtcEnded \/ SignalEnded \/ StoreFalse \/ CtrlC
           \/ RtcSetup \/ RtcAcceptAnswer \/ RtcAnswerChannelClosed \/ RtcWake
           \/ RtcPend \/ RtcCancelled \/ RtcConnected \/ RtcDisconnected
           \/ RtcError \/ RtcAwaitHid \/ RtcHidSent
           \/ SigTakeOffer \/ SigConnect \/ SigSendOffer \/ SigCandSent
           \/ SigClosed \/ SigBroken \/ SigRetry \/ SigCancelled \/ SigRecvCand
           \/ (\E a \in Answer : SigAnswerSent(a) \/ SigRecvAnswer(a))
           \/ WsFails \/ BrowserGone
  BY Zenon DEF Next, Supervise, RtcStep, SigStep

\* The two channels only change at their ends, within their capacities.
LEMMA ChannelStep ==
    ASSUME TypeOK, [Next]_vars
    PROVE  /\ answers' \in Seq(Answer) /\ Len(answers') <= AnswerCap
           /\ cands' \in 0..CandCap
<1> USE CapsAssumption DEF TypeOK, sigVars, rtcVars
<1>1. CASE UNCHANGED vars
  BY <1>1 DEF vars
<1>2. CASE Spawn
  BY <1>2 DEF Spawn
<1>3. CASE RtcAcceptAnswer
  <2>1. answers # <<>> /\ answers' = Tail(answers) /\ cands' = cands
    BY <1>3 DEF RtcAcceptAnswer
  <2>2. Tail(answers) \in Seq(Answer) /\ Len(Tail(answers)) = Len(answers) - 1
    BY <2>1
  <2> QED
    BY <2>1, <2>2
<1>4. CASE \E a \in Answer : SigAnswerSent(a) \/ SigRecvAnswer(a)
  <2> PICK a \in Answer : SigAnswerSent(a) \/ SigRecvAnswer(a)
    BY <1>4
  <2>1. CASE answers' = answers
    BY <2>1 DEF SigAnswerSent, SigRecvAnswer
  <2>2. CASE Len(answers) < AnswerCap /\ answers' = Append(answers, a)
    <3>1. Len(answers') = Len(answers) + 1 /\ answers' \in Seq(Answer)
      BY <2>2
    <3> QED
      BY <3>1, <2>2 DEF SigAnswerSent, SigRecvAnswer
  <2> QED
    BY <2>1, <2>2 DEF SigAnswerSent, SigRecvAnswer
<1>5. CASE RtcWake
  BY <1>5 DEF RtcWake
<1>6. CASE SigRecvCand \/ SigCandSent
  BY <1>6 DEF SigRecvCand, SigCandSent
<1>7. ASSUME \/ WebrtcEnded \/ SignalEnded \/ StoreFalse \/ CtrlC \/ RtcSetup
             \/ RtcAnswerChannelClosed \/ RtcPend \/ RtcCancelled
             \/ RtcConnected \/ RtcDisconnected \/ RtcError
             \/ RtcAwaitHid \/ RtcHidSent
             \/ SigTakeOffer \/ SigConnect \/ SigSendOffer \/ SigClosed
             \/ SigBroken \/ SigRetry \/ SigCancelled
             \/ WsFails \/ BrowserGone
      PROVE  UNCHANGED <<answers, cands>>
  BY <1>7 DEF WebrtcEnded, SignalEnded, StoreFalse, CtrlC, RtcSetup,
     RtcAnswerChannelClosed, RtcPend, RtcCancelled, RtcConnected,
     RtcDisconnected, RtcError, RtcAwaitHid, RtcHidSent, SigTakeOffer, SigConnect, SigSendOffer,
     SigClosed, SigBroken, SigRetry, SigCancelled, WsFails, BrowserGone
<1> QED
  BY <1>1, <1>2, <1>3, <1>4, <1>5, <1>6, <1>7, StepCases

\* The flags are Boolean; the program counters and what they wait for stay in
\* their sets.
FlagsOK ==
    /\ poll \in BOOLEAN /\ hidWait \in BOOLEAN
    /\ wrAbort \in BOOLEAN /\ sgAbort \in BOOLEAN
    /\ offerSent \in BOOLEAN
    /\ ice_connected \in BOOLEAN /\ peer_connected \in BOOLEAN

PlacesOK ==
    /\ mpc \in {"sleep", "select", "store", "exit"}
    /\ wr \in {"setup", "waitAnswer", "loop", "done"}
    /\ sg \in {"waitOffer", "connecting", "sendOffer", "session", "sendAnswer",
               "sendCand", "retry", "done"}
    /\ ws \in {"none", "up", "closed", "broken"}
    /\ offer \in {"none", "ready", "taken"}
    /\ peer \in {"none", "negotiating", "connected", "gone"}

\* Every step keeps the flags in their types.
LEMMA FlagsStep ==
    ASSUME FlagsOK, [Next]_vars
    PROVE  FlagsOK'
<1> USE DEF FlagsOK, sigVars, rtcVars
<1>1. CASE UNCHANGED vars
  BY <1>1 DEF vars
<1>2. CASE Spawn
  BY <1>2, Zenon DEF Spawn
<1>3. CASE WebrtcEnded
  BY <1>3, Zenon DEF WebrtcEnded
<1>4. CASE SignalEnded
  BY <1>4, Zenon DEF SignalEnded
<1>5. CASE StoreFalse
  BY <1>5, Zenon DEF StoreFalse
<1>6. CASE CtrlC
  BY <1>6, Zenon DEF CtrlC
<1>7. CASE RtcSetup
  BY <1>7, Zenon DEF RtcSetup
<1>8. CASE RtcAcceptAnswer
  BY <1>8, Zenon DEF RtcAcceptAnswer
<1>9. CASE RtcAnswerChannelClosed
  BY <1>9, Zenon DEF RtcAnswerChannelClosed
<1>10. CASE RtcWake
  BY <1>10, Zenon DEF RtcWake
<1>11. CASE RtcPend
  BY <1>11, Zenon DEF RtcPend
<1>12. CASE RtcCancelled
  BY <1>12, Zenon DEF RtcCancelled
<1>13. CASE RtcConnected
  BY <1>13, Zenon DEF RtcConnected
<1>14. CASE RtcDisconnected
  BY <1>14, Zenon DEF RtcDisconnected
<1>15. CASE RtcError
  BY <1>15, Zenon DEF RtcError
<1>16. CASE SigTakeOffer
  BY <1>16, Zenon DEF SigTakeOffer
<1>17. CASE SigConnect
  BY <1>17, Zenon DEF SigConnect
<1>18. CASE SigSendOffer
  BY <1>18, Zenon DEF SigSendOffer
<1>19. CASE SigCandSent
  BY <1>19, Zenon DEF SigCandSent
<1>20. CASE SigClosed
  BY <1>20, Zenon DEF SigClosed
<1>21. CASE SigBroken
  BY <1>21, Zenon DEF SigBroken
<1>22. CASE SigRetry
  BY <1>22, Zenon DEF SigRetry
<1>23. CASE SigCancelled
  BY <1>23, Zenon DEF SigCancelled
<1>24. CASE SigRecvCand
  BY <1>24, Zenon DEF SigRecvCand
<1>25. CASE WsFails
  BY <1>25, Zenon DEF WsFails
<1>26. CASE BrowserGone
  BY <1>26, Zenon DEF BrowserGone
<1>27. CASE \E a \in Answer : SigAnswerSent(a) \/ SigRecvAnswer(a)
  BY <1>27, Zenon DEF SigAnswerSent, SigRecvAnswer
<1>28. CASE RtcAwaitHid
  BY <1>28, Zenon DEF RtcAwaitHid
<1>29. CASE RtcHidSent
  BY <1>29, Zenon DEF RtcHidSent
<1> QED
  BY <1>1, <1>2, <1>3, <1>4, <1>5, <1>6, <1>7, <1>8, <1>9, <1>10, <1>11,
     <1>12, <1>13, <1>14, <1>15, <1>16, <1>17, <1>18, <1>19, <1>20, <1>21,
     <1>22, <1>23, <1>24, <1>25, <1>26, <1>27, <1>28, <1>29, StepCases

\* Every step keeps the program counters, the socket, the offer and the peer in
\* their types.
LEMMA PlacesStep ==
    ASSUME PlacesOK, [Next]_vars
    PROVE  PlacesOK'
<1> USE DEF PlacesOK, sigVars, rtcVars
<1>1. CASE UNCHANGED vars
  BY <1>1 DEF vars
<1>2. CASE Spawn
  BY <1>2 DEF Spawn
<1>3. CASE WebrtcEnded
  BY <1>3 DEF WebrtcEnded
<1>4. CASE SignalEnded
  BY <1>4 DEF SignalEnded
<1>5. CASE StoreFalse
  BY <1>5 DEF StoreFalse
<1>6. CASE CtrlC
  BY <1>6 DEF CtrlC
<1>7. CASE RtcSetup
  BY <1>7 DEF RtcSetup
<1>8. CASE RtcAcceptAnswer
  BY <1>8 DEF RtcAcceptAnswer
<1>9. CASE RtcAnswerChannelClosed
  BY <1>9 DEF RtcAnswerChannelClosed
<1>10. CASE RtcWake
  BY <1>10 DEF RtcWake
<1>11. CASE RtcPend
  BY <1>11 DEF RtcPend
<1>12. CASE RtcCancelled
  BY <1>12 DEF RtcCancelled
<1>13. CASE RtcConnected
  BY <1>13 DEF RtcConnected
<1>14. CASE RtcDisconnected
  BY <1>14 DEF RtcDisconnected
<1>15. CASE RtcError
  BY <1>15 DEF RtcError
<1>16. CASE SigTakeOffer
  BY <1>16 DEF SigTakeOffer
<1>17. CASE SigConnect
  BY <1>17 DEF SigConnect
<1>18. CASE SigSendOffer
  BY <1>18 DEF SigSendOffer
<1>19. CASE SigCandSent
  BY <1>19 DEF SigCandSent
<1>20. CASE SigClosed
  BY <1>20 DEF SigClosed
<1>21. CASE SigBroken
  BY <1>21 DEF SigBroken
<1>22. CASE SigRetry
  BY <1>22 DEF SigRetry
<1>23. CASE SigCancelled
  BY <1>23 DEF SigCancelled
<1>24. CASE SigRecvCand
  BY <1>24 DEF SigRecvCand
<1>25. CASE WsFails
  BY <1>25 DEF WsFails
<1>26. CASE BrowserGone
  BY <1>26 DEF BrowserGone
<1>27. CASE \E a \in Answer : SigAnswerSent(a) \/ SigRecvAnswer(a)
  BY <1>27 DEF SigAnswerSent, SigRecvAnswer
<1>28. CASE RtcAwaitHid
  BY <1>28 DEF RtcAwaitHid
<1>29. CASE RtcHidSent
  BY <1>29 DEF RtcHidSent
<1> QED
  BY <1>1, <1>2, <1>3, <1>4, <1>5, <1>6, <1>7, <1>8, <1>9, <1>10, <1>11,
     <1>12, <1>13, <1>14, <1>15, <1>16, <1>17, <1>18, <1>19, <1>20, <1>21,
     <1>22, <1>23, <1>24, <1>25, <1>26, <1>27, <1>28, <1>29, StepCases

\* Type correctness, for every capacity of the channels.
THEOREM TypeCorrect == Spec => []TypeOK
<1>1. Init => TypeOK
  <2> SUFFICES ASSUME Init PROVE TypeOK
    OBVIOUS
  <2>1. FlagsOK
    BY Zenon DEF Init, FlagsOK
  <2>2. PlacesOK
    BY DEF Init, PlacesOK
  <2>3. /\ answers \in Seq(Answer) /\ Len(answers) <= AnswerCap
        /\ cands \in 0..CandCap
    BY CapsAssumption DEF Init
  <2> QED
    BY <2>1, <2>2, <2>3 DEF TypeOK, FlagsOK, PlacesOK
<1>2. TypeOK /\ [Next]_vars => TypeOK'
  <2> SUFFICES ASSUME TypeOK, [Next]_vars PROVE TypeOK'
    OBVIOUS
  <2>1. FlagsOK' /\ PlacesOK'
    BY FlagsStep, PlacesStep DEF TypeOK, FlagsOK, PlacesOK
  <2>2. /\ answers' \in Seq(Answer) /\ Len(answers') <= AnswerCap
        /\ cands' \in 0..CandCap
    BY ChannelStep
  <2> QED
    BY <2>1, <2>2 DEF TypeOK, FlagsOK, PlacesOK
<1> QED
  BY <1>1, <1>2, PTL DEF Spec

\* What the rounds keep: before its main loop a session is not connected, and
\* the signalling task is past SigSendOffer only if the offer was sent.
RoundInv ==
    /\ GateOpen
    /\ AnswersAreOfTheRound
    /\ wr \in {"setup", "waitAnswer"} => ~ice_connected
    /\ sg \in {"session", "sendAnswer", "sendCand"} => offerSent

\* No step of either task, of the loop or of the network breaks RoundInv.
LEMMA RoundStep ==
    ASSUME TypeOK, RoundInv, [Next]_vars
    PROVE  RoundInv'
<1> USE DEF RoundInv, GateOpen, AnswersAreOfTheRound, TypeOK, sigVars, rtcVars
<1>1. CASE UNCHANGED vars
  BY <1>1 DEF vars
<1>2. CASE Spawn
  BY <1>2 DEF Spawn
<1>3. CASE WebrtcEnded
  BY <1>3 DEF WebrtcEnded
<1>4. CASE SignalEnded
  BY <1>4 DEF SignalEnded
<1>5. CASE StoreFalse
  BY <1>5 DEF StoreFalse
<1>6. CASE CtrlC
  BY <1>6 DEF CtrlC
<1>7. CASE RtcSetup
  BY <1>7 DEF RtcSetup
<1>8. CASE RtcAcceptAnswer
  BY <1>8 DEF RtcAcceptAnswer
<1>9. CASE RtcAnswerChannelClosed
  BY <1>9 DEF RtcAnswerChannelClosed
<1>10. CASE RtcWake
  BY <1>10 DEF RtcWake
<1>11. CASE RtcPend
  BY <1>11 DEF RtcPend
<1>12. CASE RtcCancelled
  BY <1>12 DEF RtcCancelled
<1>13. CASE RtcConnected
  BY <1>13 DEF RtcConnected
<1>14. CASE RtcDisconnected
  BY <1>14 DEF RtcDisconnected
<1>15. CASE RtcError
  BY <1>15 DEF RtcError
<1>16. CASE SigTakeOffer
  BY <1>16 DEF SigTakeOffer
<1>17. CASE SigConnect
  BY <1>17 DEF SigConnect
<1>18. CASE SigSendOffer
  BY <1>18 DEF SigSendOffer
<1>19. CASE SigCandSent
  BY <1>19 DEF SigCandSent
<1>20. CASE SigClosed
  BY <1>20 DEF SigClosed
<1>21. CASE SigBroken
  BY <1>21 DEF SigBroken
<1>22. CASE SigRetry
  BY <1>22 DEF SigRetry
<1>23. CASE SigCancelled
  BY <1>23 DEF SigCancelled
<1>24. CASE SigRecvCand
  BY <1>24 DEF SigRecvCand
<1>25. CASE WsFails
  BY <1>25 DEF WsFails
<1>26. CASE BrowserGone
  BY <1>26 DEF BrowserGone
<1>27. CASE \E a \in Answer : SigAnswerSent(a) \/ SigRecvAnswer(a)
  BY <1>27 DEF SigAnswerSent, SigRecvAnswer
<1>28. CASE RtcAwaitHid
  BY <1>28 DEF RtcAwaitHid
<1>29. CASE RtcHidSent
  BY <1>29 DEF RtcHidSent
<1> QED
  BY <1>1, <1>2, <1>3, <1>4, <1>5, <1>6, <1>7, <1>8, <1>9, <1>10, <1>11,
     <1>12, <1>13, <1>14, <1>15, <1>16, <1>17, <1>18, <1>19, <1>20, <1>21,
     <1>22, <1>23, <1>24, <1>25, <1>26, <1>27, <1>28, <1>29, StepCases

\* What the rounds keep holds in every state the agent reaches.
THEOREM RoundsHold == Spec => []RoundInv
<1>1. Init => RoundInv
  BY DEF Init, RoundInv, GateOpen, AnswersAreOfTheRound
<1> QED
  BY <1>1, RoundStep, TypeCorrect, PTL DEF Spec

\* While a browser is connected the media gate is open: no store(false) that
\* belongs to another round, or to the end of this one, comes late.
THEOREM GateStaysOpen == Spec => []GateOpen
<1>1. RoundInv => GateOpen
  BY DEF RoundInv
<1> QED
  BY <1>1, RoundsHold, PTL

\* A round accepts no answer before its own offer was sent.
THEOREM RoundsAreApart == Spec => []AnswersAreOfTheRound
<1>1. RoundInv => AnswersAreOfTheRound
  BY DEF RoundInv
<1> QED
  BY <1>1, RoundsHold, PTL

=============================================================================
