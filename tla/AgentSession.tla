---------------------------- MODULE AgentSession ----------------------------
(***************************************************************************)
(* One agent process: the supervising loop of main.rs and the two tasks it *)
(* spawns every round, webrtc::run (wr) and signal_client::run (sg).       *)
(*                                                                         *)
(* The tasks talk through channels made anew every round: the offer (a     *)
(* oneshot), the answers and the remote candidates (bounded).  They share  *)
(* peer_connected with the media bridges.  A tokio task is only cancelled  *)
(* at an await: abort() on a task in the middle of a poll lets that poll   *)
(* finish, so poll tells whether webrtc::run is inside one.  The waits in  *)
(* its main loop are the one for the socket or the timer, the bounded one  *)
(* for a TURN permission, and hidWait: the send of a browser's frame into  *)
(* the HID queue, which lasts as long as the machine takes no reports.     *)
(*                                                                         *)
(* Durations are left out: every sleep is a step that may take any time,   *)
(* with one exception, named at Spawn.                                     *)
(***************************************************************************)
EXTENDS Naturals, Sequences

CONSTANTS
    AnswerCap,  \* capacity of the answer channel (4 in the code)
    CandCap     \* capacity of the remote candidate channel (64)

ASSUME CapsAssumption == AnswerCap \in Nat \ {0} /\ CandCap \in Nat \ {0}

VARIABLES
    mpc,            \* the supervising loop
    wr, poll,       \* webrtc::run: where it is, and whether it is being polled
    hidWait,        \* it waits, in its loop, for room in the HID queue
    wrAbort,        \* abort() was called on it
    sg, sgAbort,    \* signal_client::run
    ws,             \* its WebSocket, as the agent can experience it
    offer,          \* the oneshot: empty, or the offer is in it, or taken
    offerSent,      \* this round's offer has been written to a WebSocket
    answers,        \* the answer channel
    cands,          \* number of candidates in the remote candidate channel
    ice_connected,  \* local of webrtc::run
    peer,           \* the browser whose answer was accepted
    peer_connected  \* the flag shared with the media bridges

sigVars == <<sg, sgAbort, ws, offerSent>>
rtcVars == <<wr, poll, hidWait, wrAbort, ice_connected, peer>>
vars == <<mpc, wr, poll, hidWait, wrAbort, sg, sgAbort, ws, offer, offerSent,
          answers, cands, ice_connected, peer, peer_connected>>

\* An answer was made for this round's offer, or for an older one that a
\* browser still had: of the round before, or of the process before.
Answer == {"fresh", "stale"}

TypeOK ==
    /\ mpc \in {"sleep", "select", "store", "exit"}
    /\ wr \in {"setup", "waitAnswer", "loop", "done"}
    /\ poll \in BOOLEAN /\ hidWait \in BOOLEAN
    /\ wrAbort \in BOOLEAN /\ sgAbort \in BOOLEAN
    /\ sg \in {"waitOffer", "connecting", "sendOffer", "session", "sendAnswer",
               "sendCand", "retry", "done"}
    /\ ws \in {"none", "up", "closed", "broken"}
    /\ offer \in {"none", "ready", "taken"}
    /\ offerSent \in BOOLEAN
    /\ answers \in Seq(Answer) /\ Len(answers) <= AnswerCap
    /\ cands \in 0..CandCap
    /\ ice_connected \in BOOLEAN
    /\ peer \in {"none", "negotiating", "connected", "gone"}
    /\ peer_connected \in BOOLEAN

\* Before the first round: nothing runs, the loop is about to spawn.
Init ==
    /\ mpc = "sleep"
    /\ wr = "done" /\ poll = FALSE /\ hidWait = FALSE /\ wrAbort = FALSE
    /\ sg = "done" /\ sgAbort = FALSE /\ ws = "none"
    /\ offer = "none" /\ offerSent = FALSE
    /\ answers = <<>> /\ cands = 0
    /\ ice_connected = FALSE /\ peer = "none"
    /\ peer_connected = FALSE

-----------------------------------------------------------------------------
(* main.rs: the supervising loop *)

\* Mutant of Spawn: the answer channel outlives the round.
SpawnKeepsAnswers ==
    /\ mpc = "sleep" /\ wr = "done" /\ sg = "done"
    /\ mpc' = "select"
    /\ wr' = "setup" /\ poll' = FALSE /\ hidWait' = FALSE /\ wrAbort' = FALSE
    /\ sg' = "waitOffer" /\ sgAbort' = FALSE /\ ws' = "none"
    /\ offer' = "none" /\ offerSent' = FALSE
    /\ cands' = 0
    /\ ice_connected' = FALSE /\ peer' = "none"
    /\ UNCHANGED <<answers, peer_connected>>

\* A round begins: new channels, both tasks spawned.  The sleep before it
\* lasts at least 3 s: it is assumed to outlast the poll an aborted task was
\* in, which is why both tasks have stopped here.
Spawn ==
    /\ mpc = "sleep" /\ wr = "done" /\ sg = "done"
    /\ mpc' = "select"
    /\ wr' = "setup" /\ poll' = FALSE /\ hidWait' = FALSE /\ wrAbort' = FALSE
    /\ sg' = "waitOffer" /\ sgAbort' = FALSE /\ ws' = "none"
    /\ offer' = "none" /\ offerSent' = FALSE
    /\ answers' = <<>> /\ cands' = 0
    /\ ice_connected' = FALSE /\ peer' = "none"
    /\ UNCHANGED peer_connected

\* Mutant of WebrtcEnded: the signalling task is not aborted.
WebrtcEndedNoAbort ==
    /\ mpc = "select" /\ wr = "done"
    /\ mpc' = "store"
    /\ UNCHANGED <<rtcVars, sigVars, offer, answers, cands, peer_connected>>

\* select!: the webrtc task has finished; the signalling task is aborted.
WebrtcEnded ==
    /\ mpc = "select" /\ wr = "done"
    /\ mpc' = "store"
    /\ sgAbort' = TRUE
    /\ UNCHANGED <<rtcVars, sg, ws, offer, offerSent, answers, cands, peer_connected>>

\* Mutant of SignalEnded: the webrtc task is not aborted.
SignalEndedNoAbort ==
    /\ mpc = "select" /\ sg = "done"
    /\ mpc' = "store"
    /\ UNCHANGED <<sigVars, rtcVars, offer, answers, cands, peer_connected>>

\* select!: the signalling task has finished; the webrtc task is aborted,
\* also when a browser is connected to it.
SignalEnded ==
    /\ mpc = "select" /\ sg = "done"
    /\ mpc' = "store"
    /\ wrAbort' = TRUE
    /\ UNCHANGED <<sigVars, wr, poll, hidWait, ice_connected, peer, offer, answers, cands,
                   peer_connected>>

\* Either way the media bridges are told that nobody is connected.
StoreFalse ==
    /\ mpc = "store"
    /\ mpc' = "sleep"
    /\ peer_connected' = FALSE
    /\ UNCHANGED <<rtcVars, sigVars, offer, answers, cands>>

\* Ctrl-C: both tasks aborted, main returns and the process ends.
CtrlC ==
    /\ mpc = "select"
    /\ mpc' = "exit"
    /\ wrAbort' = TRUE /\ sgAbort' = TRUE
    /\ UNCHANGED <<wr, poll, hidWait, ice_connected, peer, sg, ws, offer,
                   offerSent, answers, cands, peer_connected>>

-----------------------------------------------------------------------------
(* webrtc.rs *)

\* STUN, TURN and the offer are done; the offer is put in the oneshot.  It
\* fails if a step before it fails or the signalling task is gone.
RtcSetup ==
    /\ wr = "setup" /\ ~wrAbort
    /\ \/ sg # "done" /\ wr' = "waitAnswer" /\ offer' = "ready"
       \/ wr' = "done" /\ UNCHANGED offer
    /\ UNCHANGED <<mpc, poll, hidWait, wrAbort, ice_connected, peer, sigVars,
                   answers, cands, peer_connected>>

\* The first answer is taken, whoever sent it; no other is ever read.
RtcAcceptAnswer ==
    /\ wr = "waitAnswer" /\ ~wrAbort /\ answers # <<>>
    /\ answers' = Tail(answers)
    /\ \/ /\ wr' = "loop" /\ poll' = TRUE
          /\ peer' = IF Head(answers) = "fresh" THEN "negotiating" ELSE "gone"
       \/ wr' = "done" /\ UNCHANGED <<poll, peer>>   \* it does not parse
    /\ UNCHANGED <<mpc, hidWait, wrAbort, ice_connected, sigVars, offer, cands,
                   peer_connected>>

\* recv() returns None: the signalling task dropped its sender.
RtcAnswerChannelClosed ==
    /\ wr = "waitAnswer" /\ ~wrAbort /\ answers = <<>> /\ sg = "done"
    /\ wr' = "done"
    /\ UNCHANGED <<mpc, poll, hidWait, wrAbort, ice_connected, peer, sigVars,
                   offer, answers, cands, peer_connected>>

\* A poll of the main loop starts, after the socket, the timer or the answer to
\* a permission request: the candidates are drained, all of them or up to the
\* next one whose permission has to be waited for.
RtcWake ==
    /\ wr = "loop" /\ ~poll /\ ~hidWait /\ ~wrAbort
    /\ poll' = TRUE
    /\ cands' \in {n \in 0..CandCap : n < cands \/ n = 0}
    /\ UNCHANGED <<mpc, wr, hidWait, wrAbort, ice_connected, peer, sigVars, offer,
                   answers, peer_connected>>

\* It ends: the task waits for the socket or the timer, or, for 2 s at the most,
\* for the answer to a permission request (turn_create_permission).
RtcPend ==
    /\ wr = "loop" /\ poll
    /\ poll' = FALSE
    /\ UNCHANGED <<mpc, wr, hidWait, wrAbort, ice_connected, peer, sigVars, offer,
                   answers, cands, peer_connected>>

\* Or it ends in the middle of the loop's body: handle_event has a frame of the
\* browser and the HID queue is full.  No event is handled until it has room.
RtcAwaitHid ==
    /\ wr = "loop" /\ poll /\ ice_connected
    /\ poll' = FALSE /\ hidWait' = TRUE
    /\ UNCHANGED <<mpc, wr, wrAbort, ice_connected, peer, sigVars, offer, answers,
                   cands, peer_connected>>

\* The queue has room again, or the hid thread has ended and the send fails:
\* the loop goes on where it was.
RtcHidSent ==
    /\ wr = "loop" /\ hidWait /\ ~wrAbort
    /\ hidWait' = FALSE /\ poll' = TRUE
    /\ UNCHANGED <<mpc, wr, wrAbort, ice_connected, peer, sigVars, offer, answers,
                   cands, peer_connected>>

\* Mutant of RtcConnected: the bridges are not told.
RtcConnectedSilent ==
    /\ wr = "loop" /\ poll /\ peer = "negotiating"
    /\ peer' = "connected"
    /\ ice_connected' = TRUE
    /\ UNCHANGED <<mpc, wr, poll, hidWait, wrAbort, sigVars, offer, answers,
                   cands, peer_connected>>

\* Event::Connected: ICE and DTLS are up.
RtcConnected ==
    /\ wr = "loop" /\ poll /\ peer = "negotiating"
    /\ peer' = "connected"
    /\ ice_connected' = TRUE
    /\ peer_connected' = TRUE
    /\ UNCHANGED <<mpc, wr, poll, hidWait, wrAbort, sigVars, offer, answers, cands>>

\* IceConnectionState::Disconnected ends the task, but only if Connected came
\* before; otherwise the event is ignored and the loop goes on.
RtcDisconnected ==
    /\ wr = "loop" /\ poll /\ peer = "gone" /\ ice_connected
    /\ peer_connected' = FALSE
    /\ wr' = "done" /\ poll' = FALSE
    /\ UNCHANGED <<mpc, hidWait, wrAbort, ice_connected, peer, sigVars, offer,
                   answers, cands>>

\* An error of str0m ends the task; main stores false later.
RtcError ==
    /\ wr = "loop" /\ poll
    /\ wr' = "done" /\ poll' = FALSE
    /\ UNCHANGED <<mpc, hidWait, wrAbort, ice_connected, peer, sigVars, offer,
                   answers, cands, peer_connected>>

\* The runtime drops an aborted task that is not being polled, whatever it
\* waits for.
RtcCancelled ==
    /\ wr # "done" /\ wrAbort /\ ~poll
    /\ wr' = "done" /\ hidWait' = FALSE
    /\ UNCHANGED <<mpc, poll, wrAbort, ice_connected, peer, sigVars, offer,
                   answers, cands, peer_connected>>

-----------------------------------------------------------------------------
(* signal_client.rs *)

Signalling == mpc # "exit" /\ ~sgAbort

\* The offer arrives; if webrtc ended without one, run returns an error.
SigTakeOffer ==
    /\ Signalling /\ sg = "waitOffer"
    /\ \/ offer = "ready" /\ offer' = "taken" /\ sg' = "connecting"
       \/ offer = "none" /\ wr = "done" /\ sg' = "done" /\ UNCHANGED offer
    /\ UNCHANGED <<mpc, rtcVars, sgAbort, ws, offerSent, answers, cands,
                   peer_connected>>

SigConnect ==
    /\ Signalling /\ sg = "connecting"
    /\ \/ sg' = "sendOffer" /\ ws' = "up"
       \/ sg' = "retry" /\ UNCHANGED ws
    /\ UNCHANGED <<mpc, rtcVars, sgAbort, offer, offerSent, answers, cands,
                   peer_connected>>

\* Every session starts by sending the round's offer, the first one and those
\* after a reconnection alike.
SigSendOffer ==
    /\ Signalling /\ sg = "sendOffer"
    /\ \/ ws = "up" /\ sg' = "session" /\ offerSent' = TRUE
       \/ ws # "up" /\ sg' = "retry" /\ UNCHANGED offerSent
    /\ UNCHANGED <<mpc, rtcVars, sgAbort, ws, offer, answers, cands, peer_connected>>

\* handle_incoming, an answer: sent to webrtc, waiting for room if need be.
\* The receiver is dropped when webrtc::run returns; the send then fails.
SigRecvAnswer(a) ==
    /\ Signalling /\ sg = "session" /\ ws = "up"
    /\ \/ wr = "done" /\ UNCHANGED <<sg, answers>>
       \/ /\ wr # "done" /\ Len(answers) < AnswerCap
          /\ answers' = Append(answers, a) /\ UNCHANGED sg
       \/ /\ wr # "done" /\ Len(answers) = AnswerCap
          /\ sg' = "sendAnswer" /\ UNCHANGED answers
    /\ UNCHANGED <<mpc, rtcVars, sgAbort, ws, offer, offerSent, cands, peer_connected>>

\* The blocked send goes through, or fails because webrtc ended.
SigAnswerSent(a) ==
    /\ Signalling /\ sg = "sendAnswer"
    /\ \/ wr = "done" /\ UNCHANGED answers
       \/ wr # "done" /\ Len(answers) < AnswerCap /\ answers' = Append(answers, a)
    /\ sg' = "session"
    /\ UNCHANGED <<mpc, rtcVars, sgAbort, ws, offer, offerSent, cands, peer_connected>>

\* Mutant of SigRecvCand: the channel has no bound.
SigRecvCandUnbounded ==
    /\ Signalling /\ sg = "session" /\ ws = "up"
    /\ cands' = cands + 1
    /\ UNCHANGED <<mpc, rtcVars, sigVars, offer, answers, peer_connected>>

\* handle_incoming, a candidate.
SigRecvCand ==
    /\ Signalling /\ sg = "session" /\ ws = "up"
    /\ \/ wr = "done" /\ UNCHANGED <<sg, cands>>
       \/ wr # "done" /\ cands < CandCap /\ cands' = cands + 1 /\ UNCHANGED sg
       \/ wr # "done" /\ cands = CandCap /\ sg' = "sendCand" /\ UNCHANGED cands
    /\ UNCHANGED <<mpc, rtcVars, sgAbort, ws, offer, offerSent, answers,
                   peer_connected>>

SigCandSent ==
    /\ Signalling /\ sg = "sendCand"
    /\ \/ wr = "done" /\ UNCHANGED cands
       \/ wr # "done" /\ cands < CandCap /\ cands' = cands + 1
    /\ sg' = "session"
    /\ UNCHANGED <<mpc, rtcVars, sgAbort, ws, offer, offerSent, answers,
                   peer_connected>>

\* A close frame or the end of the stream: session returns Ok and run too.
SigClosed ==
    /\ Signalling /\ sg = "session" /\ ws = "closed"
    /\ sg' = "done" /\ ws' = "none"
    /\ UNCHANGED <<mpc, rtcVars, sgAbort, offer, offerSent, answers, cands,
                   peer_connected>>

\* A read or write error: session returns Err and run reconnects.
SigBroken ==
    /\ Signalling /\ sg = "session" /\ ws = "broken"
    /\ sg' = "retry" /\ ws' = "none"
    /\ UNCHANGED <<mpc, rtcVars, sgAbort, offer, offerSent, answers, cands,
                   peer_connected>>

SigRetry ==
    /\ Signalling /\ sg = "retry"
    /\ sg' = "connecting" /\ ws' = "none"
    /\ UNCHANGED <<mpc, rtcVars, sgAbort, offer, offerSent, answers, cands,
                   peer_connected>>

SigCancelled ==
    /\ sg # "done" /\ sgAbort
    /\ sg' = "done" /\ ws' = "none"
    /\ UNCHANGED <<mpc, rtcVars, sgAbort, offer, offerSent, answers, cands,
                   peer_connected>>

-----------------------------------------------------------------------------
(* The server and the browser *)

WsFails ==
    /\ mpc # "exit" /\ ws = "up"
    /\ ws' \in {"closed", "broken"}
    /\ UNCHANGED <<mpc, rtcVars, sg, sgAbort, offer, offerSent, answers, cands,
                   peer_connected>>

BrowserGone ==
    /\ mpc # "exit" /\ peer \in {"negotiating", "connected"}
    /\ peer' = "gone"
    /\ UNCHANGED <<mpc, wr, poll, hidWait, wrAbort, ice_connected, sigVars, offer, answers,
                   cands, peer_connected>>

-----------------------------------------------------------------------------

Supervise == WebrtcEnded \/ SignalEnded \/ StoreFalse \/ Spawn

\* What each task does by itself.
RtcStep ==
    /\ mpc # "exit"
    /\ \/ RtcSetup \/ RtcAcceptAnswer \/ RtcAnswerChannelClosed \/ RtcWake
       \/ RtcPend \/ RtcCancelled

SigStep ==
    \/ SigTakeOffer \/ SigConnect \/ SigSendOffer \/ SigCandSent \/ SigClosed
    \/ SigBroken \/ SigRetry \/ (mpc # "exit" /\ SigCancelled)
    \/ \E a \in Answer : SigAnswerSent(a)

Next ==
    \/ Supervise \/ CtrlC
    \/ RtcStep
    \/ /\ mpc # "exit"
       /\ \/ RtcConnected \/ RtcDisconnected \/ RtcError
          \/ RtcAwaitHid \/ RtcHidSent
    \/ SigStep
    \/ \E a \in Answer : (a = "fresh" => offerSent) /\ SigRecvAnswer(a)
    \/ SigRecvCand
    \/ WsFails
    \/ BrowserGone

Spec == Init /\ [][Next]_vars

(***************************************************************************)
(* tokio polls every task that is ready, so each task that can step does.  *)
(* A peer that went silent is noticed by ICE's consent checks, in one of   *)
(* the polls that follow one another: strong fairness, since the event can *)
(* only be delivered inside a poll.  Nothing is assumed of the browser,    *)
(* the server or the user, nor of the machine behind the HID queue: a wait *)
(* for room there may last for ever.                                       *)
(***************************************************************************)
FairSpec ==
    /\ Spec
    /\ WF_vars(Supervise) /\ WF_vars(RtcStep) /\ WF_vars(SigStep)
    /\ SF_vars(mpc # "exit" /\ RtcDisconnected)

-----------------------------------------------------------------------------
(* Properties *)

\* While a browser is connected and the round goes on, the media bridges are
\* open: no late store(false) of an earlier round closes them.
GateOpen == mpc = "select" /\ wr = "loop" /\ ice_connected => peer_connected

\* The answer a round accepts, and those it has queued, came over a WebSocket
\* that had been sent this round's offer: nothing is left of the round before.
AnswersAreOfTheRound == answers # <<>> \/ wr = "loop" => offerSent

\* A browser that was connected and goes away is eventually followed by a new
\* round, whatever the signalling connection does meanwhile, unless the HID
\* queue takes nothing any more: a machine that sleeps for ever holds the loop.
NextRoundAfterBrowser ==
    []<>(~hidWait) =>
    (wr = "loop" /\ ice_connected /\ peer = "gone") ~> (wr = "setup" \/ mpc = "exit")

\* The end of either task is eventually followed by a new round.
NextRoundAfterTask ==
    (mpc = "select" /\ (wr = "done" \/ sg = "done")) ~> (wr = "setup" \/ mpc = "exit")

-----------------------------------------------------------------------------
(* What the comments promise and the program does not keep *)

\* "After the browser disconnects, wait for the next connection": a browser
\* that is gone does not keep the agent.  One that leaves after its answer and
\* before ICE and DTLS are up is never noticed, and no other answer is read;
\* the HID queue, which could also hold the loop, is taken to have room again.
BrowserGoneIsNoticed ==
    []<>(~hidWait) =>
    (wr = "loop" /\ peer = "gone") ~> (wr # "loop" \/ mpc = "exit")

\* The bridges consume only while a browser is connected: a round that is
\* still setting up has the flag down.  A poll that was under way when the
\* task was aborted can raise it after main lowered it, which refutes this.
NoPhantomPeer == wr = "setup" => ~peer_connected

=============================================================================
