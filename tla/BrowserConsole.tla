---------------------------- MODULE BrowserConsole ----------------------------
(***************************************************************************)
(* The connection side of the page (app.js): WebSocket, offers and peer    *)
(* connections.  JavaScript runs one task at a time, but the handler of an *)
(* offer awaits three promises, and at each it gives way to other offers,  *)
(* to Disconnect and to the next connection; all of them share the global  *)
(* variables ws, pc and dc.                                                *)
(*                                                                         *)
(* The handler of the n-th offer is called handler n; it makes peer        *)
(* connection n.  Of RTCPeerConnection, which is external, the model has   *)
(* the signalling state, the chain that runs one operation at a time, and  *)
(* the rule that an operation of a closed connection never ends.  The      *)
(* agent is reduced to rounds, each with one offer, and to the connection  *)
(* it took an answer from.  Candidates and the status line are left out.   *)
(***************************************************************************)
EXTENDS Naturals, Sequences

CONSTANTS
    MaxPc,      \* bound: offers that reach the page
    MaxWs,      \* bound: sockets the page opens
    MaxRound    \* bound: rounds of the agent

ASSUME ConsoleAssumption ==
    MaxPc \in Nat \ {0} /\ MaxWs \in Nat \ {0} /\ MaxRound \in Nat \ {0}

VARIABLES
    ws, wsState,    \* the global ws, 0 if null, and its readyState
    nws,            \* sockets opened so far
    pc,             \* the global pc, 0 if null
    npc,            \* peer connections made so far
    dc,             \* the connection the global dc belongs to, 0 if null
    sig,            \* per connection: its signalling state
    offer,          \* per connection: the round its offer is from
    over,           \* per connection: the socket its offer came over
    chain,          \* per connection: its operations, the head is running
    made,           \* per connection: answers it has created
    handler,        \* per offer: what its handler awaits, or its end
    answers,        \* history: the answers sent
    taken,          \* how many of them the agent has read
    round,          \* the agent's round
    accepted,       \* the connection whose answer it accepted, or 0
    linked          \* Event::Connected came for it

sockVars  == <<ws, wsState, nws>>
peerVars  == <<sig, offer, over, chain, made>>
pageVars  == <<sockVars, pc, npc, dc, peerVars, handler, answers>>
agentVars == <<taken, round, accepted, linked>>
vars == <<ws, wsState, nws, pc, npc, dc, sig, offer, over, chain, made, handler,
          answers, taken, round, accepted, linked>>

Pc == 1..MaxPc
Answer == [pc : Pc, n : 1..(MaxPc * MaxPc)]
Op == [by : Pc, op : {"setRemote", "createAnswer"}]
      \cup [by : Pc, op : {"setLocal"}, answer : Answer]

TypeOK ==
    /\ ws \in 0..MaxWs /\ nws \in 0..MaxWs
    /\ wsState \in {"none", "connecting", "open", "closed"}
    /\ pc \in 0..npc /\ npc \in 0..MaxPc /\ dc \in 0..npc
    /\ sig \in [Pc -> {"stable", "have-remote-offer", "answered", "closed"}]
    /\ offer \in [Pc -> 0..MaxRound] /\ over \in [Pc -> 0..MaxWs]
    /\ \A p \in Pc : chain[p] \in Seq(Op) /\ Len(chain[p]) <= npc
    /\ made \in [Pc -> 0..MaxPc]
    /\ handler \in [Pc -> {"none", "waits", "sent", "failed"}]
    /\ \A i \in 1..Len(answers) :
          answers[i] \in [pc : Pc, by : Pc, via : 1..MaxWs]
    /\ taken \in 0..Len(answers) /\ round \in 1..MaxRound
    /\ accepted \in 0..npc /\ linked \in BOOLEAN

Init ==
    /\ ws = 0 /\ wsState = "none" /\ nws = 0
    /\ pc = 0 /\ npc = 0 /\ dc = 0
    /\ sig = [p \in Pc |-> "stable"]
    /\ offer = [p \in Pc |-> 0] /\ over = [p \in Pc |-> 0]
    /\ chain = [p \in Pc |-> <<>>] /\ made = [p \in Pc |-> 0]
    /\ handler = [p \in Pc |-> "none"]
    /\ answers = <<>>
    /\ taken = 0 /\ round = 1 /\ accepted = 0 /\ linked = FALSE

-----------------------------------------------------------------------------
(* Connecting and disconnecting *)

\* Mutant of CloseAll: reset forgets the connection without closing it.
CloseAllForgets ==
    /\ dc' = 0 /\ pc' = 0
    /\ sig' = sig

\* reset, as far as dc and pc go: of the peer connections only the global one
\* is closed.
CloseAll ==
    /\ dc' = 0 /\ pc' = 0
    /\ sig' = IF pc = 0 THEN sig ELSE [sig EXCEPT ![pc] = "closed"]

\* connectToAgent: reset, then connectSignal.
ConnectToAgent ==
    /\ nws < MaxWs
    /\ CloseAll
    /\ nws' = nws + 1 /\ ws' = nws' /\ wsState' = "connecting"
    /\ UNCHANGED <<npc, offer, over, chain, made, handler, answers, agentVars>>

WsOpen ==
    /\ wsState = "connecting" /\ wsState' = "open"
    /\ UNCHANGED <<ws, nws, pc, npc, dc, peerVars, handler, answers, agentVars>>

\* ws.onclose: the socket fails or the server closes it; nothing else changes.
WsClose ==
    /\ wsState \in {"connecting", "open"} /\ wsState' = "closed"
    /\ UNCHANGED <<ws, nws, pc, npc, dc, peerVars, handler, answers, agentVars>>

\* disconnect, which is reset.
Disconnect ==
    /\ ws # 0
    /\ CloseAll
    /\ ws' = 0 /\ wsState' = "none"
    /\ UNCHANGED <<nws, npc, offer, over, chain, made, handler, answers, agentVars>>

-----------------------------------------------------------------------------
(* The handler of an offer *)

\* An operation of handler h on the global pc; there is none after a reset,
\* and the handler ends in its catch branch.
Await(h, op, chains) ==
    IF pc = 0
    THEN handler' = [handler EXCEPT ![h] = "failed"] /\ chain' = chains
    ELSE handler' = handler /\ chain' = [chains EXCEPT ![pc] = Append(@, op)]

\* ws.onmessage with an offer.  The server forwards an offer, replays it, or
\* does both, and the agent sends it again when it has lost its socket: the
\* offer of the round may come at any time and more than once.  The handler
\* replaces pc, whatever it was, and sets the remote description.
OnOffer ==
    /\ wsState = "open" /\ npc < MaxPc
    /\ npc' = npc + 1 /\ pc' = npc'
    /\ offer' = [offer EXCEPT ![npc'] = round]
    /\ over' = [over EXCEPT ![npc'] = ws]
    /\ chain' = [chain EXCEPT ![npc'] = <<[by |-> npc', op |-> "setRemote"]>>]
    /\ handler' = [handler EXCEPT ![npc'] = "waits"]
    /\ UNCHANGED <<sockVars, dc, sig, made, answers, agentVars>>

\* The operation at the head of p's chain, if p is not closed.
Running(p, op) == chain[p] # <<>> /\ sig[p] # "closed" /\ Head(chain[p]).op = op
Rest(p) == [chain EXCEPT ![p] = Tail(@)]

\* Mutant of Fail: the handler asks for another answer instead of giving up.
FailRetries(h, p) ==
    /\ handler' = handler
    /\ chain' = [Rest(p) EXCEPT ![p] = Append(@, [by |-> h, op |-> "createAnswer"])]

\* The catch branch.
Fail(h, p) == handler' = [handler EXCEPT ![h] = "failed"] /\ chain' = Rest(p)

\* setRemoteDescription ends; its handler calls createAnswer on the pc there
\* is by now.
RemoteSet(p) ==
    /\ Running(p, "setRemote")
    /\ sig' = [sig EXCEPT ![p] = "have-remote-offer"]
    /\ LET h == Head(chain[p]).by IN
          Await(h, [by |-> h, op |-> "createAnswer"], Rest(p))
    /\ UNCHANGED <<sockVars, pc, npc, dc, offer, over, made, answers, agentVars>>

\* createAnswer ends; it fails if the offer has been answered already.  The
\* handler gives the answer to the pc there is by now.
AnswerCreated(p) ==
    /\ Running(p, "createAnswer")
    /\ LET h == Head(chain[p]).by IN
          IF sig[p] = "have-remote-offer"
          THEN /\ made' = [made EXCEPT ![p] = @ + 1]
               /\ Await(h, [by |-> h, op |-> "setLocal",
                            answer |-> [pc |-> p, n |-> made[p] + 1]], Rest(p))
          ELSE Fail(h, p) /\ UNCHANGED made
    /\ UNCHANGED <<sockVars, pc, npc, dc, sig, offer, over, answers, agentVars>>

\* wsSend drops the answer unless the socket there is by now is open.
SendAnswer(p, h) ==
    answers' = IF wsState = "open"
               THEN Append(answers, [pc |-> p, by |-> h, via |-> ws])
               ELSE answers

\* Mutant of Applicable: a description is taken in any state.
ApplicableAlways(p, a) == TRUE

\* Mutant of Applicable: only an answer of this very handler is taken.
ApplicableFirstOnly(p, a) == sig[p] = "have-remote-offer" /\ a = [pc |-> p, n |-> 1]

\* May setLocalDescription take the answer?  It has to be one of this
\* connection whose offer is not yet answered.  An answer that is not the last
\* one created is taken if its text is the same, which the model leaves open.
Applicable(p, a) == sig[p] = "have-remote-offer" /\ a.pc = p

\* setLocalDescription ends, and with it the handler.
LocalSet(p) ==
    /\ Running(p, "setLocal")
    /\ LET h == Head(chain[p]).by
           a == Head(chain[p]).answer
       IN  \/ /\ Applicable(p, a)
              /\ sig' = [sig EXCEPT ![p] = "answered"]
              /\ handler' = [handler EXCEPT ![h] = "sent"]
              /\ chain' = Rest(p)
              /\ SendAnswer(p, h)
           \/ /\ ~Applicable(p, a) \/ a.n # made[p]
              /\ Fail(h, p) /\ UNCHANGED <<sig, answers>>
    /\ UNCHANGED <<sockVars, pc, npc, dc, offer, over, made, agentVars>>

-----------------------------------------------------------------------------
(* The agent, as AgentSession has it *)

\* It takes the next answer, if it is in no session and the answer is one to
\* its offer.
AgentAccepts ==
    /\ accepted = 0 /\ taken < Len(answers)
    /\ taken' = taken + 1
    /\ accepted' = IF offer[answers[taken'].pc] = round THEN answers[taken'].pc ELSE 0
    /\ UNCHANGED <<pageVars, round, linked>>

\* ICE and DTLS come up, the channel opens, and ondatachannel stores it,
\* whichever connection it is for.
Connected ==
    /\ accepted # 0 /\ ~linked /\ sig[accepted] = "answered"
    /\ linked' = TRUE /\ dc' = accepted
    /\ UNCHANGED <<sockVars, pc, npc, peerVars, handler, answers,
                   taken, round, accepted>>

NextRound ==
    /\ round < MaxRound /\ round' = round + 1
    /\ accepted' = 0 /\ linked' = FALSE
    /\ UNCHANGED <<pageVars, taken>>

\* ICE notices that the connection was closed.  Its fairness takes the agent's
\* loop to be running: AgentSession has the wait for the HID queue, in which
\* nothing is noticed.
PeerClosed == linked /\ sig[accepted] = "closed" /\ NextRound

\* The round ends for a reason of its own.
RoundEnds == NextRound

-----------------------------------------------------------------------------
(* The specification *)

PcStep(p) == RemoteSet(p) \/ AnswerCreated(p) \/ LocalSet(p)

Next ==
    \/ ConnectToAgent \/ WsOpen \/ WsClose \/ Disconnect
    \/ OnOffer
    \/ \E p \in Pc : PcStep(p)
    \/ AgentAccepts \/ Connected \/ PeerClosed \/ RoundEnds

Spec == Init /\ [][Next]_vars

\* A peer connection ends what it was asked to do, and the agent's ICE notices
\* a closed peer unless its loop is held up.
Fairness == \A p \in Pc : WF_vars(PcStep(p))

FairSpec == Spec /\ Fairness /\ WF_vars(PeerClosed)

-----------------------------------------------------------------------------
(* Properties *)

\* An answer that was sent is the local description of the connection it is
\* from, and of no connection was more than one answer sent, though handlers
\* of several offers work on the global pc at once (app.js:649-655).
AnswersAreApplied ==
    \A i \in 1..Len(answers) :
        /\ sig[answers[i].pc] \in {"answered", "closed"}
        /\ \A j \in 1..Len(answers) : answers[i].pc = answers[j].pc => i = j

\* An answer goes over the socket its offer came over: a handler that a
\* reset overtakes does not send over the next socket.  The exception is a
\* connection that another offer replaced, because reset does not close it.
AnswersKeepToTheirSocket ==
    \A i \in 1..Len(answers) :
        LET p == answers[i].pc IN
            answers[i].via = over[p] \/ \E q \in Pc : q > p /\ over[q] = over[p]

\* However the handlers meet, the connection that is in use in the end gets
\* its answer sent: they do not make one another fail (app.js:646-660).
LastOfferAnswered ==
    \A p \in Pc :
        (pc = p /\ wsState = "open")
            ~> (pc # p \/ wsState # "open"
                \/ \E i \in 1..Len(answers) : answers[i].pc = p)

\* An offer that came later over the same socket took p's place.
Replaced(p) == \E q \in (p + 1)..npc : over[q] = over[p]

\* main.rs:84: after the browser has disconnected, the agent waits for the
\* next one, whatever tasks of the page were under way.  It does so because
\* reset closes the connection, which ICE notices.  The connection an offer
\* replaced is the exception: nothing closes it, and the agent can stay with
\* it for as long as the tab lives.  The agent's loop is taken to be running.
DisconnectFreesAgent ==
    (linked /\ pc # accepted /\ ~Replaced(accepted) /\ round < MaxRound)
        ~> ~linked

=============================================================================
