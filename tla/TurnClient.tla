------------------------------ MODULE TurnClient ------------------------------
(***************************************************************************)
(* The agent's STUN and TURN client (webrtc.rs) over one round of          *)
(* webrtc::run: the binding request, the two steps of Allocate, the wait   *)
(* for a browser, permissions and refreshes.  All of them read one UDP     *)
(* socket and none looks at a transaction identifier, so an answer that    *)
(* comes late is taken for the next one.  Datagrams are lost, repeated and *)
(* reordered.                                                              *)
(*                                                                         *)
(* The TURN server, which answers the binding request as well, and the     *)
(* network are external.  Time is counted in minutes: what the client      *)
(* waits for in seconds happens between two ticks.  Of ICE the model has   *)
(* that a session over the relay is up while the server relays for a peer, *)
(* and that its end is noticed.  The browser is taken to be reachable over *)
(* the relay only, the case TURN is for.                                   *)
(***************************************************************************)
EXTENDS Naturals, FiniteSets

CONSTANTS
    Peer,           \* addresses of the browser's candidates
    Refused,        \* those the server denies (denied-peer-ip)
    Lifetime,       \* minutes an allocation lives
    PermLifetime,   \* minutes a permission lives
    RefreshEvery,   \* minutes between two refreshes
    Faults,         \* BOOLEAN: are datagrams lost or repeated, do nonces expire
    MaxIdle,        \* bound: minutes without a refresh under way
    MaxMissed       \* bound: refreshes without success in a row
CONSTANT None

ASSUME TurnAssumption ==
    /\ Refused \subseteq Peer
    /\ Lifetime \in Nat \ {0} /\ PermLifetime \in Nat \ {0}
    /\ RefreshEvery \in Nat \ {0}
    /\ Faults \in BOOLEAN /\ MaxIdle \in Nat /\ MaxMissed \in Nat
    /\ None \notin Peer

VARIABLES
    phase,          \* where webrtc::run is
    turn,           \* turn_state and relay_addr are set
    turn_perms,     \* peers for which a permission was asked for
    remote,         \* remote candidates given to str0m
    pending,        \* the peer whose permission is being asked for
    refreshIn,      \* minutes until turn_refresh_at
    ice_connected,
    toServer,       \* datagrams on their way to the server
    toAgent,        \* its answers on their way, or in the socket
    lease,          \* server: minutes left of the allocation, 0 without one
    permission,     \* server: minutes left of each permission
    stale,          \* server: the nonce it gave is no longer good
    idle,           \* history: minutes without a running refresh timer
    missed          \* history: refreshes sent since one succeeded

clientVars == <<phase, turn, turn_perms, remote, pending, refreshIn, ice_connected>>
serverVars == <<lease, permission, stale>>
history == <<idle, missed>>
vars == <<phase, turn, turn_perms, remote, pending, refreshIn, ice_connected,
          toServer, toAgent, lease, permission, stale, idle, missed>>

Waits == {"binding", "allocate1", "allocate2", "permission"}
\* A request for a permission is named by its peer.
Plain == {"binding", "allocate", "allocateAuth", "refresh"}
Request == Plain \cup Peer
Response == {"bindingOk", "unauthorized", "allocateOk", "permissionOk",
             "permissionError", "refreshOk", "staleNonce"}

TypeOK ==
    /\ phase \in Waits \cup {"start", "answer", "loop", "held"}
    /\ turn \in BOOLEAN
    /\ turn => phase \in {"answer", "permission", "loop", "held"}
    /\ turn_perms \subseteq remote /\ remote \subseteq Peer
    /\ pending \in Peer \cup {None} /\ (pending # None <=> phase = "permission")
    /\ refreshIn \in 0..RefreshEvery
    /\ ice_connected \in BOOLEAN
    /\ toServer \subseteq Request /\ toAgent \subseteq Response
    /\ lease \in 0..Lifetime /\ permission \in [Peer -> 0..PermLifetime]
    /\ stale \in BOOLEAN
    /\ idle \in 0..MaxIdle /\ missed \in 0..MaxMissed

NewSocket ==
    /\ phase' = "start" /\ turn' = FALSE /\ turn_perms' = {} /\ remote' = {}
    /\ pending' = None /\ refreshIn' = 0 /\ ice_connected' = FALSE
    /\ toServer' = {} /\ toAgent' = {}
    /\ lease' = 0 /\ permission' = [p \in Peer |-> 0] /\ stale' = FALSE
    /\ idle' = 0 /\ missed' = 0

Init ==
    /\ phase = "start" /\ turn = FALSE /\ turn_perms = {} /\ remote = {}
    /\ pending = None /\ refreshIn = 0 /\ ice_connected = FALSE
    /\ toServer = {} /\ toAgent = {}
    /\ lease = 0 /\ permission = [p \in Peer |-> 0] /\ stale = FALSE
    /\ idle = 0 /\ missed = 0

-----------------------------------------------------------------------------
(* The network and the server *)

Lose ==
    /\ Faults
    /\ \/ \E m \in toServer : toServer' = toServer \ {m} /\ UNCHANGED toAgent
       \/ \E m \in toAgent : toAgent' = toAgent \ {m} /\ UNCHANGED toServer
    /\ UNCHANGED <<clientVars, serverVars, history>>

\* A datagram m is taken from the socket; it may have been sent twice.
Take(m) ==
    /\ m \in toAgent
    /\ \/ toAgent' = toAgent \ {m}
       \/ Faults /\ UNCHANGED toAgent

Answer(req, resp) ==
    toServer' = toServer \ {req} /\ toAgent' = toAgent \cup {resp}

ServeBinding ==
    /\ "binding" \in toServer /\ Answer("binding", "bindingOk")
    /\ UNCHANGED <<clientVars, serverVars, history>>

ServeUnauthorized ==
    /\ "allocate" \in toServer /\ Answer("allocate", "unauthorized")
    /\ UNCHANGED <<clientVars, serverVars, history>>

\* The server may have no relay to give.
ServeAllocate ==
    /\ "allocateAuth" \in toServer
    /\ \/ /\ Answer("allocateAuth", "allocateOk")
          /\ lease' = Lifetime /\ UNCHANGED <<permission, stale>>
       \/ /\ Faults /\ Answer("allocateAuth", "staleNonce")
          /\ UNCHANGED serverVars
    /\ UNCHANGED <<clientVars, history>>

\* A request under an allocation: refused if the nonce is old or the
\* allocation gone.
Authorized == ~stale /\ lease > 0

ServePermission(p) ==
    /\ p \in toServer
    /\ IF Authorized /\ p \notin Refused
       THEN /\ Answer(p, "permissionOk")
            /\ permission' = [permission EXCEPT ![p] = PermLifetime]
       ELSE Answer(p, "permissionError") /\ UNCHANGED permission
    /\ UNCHANGED <<clientVars, lease, stale, history>>

ServeRefresh ==
    /\ "refresh" \in toServer
    /\ IF Authorized
       THEN /\ Answer("refresh", "refreshOk")
            /\ lease' = Lifetime /\ idle' = 0 /\ missed' = 0
       ELSE Answer("refresh", "staleNonce") /\ UNCHANGED <<lease, history>>
    /\ UNCHANGED <<clientVars, permission, stale>>

Serve ==
    \/ ServeBinding \/ ServeUnauthorized \/ ServeAllocate \/ ServeRefresh
    \/ \E p \in Peer : ServePermission(p)

\* The server relays between the agent and peer p.
Relays(p) == lease > 0 /\ permission[p] > 0

-----------------------------------------------------------------------------
(* Before the offer *)

Send(m) == toServer' = toServer \cup {m}

\* stun_binding asks for the public address.
StunBinding ==
    /\ phase = "start" /\ phase' = "binding"
    /\ Send("binding")
    /\ UNCHANGED <<turn, turn_perms, remote, pending, refreshIn, ice_connected,
                   toAgent, serverVars, history>>

\* turn_allocate, step 1: a request without credentials.
Allocate1 ==
    /\ phase' = "allocate1" /\ Send("allocate")
    /\ UNCHANGED <<turn, turn_perms, remote, pending, refreshIn, ice_connected,
                   serverVars, history>>

\* stun_binding ends, with the first datagram of the server or after 3 s; its
\* result is left out.
BindingEnds ==
    /\ phase = "binding"
    /\ UNCHANGED toAgent \/ \E m \in Response : Take(m)
    /\ Allocate1

\* The offer is made and waits for an answer, with or without a relay.
OfferWaits(relay) ==
    /\ phase' = "answer" /\ turn' = relay
    /\ UNCHANGED <<turn_perms, remote, pending, refreshIn, ice_connected,
                   serverVars, history>>

\* The first datagram decides: parse_turn_error_401 looks for a realm and a
\* nonce and not at the type.
Allocate1Answered ==
    /\ phase = "allocate1"
    /\ \E m \in Response :
          /\ Take(m)
          /\ IF m \in {"unauthorized", "staleNonce"}
             THEN /\ phase' = "allocate2" /\ Send("allocateAuth")
                  /\ UNCHANGED <<turn, turn_perms, remote, pending, refreshIn,
                                 ice_connected, serverVars, history>>
             ELSE OfferWaits(FALSE) /\ UNCHANGED toServer

\* Mutant of Granted: step 2 takes any datagram for the grant.
GrantedAny(m) == m \in Response

\* Step 2 takes the datagram for the grant.
Granted(m) == m = "allocateOk"

Allocate2Answered ==
    /\ phase = "allocate2"
    /\ \E m \in Response : Take(m) /\ OfferWaits(Granted(m))
    /\ UNCHANGED toServer

\* Three seconds have passed without a datagram.
AllocateTimeout ==
    /\ phase \in {"allocate1", "allocate2"}
    /\ OfferWaits(FALSE)
    /\ UNCHANGED <<toServer, toAgent>>

\* answer_rx.recv returns, whenever a browser comes.  The first refresh is due
\* so much later, however old the allocation is.
BrowserAnswers ==
    /\ phase = "answer" /\ phase' = "loop"
    /\ refreshIn' = RefreshEvery
    /\ UNCHANGED <<turn, turn_perms, remote, pending, ice_connected,
                   toServer, toAgent, serverVars, history>>

-----------------------------------------------------------------------------
(* The main loop *)

\* A remote candidate; turn_create_permission sends its request.
RemoteCandidate(p) ==
    /\ phase = "loop" /\ p \notin remote
    /\ IF turn /\ p \notin turn_perms
       THEN /\ phase' = "permission" /\ pending' = p /\ Send(p)
            /\ UNCHANGED remote
       ELSE /\ remote' = remote \cup {p}
            /\ UNCHANGED <<phase, pending, toServer>>
    /\ UNCHANGED <<turn, turn_perms, refreshIn, ice_connected, toAgent,
                   serverVars, history>>

\* While it waits, turn_create_permission drops every other datagram.
PermissionDrops ==
    /\ phase = "permission"
    /\ \E m \in Response \ {"permissionOk", "permissionError"} : Take(m)
    /\ UNCHANGED <<clientVars, toServer, serverVars, history>>

\* It ends with an answer, good or bad, or after 2 s, and returns Ok in every
\* case.
PermissionEnds ==
    /\ phase = "permission"
    /\ UNCHANGED toAgent \/ \E m \in {"permissionOk", "permissionError"} : Take(m)
    /\ phase' = "loop" /\ pending' = None
    /\ turn_perms' = turn_perms \cup {pending}
    /\ remote' = remote \cup {pending}
    /\ UNCHANGED <<turn, refreshIn, ice_connected, toServer, serverVars, history>>

\* Mutant of TurnRefresh: the next refresh waits for the end of the lease.
TurnRefreshLate ==
    /\ phase = "loop" /\ turn /\ refreshIn = 0 /\ missed < MaxMissed
    /\ Send("refresh") /\ missed' = missed + 1
    /\ refreshIn' = RefreshEvery + 1
    /\ UNCHANGED <<phase, turn, turn_perms, remote, pending, ice_connected,
                   toAgent, serverVars, idle>>

\* Mutant of TurnRefresh: the timer is set, the request is not sent.
TurnRefreshForgotten ==
    /\ phase = "loop" /\ turn /\ refreshIn = 0 /\ missed < MaxMissed
    /\ UNCHANGED <<toServer, missed>>
    /\ refreshIn' = RefreshEvery
    /\ UNCHANGED <<phase, turn, turn_perms, remote, pending, ice_connected,
                   toAgent, serverVars, idle>>

\* turn_refresh sends and does not wait.
TurnRefresh ==
    /\ phase = "loop" /\ turn /\ refreshIn = 0 /\ missed < MaxMissed
    /\ Send("refresh") /\ missed' = missed + 1
    /\ refreshIn' = RefreshEvery
    /\ UNCHANGED <<phase, turn, turn_perms, remote, pending, ice_connected,
                   toAgent, serverVars, idle>>

\* The loop reads a datagram of the server that is no Data indication.
LoopIgnores ==
    /\ phase = "loop" /\ \E m \in Response : Take(m)
    /\ UNCHANGED <<clientVars, toServer, serverVars, history>>

\* Mutant of Disconnected: the event is ignored.
DisconnectedIgnored ==
    /\ phase = "loop" /\ ice_connected /\ ~\E p \in remote : turn /\ Relays(p)
    /\ UNCHANGED vars

\* A check over the relay is answered: Event::Connected.
Connected ==
    /\ phase = "loop" /\ ~ice_connected
    /\ \E p \in remote : turn /\ Relays(p)
    /\ ice_connected' = TRUE
    /\ UNCHANGED <<phase, turn, turn_perms, remote, pending, refreshIn,
                   toServer, toAgent, serverVars, history>>

\* The checks are no longer answered: Disconnected, and webrtc::run returns;
\* the next round has a new socket.
Disconnected ==
    /\ phase = "loop" /\ ice_connected /\ ~\E p \in remote : turn /\ Relays(p)
    /\ NewSocket

\* handle_event has a frame of the browser and the HID queue is full: the loop
\* stands still, its socket unread and its timer unseen.
HidWaits ==
    /\ phase = "loop" /\ ice_connected
    /\ phase' = "held"
    /\ UNCHANGED <<turn, turn_perms, remote, pending, refreshIn, ice_connected,
                   toServer, toAgent, serverVars, history>>

\* The machine behind the queue takes a report again, if it ever does.
HidTakes ==
    /\ phase = "held"
    /\ phase' = "loop"
    /\ UNCHANGED <<turn, turn_perms, remote, pending, refreshIn, ice_connected,
                   toServer, toAgent, serverVars, history>>

\* main aborts the round, for a reason of the signalling.
RoundAborted == phase \in {"answer", "loop", "permission", "held"} /\ NewSocket

-----------------------------------------------------------------------------
(* Time *)

Down(n) == IF n = 0 THEN 0 ELSE n - 1

\* Nobody sends a refresh: no browser has come, or one is due and the loop is
\* held up.
NoRefresh ==
    /\ turn
    /\ phase = "answer" \/ (phase = "held" /\ refreshIn = 0)

\* A minute passes.  No datagram is so long under way, and a loop that is not
\* held up, turning every 5 ms, reads its socket and sends its refresh in time.
Minute ==
    /\ phase \in {"answer", "loop", "held"}
    /\ toServer = {} /\ (phase = "loop" => toAgent = {})
    /\ phase = "loop" /\ turn => refreshIn > 0
    /\ NoRefresh => idle < MaxIdle
    /\ refreshIn' = Down(refreshIn)
    /\ lease' = Down(lease)
    /\ permission' = [p \in Peer |-> IF lease' = 0 THEN 0 ELSE Down(permission[p])]
    /\ idle' = IF NoRefresh THEN idle + 1 ELSE idle
    /\ stale' \in IF Faults THEN {stale, TRUE} ELSE {stale}
    /\ UNCHANGED <<phase, turn, turn_perms, remote, pending, ice_connected,
                   toServer, toAgent, missed>>

-----------------------------------------------------------------------------
(* The specification *)

Loop ==
    \/ \E p \in Peer : RemoteCandidate(p)
    \/ PermissionDrops \/ PermissionEnds
    \/ TurnRefresh \/ LoopIgnores \/ Connected \/ Disconnected
    \/ HidWaits \/ HidTakes

Next ==
    \/ StunBinding \/ BindingEnds \/ Allocate1Answered \/ Allocate2Answered
    \/ AllocateTimeout \/ BrowserAnswers
    \/ Loop \/ RoundAborted
    \/ Lose \/ Serve
    \/ Minute

Spec == Init /\ [][Next]_vars

\* str0m notices the end of its checks in one of the turns of a loop that turns
\* again and again, and turn_create_permission waits for two seconds at most.
\* Nothing is assumed of the machine that may hold the loop up.
Fairness == SF_vars(Disconnected) /\ WF_vars(PermissionEnds)

FairSpec == Spec /\ Fairness

-----------------------------------------------------------------------------
(* Properties *)

\* The offer names a relay only if the server granted one to this socket,
\* whatever answers of earlier requests come late or twice: no request of
\* turn_allocate looks at a transaction identifier (webrtc.rs:819, 854).
RelayIsReal == turn /\ phase = "answer" /\ idle = 0 => lease > 0

\* While a session lasts, an allocation that was not too old when the browser
\* came outlives a refresh that is lost or refused: the minutes since the
\* last success, those of the wait and those a held-up loop is late included,
\* are fewer than its lifetime (webrtc.rs:184-191, one attempt every 240 s of
\* 600).
AllocationOutlivesLoss ==
    turn /\ phase \in {"loop", "permission", "held"}
         /\ idle + RefreshEvery * (missed + 1) < Lifetime
        => lease > 0

\* A session whose relay is gone does not stay, unless another candidate brings
\* the relay back: permissions are asked for once and live five minutes,
\* refreshes may fail or come late, and all of that is noticed by ICE only,
\* which ends the round (webrtc.rs:168, 392).  A loop that is held up for ever
\* notices nothing.
DeadRelayEndsRound ==
    []<>(phase # "held") =>
    ((ice_connected /\ \A p \in Peer : ~Relays(p))
        ~> (~ice_connected \/ \E p \in Peer : Relays(p)))

\* webrtc.rs:183: the refreshes keep the allocation alive.
AllocationIsKept == turn => lease > 0

=============================================================================
