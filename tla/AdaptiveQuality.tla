---------------------------- MODULE AdaptiveQuality ----------------------------
(***************************************************************************)
(* The picture settings of the page (app.js): the profile that follows the *)
(* type of the connection, the adaptive check that walks down the ladder   *)
(* of resolutions, the 30 s guard, and the user's choices.  They meet in   *)
(* currentProfile and in the control messages to the agent.  Three         *)
(* callbacks come late, and nothing cancels them when the page resets:     *)
(* getStats of detectConnectionType, the 500 ms timeout of dc.onopen and   *)
(* getStats of the statistics loop.                                        *)
(*                                                                         *)
(* A resolution is its width.  The channel to the agent keeps the order    *)
(* and loses nothing while it is open.  connectToAgent and the offer that  *)
(* follows it are one action: the page shows no other state in between.  A *)
(* connection lasts from one reset to the next: it includes the peer       *)
(* connections of the agent's later offers, which reset nothing.           *)
(***************************************************************************)
EXTENDS Integers, Sequences, FiniteSetsExt, Functions

CONSTANTS
    UserRes,        \* widths the user picks
    UserFps,        \* frame rates the user picks
    Sample,         \* frame rates that getStats reports
    RingSize,       \* FPS_RING_SIZE
    MinSamples,     \* samples before the guard judges
    CheckEvery,     \* samples per adaptive check
    MaxConn,        \* bound: connections
    MaxUps,         \* bound: times ICE reports connected or completed, each
                    \* connection
    MaxUses         \* bound: choices of the user and ticks of the loop
CONSTANT None

ASSUME QualityAssumption ==
    /\ UserRes \subseteq {640, 720, 1024, 1280, 1920}
    /\ UserFps \subseteq {5, 10, 15, 24, 30}
    /\ Sample \subseteq Nat
    /\ CheckEvery \in Nat \ {0} /\ MinSamples \in Nat \ {0}
    /\ RingSize \in Nat /\ MinSamples <= RingSize
    /\ MaxConn \in Nat \ {0} /\ MaxUps \in Nat \ {0} /\ MaxUses \in Nat
    /\ None \notin Nat /\ None \notin [res : Nat, fps : Nat]

VARIABLES
    pc,             \* the connection, 0 if null
    npc,            \* connections made so far
    ups,            \* times its ICE came up
    dc,             \* its channel: "none", "open" or "closed"
    ctype,          \* connectionType
    adaptive,       \* adaptiveEnabled
    manual,         \* manualOverride
    profile,        \* currentProfile: its resolution and its rate
    count,          \* fpsCheckCount
    ring,           \* fpsRing, each sample with the connection it is of
    guard,          \* fpsGuardActive
    loop,           \* statsTimer is set
    detecting,      \* per connection: detectConnectionType's pending getStats
    sampling,       \* connections with a pending getStats of the loop
    timers,         \* connections whose 500 ms timeout is pending
    asked,          \* the settings the agent was last asked for
    uses            \* how many of those there were

connVars  == <<pc, npc, ups, dc>>
lateVars  == <<detecting, sampling, timers>>
ringVars  == <<count, ring, guard>>
vars == <<pc, npc, ups, dc, ctype, adaptive, manual, profile, count, ring, guard,
          loop, detecting, sampling, timers, asked, uses>>

Conn == 1..MaxConn
Setting == [res : UserRes \cup {640, 720, 1280}, fps : UserFps \cup {10, 15, 30}]

\* QUALITY_PROFILES as far as the code uses them, and RES_LADDER.
Profile(t) == [res |-> 1280, fps |-> IF t = "p2p" THEN 30 ELSE 15]
Ladder == <<1920, 1280, 720, 640>>
FpsMinUsable == 10

TypeOK ==
    /\ pc \in {0, npc} /\ npc \in 0..MaxConn /\ ups \in 0..MaxUps
    /\ dc \in {"none", "open", "closed"}
    /\ ctype \in {"unknown", "p2p", "relay"}
    /\ adaptive \in BOOLEAN /\ manual \in BOOLEAN
    /\ profile \in Setting \cup {None}
    /\ count \in 0..(CheckEvery - 1)
    /\ \A i \in 1..Len(ring) : ring[i] \in [fps : Sample \ {0}, of : Conn]
    /\ Len(ring) <= RingSize
    /\ guard \in BOOLEAN
    /\ loop \in BOOLEAN /\ (loop => pc # 0)
    /\ detecting \in [Conn -> 0..MaxUps]
    /\ sampling \subseteq Conn /\ timers \subseteq Conn
    /\ asked \in Setting /\ uses \in 0..MaxUses

Init ==
    /\ pc = 0 /\ npc = 0 /\ ups = 0 /\ dc = "none"
    /\ ctype = "unknown" /\ adaptive = TRUE /\ manual = FALSE
    /\ profile = None
    /\ count = 0 /\ ring = <<>> /\ guard = FALSE
    /\ loop = FALSE
    /\ detecting = [c \in Conn |-> 0] /\ sampling = {} /\ timers = {}
    /\ asked = [res |-> 1280, fps |-> 30] /\ uses = 0

-----------------------------------------------------------------------------
(* Asking the agent *)

\* changeResolutionDirect and changeFpsDirect: without an open channel they do
\* nothing.
AskRes(a, w) == IF dc = "open" THEN [a EXCEPT !.res = w] ELSE a
AskFps(a, f) == IF dc = "open" THEN [a EXCEPT !.fps = f] ELSE a
Ask(a, s) == AskFps(AskRes(a, s.res), s.fps)

\* applyProfile.
ApplyProfile(s) == profile' = s /\ asked' = Ask(asked, s)

\* The step of the ladder below the first one that is no wider than w.
LowerRes(w) ==
    LET below == Min({i \in 1..Len(Ladder) : Ladder[i] <= w}) + 1 IN
        IF below <= Len(Ladder) THEN Ladder[below] ELSE None

-----------------------------------------------------------------------------
(* Connections *)

Use == pc # 0 /\ uses < MaxUses /\ uses' = uses + 1

\* Mutant of Reset: the samples of the last connection stay.
ResetKeepsRing ==
    /\ loop' = FALSE /\ dc' = "none" /\ ups' = 0
    /\ ctype' = "unknown" /\ profile' = None /\ manual' = FALSE
    /\ count' = 0 /\ ring' = ring /\ guard' = FALSE

\* Mutant of Reset: the statistics loop runs on.
ResetKeepsLoop ==
    /\ loop' = loop /\ dc' = "none" /\ ups' = 0
    /\ ctype' = "unknown" /\ profile' = None /\ manual' = FALSE
    /\ count' = 0 /\ ring' = <<>> /\ guard' = FALSE

\* reset; it leaves adaptiveEnabled and every callback under way.
Reset ==
    /\ loop' = FALSE /\ dc' = "none" /\ ups' = 0
    /\ ctype' = "unknown" /\ profile' = None /\ manual' = FALSE
    /\ count' = 0 /\ ring' = <<>> /\ guard' = FALSE

\* connectToAgent, and createPeerConnection for the first offer.
Connect ==
    /\ npc < MaxConn
    /\ Reset
    /\ npc' = npc + 1 /\ pc' = npc'
    /\ UNCHANGED <<adaptive, lateVars, asked, uses>>

Disconnect ==
    /\ pc # 0
    /\ Reset
    /\ pc' = 0
    /\ UNCHANGED <<npc, adaptive, lateVars, asked, uses>>

\* oniceconnectionstatechange to connected or completed: detectConnectionType
\* asks for the statistics, startStatsLoop starts the loop if none runs.
IceUp ==
    /\ pc # 0 /\ ups < MaxUps
    /\ ups' = ups + 1
    /\ detecting' = [detecting EXCEPT ![pc] = @ + 1]
    /\ loop' = TRUE
    /\ UNCHANGED <<pc, npc, dc, ctype, adaptive, manual, profile, ringVars,
                   sampling, timers, asked, uses>>

\* Mutant of DcOpen: the profile is left to detectConnectionType.
DcOpenNoTimer ==
    /\ ups > 0 /\ dc # "open"
    /\ dc' = "open"
    /\ UNCHANGED <<pc, npc, ups, ctype, adaptive, manual, profile, ringVars, loop,
                   lateVars, asked, uses>>

\* dc.onopen, also of the channel of a later offer: whether the profile
\* applies is decided now, not in 500 ms.
DcOpen ==
    /\ ups > 0 /\ dc # "open"
    /\ dc' = "open"
    /\ timers' = IF adaptive /\ ~manual THEN timers \cup {pc} ELSE timers
    /\ UNCHANGED <<pc, npc, ups, ctype, adaptive, manual, profile, ringVars, loop,
                   detecting, sampling, asked, uses>>

\* dc.onclose: the agent has ended its round.
DcClose ==
    /\ dc = "open" /\ dc' = "closed"
    /\ UNCHANGED <<pc, npc, ups, ctype, adaptive, manual, profile, ringVars, loop,
                   lateVars, asked, uses>>

-----------------------------------------------------------------------------
(* Callbacks that come late; c is the connection they are of *)

\* The statistics of detectConnectionType, on whatever connection there is by
\* now.  Of several pairs that succeeded, the last one decides.
Detected(c) ==
    /\ detecting[c] > 0
    /\ detecting' = [detecting EXCEPT ![c] = @ - 1]
    /\ ctype' \in {"p2p", "relay"}
    /\ IF adaptive /\ ~manual THEN ApplyProfile(Profile(ctype'))
       ELSE UNCHANGED <<profile, asked>>
    /\ UNCHANGED <<connVars, adaptive, manual, ringVars, loop, sampling, timers,
                   uses>>

\* The timeout of dc.onopen.
ApplyAutoQuality(c) ==
    /\ c \in timers /\ timers' = timers \ {c}
    /\ ApplyProfile(Profile(ctype))
    /\ UNCHANGED <<connVars, ctype, adaptive, manual, ringVars, loop, detecting,
                   sampling, uses>>

\* The interval of startStatsLoop: the statistics are asked for, and come
\* before the next tick.
StatsTick ==
    /\ Use /\ loop /\ pc \notin sampling
    /\ sampling' = sampling \cup {pc}
    /\ UNCHANGED <<connVars, ctype, adaptive, manual, profile, ringVars, loop,
                   detecting, timers, asked>>

\* adaptiveFpsCheck does nothing.
CheckOff == ~adaptive \/ manual \/ profile = None

\* What adaptiveFpsCheck makes of the settings s = [profile, asked] and of a
\* frame rate f: every CheckEvery samples one step down, if f is below 70% of
\* the target.
AdaptiveFpsCheck(f, s) ==
    LET lower == LowerRes(s.profile.res) IN
    IF ~CheckOff /\ count + 1 >= CheckEvery /\ f > 0
         /\ 100 * f < 70 * s.profile.fps /\ lower # None
    THEN LET p == [s.profile EXCEPT !.res = lower] IN
             [profile |-> p, asked |-> Ask(s.asked, p)]
    ELSE s

NextCount == IF CheckOff THEN count ELSE (count + 1) % CheckEvery

\* Mutant of ForceMinimumUsable: the profile does not learn of the change.
ForceMinimumUnseen(s) ==
    LET cur == IF s.profile = None THEN 1280 ELSE s.profile.res IN
    IF LowerRes(cur) # None
    THEN [s EXCEPT !.asked = AskRes(@, LowerRes(cur))]
    ELSE [s EXCEPT !.asked = AskFps(@, 10)]

\* forceMinimumUsable: one step down the ladder, or 10 frames a second at the
\* foot of it.  Without a profile it takes 1280 to be the width there is.
ForceMinimumUsable(s) ==
    LET cur   == IF s.profile = None THEN 1280 ELSE s.profile.res
        lower == LowerRes(cur)
        rate  == IF s.profile = None THEN 15 ELSE s.profile.fps
        Keep(f, v) == IF s.profile = None THEN None ELSE [s.profile EXCEPT ![f] = v]
    IN  IF lower # None
        THEN [profile |-> Keep("res", lower), asked |-> AskRes(s.asked, lower)]
        ELSE IF rate > 10
        THEN [profile |-> Keep("fps", 10), asked |-> AskFps(s.asked, 10)]
        ELSE s

\* The ring after a push, and the mean of it compared with n.
Push(x) == LET r == Append(ring, x) IN
           IF Len(r) > RingSize THEN Tail(r) ELSE r
MeanBelow(r, n) == FoldFunction(LAMBDA x, sum : x.fps + sum, 0, r) < n * Len(r)

\* fpsGuardCheck judges the ring r with settings s.
GuardFires(r) == Len(r) >= MinSamples /\ MeanBelow(r, FpsMinUsable) /\ ~guard
GuardRests(r) == Len(r) >= MinSamples /\ ~MeanBelow(r, FpsMinUsable + 2)

\* The statistics of the loop: adaptiveFpsCheck, then fpsGuardCheck.
StatsDone(c, f) ==
    /\ c \in sampling /\ sampling' = sampling \ {c}
    /\ count' = NextCount
    /\ LET s == AdaptiveFpsCheck(f, [profile |-> profile, asked |-> asked])
           r == IF f > 0 THEN Push([fps |-> f, of |-> c]) ELSE ring
           t == IF f > 0 /\ GuardFires(r) THEN ForceMinimumUsable(s) ELSE s
       IN  /\ profile' = t.profile /\ asked' = t.asked
           /\ ring' = IF f > 0 /\ GuardFires(r) THEN <<>> ELSE r
           /\ guard' = IF f > 0 /\ GuardFires(r) THEN TRUE
                       ELSE guard /\ ~(f > 0 /\ GuardRests(r))
    /\ UNCHANGED <<connVars, ctype, adaptive, manual, loop, detecting, timers,
                   uses>>

-----------------------------------------------------------------------------
(* The user, who has the console in front of him *)

\* changeResolution.
ChangeResolution(w) ==
    /\ Use
    /\ manual' = TRUE
    /\ asked' = AskRes(asked, w)
    /\ profile' = IF profile = None THEN None ELSE [profile EXCEPT !.res = w]
    /\ UNCHANGED <<connVars, ctype, adaptive, ringVars, loop, lateVars>>

\* changeFps.
ChangeFps(f) ==
    /\ Use
    /\ manual' = TRUE
    /\ asked' = AskFps(asked, f)
    /\ profile' = IF profile = None THEN None ELSE [profile EXCEPT !.fps = f]
    /\ UNCHANGED <<connVars, ctype, adaptive, ringVars, loop, lateVars>>

\* toggleAdaptive.
ToggleAdaptive ==
    /\ Use
    /\ adaptive' = ~adaptive /\ manual' = FALSE
    /\ IF adaptive' /\ ctype # "unknown" THEN ApplyProfile(Profile(ctype))
       ELSE UNCHANGED <<profile, asked>>
    /\ UNCHANGED <<connVars, ctype, ringVars, loop, lateVars>>

-----------------------------------------------------------------------------
(* The specification *)

Late(c) == Detected(c) \/ ApplyAutoQuality(c)
Statistics == StatsTick \/ \E c \in Conn, f \in Sample : StatsDone(c, f)

Next ==
    \/ Connect \/ Disconnect \/ IceUp \/ DcOpen \/ DcClose
    \/ \E c \in Conn : Late(c)
    \/ Statistics
    \/ \E w \in UserRes : ChangeResolution(w)
    \/ \E f \in UserFps : ChangeFps(f)
    \/ ToggleAdaptive

Spec == Init /\ [][Next]_vars

\* The browser answers getStats, and its timers run.
Fairness == \A c \in Conn : WF_vars(Detected(c)) /\ WF_vars(ApplyAutoQuality(c))

FairSpec == Spec /\ Fairness

-----------------------------------------------------------------------------
(* Properties *)

\* The step takes the statistics of the loop.
StatisticsCame == ~(sampling \subseteq sampling')

\* The adaptive check and the guard, which walk down one ladder without
\* knowing of one another, never raise what the agent was asked for, and the
\* profile stays what the agent has (app.js:521-592).  The condition is that
\* the profile was that before: the guard takes 1280 for the width when there
\* is none, and so can raise a 640 the user picked with adaptation off.
LoopLowers ==
    [][StatisticsCame /\ dc = "open" /\ profile = asked =>
          /\ profile' = asked'
          /\ asked'.res <= asked.res /\ asked'.fps <= asked.fps]_vars

\* The guard judges a connection by its own frames: when it fires, at most one
\* sample of each earlier connection, the one reset overtook, is among them
\* (app.js:691, 766).
GuardOnOwnSamples ==
    [][~guard /\ guard' =>
          \A c \in 1..(npc - 1) :
              Cardinality({i \in 1..Len(ring) : ring[i].of = c}) <= 1]_vars

\* With adaptation on, an open channel brings the agent to the page's profile,
\* though the profile is first chosen before there is a channel to send it
\* over (app.js:446, 494).
SettingsReachDevice ==
    (dc = "open" /\ adaptive /\ ~manual)
        ~> (profile = asked \/ dc # "open" \/ ~adaptive \/ manual)

=============================================================================
