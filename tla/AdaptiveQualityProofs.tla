------------------------ MODULE AdaptiveQualityProofs ------------------------
(***************************************************************************)
(* Theorems about AdaptiveQuality, for any choices of the user, samples,   *)
(* sizes of the ring and numbers of connections.                           *)
(***************************************************************************)
EXTENDS AdaptiveQuality, FiniteSetTheorems, TLAPS

\* A connection, a late callback, the statistics loop or the user acts.
LEMMA StepCases ==
    ASSUME Next
    PROVE  \/ Connect \/ Disconnect \/ IceUp \/ DcOpen \/ DcClose
           \/ (\E c \in Conn : Detected(c))
           \/ (\E c \in Conn : ApplyAutoQuality(c))
           \/ StatsTick \/ (\E c \in Conn, f \in Sample : StatsDone(c, f))
           \/ (\E w \in UserRes : ChangeResolution(w))
           \/ (\E f \in UserFps : ChangeFps(f))
           \/ ToggleAdaptive
  BY Zenon DEF Next, Late, Statistics

-----------------------------------------------------------------------------
(* The ladder *)

Widths == UserRes \cup {640, 720, 1280}
Rates == UserFps \cup {10, 15, 30}

\* What the settings are made of.
LEMMA Numbers ==
    /\ Widths \subseteq {640, 720, 1024, 1280, 1920}
    /\ Rates \subseteq {5, 10, 15, 24, 30}
    /\ Widths \subseteq Nat /\ Rates \subseteq Nat
    /\ Setting = [res : Widths, fps : Rates]
    /\ \A s \in Setting : s.res \in Nat /\ s.fps \in Nat
    /\ None \notin Setting /\ None \notin Nat
<1>1. /\ Widths \subseteq {640, 720, 1024, 1280, 1920}
      /\ Rates \subseteq {5, 10, 15, 24, 30}
  BY QualityAssumption DEF Widths, Rates
<1>2. Widths \subseteq Nat /\ Rates \subseteq Nat
  BY <1>1
<1>3. Setting = [res : Widths, fps : Rates]
  BY DEF Setting, Widths, Rates
<1>4. Setting \subseteq [res : Nat, fps : Nat]
  BY <1>2, <1>3
<1>5. \A s \in Setting : s.res \in Nat /\ s.fps \in Nat
  BY <1>4
<1> QED
  BY <1>1, <1>2, <1>3, <1>4, <1>5, QualityAssumption

\* A step down the ladder leads to one of its lower widths, and to a smaller
\* one: also from a width that is not on it.
LEMMA Lower ==
    ASSUME NEW w \in Widths, LowerRes(w) # None
    PROVE  LowerRes(w) \in {1280, 720, 640} /\ LowerRes(w) < w
<1> DEFINE S == {i \in 1..Len(Ladder) : Ladder[i] <= w}
           m == Min(S)
<1>1. /\ Len(Ladder) = 4
      /\ Ladder[1] = 1920 /\ Ladder[2] = 1280 /\ Ladder[3] = 720 /\ Ladder[4] = 640
  BY DEF Ladder
<1>2. w \in Nat /\ 640 <= w
  BY Numbers
<1>3. S \subseteq 1..4 /\ 4 \in S
  BY <1>1, <1>2
<1>4. \E x \in S : \A y \in S : x <= y
  <2> HIDE DEF S
  <2>1. CASE 1 \in S
    BY <1>3, <2>1
  <2>2. CASE 1 \notin S /\ 2 \in S
    BY <1>3, <2>2
  <2>3. CASE 1 \notin S /\ 2 \notin S /\ 3 \in S
    BY <1>3, <2>3
  <2>4. CASE 1 \notin S /\ 2 \notin S /\ 3 \notin S
    BY <1>3, <2>4
  <2> QED
    BY <2>1, <2>2, <2>3, <2>4
<1>5. m \in S
  <2> HIDE DEF S
  <2> QED
    BY <1>4 DEF Min
<1>6. m \in 1..4 /\ Ladder[m] <= w
  BY <1>1, <1>5
<1>7. m + 1 <= 4 /\ LowerRes(w) = Ladder[m + 1]
  <2>1. LowerRes(w) = IF m + 1 <= Len(Ladder) THEN Ladder[m + 1] ELSE None
    BY DEF LowerRes
  <2> HIDE DEF m
  <2> QED
    BY <2>1, <1>1
<1>8. m \in {1, 2, 3}
  <2> HIDE DEF m
  <2> QED
    BY <1>6, <1>7
<1> HIDE DEF m
<1> QED
  BY <1>1, <1>2, <1>6, <1>7, <1>8

-----------------------------------------------------------------------------
(* The settings *)

SettingsOK == profile \in Setting \cup {None} /\ asked \in Setting

\* What the agent is asked for is a setting.
LEMMA AskIsSetting ==
    ASSUME NEW a \in Setting
    PROVE  /\ \A w \in Widths : AskRes(a, w) \in Setting
           /\ \A f \in Rates : AskFps(a, f) \in Setting
           /\ \A s \in Setting : Ask(a, s) \in Setting
<1>1. \A b \in Setting : \A w \in Widths : AskRes(b, w) \in Setting
  BY Numbers DEF AskRes
<1>2. \A b \in Setting : \A f \in Rates : AskFps(b, f) \in Setting
  BY Numbers DEF AskFps
<1>3. \A s \in Setting : s.res \in Widths /\ s.fps \in Rates
  BY Numbers
<1> QED
  BY <1>1, <1>2, <1>3 DEF Ask

\* With an open channel the agent is asked for the very setting.
LEMMA AskIsHeard ==
    ASSUME dc = "open", NEW a \in Setting, NEW s \in Setting
    PROVE  Ask(a, s) = s
<1>1. Ask(a, s) = [[a EXCEPT !.res = s.res] EXCEPT !.fps = s.fps]
  BY DEF Ask, AskRes, AskFps
<1>2. a \in [res : Widths, fps : Rates] /\ s \in [res : Widths, fps : Rates]
  BY Numbers
<1> QED
  BY <1>1, <1>2

\* A pair of the profile and what was asked for, as the statistics see it.
Pair == [profile : Setting \cup {None}, asked : Setting]
\* They are the same setting.
Same(s) == s.profile = s.asked
\* t asks for no more than s.
NoMore(t, s) == t.asked.res <= s.asked.res /\ t.asked.fps <= s.asked.fps

\* The adaptive check.
LEMMA CheckStep ==
    ASSUME SettingsOK, NEW f
    PROVE  LET s == [profile |-> profile, asked |-> asked]
               t == AdaptiveFpsCheck(f, s)
           IN  /\ t \in Pair
               /\ dc = "open" /\ Same(s) => Same(t) /\ NoMore(t, s)
<1> DEFINE s == [profile |-> profile, asked |-> asked]
           t == AdaptiveFpsCheck(f, s)
           lower == LowerRes(profile.res)
           p == [profile EXCEPT !.res = lower]
<1>1. s \in Pair /\ NoMore(s, s)
  <2>1. asked.res \in Nat /\ asked.fps \in Nat
    BY Numbers DEF SettingsOK
  <2> QED
    BY <2>1 DEF SettingsOK, Pair, NoMore
<1>2. CASE t = s
  BY <1>1, <1>2
<1>3. CASE /\ profile # None /\ lower # None
           /\ t = [profile |-> p, asked |-> Ask(asked, p)]
  <2>1. profile \in Setting /\ profile.res \in Widths /\ asked \in Setting
    BY <1>3, Numbers DEF SettingsOK
  <2>2. lower \in {1280, 720, 640} /\ lower < profile.res
    BY <1>3, <2>1, Lower
  <2> HIDE DEF lower
  <2>3. p \in Setting /\ p.res = lower /\ p.fps = profile.fps
    BY <2>1, <2>2, Numbers DEF Widths
  <2>4. profile.res \in Nat /\ profile.fps \in Nat
    BY <2>1, Numbers
  <2> HIDE DEF p
  <2>5. t \in Pair
    BY <1>3, <2>1, <2>3, AskIsSetting DEF Pair
  <2>6. ASSUME dc = "open", profile = asked
        PROVE  Same(t) /\ NoMore(t, s)
    <3>1. t = [profile |-> p, asked |-> p]
      BY <1>3, <2>1, <2>3, <2>6, AskIsHeard
    <3> QED
      BY <3>1, <2>2, <2>3, <2>4, <2>6 DEF Same, NoMore
  <2> QED
    BY <2>5, <2>6 DEF Same
<1>4. t = s \/ /\ profile # None /\ lower # None
               /\ t = [profile |-> p, asked |-> Ask(asked, p)]
  BY DEF AdaptiveFpsCheck, CheckOff
<1> QED
  BY <1>2, <1>3, <1>4

\* The guard.
LEMMA GuardStep ==
    ASSUME NEW s \in Pair
    PROVE  LET t == ForceMinimumUsable(s)
           IN  /\ t \in Pair
               /\ dc = "open" /\ Same(s) => Same(t) /\ NoMore(t, s)
<1> DEFINE t == ForceMinimumUsable(s)
           cur == IF s.profile = None THEN 1280 ELSE s.profile.res
           lower == LowerRes(cur)
<1>1. s.profile \in Setting \cup {None} /\ s.asked \in Setting
  BY DEF Pair
<1>2. cur \in Widths
  BY <1>1, Numbers DEF Widths
<1>3. lower # None => lower \in {1280, 720, 640} /\ lower < cur
  BY <1>2, Lower
<1>4. CASE s.profile = None
  <2>1. ~Same(s)
    BY <1>1, <1>4, Numbers DEF Same
  <2>2. \/ lower # None /\ t = [profile |-> None, asked |-> AskRes(s.asked, lower)]
        \/ t = [profile |-> None, asked |-> AskFps(s.asked, 10)]
        \/ t = s
    BY <1>4 DEF ForceMinimumUsable
  <2> HIDE DEF t, lower
  <2>3. lower # None => AskRes(s.asked, lower) \in Setting
    BY <1>1, <1>3, AskIsSetting DEF Widths
  <2>4. AskFps(s.asked, 10) \in Setting
    BY <1>1, AskIsSetting DEF Rates
  <2> QED
    BY <2>1, <2>2, <2>3, <2>4 DEF Pair, t
<1>5. CASE s.profile # None
  <2>1. /\ s.profile \in [res : Widths, fps : Rates] /\ cur = s.profile.res
        /\ s.profile.res \in Nat /\ s.profile.fps \in Nat
    <3>1. s.profile \in Setting /\ cur = s.profile.res
      BY <1>1, <1>5
    <3> QED
      BY <3>1, Numbers
  <2>2. CASE lower # None
    <3> DEFINE p == [s.profile EXCEPT !.res = lower]
    <3>1. t = [profile |-> p, asked |-> AskRes(s.asked, lower)]
      BY <1>5, <2>2 DEF ForceMinimumUsable
    <3> HIDE DEF t, lower, cur
    <3>2. p \in Setting /\ p.res = lower /\ p.fps = s.profile.fps
      BY <1>3, <2>1, <2>2, Numbers DEF Widths
    <3>3. AskRes(s.asked, lower) \in Setting
      BY <1>1, <1>3, <2>2, AskIsSetting DEF Widths
    <3>4. dc = "open" /\ Same(s) => AskRes(s.asked, lower) = p
      BY DEF Same, AskRes
    <3> HIDE DEF p
    <3>5. t \in Pair
      BY <3>1, <3>2, <3>3 DEF Pair
    <3>6. ASSUME dc = "open", Same(s) PROVE Same(t) /\ NoMore(t, s)
      <4>1. t = [profile |-> p, asked |-> p] /\ s.asked = s.profile
        BY <3>1, <3>4, <3>6 DEF Same
      <4> QED
        BY <4>1, <1>3, <2>1, <2>2, <3>2 DEF Same, NoMore
    <3> QED
      BY <3>5, <3>6 DEF t
  <2>3. CASE lower = None /\ s.profile.fps > 10
    <3> DEFINE p == [s.profile EXCEPT !.fps = 10]
    <3>1. t = [profile |-> p, asked |-> AskFps(s.asked, 10)]
      BY <1>5, <2>3 DEF ForceMinimumUsable
    <3> HIDE DEF t, lower, cur
    <3>2. p \in Setting /\ p.res = s.profile.res /\ p.fps = 10
      BY <2>1, Numbers DEF Rates
    <3>3. AskFps(s.asked, 10) \in Setting
      BY <1>1, AskIsSetting DEF Rates
    <3>4. dc = "open" /\ Same(s) => AskFps(s.asked, 10) = p
      BY DEF Same, AskFps
    <3> HIDE DEF p
    <3>5. t \in Pair
      BY <3>1, <3>2, <3>3 DEF Pair
    <3>6. ASSUME dc = "open", Same(s) PROVE Same(t) /\ NoMore(t, s)
      <4>1. t = [profile |-> p, asked |-> p] /\ s.asked = s.profile
        BY <3>1, <3>4, <3>6 DEF Same
      <4> QED
        BY <4>1, <2>1, <2>3, <3>2 DEF Same, NoMore
    <3> QED
      BY <3>5, <3>6 DEF t
  <2>4. CASE lower = None /\ ~(s.profile.fps > 10)
    <3>1. t = s
      BY <1>5, <2>4 DEF ForceMinimumUsable
    <3>2. NoMore(s, s)
      <4>1. s.asked.res \in Nat /\ s.asked.fps \in Nat
        BY <1>1, Numbers
      <4> QED
        BY <4>1 DEF NoMore
    <3> HIDE DEF t
    <3> QED
      BY <3>1, <3>2 DEF t
  <2> QED
    BY <2>2, <2>3, <2>4
<1> QED
  BY <1>4, <1>5

\* The statistics of the loop: both of them.
LEMMA StatsStep ==
    ASSUME SettingsOK, NEW c, NEW f, StatsDone(c, f)
    PROVE  /\ SettingsOK'
           /\ dc = "open" /\ profile = asked =>
                 /\ profile' = asked'
                 /\ asked'.res <= asked.res /\ asked'.fps <= asked.fps
<1> DEFINE s == [profile |-> profile, asked |-> asked]
           t == AdaptiveFpsCheck(f, s)
           u == ForceMinimumUsable(t)
<1>1. /\ t \in Pair
      /\ dc = "open" /\ Same(s) => Same(t) /\ NoMore(t, s)
  BY CheckStep
<1>2. /\ u \in Pair
      /\ dc = "open" /\ Same(t) => Same(u) /\ NoMore(u, t)
  BY <1>1, GuardStep
<1>3. \/ profile' = t.profile /\ asked' = t.asked
      \/ profile' = u.profile /\ asked' = u.asked
  BY DEF StatsDone
<1> HIDE DEF t, u
<1>4. SettingsOK'
  BY <1>1, <1>2, <1>3 DEF SettingsOK, Pair
<1>5. ASSUME dc = "open", profile = asked
      PROVE  /\ profile' = asked'
             /\ asked'.res <= asked.res /\ asked'.fps <= asked.fps
  <2>1. Same(t) /\ NoMore(t, s) /\ Same(u) /\ NoMore(u, t)
    BY <1>1, <1>2, <1>5 DEF Same
  <2>2. /\ asked.res \in Nat /\ asked.fps \in Nat
        /\ t.asked.res \in Nat /\ t.asked.fps \in Nat
        /\ u.asked.res \in Nat /\ u.asked.fps \in Nat
    <3>1. asked \in Setting /\ t.asked \in Setting /\ u.asked \in Setting
      BY <1>1, <1>2 DEF SettingsOK, Pair
    <3> QED
      BY <3>1, Numbers
  <2> QED
    BY <2>1, <2>2, <1>3 DEF Same, NoMore
<1> QED
  BY <1>4, <1>5

\* Every step of the page asks for, and sends, settings of the list only.
LEMMA SettingsStep ==
    ASSUME SettingsOK, [Next]_vars
    PROVE  SettingsOK'
<1>1. \A type : Profile(type) \in Setting
  BY DEF Profile, Setting
<1>2. ASSUME NEW q \in Setting, ApplyProfile(q) PROVE SettingsOK'
  BY <1>2, AskIsSetting DEF ApplyProfile, SettingsOK
<1>3. CASE Connect \/ Disconnect \/ IceUp \/ DcOpen \/ DcClose \/ StatsTick
           \/ UNCHANGED vars
  <2>1. profile' \in {profile, None} /\ asked' = asked
    BY <1>3 DEF Connect, Disconnect, Reset, IceUp, DcOpen, DcClose, StatsTick, vars
  <2> QED
    BY <2>1 DEF SettingsOK
<1>4. CASE \E c \in Conn : Detected(c)
  BY <1>1, <1>2, <1>4 DEF Detected, SettingsOK
<1>5. CASE \E c \in Conn : ApplyAutoQuality(c)
  BY <1>1, <1>2, <1>5 DEF ApplyAutoQuality
<1>6. CASE \E c \in Conn, f \in Sample : StatsDone(c, f)
  BY <1>6, StatsStep
<1>7. CASE \E w \in UserRes : ChangeResolution(w)
  <2> PICK w \in UserRes : ChangeResolution(w)
    BY <1>7
  <2>1. /\ asked' = AskRes(asked, w)
        /\ profile' = None \/ (profile # None /\ profile' = [profile EXCEPT !.res = w])
    BY DEF ChangeResolution
  <2>2. w \in Widths
    BY DEF Widths
  <2> QED
    BY <2>1, <2>2, AskIsSetting, Numbers DEF SettingsOK
<1>8. CASE \E f \in UserFps : ChangeFps(f)
  <2> PICK f \in UserFps : ChangeFps(f)
    BY <1>8
  <2>1. /\ asked' = AskFps(asked, f)
        /\ profile' = None \/ (profile # None /\ profile' = [profile EXCEPT !.fps = f])
    BY DEF ChangeFps
  <2>2. f \in Rates
    BY DEF Rates
  <2> QED
    BY <2>1, <2>2, AskIsSetting, Numbers DEF SettingsOK
<1>9. CASE ToggleAdaptive
  BY <1>1, <1>2, <1>9 DEF ToggleAdaptive, SettingsOK
<1> QED
  BY <1>3, <1>4, <1>5, <1>6, <1>7, <1>8, <1>9, StepCases

\* The profile and what the agent is asked for are always settings the code knows.
THEOREM SettingsHold == Spec => []SettingsOK
<1>1. Init => SettingsOK
  BY DEF Init, SettingsOK, Setting
<1> QED
  BY <1>1, SettingsStep, PTL DEF Spec

\* The check and the guard never raise what the agent was asked for, whatever
\* widths and rates the user picks, and leave the profile what the agent has.
THEOREM TheLoopLowers == Spec => LoopLowers
<1>1. ASSUME SettingsOK, [Next]_vars, StatisticsCame, dc = "open", profile = asked
      PROVE  /\ profile' = asked'
             /\ asked'.res <= asked.res /\ asked'.fps <= asked.fps
  <2>1. \E c \in Conn, f \in Sample : StatsDone(c, f)
    <3>1. CASE sampling' = sampling \/ \E c : sampling' = sampling \cup {c}
      BY <1>1, <3>1 DEF StatisticsCame
    <3>2. CASE Connect \/ Disconnect \/ IceUp \/ DcOpen \/ DcClose \/ StatsTick
               \/ UNCHANGED vars
      BY <3>1, <3>2 DEF Connect, Disconnect, IceUp, DcOpen, DcClose, StatsTick,
         vars, lateVars
    <3>3. CASE \/ \E c \in Conn : Detected(c) \/ ApplyAutoQuality(c)
               \/ \E w \in UserRes : ChangeResolution(w)
               \/ \E f \in UserFps : ChangeFps(f)
               \/ ToggleAdaptive
      BY <3>1, <3>3 DEF Detected, ApplyAutoQuality, ChangeResolution, ChangeFps,
         ToggleAdaptive, lateVars
    <3> QED
      BY <1>1, <3>2, <3>3, StepCases
  <2> QED
    BY <1>1, <2>1, StatsStep
<1>2. SettingsOK /\ [Next]_vars =>
         [StatisticsCame /\ dc = "open" /\ profile = asked =>
             /\ profile' = asked'
             /\ asked'.res <= asked.res /\ asked'.fps <= asked.fps]_vars
  BY <1>1
<1> QED
  BY <1>2, SettingsHold, PTL DEF Spec, LoopLowers

-----------------------------------------------------------------------------
(* Whose samples the guard judges *)

RingSample == [fps : Nat, of : Conn]

\* Of connection c the ring has one sample at most; while the statistics of c
\* are still to come, it has none.
AtMostOne(r, c) ==
    \A i, j \in 1..Len(r) : r[i].of = c /\ r[j].of = c => i = j
Without(r, c) == \A i \in 1..Len(r) : r[i].of # c

OwnInv ==
    /\ pc \in {0, npc} /\ npc \in 0..MaxConn
    /\ ring \in Seq(RingSample)
    /\ \A c \in Conn : c < npc =>
          AtMostOne(ring, c) /\ (c \in sampling => Without(ring, c))

\* A sample is pushed, and the oldest one leaves if there are too many.
LEMMA PushStep ==
    ASSUME ring \in Seq(RingSample), NEW x \in RingSample
    PROVE  /\ Push(x) \in Seq(RingSample)
           /\ \A c \in Conn : c # x.of =>
                 /\ AtMostOne(ring, c) => AtMostOne(Push(x), c)
                 /\ Without(ring, c) => Without(Push(x), c)
           /\ Without(ring, x.of) => AtMostOne(Push(x), x.of)
<1> DEFINE r == Append(ring, x)
           n == Len(ring)
<1>1. /\ r \in Seq(RingSample) /\ Len(r) = n + 1 /\ n \in Nat
      /\ \A i \in 1..n : r[i] = ring[i]
      /\ r[n + 1] = x
  OBVIOUS
<1>2. \A i \in 1..(n + 1) : i \in 1..n \/ i = n + 1
  BY <1>1
<1>3. \A c \in Conn : c # x.of =>
         /\ AtMostOne(ring, c) => AtMostOne(r, c)
         /\ Without(ring, c) => Without(r, c)
  BY <1>1, <1>2 DEF AtMostOne, Without
<1>4. Without(ring, x.of) => AtMostOne(r, x.of)
  BY <1>1, <1>2 DEF AtMostOne, Without
<1>5. /\ Tail(r) \in Seq(RingSample) /\ Len(Tail(r)) = n
      /\ \A i \in 1..n : Tail(r)[i] = r[i + 1]
  <2> HIDE DEF r
  <2>1. r # <<>>
    BY <1>1
  <2> QED
    BY <1>1, <2>1
<1>6. \A c : /\ AtMostOne(r, c) => AtMostOne(Tail(r), c)
             /\ Without(r, c) => Without(Tail(r), c)
  <2> HIDE DEF r
  <2>1. \A i \in 1..n : i + 1 \in 1..(n + 1)
    BY <1>1
  <2>2. \A i, j \in 1..n : i + 1 = j + 1 => i = j
    BY <1>1
  <2> QED
    BY <1>1, <1>5, <2>1, <2>2 DEF AtMostOne, Without
<1>7. Push(x) = r \/ Push(x) = Tail(r)
  BY DEF Push
<1> HIDE DEF r, n
<1> QED
  BY <1>1, <1>3, <1>4, <1>5, <1>6, <1>7

\* Every step keeps at most one sample of each earlier connection in the ring,
\* and none of one whose statistics are still to come.
LEMMA OwnStep ==
    ASSUME OwnInv, [Next]_vars
    PROVE  OwnInv'
<1>1. CASE Connect \/ Disconnect
  <2>1. ring' = <<>> /\ pc' \in {0, npc'} /\ npc' \in 0..MaxConn
    BY <1>1, QualityAssumption DEF Connect, Disconnect, Reset, OwnInv
  <2> QED
    BY <2>1 DEF OwnInv, AtMostOne, Without
<1>2. CASE StatsTick
  <2>1. /\ pc = npc /\ UNCHANGED <<pc, npc, ring>>
        /\ sampling' = sampling \cup {npc}
    BY <1>2 DEF StatsTick, Use, connVars, ringVars, OwnInv
  <2> QED
    BY <2>1 DEF OwnInv
<1>3. CASE \E c \in Conn, f \in Sample : StatsDone(c, f)
  <2> PICK c \in Conn, f \in Sample : StatsDone(c, f)
    BY <1>3
  <2> DEFINE x == [fps |-> f, of |-> c]
  <2>1. /\ UNCHANGED <<pc, npc>> /\ c \in sampling /\ sampling' = sampling \ {c}
        /\ ring' = ring \/ ring' = <<>> \/ ring' = Push(x)
    BY DEF StatsDone, connVars
  <2>2. x \in RingSample /\ x.of = c
    BY QualityAssumption DEF RingSample
  <2>3. CASE ring' = ring
    BY <2>1, <2>3 DEF OwnInv
  <2>4. CASE ring' = <<>>
    BY <2>1, <2>4 DEF OwnInv, AtMostOne, Without
  <2>5. CASE ring' = Push(x)
    <3> HIDE DEF x
    <3>1. /\ ring' \in Seq(RingSample)
          /\ \A d \in Conn : d # c =>
                /\ AtMostOne(ring, d) => AtMostOne(ring', d)
                /\ Without(ring, d) => Without(ring', d)
          /\ Without(ring, c) => AtMostOne(ring', c)
      BY <2>2, <2>5, PushStep DEF OwnInv
    <3>2. ASSUME NEW d \in Conn, d < npc
          PROVE  AtMostOne(ring', d) /\ (d \in sampling' => Without(ring', d))
      BY <2>1, <3>1, <3>2 DEF OwnInv
    <3> QED
      BY <2>1, <3>1, <3>2 DEF OwnInv
  <2> QED
    BY <2>1, <2>3, <2>4, <2>5
<1>4. CASE IceUp \/ DcOpen \/ DcClose \/ UNCHANGED vars \/ ToggleAdaptive
           \/ \E c \in Conn : Detected(c) \/ ApplyAutoQuality(c)
  BY <1>4 DEF IceUp, DcOpen, DcClose, vars, ToggleAdaptive, Detected,
     ApplyAutoQuality, connVars, ringVars, lateVars, OwnInv
<1>5. CASE \/ \E w \in UserRes : ChangeResolution(w)
           \/ \E f \in UserFps : ChangeFps(f)
  BY <1>5 DEF ChangeResolution, ChangeFps, connVars, ringVars, lateVars, OwnInv
<1> QED
  BY <1>1, <1>2, <1>3, <1>4, <1>5, StepCases

\* The guard, when it fires, has judged at most one frame rate of each earlier
\* connection, however many there were and whatever answers came late.
THEOREM GuardJudgesItsOwn == Spec => GuardOnOwnSamples
<1>1. Init => OwnInv
  BY QualityAssumption DEF Init, OwnInv, AtMostOne, Without
<1>2. ASSUME OwnInv, NEW c \in 1..(npc - 1)
      PROVE  Cardinality({i \in 1..Len(ring) : ring[i].of = c}) <= 1
  <2> DEFINE S == {i \in 1..Len(ring) : ring[i].of = c}
  <2>1. c \in Conn /\ c < npc
    BY <1>2, QualityAssumption DEF OwnInv, Conn
  <2>2. AtMostOne(ring, c)
    BY <1>2, <2>1 DEF OwnInv
  <2>3. CASE S = {}
    BY <2>3, FS_EmptySet
  <2>4. CASE S # {}
    <3>1. PICK i \in S : TRUE
      BY <2>4
    <3>2. S = {i}
      BY <2>2, <3>1 DEF AtMostOne
    <3> HIDE DEF S
    <3>3. Cardinality(S) = 1
      BY <3>2, FS_Singleton
    <3> QED
      BY <3>3 DEF S
  <2> QED
    BY <2>3, <2>4
<1>3. OwnInv /\ [Next]_vars =>
         [~guard /\ guard' =>
             \A c \in 1..(npc - 1) :
                 Cardinality({i \in 1..Len(ring) : ring[i].of = c}) <= 1]_vars
  BY <1>2
<1> QED
  BY <1>1, <1>3, OwnStep, PTL DEF Spec, GuardOnOwnSamples

-----------------------------------------------------------------------------
(* Type correctness *)

GoodSample == [fps : Sample \ {0}, of : Conn]

\* The ring is a sequence of samples, and the answers that are still to come
\* are of connections that were made: of this one, no more than it came up.
LateInv ==
    /\ ring \in Seq(GoodSample)
    /\ pc = 0 => ups = 0
    /\ \A c \in Conn : c > npc => detecting[c] = 0
    /\ pc # 0 => detecting[pc] <= ups

TypeInv == TypeOK /\ LateInv

\* The counter of the checks stays below the period.
LEMMA CountWraps ==
    ASSUME NEW n \in Nat \ {0}, NEW k \in 0..(n - 1)
    PROVE  (k + 1) % n \in 0..(n - 1)
OBVIOUS

\* A push keeps the ring a ring of samples within its size.
LEMMA PushTypes ==
    ASSUME ring \in Seq(GoodSample), Len(ring) <= RingSize, NEW x \in GoodSample
    PROVE  Push(x) \in Seq(GoodSample) /\ Len(Push(x)) <= RingSize
<1> DEFINE r == Append(ring, x)
<1>1. r \in Seq(GoodSample) /\ Len(r) = Len(ring) + 1 /\ Len(ring) \in Nat
  OBVIOUS
<1> HIDE DEF r
<1>2. Tail(r) \in Seq(GoodSample) /\ Len(Tail(r)) = Len(ring)
  <2>1. r # <<>>
    BY <1>1
  <2> QED
    BY <1>1, <2>1
<1>3. Push(x) = IF Len(r) > RingSize THEN Tail(r) ELSE r
  BY DEF Push, r
<1> QED
  BY <1>1, <1>2, <1>3, QualityAssumption

\* What is left of the types when the settings and the ring are set apart.
Rest ==
    /\ pc \in {0, npc} /\ npc \in 0..MaxConn /\ ups \in 0..MaxUps
    /\ dc \in {"none", "open", "closed"}
    /\ ctype \in {"unknown", "p2p", "relay"}
    /\ count \in 0..(CheckEvery - 1)
    /\ loop => pc # 0
    /\ detecting \in [Conn -> 0..MaxUps]
    /\ sampling \subseteq Conn /\ timers \subseteq Conn
    /\ uses \in 0..MaxUses
    /\ pc = 0 => ups = 0
    /\ \A c \in Conn : c > npc => detecting[c] = 0
    /\ pc # 0 => detecting[pc] <= ups

Bools == /\ adaptive \in BOOLEAN /\ manual \in BOOLEAN
         /\ guard \in BOOLEAN /\ loop \in BOOLEAN

RingOK == ring \in Seq(GoodSample) /\ Len(ring) <= RingSize

\* TypeInv is these four.
LEMMA TypeParts == TypeInv <=> Rest /\ Bools /\ SettingsOK /\ RingOK
<1>1. RingOK => \A i \in 1..Len(ring) : ring[i] \in GoodSample
  BY DEF RingOK
<1>2. GoodSample = [fps : Sample \ {0}, of : Conn]
  BY DEF GoodSample
<1>3. RingOK <=> ring \in Seq(GoodSample) /\ Len(ring) <= RingSize
  BY DEF RingOK
<1> QED
  BY <1>1, <1>2, <1>3, Zenon DEF TypeInv, TypeOK, LateInv, Rest, Bools, SettingsOK

\* The ring grows by the samples of the statistics and is emptied by a reset.
LEMMA RingStep ==
    ASSUME RingOK, Rest, [Next]_vars
    PROVE  RingOK'
<1>0. <<>> \in Seq(GoodSample) /\ Len(<<>>) = 0 /\ 0 <= RingSize
  BY QualityAssumption
<1>1. ASSUME NEW c \in Conn, NEW f \in Sample, StatsDone(c, f) PROVE RingOK'
  <2> DEFINE x == [fps |-> f, of |-> c]
  <2>1. ring' = ring \/ ring' = <<>> \/ (f > 0 /\ ring' = Push(x))
    BY <1>1 DEF StatsDone
  <2>2. f > 0 => x \in GoodSample
    BY QualityAssumption DEF GoodSample
  <2> HIDE DEF x
  <2>3. f > 0 => Push(x) \in Seq(GoodSample) /\ Len(Push(x)) <= RingSize
    BY <2>2, PushTypes DEF RingOK
  <2>4. CASE ring' = ring
    BY <2>4 DEF RingOK
  <2>5. CASE ring' = <<>>
    BY <1>0, <2>5 DEF RingOK
  <2>6. CASE f > 0 /\ ring' = Push(x)
    BY <2>3, <2>6 DEF RingOK
  <2> QED
    BY <2>1, <2>4, <2>5, <2>6
<1>2. ASSUME ring' = ring \/ ring' = <<>> PROVE RingOK'
  <2>1. CASE ring' = ring
    BY <2>1 DEF RingOK
  <2>2. CASE ring' = <<>>
    BY <1>0, <2>2 DEF RingOK
  <2> QED
    BY <1>2, <2>1, <2>2
<1>3. CASE Connect \/ Disconnect \/ IceUp \/ DcOpen \/ DcClose \/ StatsTick
           \/ ToggleAdaptive \/ UNCHANGED vars
  BY <1>2, <1>3 DEF Connect, Disconnect, Reset, IceUp, DcOpen, DcClose, StatsTick,
     ToggleAdaptive, ringVars, vars
<1>4. CASE \/ \E c \in Conn : Detected(c) \/ ApplyAutoQuality(c)
           \/ \E w \in UserRes : ChangeResolution(w)
           \/ \E f \in UserFps : ChangeFps(f)
  BY <1>2, <1>4 DEF Detected, ApplyAutoQuality, ChangeResolution, ChangeFps, ringVars
<1> QED
  BY <1>1, <1>3, <1>4, StepCases

\* The rest, action by action.
LEMMA RestStep ==
    ASSUME Rest, [Next]_vars
    PROVE  Rest'
<1> USE QualityAssumption DEF Rest, Conn, connVars, lateVars, ringVars
<1>1. CASE Connect
  <2>1. /\ npc' = npc + 1 /\ pc' = npc + 1 /\ ups' = 0 /\ npc + 1 \in 1..MaxConn
        /\ detecting' = detecting
    BY <1>1 DEF Connect, Reset
  <2>2. \A c \in Conn : c > npc' => detecting'[c] = 0
    BY <2>1
  <2>3. detecting'[pc'] = 0
    BY <2>1
  <2> QED
    BY <1>1, <2>1, <2>2, <2>3 DEF Connect, Reset
<1>2. CASE Disconnect
  BY <1>2 DEF Disconnect, Reset
<1>3. CASE IceUp
  <2>1. /\ pc # 0 /\ pc = npc /\ pc \in Conn /\ ups' = ups + 1 /\ ups < MaxUps
        /\ detecting' = [detecting EXCEPT ![pc] = detecting[pc] + 1]
        /\ UNCHANGED <<pc, npc>>
    BY <1>3 DEF IceUp
  <2>2. detecting[pc] \in Nat /\ detecting[pc] + 1 <= ups + 1 /\ ups + 1 <= MaxUps
    BY <2>1
  <2>3. detecting' \in [Conn -> 0..MaxUps] /\ detecting'[pc] <= ups'
    BY <2>1, <2>2
  <2>4. \A c \in Conn : c > npc => detecting'[c] = 0
    BY <2>1
  <2> QED
    BY <1>3, <2>1, <2>3, <2>4 DEF IceUp
<1>4. CASE DcOpen
  BY <1>4 DEF DcOpen
<1>13. CASE DcClose
  BY <1>13 DEF DcClose
<1>5. ASSUME NEW c \in Conn, Detected(c) PROVE Rest'
  <2>1. /\ detecting' = [detecting EXCEPT ![c] = detecting[c] - 1]
        /\ detecting[c] > 0 /\ detecting[c] \in 0..MaxUps
        /\ UNCHANGED <<pc, npc, ups>>
    BY <1>5 DEF Detected
  <2>2. detecting[c] - 1 \in 0..MaxUps
    BY <2>1
  <2>3. detecting' \in [Conn -> 0..MaxUps]
    BY <2>1, <2>2
  <2>4. \A d \in Conn : d > npc => detecting'[d] = 0
    BY <2>1
  <2>5. pc # 0 => detecting'[pc] <= ups
    BY <2>1
  <2> QED
    BY <1>5, <2>1, <2>3, <2>4, <2>5 DEF Detected
<1>6. ASSUME NEW c \in Conn, ApplyAutoQuality(c) PROVE Rest'
  BY <1>6 DEF ApplyAutoQuality
<1>7. CASE StatsTick
  BY <1>7 DEF StatsTick, Use
<1>8. ASSUME NEW c \in Conn, NEW f \in Sample, StatsDone(c, f) PROVE Rest'
  <2>1. count' \in 0..(CheckEvery - 1)
    BY <1>8, CountWraps DEF StatsDone, NextCount
  <2> QED
    BY <1>8, <2>1 DEF StatsDone
<1>9. ASSUME NEW w \in UserRes, ChangeResolution(w) PROVE Rest'
  BY <1>9 DEF ChangeResolution, Use
<1>10. ASSUME NEW f \in UserFps, ChangeFps(f) PROVE Rest'
  BY <1>10 DEF ChangeFps, Use
<1>11. CASE ToggleAdaptive
  BY <1>11 DEF ToggleAdaptive, Use
<1>12. CASE UNCHANGED vars
  BY <1>12 DEF vars
<1> HIDE DEF Rest
<1> QED
  BY <1>1, <1>2, <1>3, <1>4, <1>5, <1>6, <1>7, <1>8, <1>9, <1>10, <1>11, <1>12, <1>13,
     StepCases

\* The flags.
LEMMA FlagStep ==
    ASSUME Bools, [Next]_vars
    PROVE  Bools'
<1> USE DEF Bools, connVars, lateVars, ringVars
<1>1. CASE Connect \/ Disconnect
  BY <1>1 DEF Connect, Disconnect, Reset
<1>2. CASE IceUp
  BY <1>2 DEF IceUp
<1>3. CASE DcOpen \/ DcClose \/ StatsTick
  BY <1>3 DEF DcOpen, DcClose, StatsTick
<1>4. ASSUME NEW c \in Conn, Detected(c) \/ ApplyAutoQuality(c) PROVE Bools'
  BY <1>4 DEF Detected, ApplyAutoQuality
<1>5. ASSUME NEW c \in Conn, NEW f \in Sample, StatsDone(c, f) PROVE Bools'
  <2>1. guard' \in BOOLEAN
    BY <1>5, Zenon DEF StatsDone
  <2> QED
    BY <1>5, <2>1 DEF StatsDone
<1>6. ASSUME NEW w \in UserRes, ChangeResolution(w) PROVE Bools'
  BY <1>6 DEF ChangeResolution
<1>7. ASSUME NEW f \in UserFps, ChangeFps(f) PROVE Bools'
  BY <1>7 DEF ChangeFps
<1>8. CASE ToggleAdaptive
  <2>1. adaptive' \in BOOLEAN
    BY <1>8, Zenon DEF ToggleAdaptive
  <2> QED
    BY <1>8, <2>1 DEF ToggleAdaptive
<1>9. CASE UNCHANGED vars
  BY <1>9 DEF vars
<1> HIDE DEF Bools
<1> QED
  BY <1>1, <1>2, <1>3, <1>4, <1>5, <1>6, <1>7, <1>8, <1>9, StepCases

\* Type correctness: however late the answers come, none is counted for a
\* connection that did not ask, the counter of the checks stays below its
\* period, the ring within its size, and every setting is one the code knows.
THEOREM TypeCorrect == Spec => []TypeOK
<1>1. Init => TypeInv
  <2> SUFFICES ASSUME Init PROVE TypeInv
    OBVIOUS
  <2>1. Rest /\ Bools
    <3>1. Bools
      BY DEF Init, Bools
    <3>2. npc = 0 /\ pc = 0 /\ ups = 0 /\ dc = "none" /\ ctype = "unknown"
      BY DEF Init
    <3>3. count = 0 /\ 0 \in 0..(CheckEvery - 1) /\ uses = 0 /\ loop = FALSE
      BY QualityAssumption DEF Init
    <3>4. detecting = [c \in Conn |-> 0] /\ sampling = {} /\ timers = {}
      BY DEF Init
    <3> QED
      BY <3>1, <3>2, <3>3, <3>4, QualityAssumption DEF Rest
  <2>2. SettingsOK
    BY DEF Init, SettingsOK, Setting
  <2>3. RingOK
    BY QualityAssumption DEF Init, RingOK
  <2> QED
    BY <2>1, <2>2, <2>3, TypeParts
<1>2. TypeInv /\ [Next]_vars => TypeInv'
  <2>1. TypeInv' <=> Rest' /\ Bools' /\ SettingsOK' /\ RingOK'
    BY TypeParts, PTL
  <2> QED
    BY <2>1, TypeParts, RestStep, FlagStep, SettingsStep, RingStep
<1>3. TypeInv => TypeOK
  BY DEF TypeInv
<1> QED
  BY <1>1, <1>2, <1>3, PTL DEF Spec

=============================================================================
