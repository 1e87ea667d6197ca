------------------------- MODULE VideoPipelineProofs -------------------------
(***************************************************************************)
(* Theorems about VideoPipeline, for every capacity of the channels, every *)
(* set of devices and any number of commands and sessions.                 *)
(***************************************************************************)
EXTENDS VideoPipeline, WellFoundedInduction, TLAPS

\* An action of the pipeline, one disjunct for each.
LEMMA StepCases ==
    ASSUME Next
    PROVE  \/ Open \/ TrySw \/ TryMjpeg \/ Failed \/ CheckCtrl \/ Grab \/ Emit
           \/ PathError \/ GrabNothing
           \/ (\E cmd \in Command : SendCommand(cmd))
           \/ BridgeIdle \/ BridgeActive \/ BridgeDrain \/ BridgeRecv
           \/ Discard \/ RequestIdr \/ SendVideo \/ Subscribe \/ IceConnected
           \/ Connected \/ KeyframeRequest \/ SessionEnd
  BY Zenon DEF Next, Thread, Bridge, Session

\* What the thread relies on between its look at the channel and the send.
ChannelInv ==
    /\ chan \in Seq(Frame) /\ Len(chan) <= ChanCap
    /\ frame \in Frame \cup {"none"}
    /\ NoEncodedFrameDropped

\* Only the thread makes the channel longer, and only by the frame it holds.
LEMMA ChannelStep ==
    ASSUME ChannelInv, [Next]_vars
    PROVE  ChannelInv'
<1> USE VideoAssumption DEF ChannelInv, NoEncodedFrameDropped
<1>1. CASE UNCHANGED <<chan, frame>>
  BY <1>1
<1>2. CASE Grab
  <2>1. frame' \in Frame
    BY <1>2 DEF Grab, Frame
  <2> QED
    BY <1>2, <2>1 DEF Grab
<1>3. CASE Emit
  <2>1. frame' = "none" /\ frame \in Frame
    BY <1>3 DEF Emit
  <2>2. chan' = Append(chan, frame) /\ Len(chan) < ChanCap
    BY <1>3 DEF Emit
  <2>3. chan' \in Seq(Frame) /\ Len(chan') = Len(chan) + 1
    BY <2>1, <2>2
  <2> QED
    BY <2>1, <2>2, <2>3
<1>4. CASE chan # <<>> /\ chan' = Tail(chan) /\ frame' = frame
  <2>1. chan' \in Seq(Frame) /\ Len(chan') = Len(chan) - 1
    BY <1>4
  <2> QED
    BY <1>4, <2>1
<1>5. CASE BridgeDrain \/ BridgeRecv
  <2>1. frame' = frame
    BY <1>5 DEF BridgeDrain, BridgeRecv, NotBridge, thVars
  <2> QED
    BY <1>1, <1>4, <1>5, <2>1 DEF BridgeDrain, BridgeRecv
<1>6. ASSUME \/ Open \/ TrySw \/ TryMjpeg \/ Failed \/ CheckCtrl
             \/ PathError \/ GrabNothing
             \/ (\E cmd \in Command : SendCommand(cmd))
      PROVE  UNCHANGED <<chan, frame>>
  BY <1>6 DEF Open, TrySw, TryMjpeg, Failed, CheckCtrl, PathError,
     GrabNothing, SendCommand, OtherThanThread, thVars
<1>7. ASSUME \/ BridgeIdle \/ BridgeActive
             \/ Discard \/ RequestIdr \/ SendVideo \/ Subscribe \/ IceConnected
             \/ Connected \/ KeyframeRequest \/ SessionEnd
      PROVE  UNCHANGED <<chan, frame>>
  BY <1>7 DEF BridgeIdle, BridgeActive, Discard, RequestIdr, SendVideo,
     Subscribe, IceConnected, Connected, KeyframeRequest, SessionEnd,
     NotBridge, NotSess, thVars
<1>8. CASE UNCHANGED vars
  BY <1>1, <1>8 DEF vars
<1> QED
  BY <1>1, <1>2, <1>3, <1>5, <1>6, <1>7, <1>8, StepCases

\* The channel of encoded frames holds what ChannelInv says in every state.
THEOREM ChannelHolds == Spec => []ChannelInv
<1>1. Init => ChannelInv
  BY VideoAssumption DEF Init, ChannelInv, NoEncodedFrameDropped
<1> QED
  BY <1>1, ChannelStep, PTL DEF Spec

\* The room found by channel_has_capacity is still there at try_send_frame.
THEOREM RoomIsKept == Spec => []NoEncodedFrameDropped
<1>1. ChannelInv => NoEncodedFrameDropped
  BY DEF ChannelInv
<1> QED
  BY <1>1, ChannelHolds, PTL

\* try_send_frame never meets a full channel: each frame that was encoded is
\* put into it, so the stream a decoder sees has no gap made by the thread.
THEOREM EveryFrameIsSent == Spec => [][Emit => chan' = Append(chan, frame)]_vars
<1>1. ChannelInv => (Emit => chan' = Append(chan, frame))
  BY DEF ChannelInv, NoEncodedFrameDropped, Emit
<1> QED
  BY <1>1, ChannelHolds, PTL

-----------------------------------------------------------------------------
(* The settings after a queue of commands *)

\* The greatest of a set of numbers up to n is one of them and above the others.
LEMMA MaxIsGreatest ==
    ASSUME NEW n \in Nat, NEW S \in SUBSET (1..n), S # {}
    PROVE  Max(S) \in S /\ \A y \in S : Max(S) >= y
<1> DEFINE B == {n - y : y \in S}
<1>1. B # {} /\ B \subseteq Nat
  <2>1. \A y \in S : n - y \in Nat OBVIOUS
  <2>2. PICK y \in S : TRUE OBVIOUS
  <2>3. n - y \in B OBVIOUS
  <2> QED BY <2>1, <2>3
<1>2. PICK b \in B : \A y \in B : ~(<<y, b>> \in OpToRel(<, Nat))
  <2> HIDE DEF B
  <2> QED BY <1>1, WFMin, NatLessThanWellFounded
<1>3. PICK x \in S : b = n - x OBVIOUS
<1>4. ASSUME NEW y \in S PROVE x >= y
  <2>1. n - y \in B OBVIOUS
  <2>2. n - y < b => <<n - y, b>> \in OpToRel(<, Nat) BY <1>1, <2>1 DEF OpToRel
  <2>3. ~(n - y < b) BY <2>1, <2>2, <1>2, Zenon
  <2> QED BY <1>3, <2>3
<1> QED BY <1>4 DEF Max

\* g folds cmds over the sets of positions, as FoldLeft's definition does.
Folds(g, s, cmds, n) ==
    g = [S \in SUBSET (1..n) |->
            IF S = {} THEN s ELSE Apply(g[S \ {Max(S)}], cmds[Max(S)])]

\* The sets of positions have such a fold.
LEMMA FoldExists ==
    ASSUME NEW s, NEW cmds, NEW m \in Nat
    PROVE  \E g : Folds(g, s, cmds, m)
<1> DEFINE Bad == {n \in Nat : ~ \E g : Folds(g, s, cmds, n)}
<1>1. ASSUME NEW n \in Bad, \A k \in Bad : ~(<<k, n>> \in OpToRel(<, Nat)) PROVE FALSE
  <2>1. CASE n = 0
    <3> DEFINE g == [S \in SUBSET (1..0) |-> s]
    <3>1. \A S \in SUBSET (1..0) : S = {} OBVIOUS
    <3>2. Folds(g, s, cmds, 0) BY <3>1 DEF Folds
    <3> QED BY <2>1, <3>2
  <2>2. CASE n # 0
    <3>1. n \in Nat /\ n - 1 \in Nat /\ n - 1 < n BY <2>2
    <3>2. n - 1 \notin Bad BY <1>1, <3>1 DEF OpToRel
    <3>3. PICK f : Folds(f, s, cmds, n - 1) BY <3>1, <3>2
    <3>4. \A S \in SUBSET (1..(n - 1)) :
              f[S] = IF S = {} THEN s ELSE Apply(f[S \ {Max(S)}], cmds[Max(S)])
      BY <3>3, Zenon DEF Folds
    <3> DEFINE g == [S \in SUBSET (1..n) |->
                        IF n \in S THEN Apply(f[S \ {n}], cmds[n]) ELSE f[S]]
    <3>5. \A S \in SUBSET (1..(n - 1)) : S \in SUBSET (1..n) /\ n \notin S /\ g[S] = f[S]
      BY <3>1
    <3>6. ASSUME NEW S \in SUBSET (1..n)
          PROVE  g[S] = IF S = {} THEN s ELSE Apply(g[S \ {Max(S)}], cmds[Max(S)])
      <4>1. CASE n \in S
        <5>1. Max(S) = n
          <6>1. Max(S) \in S /\ Max(S) >= n BY <3>1, <4>1, MaxIsGreatest
          <6>2. Max(S) \in 1..n BY <6>1
          <6>3. \A k \in 1..n : k >= n => k = n BY <3>1
          <6> HIDE DEF Bad
          <6> QED BY <6>1, <6>2, <6>3, Zenon
        <5>2. S \ {n} \in SUBSET (1..(n - 1)) BY <3>1
        <5>3. g[S \ {n}] = f[S \ {n}] BY <5>2, <3>5, Zenon
        <5>4. g[S] = Apply(f[S \ {n}], cmds[n]) BY <4>1, Zenon
        <5> HIDE DEF g
        <5> QED BY <4>1, <5>1, <5>3, <5>4
      <4>2. CASE n \notin S
        <5>1. S \in SUBSET (1..(n - 1)) BY <4>2, <3>1
        <5>2. g[S] = f[S] BY <4>2, Zenon
        <5>3. S \ {Max(S)} \in SUBSET (1..(n - 1)) BY <5>1
        <5>4. g[S \ {Max(S)}] = f[S \ {Max(S)}] BY <5>3, <3>5, Zenon
        <5> HIDE DEF g
        <5> QED BY <5>1, <5>2, <5>4, <3>4
      <4> QED BY <4>1, <4>2
    <3>7. Folds(g, s, cmds, n) BY <3>6, Zenon DEF Folds
    <3> HIDE DEF g
    <3> QED BY <3>7
  <2> QED BY <2>1, <2>2
<1>2. Bad = {}
  <2> HIDE DEF Bad
  <2>1. Bad \subseteq Nat BY DEF Bad
  <2> QED BY <1>1, <2>1, WFMin, NatLessThanWellFounded
<1> QED BY <1>2

\* The fold of the model takes such a g to the end of the queue.
LEMMA FoldIs ==
    ASSUME NEW s, NEW cmds \in Seq(Command), NEW m, m = Len(cmds)
    PROVE  \E g : Folds(g, s, cmds, m) /\ ApplyAll(s, cmds) = g[1..m]
<1> DEFINE h == CHOOSE g : Folds(g, s, cmds, m)
<1>0. m \in Nat OBVIOUS
<1>1. Folds(h, s, cmds, m) BY <1>0, FoldExists, Zenon
<1>2. DOMAIN cmds = 1..m OBVIOUS
<1>3. ApplyAll(s, cmds) = h[1..m]
  BY <1>2, Zenon DEF ApplyAll, FoldLeft, MapThenFoldSet, Folds
<1> QED BY <1>1, <1>3

\* The fold of m positions, from the fold of those before the last.
LEMMA FoldLast ==
    ASSUME NEW s, NEW cmds, NEW m \in Nat, NEW g, Folds(g, s, cmds, m)
    PROVE  /\ g[{}] = s
           /\ \A k \in 1..m : g[1..k] = Apply(g[1..(k - 1)], cmds[k])
<1>1. \A S \in SUBSET (1..m) :
          g[S] = IF S = {} THEN s ELSE Apply(g[S \ {Max(S)}], cmds[Max(S)])
  BY Zenon DEF Folds
<1>2. ASSUME NEW k \in 1..m PROVE g[1..k] = Apply(g[1..(k - 1)], cmds[k])
  <2>1. 1..k \in SUBSET (1..m) /\ 1..k # {} /\ k \in 1..k /\ k \in Nat OBVIOUS
  <2>2. Max(1..k) = k
    <3>1. Max(1..k) \in 1..k /\ Max(1..k) >= k BY <2>1, MaxIsGreatest
    <3>2. \A j \in 1..k : j >= k => j = k OBVIOUS
    <3> QED BY <3>1, <3>2, Zenon
  <2>3. (1..k) \ {k} = 1..(k - 1) OBVIOUS
  <2> QED BY <1>1, <2>1, <2>2, <2>3
<1> QED BY <1>1, <1>2

\* The settings after no command, and after one more.
LEMMA ApplyAllStep ==
    /\ \A s : ApplyAll(s, <<>>) = s
    /\ \A s, cmd, cmds : cmds \in Seq(Command) /\ cmd \in Command =>
           ApplyAll(s, Append(cmds, cmd)) = Apply(ApplyAll(s, cmds), cmd)
<1>1. ASSUME NEW s PROVE ApplyAll(s, <<>>) = s
  <2>1. <<>> \in Seq(Command) /\ Len(<<>>) = 0 /\ 1..0 = {} /\ 0 \in Nat OBVIOUS
  <2>2. \A e, k :
            e \in Seq(Command) /\ k = Len(e) =>
                \E g : Folds(g, s, e, k) /\ ApplyAll(s, e) = g[1..k]
    BY FoldIs
  <2>3. PICK g : Folds(g, s, <<>>, 0) /\ ApplyAll(s, <<>>) = g[1..0]
    BY <2>1, <2>2
  <2>4. \A h, c, k : k \in Nat /\ Folds(h, s, c, k) => h[{}] = s BY FoldLast, Zenon
  <2> QED BY <2>1, <2>3, <2>4
<1>2. ASSUME NEW s, NEW cmd \in Command, NEW cmds \in Seq(Command)
      PROVE  ApplyAll(s, Append(cmds, cmd)) = Apply(ApplyAll(s, cmds), cmd)
  <2> DEFINE m == Len(cmds)
             c == Append(cmds, cmd)
  <2>1. /\ m \in Nat /\ c \in Seq(Command) /\ Len(c) = m + 1 /\ c[m + 1] = cmd
        /\ \A k \in 1..m : c[k] = cmds[k]
    OBVIOUS
  <2> HIDE DEF c
  <2>2. PICK f : Folds(f, s, cmds, m) /\ ApplyAll(s, cmds) = f[1..m]
    BY FoldIs
  <2>3. PICK g : Folds(g, s, c, m + 1) /\ ApplyAll(s, c) = g[1..(m + 1)]
    BY <2>1, FoldIs
  <2> HIDE DEF m
  <2>4. f[{}] = s /\ \A k \in 1..m : f[1..k] = Apply(f[1..(k - 1)], cmds[k])
    BY <2>1, <2>2, FoldLast
  <2>5. g[{}] = s /\ \A k \in 1..(m + 1) : g[1..k] = Apply(g[1..(k - 1)], c[k])
    BY <2>1, <2>3, FoldLast
  <2> DEFINE Bad == {k \in 0..m : f[1..k] # g[1..k]}
  <2>6. ASSUME NEW k \in Bad, \A j \in Bad : ~(<<j, k>> \in OpToRel(<, Nat)) PROVE FALSE
    <3>1. k \in 0..m /\ f[1..k] # g[1..k] OBVIOUS
    <3>2. k # 0
      <4>1. 1..0 = {} OBVIOUS
      <4> QED BY <4>1, <3>1, <2>4, <2>5
    <3>3. k \in 1..m /\ k \in 1..(m + 1) /\ k - 1 \in 0..m /\ k - 1 \in Nat /\ k \in Nat
          /\ k - 1 < k
      BY <3>1, <3>2, <2>1
    <3>4. k - 1 \notin Bad BY <2>6, <3>3 DEF OpToRel
    <3>5. f[1..(k - 1)] = g[1..(k - 1)] BY <3>3, <3>4
    <3> QED BY <3>1, <3>3, <3>5, <2>1, <2>4, <2>5
  <2>7. Bad = {}
    <3>1. Bad \subseteq Nat BY <2>1
    <3> HIDE DEF Bad
    <3> QED BY <2>6, <3>1, WFMin, NatLessThanWellFounded
  <2>8. f[1..m] = g[1..m]
    <3>1. m \in 0..m /\ m \notin Bad BY <2>1, <2>7
    <3> QED BY <3>1
  <2>9. m + 1 \in 1..(m + 1) /\ (m + 1) - 1 = m BY <2>1
  <2>10. g[1..(m + 1)] = Apply(g[1..m], c[m + 1])
    BY <2>5, <2>9
  <2> QED BY <2>1, <2>2, <2>3, <2>8, <2>10 DEF c
<1> QED BY <1>1, <1>2

\* Apply changes one setting.
LEMMA ApplyOne ==
    ASSUME NEW s \in Settings, NEW cmd \in Command
    PROVE  Apply(s, cmd) \in Settings
  BY DEF Settings, Command, Apply, Value

\* The first k commands of a queue, and one more.
LEMMA QueuePrefixes ==
    ASSUME NEW cmds \in Seq(Command)
    PROVE  /\ SubSeq(cmds, 1, 0) = <<>> /\ SubSeq(cmds, 1, Len(cmds)) = cmds
           /\ \A k \in 1..Len(cmds) :
                  /\ SubSeq(cmds, 1, k - 1) \in Seq(Command) /\ cmds[k] \in Command
                  /\ SubSeq(cmds, 1, k) = Append(SubSeq(cmds, 1, k - 1), cmds[k])
<1>1. ASSUME NEW k \in 1..Len(cmds)
      PROVE  SubSeq(cmds, 1, k) = Append(SubSeq(cmds, 1, k - 1), cmds[k])
  OBVIOUS
<1> QED BY <1>1

\* What holds of the settings before the commands and stays when one more is
\* applied holds after them: here, their type, and that they are as they were
\* if no command changes what it meets.
LEMMA ApplyAllKeeps ==
    ASSUME NEW s \in Settings, NEW cmds \in Seq(Command)
    PROVE  /\ ApplyAll(s, cmds) \in Settings
           /\ ~Changes(s, cmds) => ApplyAll(s, cmds) = s
<1> DEFINE A(k) == ApplyAll(s, SubSeq(cmds, 1, k))
<1>0. /\ SubSeq(cmds, 1, 0) = <<>> /\ SubSeq(cmds, 1, Len(cmds)) = cmds
      /\ \A k \in 1..Len(cmds) :
             /\ SubSeq(cmds, 1, k - 1) \in Seq(Command) /\ cmds[k] \in Command
             /\ SubSeq(cmds, 1, k) = Append(SubSeq(cmds, 1, k - 1), cmds[k])
  BY QueuePrefixes, Zenon
<1>1. A(0) = s BY <1>0, ApplyAllStep, Zenon
<1>2. A(Len(cmds)) = ApplyAll(s, cmds) BY <1>0, Zenon
<1>3. ASSUME NEW k \in 1..Len(cmds) PROVE A(k) = Apply(A(k - 1), cmds[k])
  BY <1>0, ApplyAllStep, Zenon
<1>4. ~Changes(s, cmds) => \A k \in 1..Len(cmds) : Apply(A(k - 1), cmds[k]) = A(k - 1)
  BY Zenon DEF Changes
<1>5. \A k \in 1..Len(cmds) : cmds[k] \in Command BY <1>0, Zenon
<1> HIDE DEF A
<1> DEFINE Good(k) == A(k) \in Settings /\ (~Changes(s, cmds) => A(k) = s)
           Bad == {k \in 0..Len(cmds) : ~Good(k)}
<1>6. ASSUME NEW k \in Bad, \A j \in Bad : ~(<<j, k>> \in OpToRel(<, Nat)) PROVE FALSE
  <2>1. k \in 0..Len(cmds) /\ ~Good(k) /\ Len(cmds) \in Nat OBVIOUS
  <2>2. Good(0) BY <1>1
  <2>3. k # 0 BY <2>1, <2>2
  <2>4. k \in 1..Len(cmds) /\ k - 1 \in 0..Len(cmds) /\ k - 1 \in Nat /\ k \in Nat /\ k - 1 < k
    BY <2>1, <2>3
  <2>5. k - 1 \notin Bad BY <1>6, <2>4 DEF OpToRel
  <2>6. Good(k - 1) BY <2>4, <2>5
  <2>7. A(k) \in Settings BY <2>4, <2>6, <1>3, <1>5, ApplyOne
  <2>8. ~Changes(s, cmds) => A(k) = A(k - 1) BY <2>4, <1>3, <1>4
  <2> QED BY <2>1, <2>6, <2>7, <2>8
<1>7. Bad = {}
  <2>1. Bad \subseteq Nat OBVIOUS
  <2> HIDE DEF Bad
  <2> QED BY <1>6, <2>1, WFMin, NatLessThanWellFounded
<1>8. Len(cmds) \in 0..Len(cmds) /\ Len(cmds) \notin Bad BY <1>7
<1> QED BY <1>2, <1>8

-----------------------------------------------------------------------------
(* Types, and the settings on a device that only has MJPEG *)

Flags ==
    /\ fallback \in BOOLEAN /\ intra \in BOOLEAN /\ was_idle \in BOOLEAN
    /\ lagged \in BOOLEAN /\ peer_connected \in BOOLEAN /\ keyframe_flag \in BOOLEAN

Places ==
    /\ stage \in Path \cup {"open", "trySw", "tryMjpeg", "failed", "dead"}
    /\ source \in {"v4l2", "screen"} /\ formats \in Formats
    /\ bridge \in {"check", "drain", "recv", "ended"}
    /\ sess \in {"none", "waiting", "connecting", "connected"}
    /\ viewer \in {"nothing", "frames", "picture"}

Queues ==
    /\ cfg \in Settings /\ wanted \in Settings
    /\ ctrl \in Seq(Command) /\ Len(ctrl) <= CtrlCap /\ ncmds \in 0..MaxCmds
    /\ rx \in Seq(Frame) /\ Len(rx) <= BcastCap

\* Every step keeps the flags Boolean.
LEMMA FlagsStep ==
    ASSUME Flags, [Next]_vars
    PROVE  Flags'
<1> USE DEF Flags, OtherThanThread, NotBridge, NotSess, brVars, bcVars, seVars,
            thVars, confVars, ctlVars
<1>1. CASE Open \/ TrySw \/ TryMjpeg
  BY <1>1, Zenon DEF Open, TrySw, TryMjpeg, Enter
<1>2. CASE Failed \/ CheckCtrl \/ Emit \/ PathError
  BY <1>2, Zenon DEF Failed, CheckCtrl, Emit, PathError
<1>3. CASE Grab
  BY <1>3, Zenon DEF Grab
<1>4. CASE GrabNothing
  <2>1. (intra \/ keyframe_flag) \in BOOLEAN BY Zenon
  <2> QED BY <1>4, <2>1, Zenon DEF GrabNothing
<1>5. CASE \E cmd \in Command : SendCommand(cmd)
  BY <1>5, Zenon DEF SendCommand
<1>6. CASE BridgeIdle \/ BridgeActive \/ BridgeDrain
  BY <1>6, Zenon DEF BridgeIdle, BridgeActive, BridgeDrain
<1>7. CASE BridgeRecv
  BY <1>7, Zenon DEF BridgeRecv
<1>8. CASE Discard \/ RequestIdr \/ SendVideo \/ Subscribe
  BY <1>8, Zenon DEF Discard, RequestIdr, SendVideo, Subscribe
<1>9. CASE IceConnected \/ Connected \/ KeyframeRequest \/ SessionEnd
  BY <1>9, Zenon DEF IceConnected, Connected, KeyframeRequest, SessionEnd
<1>10. CASE UNCHANGED vars
  BY <1>10, Zenon DEF vars
<1> QED
  BY <1>1, <1>2, <1>3, <1>4, <1>5, <1>6, <1>7, <1>8, <1>9, <1>10, StepCases, Zenon

\* Every step keeps the places of the thread and of the two tasks.
LEMMA PlacesStep ==
    ASSUME Places, [Next]_vars
    PROVE  Places'
<1> USE DEF Places, Path, OtherThanThread, NotBridge, NotSess, brVars, bcVars, seVars,
            thVars, confVars, ctlVars
<1>1. CASE Open \/ TrySw \/ TryMjpeg
  BY <1>1 DEF Open, TrySw, TryMjpeg, Enter
<1>2. CASE Failed \/ CheckCtrl \/ Emit \/ PathError
  BY <1>2 DEF Failed, CheckCtrl, Emit, PathError, AfterError
<1>3. CASE Grab \/ GrabNothing
  BY <1>3 DEF Grab, GrabNothing
<1>4. CASE \E cmd \in Command : SendCommand(cmd)
  BY <1>4 DEF SendCommand
<1>5. CASE BridgeIdle \/ BridgeActive \/ BridgeDrain
  BY <1>5 DEF BridgeIdle, BridgeActive, BridgeDrain
<1>6. CASE BridgeRecv
  BY <1>6 DEF BridgeRecv
<1>7. CASE Discard \/ RequestIdr \/ SendVideo \/ Subscribe
  BY <1>7 DEF Discard, RequestIdr, SendVideo, Subscribe
<1>8. CASE IceConnected \/ Connected \/ KeyframeRequest \/ SessionEnd
  BY <1>8 DEF IceConnected, Connected, KeyframeRequest, SessionEnd
<1>9. CASE UNCHANGED vars
  BY <1>9 DEF vars
<1> QED
  BY <1>1, <1>2, <1>3, <1>4, <1>5, <1>6, <1>7, <1>8, <1>9, StepCases, Zenon

\* Every step keeps the settings, the commands and the broadcast in their
\* types and bounds.
LEMMA QueuesStep ==
    ASSUME Queues, ChannelInv, [Next]_vars
    PROVE  Queues'
<1> USE VideoAssumption DEF Queues
<1> DEFINE Rest == UNCHANGED <<cfg, wanted, ctrl, ncmds>>
           Cast == UNCHANGED rx
<1>1. CASE Rest /\ Cast
  BY <1>1
<1>2. ASSUME \/ Open \/ TrySw \/ TryMjpeg \/ PathError \/ Grab \/ GrabNothing
             \/ Emit \/ BridgeIdle \/ BridgeActive \/ BridgeDrain \/ RequestIdr
             \/ IceConnected \/ Connected \/ KeyframeRequest
      PROVE  Rest /\ Cast
  BY <1>2 DEF Open, TrySw, TryMjpeg, PathError, Grab, GrabNothing, Emit,
     BridgeIdle, BridgeActive, BridgeDrain, RequestIdr, IceConnected, Connected,
     KeyframeRequest, OtherThanThread, NotBridge, NotSess, brVars, bcVars, seVars,
     thVars, confVars, ctlVars
<1>3. CASE Failed
  <2>1. Configured \in Settings
    BY DEF Configured, Settings, Value
  <2>2. cfg' \in {cfg, Configured} /\ wanted' = wanted /\ (ctrl' = ctrl \/ ctrl' = <<>>)
        /\ ncmds' = ncmds /\ Cast
    BY <1>3 DEF Failed, OtherThanThread, bcVars, confVars, ctlVars
  <2>3. <<>> \in Seq(Command) /\ Len(<<>>) = 0
    OBVIOUS
  <2>4. ctrl' \in Seq(Command) /\ Len(ctrl') <= CtrlCap
    <3>1. CASE ctrl' = ctrl
      BY <3>1
    <3>2. CASE ctrl' = <<>>
      <4>1. ctrl' \in Seq(Command) /\ Len(ctrl') = 0
        BY <3>2, <2>3, Zenon
      <4> QED
        BY <4>1
    <3> QED
      BY <2>2, <3>1, <3>2
  <2> QED
    BY <2>1, <2>2, <2>4
<1>4. CASE CheckCtrl
  <2>1. ApplyAll(cfg, ctrl) \in Settings /\ ApplyAll(wanted, ctrl) \in Settings
    BY ApplyAllKeeps
  <2>2. cfg' \in {cfg, ApplyAll(cfg, ctrl)} /\ wanted' = ApplyAll(wanted, ctrl)
        /\ ctrl' = <<>> /\ ncmds' = ncmds /\ Cast
    BY <1>4, Zenon DEF CheckCtrl, OtherThanThread, bcVars
  <2> QED
    BY <2>1, <2>2
<1>5. CASE \E cmd \in Command : SendCommand(cmd)
  <2>1. PICK cmd \in Command : SendCommand(cmd)
    BY <1>5
  <2>2. /\ cfg' = cfg /\ wanted' = wanted /\ ncmds < MaxCmds /\ ncmds' = ncmds + 1
        /\ (ctrl' = ctrl \/ (Len(ctrl) < CtrlCap /\ ctrl' = Append(ctrl, cmd)))
        /\ Cast
    BY <2>1, Zenon DEF SendCommand, thVars, confVars, OtherThanThread, bcVars
  <2>3. Append(ctrl, cmd) \in Seq(Command) /\ Len(Append(ctrl, cmd)) = Len(ctrl) + 1
    BY <2>1
  <2> QED
    BY <2>2, <2>3
<1>6. CASE BridgeRecv
  <2>1. Rest
    BY <1>6 DEF BridgeRecv, NotBridge, thVars, confVars, ctlVars
  <2>2. \/ Cast
        \/ /\ chan # <<>> /\ Len(rx) < BcastCap /\ rx' = Append(rx, Head(chan))
        \/ /\ chan # <<>> /\ Len(rx) >= BcastCap /\ rx' = Append(Tail(rx), Head(chan))
    BY <1>6 DEF BridgeRecv, bcVars
  <2>3. chan # <<>> => Head(chan) \in Frame
    BY DEF ChannelInv
  <2>4. CASE Len(rx) >= BcastCap
    <3>1. Tail(rx) \in Seq(Frame) /\ Len(Tail(rx)) = Len(rx) - 1
      BY <2>4
    <3> QED
      BY <3>1, <2>1, <2>2, <2>3, <2>4
  <2>5. CASE Len(rx) < BcastCap
    <3>1. chan # <<>> => /\ Append(rx, Head(chan)) \in Seq(Frame)
                         /\ Len(Append(rx, Head(chan))) = Len(rx) + 1
      BY <2>3
    <3>2. rx' = rx \/ (chan # <<>> /\ rx' = Append(rx, Head(chan)))
      BY <2>2, <2>5
    <3>3. rx' \in Seq(Frame) /\ Len(rx') <= BcastCap
      BY <3>1, <3>2, <2>5
    <3> QED
      BY <2>1, <3>3
  <2> QED
    BY <2>4, <2>5
<1>7. CASE Discard \/ SendVideo \/ Subscribe \/ SessionEnd
  <2>1. Rest
    BY <1>7 DEF Discard, SendVideo, Subscribe, SessionEnd, NotSess, thVars, confVars,
       ctlVars
  <2>2. Cast \/ rx' = <<>> \/ (rx # <<>> /\ rx' = Tail(rx))
    BY <1>7 DEF Discard, SendVideo, Subscribe, SessionEnd
  <2>3. rx # <<>> => Tail(rx) \in Seq(Frame) /\ Len(Tail(rx)) = Len(rx) - 1
    OBVIOUS
  <2>4. rx' \in Seq(Frame) /\ Len(rx') <= BcastCap
    <3>1. CASE rx' = rx
      BY <3>1
    <3>2. CASE rx' = <<>>
      <4>1. <<>> \in Seq(Frame) /\ Len(<<>>) = 0
        OBVIOUS
      <4>2. rx' \in Seq(Frame) /\ Len(rx') = 0
        BY <3>2, <4>1, Zenon
      <4> QED
        BY <4>2
    <3>3. CASE rx # <<>> /\ rx' = Tail(rx)
      <4>1. rx' \in Seq(Frame) /\ Len(rx') = Len(rx) - 1
        BY <3>3, <2>3, Zenon
      <4> QED
        BY <4>1
    <3> QED
      BY <2>2, <3>1, <3>2, <3>3
  <2> QED
    BY <2>1, <2>4
<1>8. CASE UNCHANGED vars
  BY <1>1, <1>8 DEF vars
<1> QED
  BY <1>1, <1>2, <1>3, <1>4, <1>5, <1>6, <1>7, <1>8, StepCases

\* A device without H.264 and YUYV never gets to the two paths that lose a
\* command, so its settings are those that were asked for.
MjpegOnly ==
    formats \cap {"H264", "YUYV"} = {} =>
        /\ stage \notin {"hw", "sw"}
        /\ ~fallback => cfg = wanted

\* Every step keeps the settings of such a device those asked for.
LEMMA MjpegStep ==
    ASSUME Queues, Flags, MjpegOnly, [Next]_vars
    PROVE  MjpegOnly'
<1> USE DEF MjpegOnly
<1>0. ASSUME formats' \cap {"H264", "YUYV"} = {}, formats' = formats
      PROVE  "H264" \notin formats /\ "YUYV" \notin formats /\ stage \notin {"hw", "sw"}
  BY <1>0
<1>1. CASE UNCHANGED <<formats, stage, cfg, wanted, fallback>>
  BY <1>1
<1>2. ASSUME \/ Grab \/ GrabNothing \/ Emit
             \/ (\E cmd \in Command : SendCommand(cmd))
             \/ BridgeIdle \/ BridgeActive \/ BridgeDrain \/ BridgeRecv
             \/ Discard \/ RequestIdr \/ SendVideo \/ Subscribe \/ IceConnected
             \/ Connected \/ KeyframeRequest \/ SessionEnd
      PROVE  UNCHANGED <<formats, stage, cfg, wanted, fallback>>
  BY <1>2 DEF Grab, GrabNothing, Emit, SendCommand, BridgeIdle, BridgeActive,
     BridgeDrain, BridgeRecv, Discard, RequestIdr, SendVideo, Subscribe, IceConnected,
     Connected, KeyframeRequest, SessionEnd, NotBridge, NotSess, thVars, confVars
<1>3. CASE Open
  BY <1>3 DEF Open, Enter, confVars
<1>4. CASE TrySw \/ TryMjpeg
  BY <1>4 DEF TrySw, TryMjpeg, Enter, confVars
<1>5. CASE Failed
  BY <1>5, Zenon DEF Failed, confVars
<1>6. CASE PathError
  BY <1>6 DEF PathError, AfterError, confVars
<1>7. CASE CheckCtrl
  <2>1. formats' = formats /\ fallback' = fallback
    BY <1>7 DEF CheckCtrl
  <2>2. SUFFICES ASSUME formats \cap {"H264", "YUYV"} = {}
                 PROVE  stage' \notin {"hw", "sw"} /\ (~fallback => cfg' = wanted')
    BY <2>1
  <2>3. stage \in Path /\ stage \notin {"hw", "sw"}
    BY <1>7, <2>2 DEF CheckCtrl
  <2>4. stage \in {"mjpeg", "screen"}
    BY <2>3 DEF Path
  <2>5. ~Changes(cfg, ctrl) => ApplyAll(cfg, ctrl) = cfg
    BY ApplyAllKeeps DEF Queues
  <2>6. \/ ~Changes(cfg, ctrl) /\ stage' = stage /\ cfg' = cfg
        \/ stage' = "open" /\ cfg' = ApplyAll(cfg, ctrl)
    BY <1>7, <2>4, Zenon DEF CheckCtrl
  <2>7. wanted' = ApplyAll(wanted, ctrl)
    BY <1>7 DEF CheckCtrl
  <2> QED
    BY <2>2, <2>4, <2>5, <2>6, <2>7
<1>8. CASE UNCHANGED vars
  BY <1>1, <1>8 DEF vars
<1> QED
  BY <1>1, <1>2, <1>3, <1>4, <1>5, <1>6, <1>7, <1>8, StepCases

\* What TypeOK and SettingsFollowMjpeg follow from.
PipelineInv == Flags /\ Places /\ Queues /\ ChannelInv /\ MjpegOnly

\* It holds in every state the pipeline reaches.
LEMMA PipelineHolds == Spec => []PipelineInv
<1>1. Init => PipelineInv
  <2> SUFFICES ASSUME Init PROVE PipelineInv
    OBVIOUS
  <2>1. Flags
    BY Zenon DEF Init, Flags
  <2>2. Places
    BY VideoAssumption DEF Init, Places
  <2>3. Queues
    BY VideoAssumption DEF Init, Queues, Configured, Settings, Value
  <2>4. ChannelInv
    BY VideoAssumption DEF Init, ChannelInv, NoEncodedFrameDropped
  <2>5. MjpegOnly
    BY DEF Init, MjpegOnly
  <2> QED
    BY <2>1, <2>2, <2>3, <2>4, <2>5, Zenon DEF PipelineInv
<1>2. PipelineInv /\ [Next]_vars => PipelineInv'
  BY FlagsStep, PlacesStep, QueuesStep, ChannelStep, MjpegStep, Zenon DEF PipelineInv
<1> QED
  BY <1>1, <1>2, PTL DEF Spec

\* Every variable of the pipeline keeps its type, and the control channel, the
\* channel of encoded frames and the broadcast never hold more than they may.
THEOREM TypeCorrect == Spec => []TypeOK
<1>1. PipelineInv => TypeOK
  BY Zenon DEF PipelineInv, Flags, Places, Queues, ChannelInv, TypeOK
<1> QED
  BY <1>1, PipelineHolds, PTL

\* On a device that has neither H.264 nor YUYV every path runs with the
\* settings the browser last asked for (video.rs:135), however many commands
\* are taken in one look at the control channel and whatever restarts follow.
THEOREM SettingsReachMjpeg == Spec => []SettingsFollowMjpeg
<1>1. PipelineInv => SettingsFollowMjpeg
  BY Zenon DEF PipelineInv, MjpegOnly, SettingsFollowMjpeg, SettingsFollow
<1> QED
  BY <1>1, PipelineHolds, PTL

=============================================================================
