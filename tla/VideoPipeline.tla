---------------------------- MODULE VideoPipeline ----------------------------
(***************************************************************************)
(* The way of a video frame and of a video setting inside the agent:       *)
(*                                                                         *)
(*   capture thread (video.rs) -> mpsc channel -> bridge task (main.rs)    *)
(*     -> broadcast -> the session that is connected (webrtc.rs)           *)
(*   HID thread -> control channel -> capture thread                       *)
(*                                                                         *)
(* The flags peer_connected and keyframe_flag are set by the session and   *)
(* read by the bridge and by the capture thread.  What a frame shows is    *)
(* left out; it is "idr" if a decoder can start from it and "p" otherwise. *)
(***************************************************************************)
EXTENDS Naturals, Sequences, SequencesExt

CONSTANTS
    ChanCap,   \* capacity of the mpsc channel (32)
    BcastCap,  \* capacity of the broadcast channel (32)
    CtrlCap,   \* bound: commands waiting in the control channel (unbounded)
    MaxCmds,   \* bound: commands sent in all
    Source,    \* config.video.source
    HwEncode,  \* config.video.hw_encode
    Formats    \* the pixel formats the capture device may offer, one set each

ASSUME VideoAssumption ==
    /\ ChanCap \in Nat \ {0} /\ BcastCap \in Nat \ {0}
    /\ CtrlCap \in Nat /\ MaxCmds \in Nat
    /\ Source \in {"v4l2", "screen"} /\ HwEncode \in BOOLEAN
    /\ Formats \subseteq SUBSET {"H264", "YUYV", "MJPG"}

VARIABLES
    stage,          \* what the capture thread is doing
    source,         \* cfg.source: becomes "screen" when main falls back
    fallback,       \* the thread is in main's fallback, without ctrl_rx
    formats,        \* what the device offers
    cfg,            \* the settings of run_with_ctrl
    wanted,         \* history: cfg as every command taken so far makes it
    ctrl,           \* the control channel
    ncmds,          \* history: commands sent
    intra,          \* the encoder's next frame is an IDR
    frame,          \* the frame captured and not yet sent, or "none"
    chan,           \* the mpsc channel
    bridge,         \* the bridge task
    was_idle,       \* its local
    rx,             \* the session's broadcast receiver
    lagged,         \* it missed frames since the last try_recv
    sess,           \* the session
    viewer,         \* what the browser has got since it connected
    peer_connected, keyframe_flag

confVars == <<source, fallback, formats, cfg, wanted>>
thVars   == <<stage, confVars, intra, frame>>
ctlVars  == <<ctrl, ncmds>>
brVars   == <<bridge, was_idle>>
seVars   == <<sess, viewer, peer_connected>>
bcVars   == <<rx, lagged>>
vars == <<stage, source, fallback, formats, cfg, wanted, ctrl, ncmds, intra,
          frame, chan, bridge, was_idle, rx, lagged, sess, viewer,
          peer_connected, keyframe_flag>>

\* Settings and the commands that change one of them.
Value == {1, 2}
Settings == [res : Value, fps : Value]
Command == [of : {"res", "fps"}, to : Value]
Frame == {"idr", "p"}

Path == {"hw", "sw", "mjpeg", "screen"}

TypeOK ==
    /\ stage \in Path \cup {"open", "trySw", "tryMjpeg", "failed", "dead"}
    /\ source \in {"v4l2", "screen"} /\ fallback \in BOOLEAN
    /\ formats \in Formats
    /\ cfg \in Settings /\ wanted \in Settings
    /\ ctrl \in Seq(Command) /\ Len(ctrl) <= CtrlCap /\ ncmds \in 0..MaxCmds
    /\ intra \in BOOLEAN /\ frame \in Frame \cup {"none"}
    /\ chan \in Seq(Frame) /\ Len(chan) <= ChanCap
    /\ bridge \in {"check", "drain", "recv", "ended"} /\ was_idle \in BOOLEAN
    /\ rx \in Seq(Frame) /\ Len(rx) <= BcastCap /\ lagged \in BOOLEAN
    /\ sess \in {"none", "waiting", "connecting", "connected"}
    /\ viewer \in {"nothing", "frames", "picture"}
    /\ peer_connected \in BOOLEAN /\ keyframe_flag \in BOOLEAN

Configured == [res |-> 1, fps |-> 1]

Init ==
    /\ stage = "open" /\ source = Source /\ fallback = FALSE
    /\ formats \in Formats
    /\ cfg = Configured /\ wanted = Configured
    /\ ctrl = <<>> /\ ncmds = 0
    /\ intra = TRUE /\ frame = "none"
    /\ chan = <<>>
    /\ bridge = "check" /\ was_idle = TRUE
    /\ rx = <<>> /\ lagged = FALSE
    /\ sess = "none" /\ viewer = "nothing"
    /\ peer_connected = FALSE /\ keyframe_flag = FALSE

-----------------------------------------------------------------------------
(* The capture thread: run_with_ctrl, its four paths, and main's fallback *)

Apply(s, cmd) == [s EXCEPT ![cmd.of] = cmd.to]

\* The settings after the commands of a queue.
ApplyAll(s, cmds) == FoldLeft(Apply, s, cmds)

\* check_video_ctrl: does one of the commands change the settings it meets?
Changes(s, cmds) ==
    \E i \in 1..Len(cmds) :
        LET before == ApplyAll(s, SubSeq(cmds, 1, i - 1)) IN
            Apply(before, cmds[i]) # before

\* A path starts with a new encoder.
Enter(p) == stage' = p /\ intra' = TRUE

OtherThanThread == <<chan, brVars, bcVars, seVars, keyframe_flag>>

\* The top of the loop: screen capture, or the V4L2 device and its H.264.
\* Neither a display nor the device need be there.
Open ==
    /\ stage = "open"
    /\ \/ source = "screen" /\ Enter("screen")
       \/ source = "v4l2" /\ HwEncode /\ "H264" \in formats /\ Enter("hw")
       \/ /\ source = "v4l2" /\ ~(HwEncode /\ "H264" \in formats)
          /\ stage' = "trySw" /\ UNCHANGED intra
       \/ stage' = "failed" /\ UNCHANGED intra
    /\ UNCHANGED <<confVars, ctlVars, frame, OtherThanThread>>

\* run_sw_h264 and, if it returns an error, run_mjpeg_h264.
TrySw ==
    /\ stage = "trySw"
    /\ \/ "YUYV" \in formats /\ Enter("sw")
       \/ "YUYV" \notin formats /\ stage' = "tryMjpeg" /\ UNCHANGED intra
    /\ UNCHANGED <<confVars, ctlVars, frame, OtherThanThread>>

TryMjpeg ==
    /\ stage = "tryMjpeg"
    /\ \/ "MJPG" \in formats /\ Enter("mjpeg")
       \/ "MJPG" \notin formats /\ stage' = "failed" /\ UNCHANGED intra
    /\ UNCHANGED <<confVars, ctlVars, frame, OtherThanThread>>

\* run_with_ctrl returns an error.  main tries the screen once, with the
\* configured settings and no control channel: the receiver is dropped.
Failed ==
    /\ stage = "failed"
    /\ IF source = "screen"
       THEN stage' = "dead" /\ UNCHANGED <<confVars, ctlVars>>
       ELSE /\ stage' = "open" /\ source' = "screen" /\ fallback' = TRUE
            /\ cfg' = Configured
            /\ ctrl' = <<>> /\ UNCHANGED <<formats, wanted, ncmds>>
    /\ UNCHANGED <<intra, frame, OtherThanThread>>

\* Where an error of a path leads: try_hw_h264's result is only tested with
\* is_ok, run_sw_h264's only logged; the other two leave run_with_ctrl.
AfterError(p) ==
    CASE p = "hw" -> "trySw" [] p = "sw" -> "tryMjpeg" [] OTHER -> "failed"

\* The device or the encoder reports an error.
PathError ==
    /\ stage \in Path /\ frame = "none"
    /\ stage' = AfterError(stage)
    /\ UNCHANGED <<confVars, ctlVars, intra, frame, OtherThanThread>>

\* Mutant of CheckCtrl: one command is taken into account, the rest dropped.
CheckCtrlFirstOnly ==
    /\ stage \in Path /\ frame = "none" /\ ctrl # <<>>
    /\ ctrl' = <<>>
    /\ wanted' = ApplyAll(wanted, ctrl)
    /\ IF Apply(cfg, Head(ctrl)) = cfg
       THEN UNCHANGED <<stage, cfg>>
       ELSE IF stage \in {"mjpeg", "screen"}
            THEN stage' = "open" /\ cfg' = Apply(cfg, Head(ctrl))
            ELSE stage' = AfterError(stage) /\ UNCHANGED cfg
    /\ UNCHANGED <<source, fallback, formats, ncmds, intra, frame, OtherThanThread>>

\* Mutant of CheckCtrl: commands are read after the check for room.
CheckCtrlWhenRoom ==
    /\ stage \in Path /\ frame = "none" /\ ctrl # <<>>
    /\ Len(chan) < ChanCap
    /\ ctrl' = <<>>
    /\ wanted' = ApplyAll(wanted, ctrl)
    /\ IF ~Changes(cfg, ctrl)
       THEN UNCHANGED <<stage, cfg>>
       ELSE IF stage \in {"mjpeg", "screen"}
            THEN stage' = "open" /\ cfg' = ApplyAll(cfg, ctrl)
            ELSE stage' = AfterError(stage) /\ UNCHANGED cfg
    /\ UNCHANGED <<source, fallback, formats, ncmds, intra, frame, OtherThanThread>>

\* A pass of the path's loop starts with check_video_ctrl: all the commands
\* are taken.  If one changed a setting, the path returns the new settings as
\* an error whose text is "video_restart:..."; run_with_ctrl reads it if the
\* path is MJPEG or screen, and starts over.
CheckCtrl ==
    /\ stage \in Path /\ frame = "none" /\ ctrl # <<>>
    /\ ctrl' = <<>>
    /\ wanted' = ApplyAll(wanted, ctrl)
    /\ IF ~Changes(cfg, ctrl)
       THEN UNCHANGED <<stage, cfg>>
       ELSE IF stage \in {"mjpeg", "screen"}
            THEN stage' = "open" /\ cfg' = ApplyAll(cfg, ctrl)
            ELSE stage' = AfterError(stage) /\ UNCHANGED cfg
    /\ UNCHANGED <<source, fallback, formats, ncmds, intra, frame, OtherThanThread>>

\* Mutant of Grab: a frame is captured whether or not there is room.
GrabUnchecked ==
    /\ stage \in Path /\ frame = "none" /\ ctrl = <<>>
    /\ IF stage = "hw"
       THEN frame' \in Frame /\ UNCHANGED <<intra, keyframe_flag>>
       ELSE /\ frame' = IF intra \/ keyframe_flag THEN "idr" ELSE "p"
            /\ intra' = FALSE /\ keyframe_flag' = FALSE
    /\ UNCHANGED <<stage, confVars, ctlVars, chan, brVars, bcVars, seVars>>

\* No command, and room in the channel: a frame is captured and encoded.  The
\* hardware encoder decides by itself what it emits; openh264 is told to emit
\* an IDR if the flag was up, which is lowered.
Grab ==
    /\ stage \in Path /\ frame = "none" /\ ctrl = <<>>
    /\ Len(chan) < ChanCap
    /\ IF stage = "hw"
       THEN frame' \in Frame /\ UNCHANGED <<intra, keyframe_flag>>
       ELSE /\ frame' = IF intra \/ keyframe_flag THEN "idr" ELSE "p"
            /\ intra' = FALSE /\ keyframe_flag' = FALSE
    /\ UNCHANGED <<stage, confVars, ctlVars, chan, brVars, bcVars, seVars>>

\* A capture that gives no frame: a JPEG that does not decode, or an output of
\* openh264 that is empty because it skipped the picture.  Its thread goes on;
\* the request for an IDR stays with the encoder until it emits something.
GrabNothing ==
    /\ stage \in Path \ {"hw"} /\ frame = "none" /\ ctrl = <<>>
    /\ Len(chan) < ChanCap
    /\ intra' = (intra \/ keyframe_flag) /\ keyframe_flag' = FALSE
    /\ UNCHANGED <<stage, confVars, ctlVars, frame, chan, brVars, bcVars, seVars>>

\* try_send_frame: a full channel drops the frame.
Emit ==
    /\ stage \in Path /\ frame # "none"
    /\ chan' = IF Len(chan) < ChanCap THEN Append(chan, frame) ELSE chan
    /\ frame' = "none"
    /\ UNCHANGED <<stage, confVars, ctlVars, intra, brVars, bcVars, seVars,
                   keyframe_flag>>

\* The HID thread passes on a command of the browser; without a receiver the
\* send fails silently.
SendCommand(cmd) ==
    /\ ncmds < MaxCmds
    /\ ncmds' = ncmds + 1
    /\ IF fallback \/ stage = "dead" THEN UNCHANGED ctrl
       ELSE Len(ctrl) < CtrlCap /\ ctrl' = Append(ctrl, cmd)
    /\ UNCHANGED <<thVars, OtherThanThread>>

-----------------------------------------------------------------------------
(* The bridge task *)

NotBridge == <<thVars, ctlVars, seVars, keyframe_flag>>

\* Nobody is connected: leave the frames in the channel, look again later.
BridgeIdle ==
    /\ bridge = "check" /\ ~peer_connected
    /\ was_idle' = TRUE
    /\ UNCHANGED <<bridge, chan, bcVars, NotBridge>>

BridgeActive ==
    /\ bridge = "check" /\ peer_connected
    /\ bridge' = IF was_idle THEN "drain" ELSE "recv"
    /\ was_idle' = FALSE
    /\ UNCHANGED <<chan, bcVars, NotBridge>>

\* After an idle time the old frames are thrown away, until none is left.
BridgeDrain ==
    /\ bridge = "drain"
    /\ IF chan # <<>> THEN chan' = Tail(chan) /\ UNCHANGED bridge
                      ELSE bridge' = "recv" /\ UNCHANGED chan
    /\ UNCHANGED <<was_idle, bcVars, NotBridge>>

\* Mutant of BridgeRecv: an unbounded broadcast.
BridgeRecvUnbounded ==
    /\ bridge = "recv" /\ chan # <<>>
    /\ chan' = Tail(chan) /\ bridge' = "check"
    /\ rx' = IF sess = "none" THEN rx ELSE Append(rx, Head(chan))
    /\ UNCHANGED <<lagged, was_idle, NotBridge>>

\* One frame to whoever is subscribed; the oldest is overwritten if the
\* receiver is behind.  The channel ends when the capture thread is gone.
BridgeRecv ==
    /\ bridge = "recv"
    /\ \/ /\ chan # <<>>
          /\ chan' = Tail(chan) /\ bridge' = "check"
          /\ IF sess = "none" THEN UNCHANGED bcVars
             ELSE IF Len(rx) < BcastCap
             THEN rx' = Append(rx, Head(chan)) /\ UNCHANGED lagged
             ELSE rx' = Append(Tail(rx), Head(chan)) /\ lagged' = TRUE
       \/ /\ chan = <<>> /\ stage = "dead"
          /\ bridge' = "ended" /\ UNCHANGED <<chan, bcVars>>
    /\ UNCHANGED <<was_idle, NotBridge>>

-----------------------------------------------------------------------------
(* The session: webrtc::run, as the pipeline sees it *)

NotSess == <<thVars, ctlVars, chan, brVars>>

\* main subscribes a receiver for the new round.
Subscribe ==
    /\ sess = "none"
    /\ sess' = "waiting" /\ viewer' = "nothing"
    /\ rx' = <<>> /\ lagged' = FALSE
    /\ UNCHANGED <<peer_connected, keyframe_flag, NotSess>>

\* Not connected: what the broadcast has is discarded; try_recv returns an
\* error once after a lag, which ends the loop.
Discard ==
    /\ sess \in {"waiting", "connecting"} /\ (rx # <<>> \/ lagged)
    /\ IF lagged THEN lagged' = FALSE /\ UNCHANGED rx
                 ELSE rx' = <<>> /\ UNCHANGED lagged
    /\ UNCHANGED <<seVars, keyframe_flag, NotSess>>

\* ICE is connected, DTLS perhaps not yet: an IDR is requested in advance.
IceConnected ==
    /\ sess \in {"waiting", "connected"}
    /\ keyframe_flag' = TRUE
    /\ UNCHANGED <<seVars, bcVars, NotSess>>

\* Event::Connected raises the two flags, one after the other.
Connected ==
    /\ sess = "waiting"
    /\ sess' = "connecting"
    /\ peer_connected' = TRUE
    /\ UNCHANGED <<viewer, keyframe_flag, bcVars, NotSess>>

RequestIdr ==
    /\ sess = "connecting"
    /\ sess' = "connected"
    /\ keyframe_flag' = TRUE
    /\ UNCHANGED <<viewer, peer_connected, bcVars, NotSess>>

\* One frame per pass goes to the browser; after a lag, none.
SendVideo ==
    /\ sess = "connected" /\ (rx # <<>> \/ lagged)
    /\ IF lagged
       THEN lagged' = FALSE /\ UNCHANGED <<rx, viewer>>
       ELSE /\ rx' = Tail(rx) /\ UNCHANGED lagged
            /\ viewer' = IF Head(rx) = "idr" THEN "picture"
                         ELSE IF viewer = "nothing" THEN "frames" ELSE viewer
    /\ UNCHANGED <<sess, peer_connected, keyframe_flag, NotSess>>

\* Mutant of KeyframeRequest: the event is only logged.
KeyframeRequestIgnored ==
    /\ sess = "connected" /\ viewer = "frames"
    /\ UNCHANGED <<keyframe_flag, seVars, bcVars, NotSess>>

\* A browser that gets frames it cannot decode asks for an IDR.
KeyframeRequest ==
    /\ sess = "connected" /\ viewer = "frames"
    /\ keyframe_flag' = TRUE
    /\ UNCHANGED <<seVars, bcVars, NotSess>>

\* The session ends, in webrtc.rs or by main.
SessionEnd ==
    /\ sess # "none"
    /\ sess' = "none" /\ viewer' = "nothing"
    /\ peer_connected' = FALSE
    /\ rx' = <<>> /\ lagged' = FALSE
    /\ UNCHANGED <<keyframe_flag, NotSess>>

-----------------------------------------------------------------------------

Thread == Open \/ TrySw \/ TryMjpeg \/ Failed \/ CheckCtrl \/ Grab \/ Emit
Bridge == BridgeIdle \/ BridgeActive \/ BridgeDrain \/ BridgeRecv
Session == Discard \/ RequestIdr \/ SendVideo

Next ==
    \/ Thread \/ PathError \/ GrabNothing
    \/ \E cmd \in Command : SendCommand(cmd)
    \/ Bridge
    \/ Session \/ Subscribe \/ IceConnected \/ Connected \/ KeyframeRequest
    \/ SessionEnd

Spec == Init /\ [][Next]_vars

(***************************************************************************)
(* The thread and the tasks run.  The flags are polled, so what one of     *)
(* them waits for may be there at one look and gone at the next; a frame   *)
(* that can be encoded eventually comes (strong fairness of Grab against   *)
(* GrabNothing) and a browser without a picture keeps asking.  The         *)
(* session's loop is not held up by the HID queue for ever (AgentSession   *)
(* has that wait).  The bridge's drain ends: it takes a frame in less than *)
(* a microsecond, and the thread needs a frame interval for the next.      *)
(***************************************************************************)
FairSpec ==
    /\ Spec
    /\ WF_vars(Thread) /\ SF_vars(Grab)
    /\ WF_vars(Bridge) /\ WF_vars(Session)
    /\ WF_vars(KeyframeRequest /\ ~keyframe_flag)
    /\ []<>(bridge # "drain")

-----------------------------------------------------------------------------
(* Properties *)

\* The room that was there when the frame was captured is still there when it
\* is sent: no encoded frame is dropped at the channel, although the check and
\* the send are far apart and the bridge takes frames in between.
NoEncodedFrameDropped == frame # "none" => Len(chan) < ChanCap

\* "If we get a RestartNeeded result, update config and loop" (video.rs:135):
\* whatever path runs, it runs with the settings the browser last asked for.
SettingsFollow == stage \in Path /\ ~fallback => cfg = wanted

\* On a device that has neither H.264 nor YUYV they do follow, through any
\* number of restarts and however the commands come.
SettingsFollowMjpeg == formats \cap {"H264", "YUYV"} = {} => SettingsFollow

\* A connected browser gets a picture, however long nobody watched before,
\* whatever was left in the channel and in the flags, and although the IDR it
\* asked for may be drained as an old frame.  It may not if it leaves, if the
\* session falls behind the bridge by a whole broadcast buffer, or if the
\* capture is dead; a hardware encoder emits an IDR when it pleases.
PictureArrives ==
    (sess = "connected") ~>
        (viewer = "picture" \/ sess # "connected" \/ lagged
            \/ stage \in {"hw", "dead"})

\* Commands are taken also while nobody watches and the channel is full.
CommandsTaken == ctrl # <<>> ~> (ctrl = <<>> \/ stage = "dead")

=============================================================================
