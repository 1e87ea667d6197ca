------------------------------- MODULE HidPath -------------------------------
(***************************************************************************)
(* The way of a key stroke, of a mouse movement and of a video setting     *)
(* from the browser to the controlled machine:                             *)
(*                                                                         *)
(*   page (app.js) -> DataChannel -> webrtc::run -> mpsc -> hid thread     *)
(*     -> keyboard and mouse gadget -> controlled machine                  *)
(*                                                                         *)
(* The page is single-threaded: every listener and every timer callback is *)
(* one action.  A keyboard report is the set of keys it shows as down; the *)
(* pointer's coordinates, the wheel's delta and the bytes of a frame are   *)
(* left out.  The hid thread and its queue outlive a session.              *)
(***************************************************************************)
EXTENDS Naturals, Sequences, SequencesExt

CONSTANTS
    Key,        \* usages of KEY_MAP: what a user presses, what a combination
                \* shows and what typeText types are the same keys
    Modifier,   \* the keys of modifierBit
    Combos,     \* the reports sendKeyCombo is called with
    Text,       \* the text given to typeText, by usage: a character with shift
                \* is that without
    Button,     \* mouse buttons
    Place,      \* positions of the pointer
    Setting,    \* values of a control frame
    Rollover,   \* keys a report has room for (6)
    HidCap,     \* capacity of the mpsc channel (64)
    WireCap,    \* bound: frames under way when the user does something more
    ComboCap,   \* bound: release timers of combinations at a time
    Setups,     \* the modes of the hid thread, what it can open and, a bound,
                \* the keys and the other inputs the user uses in a behaviour
    None        \* no frame

Gadget == {"kbd", "mouse"}
Input == Key \cup Modifier \cup {"mouse", "combo", "text", "control"}

ASSUME HidAssumption ==
    /\ Rollover \in Nat /\ HidCap \in Nat \ {0}
    /\ WireCap \in Nat /\ ComboCap \in Nat
    /\ Setups \subseteq [mode : {"gadget"}, opened : SUBSET Gadget, uses : SUBSET Input]
                     \cup [mode : {"ch9329"}, opened : {{}, Gadget}, uses : SUBSET Input]
    /\ Combos \subseteq SUBSET (Key \cup Modifier)
    /\ Text \in Seq(Key)
    /\ Place # {} /\ Setting # {}

VARIABLES
    \* the page
    capture,    \* captureActive
    modifier, keys, buttons,   \* the fields of hid; keys in order of pressing
    place,      \* history: where the page last put the pointer
    combos,     \* release timers of sendKeyCombo that are running
    typing,     \* typeText: not called yet, its interval runs, cleared
    typed,      \* its i: characters sent
    lift,       \* its timer that releases the character is running
    setting,    \* history: the control frame sent last
    dc,         \* the global dc is there and its readyState is open
    fresh,      \* history: kinds of frames that left on this DataChannel
    \* the way
    wire,       \* frames under way to the agent
    sess,       \* webrtc::run is in a session
    holding,    \* the frame for which handle_event waits in send().await
    queue,      \* the mpsc channel of the hid thread
    \* the hid thread
    mode,       \* cfg.hid.mode
    opened,     \* gadgets that could be opened
    last,       \* last_buttons and last_x, last_y
    video,      \* the setting last passed to the capture thread
    \* the controlled machine
    host,       \* its end of the USB cable
    down,       \* keys it sees as down
    pointer,    \* its pointer
    strokes,    \* history: the characters of Text it has seen, while whole
    whole,      \* history: typeText runs or ran with none of its keys in use
                \* and no frame was lost since
    uses        \* what the user uses in this behaviour

pageVars == <<capture, modifier, keys, buttons, place, setting>>
timeVars == <<combos, typing, typed, lift>>
linkVars == <<dc, sess>>
hidVars  == <<mode, opened, last, video, uses>>
hostVars == <<host, down, pointer>>
textVars == <<strokes, whole>>
vars == <<capture, modifier, keys, buttons, place, combos, typing,
          typed, lift, setting, dc, fresh, wire, sess, holding, queue, mode, opened, last,
          video, host, down, pointer, strokes, whole, uses>>

Usage == Key \cup Modifier
\* The keys of the text.
Char == Range(Text)
Mouse == [buttons : SUBSET Button, place : Place]
Frame == [kind : {"kbd"}, down : SUBSET Usage]
         \cup [kind : {"move"}, buttons : SUBSET Button, place : Place]
         \cup [kind : {"btn"}, buttons : SUBSET Button]
         \cup [kind : {"wheel"}]
         \cup [kind : {"ctl"}, to : Setting]

ASSUME NoneAssumption == None \notin Frame

TypeOK ==
    /\ capture \in BOOLEAN
    /\ modifier \in SUBSET Modifier /\ keys \in Seq(Key) /\ IsInjective(keys)
    /\ buttons \in SUBSET Button /\ place \in Place
    /\ combos \in 0..ComboCap
    /\ typing \in {"idle", "on", "done"} /\ typed \in 0..Len(Text)
    /\ lift \in BOOLEAN
    /\ setting \in Setting /\ video \in Setting
    /\ dc \in BOOLEAN /\ sess \in BOOLEAN
    /\ fresh \subseteq {"kbd", "mouse", "place", "ctl"}
    /\ wire \in Seq(Frame)
    /\ holding \in Frame \cup {None}
    /\ queue \in Seq(Frame) /\ Len(queue) <= HidCap
    /\ mode \in {"gadget", "ch9329"} /\ opened \in SUBSET Gadget
    /\ last \in Mouse
    /\ host \in {"on", "asleep", "off"}
    /\ down \in SUBSET Usage /\ pointer \in Mouse
    /\ strokes \in Seq(Char) /\ whole \in BOOLEAN /\ uses \in SUBSET Input

\* Where last_x and last_y begin, and the configured setting.
Centre == CHOOSE p \in Place : TRUE
Configured == CHOOSE v \in Setting : TRUE

\* A gadget that cannot be opened is only missing; a serial port that cannot
\* be opened, or an agent without ch9329, ends the thread.
Runs == mode = "gadget" \/ opened = Gadget

Init ==
    /\ capture = FALSE /\ modifier = {} /\ keys = <<>> /\ buttons = {}
    /\ place = Centre /\ combos = 0 /\ typing = "idle" /\ typed = 0 /\ lift = FALSE
    /\ setting = Configured /\ video = Configured
    /\ dc = FALSE /\ sess = FALSE /\ fresh = {}
    /\ wire = <<>> /\ holding = None /\ queue = <<>>
    /\ \E s \in Setups : mode = s.mode /\ opened = s.opened /\ uses = s.uses
    /\ last = [buttons |-> {}, place |-> place]
    /\ host = "on" /\ down = {} /\ pointer = last
    /\ strokes = <<>> /\ whole = FALSE

-----------------------------------------------------------------------------
(* Frames *)

\* sendKeyboard: the modifiers and the first six keys.
Keyboard(mods, ks) ==
    [kind |-> "kbd", down |-> mods \cup Range(SubSeq(ks, 1, Min({Len(ks), Rollover})))]
Report(set) == [kind |-> "kbd", down |-> set]
Release == Report({})
Buttons(set) == [kind |-> "btn", buttons |-> set]

\* What a frame tells about: a move tells the buttons too.
Tells(f) == CASE f.kind = "kbd"  -> {"kbd"}
              [] f.kind = "move" -> {"mouse", "place"}
              [] f.kind = "btn"  -> {"mouse"}
              [] f.kind = "ctl"  -> {"ctl"}
              [] OTHER           -> {}

\* sendHid, for each frame: it is dropped unless the DataChannel is open.  A
\* page that does not know yet that the agent has gone sends for nothing.
SendHid(fs) ==
    IF dc /\ sess
    THEN /\ wire' = wire \o fs
         /\ fresh' = fresh \cup UNION {Tells(fs[i]) : i \in 1..Len(fs)}
    ELSE UNCHANGED <<wire, fresh>>

\* WireCap bounds what the user does, never what a timer or the agent does.
UserActs == Len(wire) + Len(queue) < WireCap

\* The report shows a key of the text.
ShowsText(f) == f # None /\ f.kind = "kbd" /\ f.down \cap Char # {}

\* A keyboard report of the user's.  If it shows a key of the text the machine
\* cannot tell it from a typed one, and the text is not followed any more.
SendReport(f) ==
    /\ SendHid(<<f>>)
    /\ whole' = (whole /\ ~ShowsText(f))
    /\ strokes' = IF whole' THEN strokes ELSE <<>>

OtherThanReport == <<linkVars, holding, queue, hidVars, hostVars>>
OtherThanPage == <<OtherThanReport, textVars>>
OtherThanUser == <<timeVars, OtherThanPage>>

-----------------------------------------------------------------------------
(* The page: listeners *)

\* onKeyDown and onKeyUp of an ordinary key, while the capture is active.  The
\* browser repeats keydown; a keyup outside the window never comes.  A key is
\* in keys once, so that the filter of onKeyUp takes out its one occurrence.
KeyDown(k) ==
    /\ capture /\ UserActs
    /\ keys' = IF k \in Range(keys) THEN keys ELSE Append(keys, k)
    /\ SendReport(Keyboard(modifier, keys'))
    /\ UNCHANGED <<capture, modifier, buttons, place, setting, timeVars, OtherThanReport>>

KeyUp(k) ==
    /\ capture /\ UserActs
    /\ keys' = RemoveFirst(keys, k)
    /\ SendReport(Keyboard(modifier, keys'))
    /\ UNCHANGED <<capture, modifier, buttons, place, setting, timeVars, OtherThanReport>>

\* The same for a modifier.
ModifierKey(m) ==
    /\ capture /\ UserActs
    /\ modifier' \in {modifier \cup {m}, modifier \ {m}}
    /\ SendReport(Keyboard(modifier', keys))
    /\ UNCHANGED <<capture, keys, buttons, place, setting, timeVars, OtherThanReport>>

\* onMouseMove, with the clamping of sendMouseMove left out.
MouseMove(p) ==
    /\ capture /\ UserActs
    /\ place' = p
    /\ SendHid(<<[kind |-> "move", buttons |-> buttons, place |-> p]>>)
    /\ UNCHANGED <<capture, modifier, keys, buttons, setting, OtherThanUser>>

\* onMouseDown and onMouseUp.
MouseButton(b) ==
    /\ capture /\ UserActs
    /\ buttons' \in {buttons \cup {b}, buttons \ {b}}
    /\ SendHid(<<Buttons(buttons')>>)
    /\ UNCHANGED <<capture, modifier, keys, place, setting, OtherThanUser>>

Wheel ==
    /\ capture /\ UserActs
    /\ SendHid(<<[kind |-> "wheel"]>>)
    /\ UNCHANGED <<pageVars, OtherThanUser>>

\* A click on the picture.
ActivateCapture ==
    /\ ~capture /\ capture' = TRUE
    /\ UNCHANGED <<modifier, keys, buttons, place, setting, fresh, wire,
                   OtherThanUser>>

\* Mutant of Escape: the reports go out before the state is cleared.
EscapeSendsHeld ==
    /\ capture /\ UserActs
    /\ capture' = FALSE /\ modifier' = {} /\ keys' = <<>> /\ buttons' = {}
    /\ SendHid(<<Keyboard(modifier, keys), Buttons(buttons)>>)
    /\ UNCHANGED <<place, setting, OtherThanUser>>

\* Mutant of Escape: the buttons are cleared and not reported.
EscapeKeysOnly ==
    /\ capture /\ UserActs
    /\ capture' = FALSE /\ modifier' = {} /\ keys' = <<>> /\ buttons' = {}
    /\ SendHid(<<Release>>)
    /\ UNCHANGED <<place, setting, OtherThanUser>>

\* deactivateCapture on Escape, whose listener is older than onKeyDown and
\* removes it before it runs: Escape itself is not sent.
Escape ==
    /\ capture /\ UserActs
    /\ capture' = FALSE /\ modifier' = {} /\ keys' = <<>> /\ buttons' = {}
    /\ SendHid(<<Release, Buttons({})>>)
    /\ UNCHANGED <<place, setting, OtherThanUser>>

\* sendKeyCombo: the buttons of the page work without capture.
SendKeyCombo(c) ==
    /\ dc /\ combos < ComboCap /\ UserActs
    /\ combos' = combos + 1
    /\ SendReport(Report(c))
    /\ UNCHANGED <<pageVars, typing, typed, lift, OtherThanReport>>

\* typeText, once in a behaviour.  Its text is followed if none of its keys is
\* down or on its way when it begins.
TypeText ==
    /\ dc /\ typing = "idle"
    /\ typing' = "on"
    /\ whole' = /\ sess /\ host # "off" /\ "kbd" \in opened
                /\ down \cap Char = {}
                /\ \A f \in Range(queue) \cup {holding} \cup Range(wire) : ~ShowsText(f)
    /\ UNCHANGED <<pageVars, combos, typed, lift, fresh, wire, linkVars, holding,
                   queue, hidVars, hostVars, strokes>>

\* changeResolutionDirect and changeFpsDirect.
Change(v) ==
    /\ dc /\ UserActs
    /\ setting' = v
    /\ SendHid(<<[kind |-> "ctl", to |-> v]>>)
    /\ UNCHANGED <<capture, modifier, keys, buttons, place, OtherThanUser>>

-----------------------------------------------------------------------------
(* The page: timers *)

\* The timer of sendKeyCombo releases every key.
ComboRelease ==
    /\ combos > 0 /\ combos' = combos - 1
    /\ SendHid(<<Release>>)
    /\ UNCHANGED <<pageVars, typing, typed, lift, OtherThanPage>>

\* Mutant of TypeTick: the interval is shorter than the timer of the release.
TypeTickFast ==
    /\ typing = "on"
    /\ IF typed = Len(Text) \/ ~dc
       THEN typing' = "done" /\ SendHid(<<Release>>) /\ UNCHANGED <<typed, lift>>
       ELSE /\ typed' = typed + 1 /\ lift' = TRUE
            /\ SendHid(<<Report({Text[typed + 1]})>>) /\ UNCHANGED typing
    /\ UNCHANGED <<pageVars, combos, OtherThanPage>>

\* The interval of typeText, 60 ms.  A character that is in neither table is
\* skipped without a report: such a tick changes nothing here, and Text is the
\* text without it.  The release of the last character, whose 30 ms began
\* within the callback, is due before the next callback, and timers run in the
\* order in which they are due.
TypeTick ==
    /\ typing = "on" /\ ~lift
    /\ IF typed = Len(Text) \/ ~dc
       THEN typing' = "done" /\ SendHid(<<Release>>) /\ UNCHANGED <<typed, lift>>
       ELSE /\ typed' = typed + 1 /\ lift' = TRUE
            /\ SendHid(<<Report({Text[typed + 1]})>>) /\ UNCHANGED typing
    /\ UNCHANGED <<pageVars, combos, OtherThanPage>>

TypeLift ==
    /\ lift /\ lift' = FALSE
    /\ SendHid(<<Release>>)
    /\ UNCHANGED <<pageVars, combos, typing, typed, OtherThanPage>>

-----------------------------------------------------------------------------
(* The connection *)

\* reset, by Disconnect or by connecting again: the release reports go out
\* first, but closing the connection right after them may lose them, with
\* what else is under way.
Disconnect ==
    /\ dc' = FALSE
    /\ capture' = FALSE /\ modifier' = {} /\ keys' = <<>> /\ buttons' = {}
    /\ LET sent == IF capture /\ dc /\ sess
                   THEN wire \o <<Release, Buttons({})>> ELSE wire
       IN  \E n \in 0..Len(sent) : wire' = SubSeq(sent, 1, n)
    /\ whole' = FALSE /\ strokes' = <<>>
    /\ UNCHANGED <<place, setting, timeVars, fresh, sess, holding, queue,
                   hidVars, hostVars>>

\* The session ends at the agent: ICE fails or main aborts the task, which
\* drops a send that waits.  The hid thread keeps its queue and its state.
AgentGone ==
    /\ sess /\ sess' = FALSE
    /\ wire' = <<>> /\ holding' = None
    /\ whole' = FALSE /\ strokes' = <<>> /\ fresh' = {}
    /\ UNCHANGED <<pageVars, timeVars, dc, queue, hidVars, hostVars>>

\* dc.onclose: nothing but the status line changes.
DcCloses ==
    /\ dc /\ ~sess /\ dc' = FALSE
    /\ UNCHANGED <<pageVars, timeVars, fresh, wire, sess, holding, queue,
                   hidVars, hostVars, textVars>>

\* The agent's next offer is answered.  It reaches a page that was reset, or,
\* through the WebSocket it still has, one that keeps its keys and its capture.
Connect ==
    /\ ~sess /\ sess' = TRUE /\ dc' = TRUE
    /\ UNCHANGED <<pageVars, timeVars, fresh, wire, holding, queue, hidVars,
                   hostVars, textVars>>

-----------------------------------------------------------------------------
(* The agent *)

OtherThanLoop == <<pageVars, timeVars, linkVars, fresh, hidVars, hostVars, textVars>>

\* Mutant of ChannelData: the queue is taken for unbounded.
ChannelDataUnbounded ==
    /\ sess /\ wire # <<>> /\ holding = None
    /\ wire' = Tail(wire)
    /\ queue' = IF Runs THEN Append(queue, Head(wire)) ELSE queue
    /\ UNCHANGED <<holding, OtherThanLoop>>

\* handle_event, ChannelData: hid_tx.send().await.  While it waits the loop
\* does nothing else, neither media nor ICE.  To a thread that has ended the
\* send fails at once, and nobody is told.
ChannelData ==
    /\ sess /\ wire # <<>> /\ holding = None
    /\ wire' = Tail(wire)
    /\ \/ ~Runs /\ UNCHANGED <<queue, holding>>
       \/ Runs /\ Len(queue) < HidCap /\ queue' = Append(queue, Head(wire))
          /\ UNCHANGED holding
       \/ Runs /\ Len(queue) = HidCap /\ holding' = Head(wire) /\ UNCHANGED queue
    /\ UNCHANGED OtherThanLoop

SendDone ==
    /\ holding # None /\ Len(queue) < HidCap
    /\ queue' = Append(queue, holding) /\ holding' = None
    /\ UNCHANGED <<wire, OtherThanLoop>>

\* The gadget a frame is written to.
Device(f) == IF f.kind = "kbd" THEN "kbd" ELSE "mouse"
Written(f) == f.kind # "ctl" /\ Device(f) \in opened

\* A machine that sleeps does not poll the gadget: write_all waits.
Blocks(f) == mode = "gadget" /\ host = "asleep" /\ Written(f)

\* last_x, last_y, last_buttons: ch9329 keeps the position only.
Remember(f) ==
    CASE f.kind = "move" ->
            [buttons |-> IF mode = "gadget" THEN f.buttons ELSE last.buttons,
             place |-> f.place]
      [] f.kind = "btn" /\ mode = "gadget" -> [last EXCEPT !.buttons = f.buttons]
      [] OTHER -> last

\* Mutant of MouseReport: a button report has no position.
MouseReportOrigin(f) ==
    CASE f.kind = "move"  -> [buttons |-> f.buttons, place |-> f.place]
      [] f.kind = "btn"   -> [buttons |-> f.buttons, place |-> Centre]
      [] f.kind = "wheel" -> IF mode = "gadget" THEN last ELSE [last EXCEPT !.buttons = {}]

\* make_abs_mouse_report and ch9329_abs_mouse with what the loop passes them:
\* on ch9329 the wheel is a report without buttons.
MouseReport(f) ==
    CASE f.kind = "move"  -> [buttons |-> f.buttons, place |-> f.place]
      [] f.kind = "btn"   -> [buttons |-> f.buttons, place |-> last.place]
      [] f.kind = "wheel" -> IF mode = "gadget" THEN last ELSE [last EXCEPT !.buttons = {}]

\* What the thread does with a frame; a write that fails is only logged.
Handle(f) ==
    /\ last' = Remember(f)
    /\ video' = IF f.kind = "ctl" THEN f.to ELSE video
    /\ down' = IF Written(f) /\ host = "on" /\ f.kind = "kbd" THEN f.down ELSE down
    /\ pointer' = IF Written(f) /\ host = "on" /\ f.kind # "kbd"
                  THEN MouseReport(f) ELSE pointer
    /\ strokes' = IF whole THEN strokes \o SetToSeq((down' \cap Char) \ down) ELSE strokes

\* Mutant of HidStep: a write that fails is tried again.
HidStepRetries ==
    /\ queue # <<>> /\ ~Blocks(Head(queue))
    /\ queue' = IF Written(Head(queue)) /\ host = "off" THEN queue ELSE Tail(queue)
    /\ Handle(Head(queue))
    /\ UNCHANGED <<pageVars, timeVars, linkVars, fresh, wire, holding, mode,
                   opened, uses, host, whole>>

\* Mutant of HidStep: without a keyboard the thread handles nothing.
HidStepNeedsKeyboard ==
    /\ queue # <<>> /\ ~Blocks(Head(queue)) /\ "kbd" \in opened
    /\ queue' = Tail(queue) /\ Handle(Head(queue))
    /\ UNCHANGED <<pageVars, timeVars, linkVars, fresh, wire, holding, mode,
                   opened, uses, host, whole>>

\* A pass of run_gadget or run_ch9329.
HidStep ==
    /\ queue # <<>> /\ ~Blocks(Head(queue))
    /\ queue' = Tail(queue) /\ Handle(Head(queue))
    /\ UNCHANGED <<pageVars, timeVars, linkVars, fresh, wire, holding, mode,
                   opened, uses, host, whole>>

-----------------------------------------------------------------------------
(* The controlled machine *)

OtherThanHost == <<pageVars, timeVars, linkVars, wire, holding, queue, hidVars>>

\* It stops polling its gadgets and polls them again.
HostSleeps ==
    /\ mode = "gadget" /\ host = "on" /\ host' = "asleep"
    /\ UNCHANGED <<fresh, down, pointer, textVars, OtherThanHost>>

HostWakes ==
    /\ host = "asleep" /\ host' = "on"
    /\ UNCHANGED <<fresh, down, pointer, textVars, OtherThanHost>>

\* The cable is pulled, or the machine restarts: it forgets what was down, and
\* writes fail until it is back.
HostLeaves ==
    /\ host = "on" /\ host' = "off"
    /\ down' = {} /\ pointer' = [pointer EXCEPT !.buttons = {}]
    /\ whole' = FALSE /\ strokes' = <<>>
    /\ UNCHANGED <<fresh, OtherThanHost>>

HostReturns ==
    /\ host = "off" /\ host' = "on" /\ fresh' = {}
    /\ UNCHANGED <<down, pointer, textVars, OtherThanHost>>

-----------------------------------------------------------------------------
(* The specification *)

PageStep ==
    \/ \E k \in Key \cap uses : KeyDown(k) \/ KeyUp(k)
    \/ \E m \in Modifier \cap uses : ModifierKey(m)
    \/ /\ "mouse" \in uses
       /\ \/ \E p \in Place : MouseMove(p)
          \/ \E b \in Button : MouseButton(b)
          \/ Wheel
    \/ uses \cap (Key \cup Modifier \cup {"mouse"}) # {} /\ ActivateCapture
    \/ Escape
    \/ "combo" \in uses /\ \E c \in Combos : SendKeyCombo(c)
    \/ "text" \in uses /\ TypeText
    \/ "control" \in uses /\ \E v \in Setting : Change(v)

Timer == ComboRelease \/ TypeTick \/ TypeLift
Link == Disconnect \/ AgentGone \/ DcCloses \/ Connect
Agent == ChannelData \/ SendDone
Host == HostSleeps \/ HostWakes \/ HostLeaves \/ HostReturns

Next == PageStep \/ Timer \/ Link \/ Agent \/ HidStep \/ Host

Spec == Init /\ [][Next]_vars

\* The browser runs its timers, tokio its task, the kernel the thread.  Of the
\* user, the network and the controlled machine nothing is assumed.
Fairness ==
    /\ WF_vars(ComboRelease) /\ WF_vars(TypeTick) /\ WF_vars(TypeLift)
    /\ WF_vars(ChannelData) /\ WF_vars(SendDone) /\ WF_vars(HidStep)

FairSpec == Spec /\ Fairness

-----------------------------------------------------------------------------
(* Properties *)

Up == dc /\ sess /\ host = "on"

\* Everything sent has arrived and no key waits for its timer.
Settled == Up /\ wire = <<>> /\ holding = None /\ queue = <<>>
              /\ combos = 0 /\ ~lift

\* Once what was sent has arrived, no key is down on the controlled machine
\* that the page does not hold, whatever timers, combinations, typed text and
\* reconnections came in between; the page has to have sent one keyboard
\* report on this DataChannel (app.js sendKeyboard, sendKeyCombo, hid.rs).
NoStuckKey ==
    Settled /\ "kbd" \in fresh => down \subseteq modifier \cup Range(keys)

\* Once what was sent has arrived, the pointer is where the page put it and
\* shows the buttons the page shows: button and wheel reports neither move it
\* nor change what is held (hid.rs last_x, last_y, last_buttons).  A wheel
\* report of ch9329 may drop buttons, never add one.
MouseFollows ==
    Settled /\ "mouse" \in fresh /\ "mouse" \in opened =>
        /\ pointer.buttons \subseteq buttons
        /\ mode = "gadget" => pointer.buttons = buttons
        /\ "place" \in fresh => pointer.place = place

\* Typed text arrives with every character once and in order, equal neighbours
\* included, whatever other keys, combinations and buttons come in between; the
\* user must not press or hold a key of the text itself, nor call a combination
\* that has one (app.js typeText, sendKeyboard, sendKeyCombo).
TextArrives ==
    Settled /\ typing = "done" /\ whole => strokes = Text

\* After Escape the controlled machine holds nothing, unless the connection or
\* the machine goes away or the user takes the capture again: also what a lost
\* keyup left down is released (app.js deactivateCapture).
EscReleases ==
    (Up /\ ~capture /\ {"kbd", "mouse"} \subseteq fresh)
        ~> ((down = {} /\ pointer.buttons = {}) \/ capture \/ ~Up)

\* A setting chosen in the page reaches the capture thread through the queue
\* it shares with keys and mouse, also if a gadget is missing (hid.rs:64,
\* "control messages still work"); without its serial port ch9329 takes none.
SettingArrives ==
    \A v \in Setting :
        (Up /\ Runs /\ "ctl" \in fresh /\ setting = v)
            ~> (video = v \/ setting # v \/ ~Up \/ "ctl" \notin fresh)

\* Input stops the session's loop, and with it media and ICE, only as long as
\* the controlled machine does not poll (webrtc.rs handle_event, ChannelData).
LoopGoesOn == holding # None ~> (holding = None \/ host = "asleep")

=============================================================================
