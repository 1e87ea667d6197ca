# A TLA+ model of Any-KVM

Any-KVM lets a browser watch and control a machine: an agent (`agent/src`,
Rust) captures video and sound and writes keyboard and mouse reports, a
signalling server (`signal/main.go`, Go) introduces the two to each other, and
the browser console (`web/app.js`) and the agent then talk over WebRTC. This
directory models the parts of it where several actors share state, checks them
with TLC and proves their central facts with TLAPS.

## Inventory

| component | state it keeps | operations | what makes it correct |
|---|---|---|---|
| Signalling server, `signal/main.go` | table of rooms, per room two slots, an offer cache and a device name; per connection a bounded send channel | connect (`getOrCreate`, `set`, replay), `forward`, deferred clean-up (`clear`, `close`, `tryDelete`), `writePump`, `/api/agents`, `/healthz` | never sends on a closed channel; relays to the other role of the same room, in order; rooms and goroutines do not leak; a client gets the offer in whichever order the two connect |
| Agent loop, `main.rs` | round, two tasks, `peer_connected`, back-off | spawn a round, `select!`, abort, Ctrl-C | every end of a task leads to a new round; nothing of one round enters the next |
| WebRTC session, `webrtc.rs::run` | str0m state, `ice_connected`, TURN permissions and refresh time | offer, answer, candidates, media gate, events, TURN traffic | a connected browser gets media; one that leaves ends the session |
| Signalling client, `signal_client.rs` | WebSocket, the round's offer, bounded answer and candidate channels | connect and retry, send offer, receive answers and candidates | reconnects without mixing sessions; does not block for ever |
| Video, `video.rs` | settings, encoder, flag for an IDR | four capture paths, fallback, restart, back-pressure, pixel conversion | settings asked for are the settings that run; no frame encoded in vain; an IDR on request |
| Media bridge, `main.rs` | `was_idle`, mpsc and broadcast channels | idle, drain, forward | old frames are not shown, new ones are |
| Audio, `audio.rs` | ALSA and Opus handles | capture, encode, blocking send | as the bridge |
| HID, `hid.rs` | last position and buttons, two devices | eight-byte frames: keyboard, move, button, wheel, control | each report shows the state the browser has; no key stays down |
| TURN and STUN, `webrtc.rs` | allocation, nonce, permissions | allocate, permission, refresh, wrap and unwrap | the relay stays usable during a session |
| Browser: connection, `app.js` | global `pc`, `dc`, `ws` | connect, offer handler, reset, disconnect | the answer belongs to the peer connection that is used |
| Browser: input, `app.js` | held keys, modifiers, buttons | capture, combinations, typed text | keys sent are keys held |
| Browser: quality, `app.js` | profile, fps ring, override flags | profile, downgrade, fps guard | stays on the ladder, settles |

The components meet in few places. Browser and agent exchange offer, answer and
candidates through the server; inside the agent the tasks use channels (an
oneshot for the offer, bounded channels for answers and candidates, an mpsc and
a broadcast channel for frames, an unbounded one for video commands) and two
shared flags, `peer_connected` and `keyframe_flag`; the server's goroutines
share `rooms` and the room objects under two kinds of mutex.

The hard behaviours are interleavings at those places (a late clean-up, a copy
used after the lock, a cancelled task that finishes its poll), full buffers,
connections that break or stall, and chains of fallbacks. `PROJECT.json` lists
them line by line under "hazards", with the property that watches each one.

## Modules

| module | models | how |
|---|---|---|
| `Relay` | what the server promises | a connection joins, says, is sent and leaves; no rooms table, slots or locks |
| `SignalServer` | `signal/main.go` | one action per critical section or channel operation |
| `SignalServerProofs` | theorems about it | invariants and refinement, TLAPS |
| `AgentSession` | `main.rs` loop, `webrtc::run`, `signal_client::run` | one action per step between awaits |
| `VideoPipeline` | `video.rs`, the bridge, the session's media gate | one action per look at a channel or flag |
| `AgentSessionProofs`, `VideoPipelineProofs`, `TurnClientProofs`, `BrowserConsoleProofs`, `AdaptiveQualityProofs`, `HidPathProofs` | theorems about six of them | TLAPS |
| `HidPath` | input in `app.js`, ChannelData in `webrtc.rs`, `hid.rs` | one action per listener, timer callback, or step of a task |
| `BrowserConsole` | sockets, offers and peer connections in `app.js` | one action per step between awaits |
| `AdaptiveQuality` | the choice of resolution and rate in `app.js` | one action per callback or choice of the user |
| `TurnClient` | STUN and TURN in `webrtc.rs` | one action per datagram read, timeout or send |
| `Planes`, `PlanesProofs` | the pixel conversions of `video.rs` | where they read and write, as operators; TLAPS |
| `MC*` | | instances for TLC |

**SignalServer.** `pc[c]` is where the handler (`wsHandler`) of connection `c` is:
`joining` between `getOrCreate` and `set`, `joined` until the name is written
(device) or the cache copied (client), `replaying` with a private copy of an
offer, `reading` in the loop, then `leaving`, `closing`, `deleting` for the
three deferred calls. `wp[c]` is its write pump. `rm[c]` is the room object it
points to, which need not be the one `rooms` has for its id: objects are named
by the connection whose `getOrCreate` made them, since a handler calls it once.
`slot`, `offerCache` and `deviceName` are fields of an object. `open` and
`queue` are the two halves of `p.send`. `wire` is the TCP connection as the
server can see it: a peer may be gone, or it may stall (stop reading and still
send). `got`, `lost` and `nsent` are histories. What a message holds is left
out except its sender, number and type. Reads that fail the JSON check change
nothing and are no action. The read deadline is `PeerGone`: it is allowed at
any time. `agentsHandler` and `healthHandler` only read; `Agents` is the former's
view.

**AgentSession.** `mpc`, `wr` and `sg` are program counters of the loop and its
tasks. `poll` tells whether `webrtc::run` is inside a poll: `abort()` takes
effect only outside one. `hidWait` is its one wait without a limit, the send into
the HID queue inside `handle_event`: while a machine takes no reports and the
queue is full, the loop does not poll str0m. `peer` is the browser whose answer was accepted.
Answers are `fresh`, made for this round's offer, or `stale`, made for an older
one that a browser or the server still had. TURN and STUN are part of
`RtcSetup`, which may fail.

**VideoPipeline.** `stage` is the path the capture thread runs or the step of
the fallback chain it is at. A frame is `idr` or `p`. Width and height are one
setting, since one command sets both. `Grab` captures and encodes;
`GrabNothing` is a capture without a frame, a JPEG that does not decode or an
output of the encoder that is empty. `frame` is a frame between the check for
room and the send. The session is reduced to its states and to what it does
to the flags and the receiver. The audio path is not repeated: its bridge is
the same code. Here `peer_connected` is what `AgentSession` shows it to be
while a session goes on; the phantom peer found there is not repeated either. The control channel is unbounded in the code and bounded by
`CtrlCap` here, together with the number of commands.

**HidPath.** The way of an input: `wire` is the DataChannel, `holding` the frame
for which `handle_event` waits in `send().await`, `queue` the channel of the hid
thread, `down` and `pointer` what the controlled machine sees. A keyboard report is the
set of keys it shows as down. The hid thread and its queue outlive sessions;
`mode` and `opened` are what it was configured with and could open; with a serial
port that cannot be opened, or in a build without ch9329, the thread ends and every
frame is dropped (`Runs`). `Char` is the set of keys of the text: the tables of
`typeText`, of the ordinary keys and of the combinations share their usages, so a
typed key may also be one the user holds. The machine may stop polling (a write
then blocks) or be unplugged (a write then fails).
`fresh` is a history: what kinds of frames have gone out since the DataChannel
or the machine came up; before that, what the machine holds is of the session
before. `whole` is another: a text began with none of its keys in use, no report
of the user's has shown one since, and no frame was lost.

**BrowserConsole.** Handler and peer connection of the n-th offer are both called
n. `chain[p]` is the chain of operations that WebRTC runs one at a time, on
whichever connection the global `pc` was when the handler called it: that is
where handlers meet. Of `RTCPeerConnection` the model has the signalling state,
that `createAnswer` fails without an offer to answer, and that an operation of a
closed connection does not end. The agent is reduced to rounds, an accepted
connection, and its `ondatachannel`; its loop is taken to be running.

**AdaptiveQuality.** A resolution is its width. `profile` is the page's idea of the settings,
`asked` what the agent was last asked for. `detecting`, `timers` and `sampling` are the
callbacks under way, by the connection they belong to; a reset cancels none of
them. A sample in `ring` carries its connection, as a history.

**TurnClient.** `phase` is where `webrtc::run` is. `toServer` and `toAgent` are the
datagrams under way; with `Faults` each may be lost, stay after it was read, or be
read by a later request than the one it answers. Time is counted in minutes, with the
lifetimes of the protocol (10 and 5) and the code's refresh (4); what the client
waits for in seconds happens between two minutes. In phase `held` the loop waits
for the HID queue: minutes pass in which it sends no refresh and notices nothing.

**Planes** has no state. For a pixel it gives the places in the two buffers that
`yuyv_to_yuv420`, `mjpeg_to_yuv420` and `bgra_to_yuv420` touch, scaling in fixed point included.

Definitions whose comment begins with "Mutant of" are wrong on purpose: each
is a plausible bug in the definition that follows it, nothing uses them, and
`PROJECT.json` pairs each with the property that refutes it.

## Runs

| run | shows | bounds |
|---|---|---|
| `signal_rooms` | registry invariants, no missed offer, the server implements `Relay` | two devices, one client, one room, `SendCap` 1, one offer each; symmetry of the devices |
| `signal_live` | order, both goroutines end, an offer reaches the client | one device that sends two messages, one client that may stall, `SendCap` 2 |
| `session` | gate, answers of the round, next round after every end, with waits for the HID queue | `AnswerCap` 2 (4 in the code), `CandCap` 1 (64), rounds unbounded |
| `video` | the picture arrives, commands are taken and followed on MJPEG devices, no frame encoded in vain | `ChanCap` 1, `BcastCap` 1 (32), two commands, two devices |
| `hid` | what is down on the machine is what the page holds; typed text, Escape, settings, the session's loop | two keys, one modifier, two combinations (one with the other key, one with the text's own), two places, a text of two equal letters, `Rollover` 1 (6), `HidCap` 1 (64), one frame under way when the user acts; every behaviour uses a setup of `SmallSetups` |
| `console` | answers, their sockets, the agent is freed | three offers, two sockets, two rounds |
| `quality` | ladder, guard, profile | two connections, four choices or samples, `RingSize` 2 (15), `MinSamples` 2 (10), `CheckEvery` 2 (5), one off-ladder width, one rate under the guard's |
| `turn` | the relay is real, survives a lost refresh, and ends the round when dead | two peers, a loop that may be held up, 11 minutes without a refresh timer, two refreshes without success |
| `signal_flap` | violated: `AgentListsOnlineDevices` | two devices that say nothing |
| `session_wedge` | violated: `BrowserGoneIsNoticed`, under fairness | as `session` |
| `video_restart` | violated: `SettingsFollow` | a device with H.264 and YUYV |
| `turn_idle` | violated: `AllocationIsKept` | one peer, no fault, 12 minutes of waiting |

Why the bounds are enough. What happens in a room needs a connection, one that
replaces it and one of the other role: `signal_rooms` has them. A second room id
adds nothing, because no action relates two ids; the theorems hold for any
number anyway. A buffer of one message fills, of two has an order. The channels of `AgentSession`
matter by being empty, neither, or full. The drop of a frame by the bridge's
lag needs a broadcast of one. The two devices of the video runs take the chain
of paths from its first link and from its last. A queue of one in `HidPath` is full
when the second frame comes; a rollover of one leaves a held key out of the
report when two are held; two equal letters are what a lost release would merge.
In `BrowserConsole` the third offer can replace the second while the first one's
handler still runs. The ring and the check of `AdaptiveQuality` are scaled down
together: the check comes before the guard, with it, and after it. An allocation of
`TurnClient` that was granted just before the answer outlives the first refresh that
fails and runs out in the period after the second; a wait of 11 minutes
outlasts it alone. No peer is denied: a second one whose permission
comes late brings a dead relay back.

`SmallSetups` of `HidPath` gives each behaviour what the user uses in it: both keys
and the modifier; the other key with combinations; a text with the other key; a
text with combinations, one of which shows the text's own key; the mouse. A missing
keyboard is taken with combinations and settings and with the mouse, ch9329 with
the mouse, and ch9329 without its port with combinations and settings. What a user
does with everything at once is left to the theorems.

The runs with many states are `hid` (535,341 distinct), `turn` (468,396) and
`video` (398,672); `session` has 14,441.

Runs do not check for deadlock: connections end and the model has finitely many
of them, an agent may be stopped, and a capture thread that has failed twice is
dead. The bounded parts (offers, rounds, choices, refreshes) stop at their bounds.
That nothing waits for ever is what the liveness properties say.

### What the violated runs found

Each is a sentence of a comment, refuted by the code:

* **A late clean-up** (`signal_flap`). `room.clear` empties the slot whoever is
  in it. A device that reconnects before the server noticed the end of its old
  connection loses its slot and its offer when the old handler ends.
* **A wedged agent** (`session_wedge`). A browser that leaves after its answer
  and before `Event::Connected` is not noticed, and no other answer is read.
* **A lost restart** (`video_restart`). The hardware and YUYV paths report a
  change of settings as an error that their caller takes for a failure: the
  chain falls through to the next path, with the old settings.
* **An idle relay** (`turn_idle`). The refresh timer starts with the answer. An
  agent that waits longer than ten minutes for its browser has offered a relay that no longer
  exists.

### What else the models show

No run is kept for these; each is a formula of its module, which TLC refutes, or
a clause that a property had to be given.

* **An orphaned room** (`SignalServer`, `PeersShareRoom`). `getOrCreate` and `set` are two steps;
  `tryDelete` can remove the room in between. The peers sit in two rooms with
  one name.
* **An old offer last** (`SignalServer`, `LatestOfferLast`). The cache is copied under the lock and
  sent without it, so a forwarded newer offer may come first.
* **A phantom peer** (`AgentSession`, `NoPhantomPeer`). An aborted session finishes the poll it
  is in and raises `peer_connected` after the loop lowered it.
* **A forgotten connection** (`BrowserConsole`, `Replaced`). An offer that replaces
  a connection does not close it. An agent that is connected to it stays so for as long as
  the tab lives, also after Disconnect.
* **Keys of the session before** (`HidPath`, `fresh`). A session that breaks leaves its keys
  down on the machine until the page sends the next keyboard report.
* **A raised resolution** (`AdaptiveQuality`, `LoopLowers`). With adaptation off from the start there is no
  profile; the guard then takes 1280 for the width, and steps "down" from a 640
  that the user picked to 720.
* **A loop that stands still** (`AgentSession`, `hidWait`; `HidPath`, `LoopGoesOn`).
  While the machine takes no reports and the queue of 64 is full, `webrtc::run` waits in
  `handle_event`: no media, no ICE, no refresh, and a browser that has left is not
  noticed. Without `[]<>(~hidWait)`, `NextRoundAfterBrowser` is refuted.
* **A key held and typed** (`HidPath`, `whole`). Ordinary keys, combinations and typed
  text share their usages. A key of the text that the user holds or presses merges with
  the typed one; `TextArrives` has to except it.
* **Permissions end** (`TurnClient`). A permission lives five minutes and is asked for once; a
  relayed session whose server enforces that ends by ICE after five minutes, as
  `DeadRelayEndsRound` has it. A candidate that comes later can bring the relay
  back; the property allows that.

## Fairness

* Server: weak fairness of each handler and each pump. The Go scheduler runs
  what can run; none of their steps waits for another but by a channel, the
  socket or a mutex held for a few statements. Nothing is assumed of peers.
* Agent: weak fairness of the loop and of each task, as tokio gives it. Strong
  fairness of `RtcDisconnected`: ICE's consent checks report a silent peer, but
  only inside a poll, and polls come and go. Nothing is assumed of the wait for
  the HID queue, which lasts as long as a machine takes no reports: the properties
  that need its end say so, `[]<>(~hidWait)` in `NextRoundAfterBrowser` and
  `BrowserGoneIsNoticed`, `[]<>(phase # "held")` in `DeadRelayEndsRound`. `Spawn`
  waits for the aborted tasks:
  the code waits 3 s at least, and a poll takes milliseconds.
* Browser: weak fairness of timers, of `getStats` and of the operations of a peer
  connection that is not closed. Of users nothing is assumed. `BrowserConsole` also
  has weak fairness of `PeerClosed`, the agent's ICE: there the agent's loop is taken
  not to be held up by its HID queue, and `DisconnectFreesAgent` speaks of that case
  only. Timers run in the order in which they are due (`TypeTick`); a browser that
  stalled and runs a late interval before an older timeout is left out. In `HidPath` also
  of the session's task and the hid thread, whose steps are disabled while the
  machine does not poll.
* TURN: strong fairness of `Disconnected`, which is str0m's timeout of its checks
  and is seen only in a turn of the loop, and weak fairness of the 2 s timeout of
  `turn_create_permission`. Of network, server and HID queue nothing.
* Video: weak fairness of thread, bridge and session. Strong fairness of `Grab`:
  the look at the channel comes and goes, and a JPEG that decodes comes again.
  A browser with frames and no picture keeps sending picture loss indications.
  A drain of the bridge ends: it takes a frame in less than a microsecond and the thread
  makes one in tens of milliseconds. `PictureArrives` exempts a session that
  falls a whole broadcast buffer behind.

## Proofs

`SignalServerProofs` proves for every number of connections, rooms, message
kinds and buffer sizes:

* `TypeCorrect`: `Spec => []TypeOK`.
* `Safety`: `Spec => []SafetyInv`, the conjunction of `TypeOK`, `RoomsApart` (an
  object belongs to one id), `OpenUntilClose` (a channel is open until its
  handler closes it), `SlotOwned`, `CacheOwned` and `NoRoomLeak`. None of the
  last three is inductive alone: that a slot's occupant has not cleared needs that it
  points to that object, that a room is not left behind needs that a slot
  that is taken has a running owner, and both need the types.
* `SendsAreSafe`, `SlotsAreOwned`, `CacheIsLive`, `RoomsAreReclaimed`: the
  consequences a reader asks for. `SendsAreSafe` is the argument of the comment
  at `main.go:251`: an occupant has not cleared, hence not closed.
* `RelayRefinement`: `Spec => ImplementsRelay`, from `SafetyInv` and `OffersSaid`
  (a cached or copied offer was said by a device of that room). Each action maps
  to one of `Relay` or to a stutter: `GetOrCreate` to `Join`, `Clear` to `Leave`,
  `Forward` to `Say`, `ReplayOffer` to `Replay`, `PumpWrite` to `Deliver`,
  `PumpWriteError` to `Lose`.
* `RelayKeepsOrder`: `Spec => []RelayInOrder`. `OrderInv` adds that a message
  under way is one its sender has read; without it the next one read would not
  have to be newer than those in a channel.
* `OffersAreNotMissed`: `Spec => []NoMissedOffer`. `ReplayCoversOffer` says it from
  the moment a client has copied the cache: the copy is what the room keeps, or
  the newer offer went to the client itself, which was in its slot by then.
  That is what `main.go` relies on when it sets the slot before it copies the
  cache.

`AgentSessionProofs` proves for every capacity of the two channels and any
number of rounds `TypeCorrect` and, from `RoundInv`, `GateStaysOpen` and
`RoundsAreApart`. Neither property is inductive alone: that the gate is open
needs that a session is not connected before its main loop, since `Spawn` does
not touch the flag; that answers belong to the round needs that the signalling
task is past `SigSendOffer` only if the offer was sent.

`VideoPipelineProofs` proves for every channel capacity, device and number of
commands and sessions, from `ChannelInv`, that the room found before a capture
is there at the send (`RoomIsKept`) and, as an action property, that each encoded
frame enters the channel (`EveryFrameIsSent`). The argument: the thread is the only
sender, and the bridge only makes room. `PipelineInv` gives `TypeCorrect` and
`SettingsReachMjpeg`: `MjpegOnly` adds to the property that a device without H.264 and
YUYV never gets to the two paths that lose a command. Both speak of what a fold
over the queue of commands computes. The community modules define a fold by a
recursive function, and that such a function exists is proved here for sequences
by a least counterexample (`FoldExists`, from `WFMin`); `ApplyAllStep` then says
what one more command does, and every other fact about the fold follows from it.

`TurnClientProofs` proves for any peers, lifetimes and refresh period `TypeCorrect`
and, from `AgeInv` (`AgeHolds`), `OfferedRelayIsReal` and `LossIsOutlived`. What
is left of a lease cannot be bounded alone, because it runs down in the wait and
in the loop. `AgeInv` has it in a balance: once the main loop runs, lease, wait,
`RefreshEvery` for each refresh without success and the running period come to
the lifetime plus the time to the next refresh at least. A minute takes one from
both sides, a refresh sent moves one period, an answered one starts over. Before
the offer it needs that no time passes, so that a grant that comes late is still
one of full length. The minutes by which a held-up loop is late count
as wait. The periods are parameters: the theorem says what
they have to satisfy, `idle + RefreshEvery * (missed + 1) < Lifetime`.

`BrowserConsoleProofs` proves for any number of offers, sockets and rounds
`SentIsApplied`, from `AnswersInv`, and `SocketIsKept`, from `SocketsInv`.
`AnswersInv` says how handlers may meet: a remote description is set by the first
operation of a chain only, while the connection is in its first state, so that an
answered connection never goes back and cannot be answered again.
`SocketsInv` says what reset leaves open: a connection that is not closed is the
global one, of the socket there is, or has been replaced over its own socket.
`TypeCorrect` bounds operations and answers by the number of handlers, which is
a counting argument: a handler awaits one promise at a time, so it owns at most
one operation (`OwnersInv`) and a chain is no longer than there are handlers
(`ChainBound`); and of a connection no more answers were created than handlers
have got past asking for one (`MadeInv`).

`AdaptiveQualityProofs` proves `TypeCorrect` and two action properties, for any choices of the
user among the page's, any samples and any size of the ring. `TheLoopLowers` needs `SettingsOK`
(profile and request are settings the page knows) and the lemma `Lower` on the
ladder, also for the 1024 that is not on it. `GuardJudgesItsOwn` needs
`OwnInv`: of an earlier connection the ring has one sample at most, and none
while that connection's statistics are still to come. The second half is what makes
the first inductive, since a reset empties the ring and not what is under way.
`TypeCorrect` needs `LateInv`, which bounds the statistics that are still to
come: none of a connection not yet made, of the current one no more than
it came up.

`HidPathProofs` proves for any keys, buttons, texts, capacities and setups
`TypeCorrect`, `NoKeyIsStuck`, `PointerFollows` and `TextIsWhole`. The properties speak of
a machine that has taken everything sent; the invariants have to speak of it
while frames are under way. `Way` is all of them in order: the channel to the
hid thread, the frame it holds, the frames on the wire. `KbdInv`, `MouseInv`
and `PlaceInv` say that the newest frame of a kind shows what the page holds, and
that without one the machine does; they ask for nothing while the
machine is out of reach or the page has sent no such frame over this connection.
`TextInv` is about all frames and not the newest: while none was lost, those under
way lead the machine, character by character, from what it has seen to what the
page has typed (`Leads`), and a key of it is left down only if its timer still runs.
That other keys and combinations come in between does no harm: a report of theirs
that shows no key of the text reads, to the text, as a release. One that
does ends `whole`.
The invariants are carried over `Way` by what a step does to it: append one
frame, take the oldest, or keep it as it is. Assumed are the types of the constants
(typed characters are keys, and may be the user's), that there is a place and a
setting, and that the value for no frame is not a frame.

`PlanesProofs` proves of the pixel conversions, for frames of any size with even
sides, that writes stay in the buffer and in their planes (`PlanesApart`), that
none overwrites another (`WritesDistinct`), and that reads stay in the frame that came
(`ReadsInside`; a YUYV frame is taken to have two bytes for each pixel, a row of the screen
four or more). With odd sides the first fails: `MCVideoPipeline` evaluates a frame of
3 by 3 (`OddSidesPanic`), and also that a small even frame is written completely
(`PlanesFill`). Nothing in the code checks the sides: they come from the device or the display.

The theorems on the server assume that roles are disjoint, that nil is no
connection, that offers are a kind of message, and the types of the bounds. Each
lemma takes one conjunct through a step; `StepCases` sorts the actions by what
they touch.

Every invariant that a passing run checks is a theorem. Only model-checked is
what is temporal with fairness, since TLAPS does not reason about ENABLED:
`GoroutinesEnd` and `OfferReachesClient` of the server; `NextRoundAfterBrowser` and
`NextRoundAfterTask` of the agent; `PictureArrives` and `CommandsTaken` of the pipeline;
`EscReleases`, `SettingArrives` and `LoopGoesOn` of the input; `LastOfferAnswered`,
`DisconnectFreesAgent` and `SettingsReachDevice` of the page; `DeadRelayEndsRound` of
the relay. What the runs with an expected violation refute needs no proof: TLC
prints the behaviour. `PlanesFill` is evaluated for small frames only.

## Not modelled, and what comes next

Not modelled:

* str0m, the WebRTC library under `agent/patches`. With some 43,000 of the
  46,000 lines of implementation in the repository it is by far its largest part, and it is
  third-party code kept here with a patch: its events are inputs of the models
  (`Connected`, `Disconnected`, `ChannelData`, `KeyframeRequest`), its requests are
  what the session does to it. Read for this purpose were its ICE agent (when `Disconnected` is
  reported) and its `Rtc` (what clears `is_alive`). SRTP, SCTP, pacing,
  packetisation and SDP are left to its own tests.
* Loops over bytes, where TLC has little to add to a unit test: the colours of the pixel
  conversions, the attribute parsers of STUN and TURN, MD5, SHA-1 and HMAC, the
  bytes of HID reports, tables of key codes.
* ALSA, Opus and V4L2 beyond success and failure; audio capture, a loop of one
  blocking send; configuration parsing, the page, deployment scripts.
* What a browser's candidates do after ICE: which pair is chosen, and that a
  relay may be one path of several. `TurnClient` takes the relay for the only one.
* A composition of all parts at once. Where two parts meet, one of them is
  modelled in full and the other by the steps that can be seen from there: the
  agent in `BrowserConsole`, the page and the session in `HidPath`, the session
  in `VideoPipeline`, the browser in `AgentSession`. In safety each of those reductions
  allows what the part it stands for can do. In liveness two take for granted what
  another module shows to be conditional: `PeerClosed` of `BrowserConsole` and the
  session of `VideoPipeline` go on as if the HID queue always had room.

A next step, in this order: `EndToEnd`, agent, server and page composed at the
level of offers and answers; the ICE agent of str0m, for the rule by which a
session is reported as disconnected.
