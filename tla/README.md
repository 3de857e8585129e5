# Rea-Sixty in TLA+

Rea-Sixty is a REAPER extension that drives the SSL UF8, UC1 and UF1 surfaces over
USB, shows Philips Hue lamps, OBS sources and robotic microphone mounts on their
strips, and talks to Stream Deck and Companion clients; a Node server exchanges
plug-in maps. This directory models the parts of it in which threads, devices and
stored state meet, checks them with TLC and proves the most important facts with TLAPS.

Line numbers below are those of `extension/src/main.cpp` unless a file is named.

## 1. Inventory

### Threads and how they meet

| Thread | Runs | Shares with the others |
|---|---|---|
| USB worker of each surface | `UF8Device::workerLoop`, input callbacks (`onUf8Input`), binding dispatch | atomics per strip (`g_touchReported`, `g_faderMotorEngaged`, `g_lastTouch*`, `g_touchReleasePending`), the input queue, the output queues |
| Main thread, about 30 Hz | `drainInputQueue`, `commitDebouncedTouchReleases`, `pushZonesForVisibleSlots`, settings | the same atomics; every REAPER call is made here |
| Hue worker | `HueManager::workerLoop` | slots of atomics, `recReq_`, `saved_`, `lights_` under a mutex |
| DynaMount worker | `DynaMountManager::workerLoop` | the atomics of each `Mount`, `detectReq_` |
| OBS worker | `ObsManager::workerLoop` | a request queue of 32 |
| Stream Deck server | `StreamDeckBridge` | an output queue of 256 lines |

### Components

| Component | State | Operations | Hard behaviour | What makes it correct |
|---|---|---|---|---|
| Fader touch (main.cpp 21686-21696, 23858-23947, 37275-37285) | `g_touchReported`, pending release and press stamps per strip | on edge, off edge, commit of a quiet release | two threads on the same atomics; a bouncing sensor | a reported touch always has its release on its way; a touch ends |
| Fader motor (22710-22730, 35305-35321, 36058-36174, 37455-37524, UF8Device.cpp 268-284) | `g_faderMotorEngaged`, `g_motorTargetPb`, output queue, motor of the device | limp, echo, enable, drive | priority queue reorders; limp motors drop drives; flag and motor change in two steps | a motor that is on holds the last frame; a limp motor is known; the fader follows REAPER |
| Fader value (17449-17463, 19151 on, 23858-23110, 37287-37453, 48999-49010) | input queue, anchors and last positions per strip, REAPER values | touch, position, FLIP, drain, release, snap-back, follow | a queue that coalesces in place; release races queued positions; FLIP and bank changes | the target stays where the fader was released |
| Fader modes (20060-20239, 35665, 36073-36140, 37324-37452, Bindings) | exclusive modes, FLIP, focus, user map, sticky target | switch a mode | four ladders that must choose the same target | drag, release, snapshot and motor agree |
| DynaMount (DynaMountManager.cpp) | per mount: target, mark, protocol, acknowledged pose | set a target, nudge, detect, settings, worker pass | requests of seconds, lost answers, edits meanwhile | no target is lost; an acknowledged pose is where the mount stands |
| Hue recording light (HueManager.cpp 685-695, 1295-1460) | `recReq_`, `saved_`, `lights_`, settings | record start, stop, test, worker pass, poll | one cell for two requests; restore over a failing network; edits during a take | the lamps come back as they were |
| Hue slots (HueManager.cpp 363-472, 1121-1279, 1464-1568) | per strip: live value, mark, what was sent last; `lights_` | edit, send, read the bridge, adopt an outside change | the adoption races an edit; colours do not convert back exactly; requests fail | the last edit reaches the lamp; a poll moves a strip only if somebody else moved the lamp, or to what the lamp shows of a colour it cannot show |
| Hue link (HueManager.cpp 911-1120) | bridge id and key, state of the link | discover, pair, verify, forget | replies after a change of bridge | a key belongs to its bridge |
| OBS link (ObsManager.cpp, ObsProto.cpp, WsClient.cpp) | request queue of 32, socket, login, record state, scene list | press, connect, hello and login, read, send a batch, poll, edit the settings | connections lost in the middle of a batch; a queue that drops its oldest; answers that come after newer events | a press acts at most once and in order; the lamps and the scene list come right |
| Stream Deck and Companion (StreamDeckBridge.cpp, `sdBridgeTick_` 39105-39277, companion/src) | two queues, clients, the state sent last; socket and timer of the client | subscribe, push, broadcast, reconnect, restart of either side | a full queue refuses the newest line; a client that does not read; a timer that outlives a new connection | a client comes to show the current state over one connection |
| USB transports (UF8Device.cpp, UC1Device.cpp, UF1Device.cpp, 781-803, 22220-22325, 22613-22627, 39735-39757, 41630-41735) | handle, two threads, marks, output queue; restart request and attempts; caches of what was sent | open, captured sequence, heartbeats, send, close, recovery of a dead handle, restart | a close while a thread sends; a surface that refuses its first open; caches that outlive the surface's memory | no thread uses a handle given back; what is believed to be shown is shown; a restart brings a device back |
| Keys (Bindings.cpp 4840-5240, 534-590, 50480-50560) | layer, records of presses, modifiers and latch, wake window | press, release, long press, change of layer, wake | layer and modifier change while a key is held; releases that are lost; the threshold fires on another thread | what a press switches on goes off with its release; one of short and long fires; edges are swallowed in pairs |
| Exchange catalogue (server/src/ingest, routes) | plug-ins, vendors, aliases, maps | upload, publish, withdraw, republish, merge | names that were merged come back in later uploads; maps leave the index and return; deletes cascade | maps of one plug-in stay together through merges; an upload brings no second copy; what is taken down stays down; no map is lost |
| Exchange accounts (server/src/routes/auth.js, lib) | challenges, grants, sessions, tokens | sign in, grant, revoke | a challenge used twice, grants that expire | single use |
| Macros, maps, learn, displays, settings, SSL 360 stand-in, HTTP back ends, scripts | | | | listed in `PROJECT.json` with the reason they are not modelled |

### Hazards

`PROJECT.json` lists each hazard at its line with the properties that would catch
it, or the reason why none does yet.

## 2. Modules

| Module | Models | Used by |
|---|---|---|
| `TouchGate` | the debounce of the touches of all strips: the abstract specification of a touch | `FaderMotor` (refinement), `MCSurface`, `Surface_proofs` |
| `FaderMotor` | one strip, from sensor to motor, with the output queue; implements `TouchGate` | `FaderMotor_proofs` |
| `FaderValue` | what one strip writes to REAPER through the input queue | `MCFaders`, `Faders_proofs` |
| `FaderTarget` | which target the fader writes, releases, snapshots and follows | `MCFaders`, `Faders_proofs` |
| `ButtonDispatch` | the keys: dispatch over layers and modifiers, long presses, the wake; `ButtonSetups` holds bindings to check it with | `MCSurface`, `MCButtons`, `Surface_proofs` |
| `DynaMount` | one mount, its settings and the worker | `DynaMount_proofs` |
| `HueRecLight` | the recording light, two lamps and the bridge; `MCHueRecLight` gives the sets of settings | `MCHue`, `Hue_proofs` |
| `HueSlot` | one strip that stands for one lamp, the worker, and what moves the lamp from outside | `MCHue`, `Hue_proofs` |
| `ObsLink` | the keys' requests, the worker, OBS and the connection | `ObsLink_proofs` |
| `DeckBridge` | the client of Companion, the wire, the worker of the bridge and the tick | `MCLines`, `Lines_proofs` |
| `UsbReopen` | the surfaces on the USB, their threads, recovery and restart, and what the UF8 shows | `MCLines`, `Lines_proofs` |
| `Exchange` | the catalogue of the exchange server; `MCExchange` gives the small tables | `Exchange_proofs` |

`MCSurface`, `MCFaders`, `MCHue` and `MCLines` are sums: each holds the variables of
several modules, and a variable `part`, chosen at the start of a behaviour, says
which of them moves; the others stand still at one place. Nothing is composed by
that, one exploration answers the questions of several parts. The sums take keys,
bindings, sockets, levels and colours as constants of their own, so that the proofs are about
the very specifications the runs check, for any values of them.

### How state and actions correspond to the code

*TouchGate.* `reported`, `pending` and `quiet` are `g_touchReported`,
`g_touchReleasePending` and "the last press is at least `kTouchDebounceQuiet`
old". The on edge is two steps because the code stamps first and reports later
(23873, 23875); the commit of the main thread is one step per atomic access:
`CheckSkip`/`CheckDue`, `ClearPending`, `DropTouch`, `FinishCommit`. Time is only
the fact that a press ages (`PressAges`).

*FaderMotor.* The two threads share no lock, so every access to what they share is a step.
A touch is `OnEdge`, `ReportTouch`, `SendLimp` (priority: it enters the front of the output
queue) and `NoteLimp`; a position frame is `PositionFrame` (the test of the touch at 22946),
`MarkMoved`, `Record` and `SendEcho`. A release goes from `Check` to `CommitEngaged`, and with
Alt held on to `CommitBack` (37518-37522). `pushZonesForVisibleSlots` tests the touch once
(`PushSkips`, `PushTests`) and then rests, parks an empty strip, or follows the track: an engaged
motor is driven, a limp one loaded, woken and noted first (`PushLoads`, `PushWakes`,
`NoteEngaged`, `PushDrive`). The position written is the one without the offset of the sensor
(`Value`, `effPb`), the one echoed is as it was read (`Readback`, `pb14` of 23085). What a drain
writes, the value a touch starts from (23897-23902) included, may be any volume here. The device
(`SendFrame`) ignores drives while limp and loads echoes, as the comments at 36155-36163 say it
does. `EmptyStrip` says whether the strip may lose its track, `SnapBack` whether Alt-drag is on.
`crossed` and `raced` are history: they name the interleavings in which the code itself leaves
motor and flag apart (section 5).

*FaderValue.* `queue` is `g_inQueue` with the coalescing of `queueInput`. The steps of the worker
are those of `FaderMotor`, with the value a touch starts from (`TakeAnchor`, `QueueSeed`), the
request for the snapshot (`ForgetOrigin`, `AskOrigin`) and the deadband (`QueuePosition`). FLIP is
two steps on a thread of its own, `FlipStore` (48998) and `FlipClear` (49009). The drain takes the
queue (`SwapQueue`) and applies it entry by entry (`ApplyPosition`, `ApplySnapshot`), each with the
FLIP state of its moment. The release is `Check`, `ClearPending`, `DropTouch`, `ReadMoved` (37298),
`ReadLast` or `ReadOrigin` (37316-37318), `Unmark` (37320) and `WriteRelease`, which reads
`g_flip` (37342); `Push` and `Mirror` are the tick's copies of the track and of its value. Targets are
pairs of a track and a FLIP state. A behaviour is about one member of `Setups` (`setup`): which
options are on and what besides the fader moves. `effFlip`, `crossed` and `left` are history: the
FLIP state at the recording, who worked in the middle of the release, and what the last release wrote
and how.

*FaderTarget.* The variables are the mode switches; the operators `LiveTarget`,
`ReleaseTarget`, `SnapshotTarget` and `MotorTarget` are the four ladders. The
exclusive modes are switched by two stores each, from two threads. The release takes the
parameter of a user map from `strips[..]` (37413), the other three from
`fxEffectiveStrip(.., g_fxActiveLayer)`. That function returns its first argument whatever the layer is
(`extension/src/UserPluginCatalog.h`, 570-572: layers are of the UC1), so the two are the same binding,
`userParam`.

*ButtonDispatch.* `press` and `long` are the two tables of `Bindings.cpp`, with the
half second gone by as a mark (`ripe`). An edge is handled in the steps of `dispatch`:
`TakeSlot` or one of the deferred branches under the mutex, then `Fire` and `TakeLong`
outside it, so that other threads come in between. Only two actions last from a press
to its release, the modifier (`mod_shift` with its latch) and a REAPER toggle bound
as Hold; all others are opaque. `engaged`, `ran`, `from`, `eaten` and `spoilt` are
history. A behaviour is about one member of `Setups` (`setup`): the bindings,
the keys whose release may be lost, as the code says of the UF1, and whether the
surface goes dark.

*DynaMount.* The variables are the fields of `Mount`; the worker pass is
`Detect`, `Promote`, then one of `SkipMount`, `AlreadySent`, `Forget` and
`BeginSend`, and for a send `Request` and `Finish`. The mount (`pose`,
`reachable`) is external. Gen1 mounts take the axes crossed (`Device`), as
DynaMountManager.cpp:298-304 does.

*HueRecLight.* `recReq` is the cell of `recordingStarted` and
`recordingStopped`; the worker copies the settings (`TakeOn`, `TakeOff`,
`TakeNothing`), reads the room (`Look`), lights it (`LightAtOnce` for a group or
all, `LightSlot`/`SlotsLit` one by one) or gives it back (`Recall`, `PutBack`,
`AllBack`). `own` is what every lamp would show without the program.

*HueSlot.* An edit stores the value and then the mark (`Edit`, `MarkDirty`); the worker
takes the mark, notes what it sends, and sends what the slot holds by then
(`ClearMark`, `NoteSent`, `PushSlot`); a poll reads the lamp (`Refresh`) and adopts what
differs from what was sent (`CheckDirty`, `Adopt`). Colours are hues on one side and
points on the other, with `ToXy` and `FromXy` that are not inverse;
the bridge is sent `Clamp` of the point (HueManager.cpp:1271) while the point itself is noted
(1539-1540). `spoilt` names the
three ways an edit is lost; section 5 describes them.

*ObsLink.* The worker's pass is reading until nothing is left, then the batch swapped
out of the queue, one request at a time; the socket may break between any two. The
network loses what is on its way with the connection. OBS composes an answer at one
time and sends it at another, so that events overtake it.

*DeckBridge.* The client is an event loop with one current socket; sockets that it
replaced live on (`mine`). `Drain` and `Push` are the two halves of the tick; the worker
is `Polling` (accept, ingest, end of stream), `TakeBatch` and `SendRaw`, which waits
for the wire. `lost` and `reopened` are history.

*UsbReopen.* A device object is its two threads (`worker`, `waking`), the mark of a dead
handle (`needs`) and the request to leave (`leaving`). The tick is `TakeRestart`,
the closings and openings of a restart one device after the other, `RestartTried`,
`Recover`, those of a recovery, and `Push`. `close` is two steps, `BeginClose` and `Closed`, since the
main thread waits there for both threads. The frames of a surface are kept
as the newest of each of two parts that are cached apart; a later frame of a part
replaces an earlier one on the surface as well. The captured sequence leaves the
surface blank (`None`). The bus is external: a device is there or not, it refuses the
first open after some closes (`balks`; the comment at 789 has measured it), and transfers
end well, in an error that counts, or in a timeout that does not.

*Exchange.* The variables are the tables `plugins`, `plugin_aliases`, `vendors`,
`vendor_aliases` and `maps`. A request is one step: the server is one process, and
its handlers use the database synchronously, an upload and a merge in one
transaction. `Upload` is `ingestMap` with its two look-ups (`VendorFor`,
`PluginFor`), the replacement and the duplicate check; ids of rows are any that are
free. Names are their match keys; `Canonical` is the fixed table of spellings. The
rows of `maps` carry three history fields for the properties: the name of the
upload, whether the map came (back) into the index without the check of an
upload, and whether it was replaced or taken down.

## 3. Runs

Every run finishes within five minutes on two workers.

| Run | Checks | Shows |
|---|---|---|
| `surface` | `ReleaseOnItsWay`, `TouchEnds`; `NothingStuck`, `OneOfShortLong`, `LongFiresWhileHeld`; `WakeEatsPairs` | two strips: no interleaving loses the release of a touch. Keys: whatever happens to layer and modifier while a key is held, what it switched on goes off, and a press fires once. A surface that wakes swallows presses and releases in pairs |
| `fader_motor` | `MotorHoldsLastPb`, `LimpIsKnown`, `EngagedFollows`, `GateSpec` | with the handlers of the two threads interleaved at every access motor, flag and REAPER agree again at rest, but for the races that `crossed` and `raced` name, and the strip implements `TouchGate`, fairness included |
| `faders` | `LeftWhereReleased`, `ReleaseUnderSameFlip`; `OneMode`, `ReleaseWritesLive`, `SnapshotReadsWritten`, `MotorFollowsFaderOffPan` | touches, drags, snap-backs, FLIP, releases, bank changes and REAPER changes on one strip, the threads interleaved at every access; every combination of modes with two threads |
| `dynamount` | `UnsentIsMarked`, `SentIsWhereItStands`, `CalmMovesArrive` | failing requests, lost answers, settings edited meanwhile; liveness for targets that do not change under a request |
| `dynamount_drag` | `LatestArrives` violated | a target set under a request loses its mark (DynaMountManager.cpp:309) |
| `hue` | `RoomComesBack`, `RedGoesOut`, `RedOnlyIfSaved`; `LastEditWins`, `NoCreep` | the recording light with a room and a scene where takes last until the worker has looked; with one lamp, haste, failing requests and edited settings; a strip and a lamp that cannot show every colour |
| `rec_light_rush` | `LampsComeBack` violated | stop and start before the worker looks: the red room is what is remembered |
| `obs` | `AtMostOnceInOrder`, `LampsCatchUp`, `ScenesCatchUp` | breaking connections, wrong passwords, OBS and settings that change |
| `lines` | `HandleHeld`, `CacheIsShown`, `RestartComesBack`; `OneSocket`, `ViewCatchesUp` | two surfaces that are unplugged, die, refuse to open and are restarted; Companion over restarts of REAPER, new settings and full queues |
| `buttons_lost` | `ReleaseEndsPress` violated | a lost release makes a later one end in the wrong layer (Bindings.cpp:4873) |
| `exchange` | `UploadsLandTogether`, `TwinsAreRelisted`, `DownStaysDown`, `IdsKeepResolving` | three uploads and any number of other requests |
| `exchange_vendors` | `VendorNamesKeepResolving` violated | merging a vendor that others were merged into drops their aliases (merge.js:84) |

`TypesOK` checks the types of all parts in the sums. The types of every module are
proved (section 4); those of `FaderMotor`, `ObsLink`, `DynaMount` and `Exchange` are not
checked again.

### Bounds, and why they are enough

- `TouchGate`: two strips. The strips share only the loop of the commit; with two
  of them the loop passes another strip between any two steps of one.
- `FaderMotor`: positions `0..1`, which tell "moved" from "stands"; `MaxQueue = 0`: no event and no
  tick begins while frames wait. Within the handlers of both threads that overlap several frames
  queue up, so that a limp overtakes an enable and a drive.
- `FaderValue`: positions `0..2` with a deadband of 2, so that one unit is within it
  and two are not; one track, and the strip banked off it and back on; the options one or two at a
  time, since all together exceed the time of a run. With `backlog` an event may begin with one
  entry (`MaxQueue`) that was not drained.
- `FaderTarget`: no bound; every combination of the switches.
- `ButtonDispatch`: two keys, one of them a modifier, two layers, four setups: two of a
  surface that stays awake, with every behaviour and with and without long presses, in which
  releases of the modifier may be lost, and two of one that goes dark, in which those of the
  other key may be. In `buttons_lost` all may be. A record belongs to a place (layer
  and key), so two layers show an edge that lands in the other one.
- `DynaMount`: two values for the distance and the rotation, one for the side; an
  axis is at its target or not. One mount, since mounts share the worker and
  nothing else.
- `HueRecLight`: two lamps, three looks and on/off; the restore works lamp by lamp,
  so two lamps show one restored and one not.
- `HueSlot`: two edits and one change from outside or failed request; two levels, three
  points, one of which the lamp shows as another one, and four hues, two of which have one point. An edit that is lost needs
  one other thing in its way.
- `ObsLink`: two presses, a queue of two, two messages on the wire and two changes from
  outside (of the network, OBS or the settings): one to break a link and one to
  change what it shows.
- `DeckBridge`: two sockets (one that lives on and one that is current), one change of
  the surface from one state to the other (they are interchangeable, so the first is
  fixed), two restarts or new settings, queue and wire of one line each, so that both are
  full at once.
- `UsbReopen`: two devices, of which one has strips, any two of a restart, a fault, a
  cable and a change of what is to be shown; `Attempts` is that of the code, 5. Two
  devices tell a restart that brought one back from one that brought none.
- `Exchange`: three uploads, three names and two vendors (three in
  `exchange_vendors`), two mappings, one account. Three names allow a merge into a
  plug-in that another one was merged into; two mappings tell a copy from a
  change. What an account may do to maps of others is refused before any change,
  so a second one adds no step. Names, rows and mappings are interchangeable
  (symmetry); `exchange` gives every vendor one spelling.

Deadlock is checked in every run but `obs`: the threads loop for ever, and the server
takes any request. In `obs` a disabled link rests once the presses and the changes
that the bounds allow are spent.

### Fairness, and why the code justifies it

- The main thread is a timer that REAPER calls for ever (`Main`, strong where its
  branches are disabled in turn); the worker loops end only at unload (`Worker`).
- A press ages (`PressAges`): time passes. It is strong in `FaderMotor` since a
  bounce may renew it; the runs ask for touches that end. In `FaderValue` a press does not age in the
  middle of a handler or a tick: neither takes 150 ms. That is an assumption on timing, and it is the
  only one there.
- `Main` is strong in `FaderMotor` because of `MaxQueue`, a bound the program does not have: it makes a
  tick wait for the queue to be sent.
- The worker of OBS and its poll of the status go on, and OBS reads and answers
  (`Worker`, `PollStatus`, `Obs`); a client of the bridge connects and reads at some time,
  as the event loop of Node does (`Client`), and the bridge's worker and the tick go on.
- Half a second passes (`Ripens`) and the timer looks (`TickLongPress`).
- On the USB the tick, the threads of a device and the clock go on (`Tick`, `Threads`, `Clock`):
  a close waits for threads that look at the request to leave between frames. That a dead handle
  is noticed is not assumed.
- Nothing is assumed of hands, of REAPER, of lamps or of the network.

## 4. Proofs

Every safety property of every passing run, invariant or action property, is the property
of a theorem. Where the second column names a hypothesis on the constants, the theorem says it
(`Calm => ...`), and the constants of the run satisfy it.

| Theorem | From | Argument |
|---|---|---|
| `Surface_proofs!TypeCorrect` | `NStrips \in Nat \ {0}` | induction over the steps |
| `Surface_proofs!NoStuckTouch`, `NoStuckTouchBesideKeys` | the same | `ReleaseOnItsWay` is not inductive: the main thread's place (`strip`, `mainPc`) must be known to hold a strip whose touch is reported with a press that has been stamped, or whose release it took; the strengthening says so for each place |
| `Surface_proofs!SurfaceTypeCorrect` | `NStripsAssumption`, `KeysAssumption` | induction over the actions of the keys, one conjunct of `KeysTyped` at a time |
| `Surface_proofs!DecidesOnce` | the same, any bindings, with lost releases | `OneOfShortLong` needs `PlaceOK`: a record fits the binding of its place (`Fits`), and a press that is written down and has not fired at its threshold has fired nothing yet (`Pending`); and `HandOK`: what a thread has in hand outside the mutex was not deferred |
| `Surface_proofs!SwallowsInPairs` | the same | inductive with the types |
| `Surface_proofs!NothingStaysOn` | the same, and `LastingHeld`: bindings that end what they begin | see below |
| `FaderMotor_proofs!TypeCorrect` | `PbMaxAssumption` | induction; the queue of the device holds frames, whatever enters it at the front or the back |
| `FaderMotor_proofs!TouchIsDebounced` | the same | the step part of the refinement: every step of the strip is a step of `TouchGate` for one strip or leaves its variables, with the snap-back and the loss of the track |
| `FaderMotor_proofs!LimpMotorIsKnown`, `HoldsWhatWasAsked` | the same: any length of the queue, threads interleaved at every access | see below |
| `Faders_proofs!TypeCorrect` | any set of threads | induction |
| `Faders_proofs!ModesExclude` | the same | each switch first stores its own mode and then clears the other; the invariant speaks of the threads that are between the two stores |
| `Faders_proofs!ReleaseFollowsDrag`, `SnapshotIsInverse`, `MotorFollows` | type correctness and `ModesExclude` | case analysis over the ladders: with both modes on the ladders would disagree, so the exclusion is what they rest on |
| `Faders_proofs!TargetOfFaders` | the same | a step of the sum is one of the modes or leaves them: what is proved of `FaderTarget` holds in the run |
| `Faders_proofs!FadersTypeCorrect` | `FadersAssumption` | induction over touch, queue, drain and release |
| `Faders_proofs!SameFlip` | the same | `SameFlipState`: a position that is marked was recorded under the FLIP state of now, unless FLIP has stored and not yet cleared; from the mark to the write it follows the position through the locals of the release |
| `Faders_proofs!LeftThere` | the same, any length of the queue and any set of setups | see below |
| `ObsLink_proofs!TypeCorrect` | `ObsAssumption` | induction |
| `ObsLink_proofs!PressedOnceInOrder` | the same | `AtMostOnceInOrder` needs `InOrder`: what OBS did is before what is on the wire, that before the rest of the batch, that before the queue, and none of them holds a press twice. A step takes from the front of one and puts at the end of the one before it, or drops |
| `Lines_proofs!TypeCorrect`, `LinesTypeCorrect` | `UsbAssumption`, `BridgeAssumption` | induction, for `DeckBridge` one group of variables at a time |
| `Lines_proofs!NoUseAfterClose` | `UsbAssumption` | inductive with the types: `Closed` alone takes a handle |
| `Lines_proofs!BelievedIsShown` | the same | `CacheIsShown` needs `QueueIsCached` (a frame that waits is the one sent last, and a closed device has no queue) and `HandleHeld` (who sends has a handle) |
| `Lines_proofs!SurfacesBesideTheBridge` | both assumptions | the two before, for the sum |
| `Lines_proofs!OneConnection` | the same, any sockets and bounds | `OneSocket` needs `Known`: the client knows every connection it holds and holds none while it waits to reconnect. Only `open()` during that wait ends it, which sets `reopened` |
| `Hue_proofs!TypeCorrect` | `HueAssumption` | induction; `TypeOK` also says where a snapshot is and which slots still wait |
| `Hue_proofs!HueTypeCorrect` | the same, `SlotAssumption`, `RoughAssumption` (the lamp of the part in haste is one of the ticked) | the parts beside each other |
| `Hue_proofs!OnlySavedLampsAreLit` | the same and no change of settings (`~Edits`) | `RedOnlyIfSaved` needs `SavedBeforeLit` (before the red the snapshot has every lamp the settings name) and `SameSettings`, since the lamps to read are chosen from the settings as they are by then (`recCfg_` is read again, HueManager.cpp:1305) and the lamps to light from the copy |
| `Hue_proofs!RedIsSavedInEveryPart` | the same for the sum; in its part `rough` settings do change | `RoughSaves`: with one target every setting names the same lamps, so the second reading of the settings cannot choose others |
| `Hue_proofs!RoomComesBackWhenCalm`, `RoomIsBackAfterTake` | the same, a bridge that answers and no start before the worker took the last end (`Calm`) | `LampsComeBack` needs to know during the take whose the lamps are: `BySnapshot` (what is seen differs from what was there only for lamps that are kept, and what is kept is what was there unless somebody touched the lamp since), `ByScene` for the other way to restore, and `NothingKeptWhenOver`, the step that fails without `~Rushes` as run `rec_light_rush` shows |
| `Hue_proofs!LastEditIsShown` | `SlotAssumption`: any levels, colours, conversions and gamut | see below |
| `Hue_proofs!PollsDoNotCreep` | the same, a gamut that changes colours included | see below |
| `DynaMount_proofs!TypeCorrect` | `DynaMountAssumption` | the types with `FlyingWasRead`: the axes a request sends were read from the target |
| `DynaMount_proofs!AcknowledgedIsThere` | the same | `SentIsWhereItStands` needs `AnsweredIsThere` (a good answer from the mount itself leaves it where the request sent it) and `ReaddressedIsUnsure` (a copy of an old address is noted as an edit) |
| `DynaMount_proofs!NoTargetForgotten` | the same | `UnsentIsMarked` needs `ReadIsTarget`: what the worker holds when it clears the mark is still the target, unless a change was noted as missed; with the pose of `AcknowledgedIsThere` a cleared mark means a target reached |
| `Exchange_proofs!TypeCorrect` | `ExchangeAssumption` | induction |
| `Exchange_proofs!NamesStayTogether` | the same | `UploadsLandTogether` needs `NamesApart`: names of plug-ins are unique, none of them is also an alias, and aliases lead to plug-ins that are there. A merge keeps that because the name it frees becomes an alias of the target in the same step (`<1>7`, `<1>8` of `MergePluginsIInv`) |
| `Exchange_proofs!NoTwinByUpload` | the same | inductive as it stands: an upload compares itself with every published map but the one it retires |
| `Exchange_proofs!ModeratorDecides` | the same | `DownIsNoted`: a map that is down also carries a note that refuses the author; a withdrawal cannot change the note since the map is not published |
| `Exchange_proofs!NoMapLost` | the same | an action property, step by step; the types say what the rows are |

The proofs hold for any sets of strips, threads, keys, bindings, positions, sockets, names,
rows and accounts, with no bound; constants that bound a count (`MaxMaps`, `MaxEdit`, `MaxQueue`)
may be any number their assumption allows.

### The longer arguments

*What the motor holds* (`IInv` of `FaderMotor_proofs`). What the motor will do is decided
by frames that still wait, so the invariant is about the output queue: limp frames stand in front
of all others (`LimpsFirst`), between a drive, which a limp motor discards, and an enable
behind it stands an echo (`LoadAfterDrive`), and the last frame with a position decides (`LastLoad`). With
`WillBeOn` (the motor once the queue is sent), `FlagRight` says that a flag that is set tells the
truth of the motor: that needs the limp to be noted after it was queued, and fails in just the step
that sets `raced`. `Apart` is what the exchange of `g_touchReported` gives two threads without
a lock: while nothing has `crossed`, the frames of a drag and the moves of the motor exclude each
other. Under it `TouchHeld` says that from its echo to the enable of its release the last target is
where the finger is, and `Holds` that otherwise it is the position asked for last, or its readback.
A strip that a touch has crossed is `crossed` until the next tick that drives the motor with nobody at it:
the drive puts everything right, and the properties speak of it again.

*Where a fader is left* (`VInv` of `Faders_proofs`). The release writes the last position
after what the queue may still write. `QueueNewest` says why that is safe: the queue of a strip holds
at most one position entry (`OneWaits`, since `queueInput` replaces in place), and once the tick of a
release has drained, with the quiet window over, it can only hold the newest one. `TouchOver` is where
the window comes in: the press of the touch is handled, so no seed is on its way, and a touch that does
not begin again stays dropped. `Recorded` says that the newest position differs from the recorded one by
less than the deadband, and `LeftAlone` that until somebody else moves the target nothing else is on its
way, but for one frame whose handler had passed its test of the touch before the release dropped it
("overtaken"). That one may move the value on, to the newest position. Nothing is claimed of a release
that a touch crosses, nor of a frame that lasts into the drain of the next tick, nor of a snap-back.

*Whether a key leaves something on* (`StuckInv` of `Surface_proofs`). A release finds
its binding through the modifier that the press wrote down, in whatever layer the record lies. The
invariant follows each key through the phases of a press: `Fresh` before it (no record is
left, nothing is on), `InHand` while a thread holds the binding outside the mutex, `Kept` while
the key is down (records in the layer of the press alone, whose slot names what is on),
`InHand` again at the release. `ShiftOK` then accounts for the modifier, and `FlipsOK` for a
toggle, which two keys switch on and off again: it is on if an odd number of keys holds it. `LastingHeld` excludes
bindings that ask for it: a Toggle binding of the modifier, a REAPER toggle bound as Momentary
and a modifier that shares its key with a long press, and so fires at the release, have no edge
that would end them; long presses begin nothing that lasts (`ButtonAssumption`). Nothing is
claimed after a lost release or one that ran the binding of another layer (`spoilt`, section 5).

*The last edit of a slot* (`SlotIInv` of `Hue_proofs`). `SlotHasEdit` says that an edit on
its way is in the slot, `LampHasEdit` that once arrived it is on the lamp, `Noted` that what the
worker noted as sent is what it sends, unless a new mark is set; `ClearOfEdits` that an
adoption that began with a clean slot ends with one, unless an edit crossed it (`spoilt`). The
conversions of colours appear only as functions that are applied in both places. For the polls,
`InSync` relates the slot, the last write and the last reading of a lamp that nobody else
moved: the lamp shows what was sent or what it can show of it. Only when the two differ can
a poll move the slot, and `EchoIsNotAdopted` says where to.

### Only model-checked

Liveness under fairness, which the prover cannot do: `TouchEnds`, `LongFiresWhileHeld`,
`EngagedFollows`, `CalmMovesArrive`, `RedGoesOut`, `LampsCatchUp`, `ScenesCatchUp`,
`RestartComesBack`, `ViewCatchesUp`, and the fairness part of `GateSpec`. The four violations
are found by TLC.

## 5. Behaviours the models show that no run checks

The models reach these states; the lines are those of the code that leads there. No
property forbids them, for the reason given with the hazard in `PROJECT.json` or
because one run per component already shows a disagreement.

- *A press is dropped.* A press that arrives between the quiet test and the store
  of the commit (37284) is taken for released, though 21691-21693 describe the
  window as restarted by every press.
- *A motor on under a finger.* The limp command of a touch is sent with priority
  (23924) and overtakes an enable the main thread queued before it
  (36165-36167), which then switches the motor on (`crossed`).
- *A limp fader stays away from its track.* The limp may overtake a drive in the
  same way; a limp motor ignores it, a tap writes nothing at its release, and the
  follow sees that its position was already sent (36149). `crossed` lasts until the track moves.
- *The flag wrong about the motor.* Enabling the motor and noting it are two
  steps (37508, 37509, and alike in the follow); a limp noted between them leaves
  `g_faderMotorEngaged` set on a limp motor (`raced`), which 22726 says it is there to tell.
- *A limp empty strip does not park.* A strip without a track is sent a plain
  position (35318-35321), which a limp motor discards, while 35309-35310 says empty
  channels should always sit fully down.
- *A tap moves a track.* The release of a strip without a track returns early
  (37289) and leaves its drag marked; after a bank change the release of a mere tap
  writes that position (the comment at 23782-23783 says a tap writes nothing).
- *A frame in flight at the release.* A position frame that has passed its test (22946)
  when the release drops the touch (37284) is handled to its end: its queued position moves the value
  on after the release wrote ("overtaken"), and its mark may outlive the
  release, so that the next tap writes an old position.
- *FLIP in the middle of a release.* FLIP stores and then clears the marks (48998, 49009), with
  a setting saved in between, and the release reads the mark, the position and the FLIP state one after the other
  (37298, 37316, 37342). Between them a pan position becomes a volume, which 48999-49007
  is there to prevent ("flip" in `crossed`). So does a queued position: it is written under the FLIP
  state of the drain.
- *A snap-back over FLIP.* FLIP clears the marks but not `g_touchOriginPbValid`: a fader that
  moves on after it and is released with Alt held writes the origin of the old target to the new one.
- *The origin of a snap-back.* A position frame replaces the anchor in the queue
  in place (17456), in front of the snapshot, which then reads the first
  position of the drag instead of the value before it (23904-23913 says the snapshot
  drains before any drag value).
- *A value over the snap-back.* A position still queued at the release is
  written after the value the release restored (37306).
- *The motor in Pan focus* follows another parameter than the fader writes with
  FLIP and a parameter on the fader (35665 against 36070-36072 and 20122-20124);
  hence the name `MotorFollowsFaderOffPan`.
- *Lamps left red.* Switching the recording light off during a take makes the
  worker return before it restores (HueManager.cpp:1331).
- *A white lamp* that reports a colour is restored through its colour
  (HueManager.cpp:1451), so it looks the same but has left its white mode.
- *A slot that jumps back.* `adoptFromBridge` also runs after a refresh that failed, with
  the old `lights_`, and takes their state for news (`spoilt` "stale" in `HueSlot`).
- *A colour that its own echo moves.* What was sent is noted unclamped while the bridge
  reports what the lamp can show; for a colour outside the gamut the two differ by more
  than the slack (HueManager.cpp:1151-1152), which the comment above `adoptFromBridge`
  (HueManager.cpp:1117-1121) says must not move the pot. The pot goes to the hue the lamp shows, once: what was
  adopted is then taken for sent. `NoCreep` excepts exactly that move.
- *An outside change not adopted.* Adopting does not note the adopted brightness as
  sent, so a change back to what was sent last is no news (HueManager.cpp:1173-1174).
- *An edit lost at the slot.* An edit between the test of the mark (HueManager.cpp:1167)
  and the stores of the adoption ("crossed"), and one made while the lamp is off, which is not
  sent and is overwritten by the next poll ("dark").
- *A burst at OBS.* Presses made while OBS is away wait in the queue, up to 32 of them, and
  all act at the next connection. A burst can also push out the question for the scene list
  (`unasked`). Disabling the link leaves `recording_` set; a batch whose sending fails is dropped.
- *Two sockets of Companion.* `open()` keeps a pending reconnect timer
  (companion/src/bridge.js:46), which opens a second socket that lives on, and whose
  closing tears down the current one, while line 45 says it is "Safe to call on config change".
- *The newest state is dropped.* A full queue refuses the new line
  (StreamDeckBridge.cpp:397) while the worker waits for a client that does not read; the state
  is not sent again before it changes (`lost`). A client that never reads holds up `stop()`.
- *A release of the wrong layer.* A press of a Toggle or unbound key leaves no record, so after
  a change of layer its release runs the Hold binding of the new layer
  (`spoilt` "stray"). Two keys bound to the modifier share one flag: the
  release of one ends it for both.
- *One attempt to recover.* When the reopening of a dead surface fails, the object is dropped
  (41712, and alike for the UC1 and UF1), and with it the mark that asks for the next attempt, while 41640-41642
  speaks of attempts every five seconds and 789 says the first open after a close
  fails. In `UsbReopen` `needs[d]` does not lead to a surface that is open again.
- *LEDs after a reopening.* The cache of the global LEDs is not reset when the UF8 is opened
  anew, against the comment at 38181 ("project load / reopen"); they stay as the captured
  sequence left them until a modifier or a binding changes (`missed`, `LedsAgain`).
- *A restart that is content with one.* The restart ends when any device is open (39753),
  so one that opens a newly plugged device leaves those closed that refused.
- *A surface half awake.* A captured sequence that fails returns early with the motors
  not enabled (UF8Device.cpp:196-201), and the frames of the user follow it. A transfer that times out does not count towards a dead
  handle (UF8Device.cpp:351-353), though it is what 41636 reports of the UF8.
- *Emptying the catalogue.* `tools/empty-maps.js` deletes every vendor (55), and the
  dynamic aliases go by the cascade of the schema; its comment (16-18) says they stay.
  It is not an action of `Exchange`: it leads back to the initial state.

## 6. Not modelled

Displays and LEDs (but for what `UsbReopen` keeps of them), the conversion between positions
and decibels, the calibration of the motor, formatting of requests, discovery; white light and slots for
rooms of `HueSlot`; pause and the scene on air of `ObsLink`; commands other than the subscription
and the meters of `DeckBridge`; double presses, chains of steps and the editing of bindings of
`ButtonDispatch`; the input and the pacing of `UsbReopen`; the components marked
`not_modelled` in `PROJECT.json`, each with its reason. Most of the lines of the
extension draw dialogues and displays or name the hundreds of actions a key may have; they run on
one thread and keep no state that another part reads.

## 7. Plan

1. `ExchangeSignIn`: single-use challenges, device grants and tokens; `HueLink` (pair,
   verify, forget).
2. The chains of steps of `Bindings.cpp`, and the mixer that opens a layer of its own.
3. Proofs: the recording light with settings that change and takes in haste (which of its promises
   remain).
