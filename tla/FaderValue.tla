----------------------------- MODULE FaderValue -----------------------------
(***************************************************************************)
(* What one UF8 fader writes, and to which track (extension/src/main.cpp).  *)
(*                                                                          *)
(* The worker thread turns touch edges and position frames into entries of  *)
(* g_inQueue (onUf8Input, queueInput) and remembers the last position of    *)
(* the touch.  The main thread ticks: drainInputQueue writes the queued     *)
(* positions to whatever the strip is banked on, the release commit         *)
(* (commitDebouncedTouchReleases) writes the last position once more to     *)
(* g_slotTrack, and pushZonesForVisibleSlots refreshes that mirror and the  *)
(* value a touch starts from.  FLIP, on a third thread or the worker, swaps *)
(* what the fader drives from the volume of the track to its pan.  But for  *)
(* the mutex of the queue the threads share no lock: an access to what they *)
(* share is a step of its own.                                              *)
(*                                                                          *)
(* The other targets of a fader behave as volume and pan do and are in      *)
(* FaderTarget, its motor in FaderMotor.  The offset of the sensor, which   *)
(* is measured once in a touch, is taken to be 0.                           *)
(***************************************************************************)
EXTENDS Integers, Sequences

CONSTANTS
  Tracks,     \* the tracks the strip can be banked on
  NoTrack,    \* the strip is banked past the last track
  PbMax,      \* kUf8FaderPbMax
  Deadband,   \* 4 in the code: smaller moves are not queued
  Setups,     \* which of Options are there
  MaxQueue    \* with a backlog no event begins with more entries queued

\* g_altDragSnapBack, a user who presses FLIP or banks the surface, volumes that
\* change without the fader, and events that find the last ones still queued.
Options == {"snapback", "flip", "banks", "external", "backlog"}

\* What the constants must be.
FaderValueAssumption ==
  /\ NoTrack \notin Tracks
  /\ PbMax \in Nat \ {0} /\ Deadband \in 1 .. PbMax /\ MaxQueue \in Nat
  /\ Setups \subseteq SUBSET Options

Pb == 0 .. PbMax
Shown == Tracks \cup {NoTrack}
Targets == Tracks \X BOOLEAN    \* a track's volume (FALSE) or pan (TRUE)
NoTarget == <<NoTrack, FALSE>>

Vol(v) == [kind |-> "VolumeAbs", value |-> v]
Snapshot == [kind |-> "TouchOriginSnapshot", value |-> 0]
Entries == {Vol(v) : v \in Pb} \cup {Snapshot}

VARIABLES
  setup,        \* the options of this behaviour
  down,         \* the last touch edge was an on edge
  reported,     \* g_touchReported
  pending,      \* g_touchReleasePending
  quiet,        \* now - g_touchLastPress >= kTouchDebounceQuiet
  moved,        \* g_lastTouchPbValid
  eff,          \* g_lastTouchEffPb
  origin,       \* g_touchOriginPb
  originValid,  \* g_touchOriginPbValid
  lastOut,      \* g_lastMsbOut, g_lastLsbOut: the last position queued
  queue,        \* the entries of this strip in g_inQueue
  flip,         \* g_flip
  flipPc,       \* where the flip builtin is
  bank,         \* the track g_bankOffset puts on the strip
  slotTrack,    \* g_slotTrack
  motorTarget,  \* g_motorTargetPb, 0 while invalid
  value,        \* volume and pan of the tracks, as positions of the fader
  workerPc,     \* where the worker is in the handler of an event
  pos,          \* its local: the position of the frame, or of the seed
  mainPc,       \* where the main thread is in its tick
  batch,        \* its local: what drainInputQueue took, and for which track
  rel,          \* its locals of a release: touchPb and snapBack; under is
                \* history: g_flip when the position was recorded
  \* history, for the properties
  effFlip,      \* g_flip when eff was recorded
  crossed,      \* what the other threads did in the middle of the release
  left          \* the target the last release wrote, the position, and how

touch == <<down, reported, pending, quiet>>
drag == <<moved, eff>>
snap == <<origin, originValid>>
out == <<lastOut, queue>>
flipping == <<flip, flipPc>>
mirrors == <<slotTrack, motorTarget>>
worker == <<workerPc, pos>>
locals == <<batch, rel>>
vars == <<setup, touch, drag, snap, out, flipping, bank, mirrors, value, worker, mainPc,
          locals, effFlip, crossed, left>>

Batches == [track : Shown, entries : Seq(Entries)]
Releases == [pos : Pb, snapped : BOOLEAN, under : BOOLEAN]
Lefts == [target : Targets \cup {NoTarget}, pos : Pb,
          how : {"moved", "overtaken", "snapped"}]

TypeOK ==
  /\ setup \in SUBSET Options
  /\ {down, reported, pending, quiet, moved, originValid, flip, effFlip} \subseteq BOOLEAN
  /\ {eff, origin, lastOut, motorTarget, pos} \subseteq Pb
  /\ queue \in Seq(Entries)
  /\ {bank, slotTrack} \subseteq Shown
  /\ value \in [Targets -> Pb]
  /\ batch \in Batches /\ rel \in Releases
  /\ flipPc \in {"idle", "clear"}
  /\ workerPc \in {"idle", "report", "anchor", "seed", "forget", "ask",
                   "mark", "record", "queue"}
  /\ mainPc \in {"drain", "apply", "check", "clear", "exchange", "moved", "eff",
                 "unmark", "write", "push", "mirror"}
  /\ crossed \in SUBSET {"touch", "frame", "flip"}
  /\ left \in Lefts

NoBatch == [track |-> NoTrack, entries |-> <<>>]
NoRelease == [pos |-> 0, snapped |-> FALSE, under |-> FALSE]
NothingLeft == [target |-> NoTarget, pos |-> 0, how |-> "snapped"]

Init ==
  /\ setup \in Setups
  /\ down = FALSE /\ reported = FALSE /\ pending = FALSE /\ quiet = TRUE
  /\ moved = FALSE /\ eff = 0 /\ lastOut = 0 /\ origin = 0 /\ originValid = FALSE
  /\ queue = <<>> /\ flip = FALSE /\ flipPc = "idle"
  /\ workerPc = "idle" /\ pos = 0
  /\ mainPc = "drain" /\ batch = NoBatch /\ rel = NoRelease
  /\ bank \in Shown /\ slotTrack = bank
  /\ value \in {[t \in Targets |-> v] : v \in Pb}
  /\ motorTarget = IF bank \in Tracks THEN value[<<bank, FALSE>>] ELSE 0
  /\ effFlip = FALSE /\ crossed = {} /\ left = NothingLeft

\* The worker takes the next event from the device.
TakesInput == workerPc = "idle" /\ Len(queue) <= IF "backlog" \in setup THEN MaxQueue ELSE 0

\* The steps of a position frame, after it found the strip touched.
InFrame == workerPc \in {"mark", "record", "queue"}

\* The steps of a release, from the check that it is due to its write.
Releasing == mainPc \in {"clear", "exchange", "moved", "eff", "unmark", "write"}

Near(v, w) == -Deadband < v - w /\ v - w < Deadband

-----------------------------------------------------------------------------
(* The worker thread.                                                       *)

Works(from, to) == workerPc = from /\ workerPc' = to

\* queueInput: a position replaces the one that waits, in its place.
QueueInput(q, e) ==
  LET waiting == {i \in DOMAIN q : q[i] # Snapshot} IN
  IF e # Snapshot /\ waiting # {}
    THEN [q EXCEPT ![CHOOSE i \in waiting : TRUE] = e]
    ELSE Append(q, e)

\* FF 20, state != 0: stamp the press, cancel a pending release ...
OnEdge ==
  /\ TakesInput /\ workerPc' = "report"
  /\ ~down
  /\ down' = TRUE /\ quiet' = FALSE /\ pending' = FALSE
  /\ crossed' = IF Releasing THEN crossed \cup {"touch"} ELSE crossed
  /\ left' = NothingLeft
  /\ UNCHANGED <<setup, reported, drag, snap, out, flipping, bank, mirrors, value, pos,
                 mainPc, locals, effFlip>>

\* ... report the touch ...
ReportTouch ==
  /\ Works("report", "anchor")
  /\ reported' = TRUE
  /\ UNCHANGED <<setup, down, pending, quiet, drag, snap, out, flipping, bank, mirrors,
                 value, pos, mainPc, locals, effFlip, crossed, left>>

\* ... take the value it starts from ...
TakeAnchor ==
  /\ Works("anchor", "seed")
  /\ pos' = motorTarget
  /\ UNCHANGED <<setup, touch, drag, snap, out, flipping, bank, mirrors, value, mainPc,
                 locals, effFlip, crossed, left>>

\* ... queue it first ...
QueueSeed ==
  /\ Works("seed", "forget")
  /\ queue' = IF pos # 0 THEN QueueInput(queue, Vol(pos)) ELSE queue
  /\ pos' = 0
  /\ UNCHANGED <<setup, touch, drag, snap, lastOut, flipping, bank, mirrors, value, mainPc,
                 locals, effFlip, crossed, left>>

ForgetOrigin ==
  /\ Works("forget", IF "snapback" \in setup THEN "ask" ELSE "idle")
  /\ originValid' = FALSE
  /\ UNCHANGED <<setup, touch, drag, origin, out, flipping, bank, mirrors, value, pos,
                 mainPc, locals, effFlip, crossed, left>>

\* ... and then the request for the value a snap-back returns to.
AskOrigin ==
  /\ Works("ask", "idle")
  /\ queue' = QueueInput(queue, Snapshot)
  /\ UNCHANGED <<setup, touch, drag, snap, lastOut, flipping, bank, mirrors, value, pos,
                 mainPc, locals, effFlip, crossed, left>>

\* FF 20, state = 0.
OffEdge ==
  /\ workerPc = "idle" /\ down
  /\ down' = FALSE /\ pending' = TRUE
  /\ UNCHANGED <<setup, reported, quiet, drag, snap, out, flipping, bank, mirrors, value,
                 worker, mainPc, locals, effFlip, crossed, left>>

\* FF 21: the fader is at v.  Nothing happens unless the strip is touched ...
PositionFrame(v) ==
  /\ TakesInput /\ workerPc' = "mark"
  /\ reported
  /\ pos' = v
  /\ UNCHANGED <<setup, touch, drag, snap, out, flipping, bank, mirrors, value, mainPc,
                 locals, effFlip, crossed, left>>

\* ... the touch is marked as a move ...
MarkMoved ==
  /\ Works("mark", "record")
  /\ moved' = TRUE
  /\ UNCHANGED <<setup, touch, eff, snap, out, flipping, bank, mirrors, value, pos, mainPc,
                 locals, effFlip, crossed, left>>

\* ... the position is recorded ...
Record ==
  /\ Works("record", "queue")
  /\ eff' = pos /\ effFlip' = flip
  /\ UNCHANGED <<setup, touch, moved, snap, out, flipping, bank, mirrors, value, pos, mainPc,
                 locals, crossed, left>>

\* ... and queued when it clears the deadband.
QueuePosition ==
  /\ Works("queue", "idle")
  /\ \/ Near(pos, lastOut) /\ UNCHANGED <<lastOut, queue>>
     \/ ~Near(pos, lastOut) /\ lastOut' = pos /\ queue' = QueueInput(queue, Vol(pos))
  /\ pos' = 0
  /\ UNCHANGED <<setup, touch, drag, snap, flipping, bank, mirrors, value, mainPc, locals,
                 effFlip, crossed, left>>

\* The quiet window (150 ms) is longer than a handler and a tick take: it passes
\* within neither.
PressAges ==
  /\ ~quiet /\ workerPc = "idle" /\ mainPc = "drain"
  /\ quiet' = TRUE
  /\ UNCHANGED <<setup, down, reported, pending, drag, snap, out, flipping, bank, mirrors,
                 value, worker, mainPc, locals, effFlip, crossed, left>>

Worker ==
  \/ OnEdge \/ ReportTouch \/ TakeAnchor \/ QueueSeed \/ ForgetOrigin \/ AskOrigin
  \/ OffEdge
  \/ \E v \in Pb : PositionFrame(v)
  \/ MarkMoved \/ Record \/ QueuePosition
  \/ PressAges

-----------------------------------------------------------------------------
(* The flip builtin.                                                        *)

FlipStore ==
  /\ "flip" \in setup
  /\ flipPc = "idle" /\ flipPc' = "clear"
  /\ flip' = ~flip
  /\ crossed' = IF mainPc \in {"eff", "unmark", "write"} THEN crossed \cup {"flip"}
                ELSE crossed
  /\ UNCHANGED <<setup, touch, drag, snap, out, bank, mirrors, value, worker, mainPc, locals,
                 effFlip, left>>

\* Faulty: the position of the touch stays valid.
FlipKeepsTouch ==
  /\ flipPc = "clear" /\ flipPc' = "idle"
  /\ UNCHANGED <<setup, touch, drag, snap, out, flip, bank, mirrors, value, worker, mainPc,
                 locals, effFlip, crossed, left>>

\* The position of a touch in flight is invalidated.
FlipClear ==
  /\ flipPc = "clear" /\ flipPc' = "idle"
  /\ moved' = FALSE
  /\ UNCHANGED <<setup, touch, eff, snap, out, flip, bank, mirrors, value, worker, mainPc,
                 locals, effFlip, crossed, left>>

-----------------------------------------------------------------------------
(* The main thread.                                                         *)

Goes(from, to) == mainPc = from /\ mainPc' = to

\* A target that does not exist is not written.
Write(t, v) == IF t \in Targets THEN [value EXCEPT ![t] = v] ELSE value

\* drainInputQueue takes the whole queue ...
SwapQueue ==
  /\ Goes("drain", IF queue = <<>> THEN "check" ELSE "apply")
  /\ batch' = [track |-> IF queue = <<>> THEN NoTrack ELSE bank, entries |-> queue]
  /\ queue' = <<>>
  /\ left' = IF InFrame THEN NothingLeft ELSE left
  /\ UNCHANGED <<setup, touch, drag, snap, lastOut, flipping, bank, mirrors, value, worker,
                 rel, effFlip, crossed>>

NextEntry ==
  /\ mainPc = "apply"
  /\ IF Len(batch.entries) = 1
       THEN mainPc' = "check" /\ batch' = NoBatch
       ELSE UNCHANGED mainPc /\ batch' = [batch EXCEPT !.entries = Tail(@)]
  /\ UNCHANGED <<setup, touch, drag, out, flipping, bank, mirrors, worker, rel, effFlip,
                 crossed, left>>

\* ... and works through it: a position is written ...
ApplyPosition ==
  /\ NextEntry /\ Head(batch.entries) # Snapshot
  /\ value' = Write(<<batch.track, flip>>, Head(batch.entries).value)
  /\ UNCHANGED snap

\* ... a snapshot sees what the positions before it have written.
ApplySnapshot ==
  /\ NextEntry /\ Head(batch.entries) = Snapshot
  /\ IF batch.track \in Tracks
       THEN origin' = value[<<batch.track, flip>>] /\ originValid' = TRUE
       ELSE UNCHANGED snap
  /\ UNCHANGED value

\* commitDebouncedTouchReleases: is a release due?
Check ==
  /\ Goes("check", IF pending /\ quiet THEN "clear" ELSE "push")
  /\ UNCHANGED <<setup, touch, drag, snap, out, flipping, bank, mirrors, value, worker,
                 locals, effFlip, crossed, left>>

ClearPending ==
  /\ Goes("clear", "exchange")
  /\ pending' = FALSE
  /\ UNCHANGED <<setup, down, reported, quiet, drag, snap, out, flipping, bank, mirrors,
                 value, worker, locals, effFlip, crossed, left>>

DropTouch ==
  /\ Goes("exchange", IF reported THEN "moved" ELSE "push")
  /\ reported' = FALSE
  /\ crossed' = IF InFrame THEN crossed \cup {"frame"} ELSE crossed
  /\ UNCHANGED <<setup, down, pending, quiet, drag, snap, out, flipping, bank, mirrors,
                 value, worker, locals, effFlip, left>>

\* Nothing is written without a track, or if the fader did not move.
ReadMoved ==
  /\ Goes("moved", IF slotTrack # NoTrack /\ moved THEN "eff" ELSE "push")
  /\ crossed' = IF flipPc = "clear" THEN crossed \cup {"flip"} ELSE crossed
  /\ UNCHANGED <<setup, touch, drag, snap, out, flipping, bank, mirrors, value, worker,
                 locals, effFlip, left>>

\* The position to write: the last one of the touch, within the deadband or not ...
ReadLast ==
  /\ Goes("eff", "unmark")
  /\ rel' = [pos |-> eff, snapped |-> FALSE, under |-> effFlip]
  /\ UNCHANGED <<setup, touch, drag, snap, out, flipping, bank, mirrors, value, worker,
                 batch, effFlip, crossed, left>>

\* ... or, released with Alt held, the value from before it.
ReadOrigin ==
  /\ Goes("eff", "unmark")
  /\ "snapback" \in setup /\ originValid
  /\ rel' = [pos |-> origin, snapped |-> TRUE, under |-> FALSE]
  /\ UNCHANGED <<setup, touch, drag, snap, out, flipping, bank, mirrors, value, worker,
                 batch, effFlip, crossed, left>>

Unmark ==
  /\ Goes("unmark", "write")
  /\ moved' = FALSE /\ originValid' = FALSE
  /\ UNCHANGED <<setup, touch, eff, origin, out, flipping, bank, mirrors, value, worker,
                 locals, effFlip, crossed, left>>

HowLeft ==
  IF rel.snapped THEN "snapped" ELSE IF "frame" \in crossed THEN "overtaken" ELSE "moved"

Leaves ==
  IF "touch" \in crossed THEN NothingLeft
  ELSE [target |-> <<slotTrack, flip>>, pos |-> rel.pos, how |-> HowLeft]

\* Faulty: only what was queued counts, the rest of the move is dropped.
WriteReleaseQueuedOnly ==
  /\ Goes("write", "push")
  /\ left' = Leaves
  /\ rel' = NoRelease
  /\ UNCHANGED <<setup, touch, drag, snap, out, flipping, bank, mirrors, value, worker,
                 batch, effFlip, crossed>>

WriteRelease ==
  /\ Goes("write", "push")
  /\ value' = Write(<<slotTrack, flip>>, rel.pos)
  /\ left' = Leaves
  /\ rel' = NoRelease
  /\ UNCHANGED <<setup, touch, drag, snap, out, flipping, bank, mirrors, worker, batch,
                 effFlip, crossed>>

\* pushZonesForVisibleSlots: the mirror of the track, and of the value of a
\* fader that is not touched.
Push ==
  /\ Goes("push", IF ~reported /\ bank \in Tracks THEN "mirror" ELSE "drain")
  /\ slotTrack' = bank
  /\ crossed' = {}
  /\ UNCHANGED <<setup, touch, drag, snap, out, flipping, bank, motorTarget, value, worker,
                 locals, effFlip, left>>

\* Faulty: a value at the top is mirrored past the end of the fader.
MirrorPastTop ==
  /\ Goes("mirror", "drain")
  /\ motorTarget' = value[<<slotTrack, flip>>] + 1
  /\ UNCHANGED <<setup, touch, drag, snap, out, flipping, bank, slotTrack, value, worker,
                 locals, effFlip, crossed, left>>

Mirror ==
  /\ Goes("mirror", "drain")
  /\ motorTarget' = value[<<slotTrack, flip>>]
  /\ UNCHANGED <<setup, touch, drag, snap, out, flipping, bank, slotTrack, value, worker,
                 locals, effFlip, crossed, left>>

Main ==
  \/ SwapQueue \/ ApplyPosition \/ ApplySnapshot
  \/ Check \/ ClearPending \/ DropTouch
  \/ ReadMoved \/ ReadLast \/ ReadOrigin \/ Unmark \/ WriteRelease
  \/ Push \/ Mirror

\* A bank key, a track selection: another track is on the strip.
BankChanges ==
  /\ "banks" \in setup
  /\ bank' \in Shown \ {bank}
  /\ UNCHANGED <<setup, touch, drag, snap, out, flipping, mirrors, value, worker, mainPc,
                 locals, effFlip, crossed, left>>

\* REAPER changes a value on its own: the mixer, automation.
ReaperChanges ==
  /\ "external" \in setup
  /\ \E t \in Targets, v \in Pb :
       /\ v # value[t]
       /\ value' = Write(t, v)
       /\ left' = IF left.target = t THEN NothingLeft ELSE left
  /\ UNCHANGED <<setup, touch, drag, snap, out, flipping, bank, mirrors, worker, mainPc,
                 locals, effFlip, crossed>>

-----------------------------------------------------------------------------
Next == Worker \/ FlipStore \/ FlipClear \/ Main \/ BankChanges \/ ReaperChanges

Spec == Init /\ [][Next]_vars

-----------------------------------------------------------------------------
(* Properties.                                                              *)

\* Once a release has written its position, the value stays there (within the
\* deadband) until the next touch or a change from REAPER: no position of the
\* touch that is still queued undoes it.  Only a frame that was being handled
\* when the touch was dropped may move it on, and then to the newest position.
\* (Unless its handler lasts into the next tick: see SwapQueue.)
LeftWhereReleased ==
  (left.target # NoTarget /\ left.how # "snapped") =>
    \/ Near(value[left.target], left.pos)
    \/ left.how = "overtaken" /\ value[left.target] = lastOut

\* main.cpp:48999: "Invalidate any in-flight touch context - the captured pb14
\* was meaningful in the OLD FLIP state".  A release never writes a position
\* that was recorded under the other FLIP state, unless FLIP, a touch or a
\* position frame is at work in the middle of it.
ReleaseUnderSameFlip ==
  [][(WriteRelease /\ ~rel.snapped /\ crossed = {}) => rel.under = flip]_vars

=============================================================================
