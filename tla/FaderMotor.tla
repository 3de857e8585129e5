----------------------------- MODULE FaderMotor -----------------------------
(***************************************************************************)
(* One motorised fader of the UF8 (extension/src/main.cpp).                 *)
(*                                                                          *)
(* The worker thread of the UF8 handles the edges of the touch sensor and   *)
(* the position frames (onUf8Input), and sends the frames the program       *)
(* queued.  The main thread ticks: it drains the input queue, commits       *)
(* debounced releases (commitDebouncedTouchReleases) and drives the motor   *)
(* to REAPER's value (pushZonesForVisibleSlots).  Both decide over          *)
(* g_faderMotorEngaged, what the program believes the motor to be.  They    *)
(* share no lock: every access to what they share is a step of its own.     *)
(*                                                                          *)
(* The firmware of the UF8 is external.  It is modelled by what the code    *)
(* relies on: a motor-enable frame turns the motor on or limp, a position   *)
(* frame with bit 7 set (Echo) only loads the target, a plain one (Drive)   *)
(* loads it and is discarded while the motor is limp.                       *)
(*                                                                          *)
(* The sensor reads a fader that stands at v some offset away from v.  The  *)
(* program takes the offset off before it writes a position (effPb) but     *)
(* echoes the position as it was read, so a target is either a value or the *)
(* readback of one.                                                         *)
(*                                                                          *)
(* The eight strips share only the two queues, in which the frames of a     *)
(* strip keep their order, so one strip stands for all.  Here only the      *)
(* motor matters: what the touch edges and the position frames put in the   *)
(* input queue, and which track that moves, is in FaderValue, and here a    *)
(* drain may leave any volume.                                              *)
(***************************************************************************)
EXTENDS Naturals, Sequences

CONSTANTS
  PbMax,      \* kUf8FaderPbMax
  MaxQueue,   \* neither an event nor a tick begins with more frames queued
  SnapBack,   \* g_altDragSnapBack, the Alt-drag option
  EmptyStrip  \* can the strip be without a track?

ASSUME PbMaxAssumption == PbMax \in Nat \ {0}
ASSUME MaxQueueAssumption == MaxQueue \in Nat
ASSUME SettingsAssumption == {SnapBack, EmptyStrip} \subseteq BOOLEAN

Pb == 0 .. PbMax

Value(v) == [pb |-> v, read |-> FALSE]
Readback(v) == [pb |-> v, read |-> TRUE]
Positions == [pb : Pb, read : BOOLEAN]

Limp == [cmd |-> "limp", at |-> Value(0)]
Enable == [cmd |-> "enable", at |-> Value(0)]
Echo(p) == [cmd |-> "echo", at |-> p]
Drive(v) == [cmd |-> "drive", at |-> Value(v)]
Frames == [cmd : {"limp", "enable", "echo", "drive"}, at : Positions]

VARIABLES
  \* the hand and the hardware
  finger,     \* the last touch edge the sensor sent was on
  motorOn,    \* the firmware drives the motor
  target,     \* the firmware's target
  toDev,      \* UF8Device::pending_, the frames queued for the device
  \* the program
  quiet,      \* now - g_touchLastPress >= kTouchDebounceQuiet
  pending,    \* g_touchReleasePending
  reported,   \* g_touchReported
  engaged,    \* g_faderMotorEngaged
  moved,      \* g_lastTouchPbValid
  touchPb,    \* g_lastTouchEffPb
  lastPb,     \* g_lastFaderPb
  workerPc,   \* where the worker is in the handler of an event
  effPb,      \* its local effPb, 0 outside a position frame
  mainPc,     \* where the main thread is in its tick
  released,   \* the locals of a release: touchPb and snapBack
  \* REAPER
  present,    \* a track is on this strip (g_slotTrack)
  level,      \* linearVolumeToPb of its volume, 0 without a track
  \* history
  crossed,    \* a touch began or ended in the middle of a move of the motor
  raced       \* a limp was noted between an enable and its note

hardware == <<finger, motorOn, target, toDev>>
touch == <<quiet, pending, reported>>
drag == <<moved, touchPb>>
reaper == <<present, level>>
vars == <<hardware, touch, drag, engaged, lastPb, workerPc, effPb, mainPc, released,
          reaper, crossed, raced>>

NotReleased == [pb |-> 0, snapBack |-> FALSE]

TypeOK ==
  /\ finger \in BOOLEAN /\ motorOn \in BOOLEAN /\ present \in BOOLEAN
  /\ quiet \in BOOLEAN /\ pending \in BOOLEAN /\ reported \in BOOLEAN
  /\ engaged \in BOOLEAN /\ moved \in BOOLEAN
  /\ crossed \in BOOLEAN /\ raced \in BOOLEAN
  /\ target \in Positions /\ toDev \in Seq(Frames)
  /\ touchPb \in Pb /\ lastPb \in Pb /\ effPb \in Pb /\ level \in Pb
  /\ released \in [pb : Pb, snapBack : BOOLEAN]
  /\ workerPc \in {"idle", "report", "limp", "flag", "mark", "record", "echo"}
  /\ mainPc \in {"drain", "check", "clear", "exchange", "moved", "eff", "unmark",
                 "enable", "engaged", "back", "push", "park", "follow", "load",
                 "wake", "reengaged", "drive"}

\* After UF8Device::open: motors on, and the first tick has parked the fader.
Init ==
  /\ finger = FALSE /\ motorOn = TRUE /\ toDev = <<>>
  /\ quiet = TRUE /\ pending = FALSE /\ reported = FALSE
  /\ engaged = TRUE /\ moved = FALSE /\ touchPb = 0
  /\ workerPc = "idle" /\ effPb = 0 /\ mainPc = "drain" /\ released = NotReleased
  /\ present \in {TRUE, ~EmptyStrip}
  /\ level \in Pb /\ (~present => level = 0)
  /\ lastPb = level /\ target = Value(level)
  /\ crossed = FALSE /\ raced = FALSE

\* The worker takes the next event from the device.
TakesInput == workerPc = "idle" /\ Len(toDev) <= MaxQueue

\* The steps of a position frame, after it found the strip touched.
InFrame == workerPc \in {"mark", "record", "echo"}

\* Past its test of the touch the main thread moves the motor.
Moves == mainPc \in {"moved", "eff", "unmark", "enable", "engaged", "back", "park",
                     "follow", "load", "wake", "reengaged", "drive"}

-----------------------------------------------------------------------------
(* The worker thread: onUf8Input and the drain of the device queue.         *)

\* FF 20, state != 0: stamp the press, cancel a pending release ...
OnEdge ==
  /\ TakesInput /\ ~finger
  /\ finger' = TRUE /\ quiet' = FALSE /\ pending' = FALSE
  /\ workerPc' = "report"
  /\ UNCHANGED <<motorOn, target, toDev, reported, drag, engaged, lastPb, effPb, mainPc,
                 released, reaper, crossed, raced>>

\* ... report the touch, and queue where it starts from (see Drain) ...
ReportTouch ==
  /\ workerPc = "report" /\ workerPc' = "limp"
  /\ reported' = TRUE
  /\ crossed' = (crossed \/ Moves)
  /\ UNCHANGED <<hardware, quiet, pending, drag, engaged, lastPb, effPb, mainPc, released,
                 reaper, raced>>

\* ... sendPriority: the limp frame goes to the FRONT of the queue ...
SendLimp ==
  /\ workerPc = "limp" /\ workerPc' = "flag"
  /\ toDev' = <<Limp>> \o toDev
  /\ UNCHANGED <<finger, motorOn, target, touch, drag, engaged, lastPb, effPb, mainPc,
                 released, reaper, crossed, raced>>

\* Faulty: the flag is left as it was.
NoteLimpForgets ==
  /\ workerPc = "flag" /\ workerPc' = "idle"
  /\ UNCHANGED <<hardware, touch, drag, engaged, lastPb, effPb, mainPc, released, reaper,
                 crossed, raced>>

\* ... and note that the motor is limp.
NoteLimp ==
  /\ workerPc = "flag" /\ workerPc' = "idle"
  /\ engaged' = FALSE
  /\ raced' = (mainPc = "engaged" \/ mainPc = "reengaged")
  /\ UNCHANGED <<hardware, touch, drag, lastPb, effPb, mainPc, released, reaper, crossed>>

\* Faulty: the touch is dropped without the debounce.
OffEdgeAtOnce ==
  /\ TakesInput /\ finger
  /\ finger' = FALSE /\ reported' = FALSE
  /\ UNCHANGED <<motorOn, target, toDev, quiet, pending, drag, engaged, lastPb, workerPc,
                 effPb, mainPc, released, reaper, crossed, raced>>

\* FF 20, state = 0.
OffEdge ==
  /\ TakesInput /\ finger
  /\ finger' = FALSE /\ pending' = TRUE
  /\ UNCHANGED <<motorOn, target, toDev, quiet, reported, drag, engaged, lastPb, workerPc,
                 effPb, mainPc, released, reaper, crossed, raced>>

\* FF 21: the sensor reads the cap at v.  Nothing happens unless the strip is
\* touched ...
PositionFrame(v) ==
  /\ TakesInput /\ reported
  /\ effPb' = v /\ workerPc' = "mark"
  /\ UNCHANGED <<hardware, touch, drag, engaged, lastPb, mainPc, released, reaper, crossed,
                 raced>>

\* ... the touch is marked as a move ...
MarkMoved ==
  /\ workerPc = "mark" /\ workerPc' = "record"
  /\ moved' = TRUE
  /\ UNCHANGED <<hardware, touch, touchPb, engaged, lastPb, effPb, mainPc, released, reaper,
                 crossed, raced>>

\* ... its position is recorded, without the offset ...
Record ==
  /\ workerPc = "record" /\ workerPc' = "echo"
  /\ touchPb' = effPb
  /\ UNCHANGED <<hardware, touch, moved, engaged, lastPb, effPb, mainPc, released, reaper,
                 crossed, raced>>

\* Faulty: the position is recorded but not echoed.
SendEchoMute ==
  /\ workerPc = "echo" /\ workerPc' = "idle"
  /\ effPb' = 0
  /\ UNCHANGED <<hardware, touch, drag, engaged, lastPb, mainPc, released, reaper, crossed,
                 raced>>

\* ... and echoed as it was read.  (Then it is queued, see Drain.)
SendEcho ==
  /\ workerPc = "echo" /\ workerPc' = "idle"
  /\ toDev' = Append(toDev, Echo(Readback(effPb)))
  /\ effPb' = 0
  /\ UNCHANGED <<finger, motorOn, target, touch, drag, engaged, lastPb, mainPc, released,
                 reaper, crossed, raced>>

\* The hand moves the fader, or the motor does.  (The sensor bounces, so the hand
\* may be on the cap when the last edge was off, or the motor still on the move.)
FaderMoves == \E v \in Pb : PositionFrame(v)

\* UF8Device::workerLoop_ sends the next frame and the firmware obeys.
SendFrame ==
  /\ workerPc = "idle" /\ toDev # <<>>
  /\ toDev' = Tail(toDev)
  /\ LET f == Head(toDev) IN
       /\ motorOn' = IF f.cmd \in {"limp", "enable"} THEN f.cmd = "enable" ELSE motorOn
       /\ target' = IF f.cmd = "echo" \/ (f.cmd = "drive" /\ motorOn) THEN f.at ELSE target
  /\ UNCHANGED <<finger, touch, drag, engaged, lastPb, workerPc, effPb, mainPc, released,
                 reaper, crossed, raced>>

\* kTouchDebounceQuiet passes without a press.
PressAges ==
  /\ ~quiet /\ quiet' = TRUE
  /\ UNCHANGED <<hardware, pending, reported, drag, engaged, lastPb, workerPc, effPb,
                 mainPc, released, reaper, crossed, raced>>

Worker ==
  \/ ReportTouch \/ SendLimp \/ NoteLimp
  \/ MarkMoved \/ Record \/ SendEcho
  \/ SendFrame

-----------------------------------------------------------------------------
(* The main thread.                                                         *)

Goes(from, to) == mainPc = from /\ mainPc' = to

\* drainInputQueue: where a touch started, or its newest position, becomes the
\* volume of the track, unless the strip has moved on to another track.
Drain ==
  /\ Goes("drain", "check") /\ Len(toDev) <= MaxQueue
  /\ IF present THEN level' \in Pb ELSE UNCHANGED level
  /\ UNCHANGED <<hardware, touch, drag, engaged, lastPb, workerPc, effPb, released, present,
                 crossed, raced>>

\* commitDebouncedTouchReleases: is a release due?
Check ==
  /\ Goes("check", IF pending /\ quiet THEN "clear" ELSE "push")
  /\ UNCHANGED <<hardware, touch, drag, engaged, lastPb, workerPc, effPb, released, reaper,
                 crossed, raced>>

ClearPending ==
  /\ Goes("clear", "exchange")
  /\ pending' = FALSE
  /\ UNCHANGED <<hardware, quiet, reported, drag, engaged, lastPb, workerPc, effPb,
                 released, reaper, crossed, raced>>

DropTouch ==
  /\ Goes("exchange", IF reported THEN "moved" ELSE "push")
  /\ reported' = FALSE
  /\ crossed' = (crossed \/ InFrame)
  /\ UNCHANGED <<hardware, quiet, pending, drag, engaged, lastPb, workerPc, effPb, released,
                 reaper, raced>>

\* A touch that did not move the fader leaves the motor limp.  So does one on a
\* strip without a track, which leaves its mark behind too.
ReadMoved ==
  /\ Goes("moved", IF moved /\ present THEN "eff" ELSE "push")
  /\ crossed' = (crossed \/ (moved /\ ~present))
  /\ UNCHANGED <<hardware, touch, drag, engaged, lastPb, workerPc, effPb, released, reaper,
                 raced>>

\* The position to write: the last one of the touch, or with Alt held the value
\* from before the touch.
ReadPosition ==
  /\ Goes("eff", "unmark")
  /\ \/ released' = [pb |-> touchPb, snapBack |-> FALSE]
     \/ SnapBack /\ \E origin \in Pb : released' = [pb |-> origin, snapBack |-> TRUE]
  /\ UNCHANGED <<hardware, touch, drag, engaged, lastPb, workerPc, effPb, reaper, crossed,
                 raced>>

\* It becomes the volume of the track.
CommitValue ==
  /\ Goes("unmark", "enable")
  /\ moved' = FALSE
  /\ level' = released.pb
  /\ UNCHANGED <<hardware, touch, touchPb, engaged, lastPb, workerPc, effPb, released,
                 present, crossed, raced>>

\* The motor is turned on again; its target is the last position echoed.
CommitEnable ==
  /\ Goes("enable", "engaged")
  /\ toDev' = Append(toDev, Enable)
  /\ UNCHANGED <<finger, motorOn, target, touch, drag, engaged, lastPb, workerPc, effPb,
                 released, reaper, crossed, raced>>

CommitEngaged ==
  /\ Goes("engaged", IF released.snapBack THEN "back" ELSE "push")
  /\ engaged' = TRUE /\ lastPb' = level
  /\ released' = NotReleased
  /\ UNCHANGED <<hardware, touch, drag, workerPc, effPb, reaper, crossed, raced>>

\* After a snap-back it is driven to the value from before the touch.
CommitBack ==
  /\ Goes("back", "push")
  /\ toDev' = Append(toDev, Drive(lastPb))
  /\ UNCHANGED <<finger, motorOn, target, touch, drag, engaged, lastPb, workerPc, effPb,
                 released, reaper, crossed, raced>>

\* pushZonesForVisibleSlots: silent while the strip is touched.
PushSkips ==
  /\ reported /\ Goes("push", "drain")
  /\ UNCHANGED <<hardware, touch, drag, engaged, lastPb, workerPc, effPb, released, reaper,
                 crossed, raced>>

PushTests ==
  /\ ~reported /\ Goes("push", IF present THEN "follow" ELSE "park")
  /\ UNCHANGED <<hardware, touch, drag, engaged, lastPb, workerPc, effPb, released, reaper,
                 crossed, raced>>

\* Nor does it move a motor that should be where it is.
PushRests ==
  /\ \/ Goes("follow", "drain") /\ lastPb = level
     \/ Goes("park", "drain") /\ lastPb = 0
  /\ UNCHANGED <<hardware, touch, drag, engaged, lastPb, workerPc, effPb, released, reaper,
                 crossed, raced>>

\* An empty strip is parked at the bottom.
PushEmpty ==
  /\ Goes("park", "drain") /\ lastPb # 0
  /\ lastPb' = 0
  /\ toDev' = Append(toDev, Drive(0))
  /\ UNCHANGED <<finger, motorOn, target, touch, drag, engaged, workerPc, effPb, released,
                 reaper, crossed, raced>>

\* A track's value moves an engaged motor, and wakes a limp one first: load the
\* target, then enable.
PushFollows ==
  /\ Goes("follow", IF engaged THEN "drive" ELSE "load") /\ lastPb # level
  /\ lastPb' = level
  /\ UNCHANGED <<hardware, touch, drag, engaged, workerPc, effPb, released, reaper, crossed,
                 raced>>

PushLoads ==
  /\ Goes("load", "wake")
  /\ toDev' = Append(toDev, Echo(Value(lastPb)))
  /\ UNCHANGED <<finger, motorOn, target, touch, drag, engaged, lastPb, workerPc, effPb,
                 released, reaper, crossed, raced>>

\* Faulty: the target is loaded but the motor is not turned on.
PushWakesNot ==
  /\ Goes("wake", "reengaged")
  /\ UNCHANGED <<hardware, touch, drag, engaged, lastPb, workerPc, effPb, released, reaper,
                 crossed, raced>>

PushWakes ==
  /\ Goes("wake", "reengaged")
  /\ toDev' = Append(toDev, Enable)
  /\ UNCHANGED <<finger, motorOn, target, touch, drag, engaged, lastPb, workerPc, effPb,
                 released, reaper, crossed, raced>>

NoteEngaged ==
  /\ Goes("reengaged", "drive")
  /\ engaged' = TRUE
  /\ UNCHANGED <<hardware, touch, drag, lastPb, workerPc, effPb, released, reaper, crossed,
                 raced>>

\* The motor is on its way to the value again, unless a touch came in between.
PushDrive ==
  /\ Goes("drive", "drain")
  /\ toDev' = Append(toDev, Drive(lastPb))
  /\ crossed' = (crossed /\ ~(workerPc = "idle" /\ ~reported /\ ~moved))
  /\ UNCHANGED <<finger, motorOn, target, touch, drag, engaged, lastPb, workerPc, effPb,
                 released, reaper, raced>>

Main ==
  \/ Drain
  \/ Check \/ ClearPending \/ DropTouch
  \/ ReadMoved \/ ReadPosition \/ CommitValue \/ CommitEnable \/ CommitEngaged \/ CommitBack
  \/ PushSkips \/ PushTests \/ PushRests \/ PushEmpty
  \/ PushFollows \/ PushLoads \/ PushWakes \/ NoteEngaged \/ PushDrive

\* The user banked the surface, and pushZonesForVisibleSlots finds another
\* track, or none, on the strip (g_slotTrack).
BankChanges ==
  /\ mainPc = "push"
  /\ present' \in {TRUE, ~EmptyStrip} /\ level' \in Pb
  /\ ~present' => level' = 0
  /\ UNCHANGED <<hardware, touch, drag, engaged, lastPb, workerPc, effPb, mainPc, released,
                 crossed, raced>>

-----------------------------------------------------------------------------
Next ==
  \/ OnEdge \/ OffEdge \/ FaderMoves \/ PressAges
  \/ Worker \/ Main \/ BankChanges

\* The timer ticks, the worker loops, the motor obeys and time passes.  Neither
\* the user nor REAPER has to do anything.  (SF for the main thread, because the
\* bound on the queue, which the program does not have, can make it wait.)
Fairness == SF_vars(Main) /\ WF_vars(Worker) /\ SF_vars(PressAges)

Spec == Init /\ [][Next]_vars /\ Fairness

-----------------------------------------------------------------------------
(* Properties.                                                              *)

Settled == workerPc = "idle" /\ mainPc = "drain" /\ toDev = <<>>

\* At rest a motor that is on holds the last position the program asked it to
\* hold, or the readback of it, whatever touches, releases and volumes came
\* before: no drive frame is lost on a motor that is on, no enable finds a stale
\* target.  (But for a touch that began or ended while the main thread was
\* moving the motor, and a drag that ended on a strip without a track: their
\* marks and their echoes come too late for the release.)
MotorHoldsLastPb ==
  (Settled /\ ~reported /\ ~moved /\ ~crossed /\ motorOn) =>
    target \in {Value(lastPb), Readback(lastPb)}

\* main.cpp:22720: g_faderMotorEngaged is "tracked so the motor-follow can
\* re-engage a limp strip": at rest a limp motor is known to be limp, unless the
\* limp was noted between an enable and its note.
LimpIsKnown == (Settled /\ ~motorOn /\ ~raced) => ~engaged

\* Once the finger is gone and the volume rests, a fader the program believes
\* engaged comes to be driven to the volume, whatever taps, drags and changes
\* came before (but for the two races above).
EngagedFollows ==
  \A v \in Pb :
    <>[](~crossed /\ ~raced /\ ~finger /\ present /\ level = v /\ engaged)
      => <>[](motorOn /\ target \in {Value(v), Readback(v)})

-----------------------------------------------------------------------------
(* The touch state of this strip is the debounce of TouchGate.              *)

Gate == INSTANCE TouchGate WITH
  NStrips <- 1,
  down <- [s \in {0} |-> finger],
  reported <- [s \in {0} |-> reported],
  pending <- [s \in {0} |-> pending],
  quiet <- [s \in {0} |-> quiet],
  pressing <- IF workerPc = "report" THEN 0 ELSE 1,
  strip <- 0,
  mainPc <- CASE mainPc \in {"clear", "exchange"} -> mainPc
              [] mainPc \in {"moved", "eff", "unmark", "enable", "engaged", "back"} ->
                   "commit"
              [] OTHER -> "check"

\* Every behaviour of the motor strip is one of TouchGate, fairness included.
GateSpec == Gate!Spec

\* ... and the steps alone.
GateSteps == Gate!Init /\ [][Gate!Next]_(Gate!vars)

=============================================================================
