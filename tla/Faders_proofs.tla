--------------------------- MODULE Faders_proofs ---------------------------
(***************************************************************************)
(* Proofs about what a UF8 fader drives and what it writes there.  The      *)
(* target: for any number of threads the two exclusive modes exclude each   *)
(* other, and with that the four places that decide on the target agree.    *)
(* The value: for any number of tracks, any deadband, any queue and any     *)
(* interleaving of the threads, what a release has written is not undone by *)
(* what was queued before it.                                               *)
(***************************************************************************)
EXTENDS MCFaders, SequenceTheorems, TLAPS

\* Both modes are on only while a thread still has to clear one of them.
BothOnlyWhileClearing ==
  (pluginMode /\ stripMode) => \E t \in Threads : pc[t] # "idle"

IInv == Target!TypeOK /\ BothOnlyWhileClearing

LEMMA InitIInv == Target!Init => IInv
  BY DEF Target!Init, IInv, Target!TypeOK, BothOnlyWhileClearing

\* Every step keeps the types.
LEMMA NextTypeOK == Target!TypeOK /\ [Target!Next]_(Target!vars) => Target!TypeOK'
<1> SUFFICES ASSUME Target!TypeOK, [Target!Next]_(Target!vars) PROVE Target!TypeOK'
  OBVIOUS
<1> USE DEF Target!TypeOK, Target!Goes, Target!switches
<1>1. ASSUME NEW t \in Threads, Target!PluginModeOn(t) \/ Target!PluginModeOff(t)
      PROVE  Target!TypeOK'
  BY <1>1 DEF Target!PluginModeOn, Target!PluginModeOff
<1>2. ASSUME NEW t \in Threads, Target!StripModeOn(t) \/ Target!StripModeOff(t) PROVE Target!TypeOK'
  BY <1>2 DEF Target!StripModeOn, Target!StripModeOff
<1>3. ASSUME NEW t \in Threads, Target!ClearStrip(t) \/ Target!ClearPlugin(t) PROVE Target!TypeOK'
  BY <1>3 DEF Target!ClearStrip, Target!ClearPlugin
<1>4. CASE Target!KeyPressed \/ Target!FocusMoves
  BY <1>4 DEF Target!KeyPressed, Target!FocusMoves
<1>5. CASE UNCHANGED Target!vars
  BY <1>5 DEF Target!vars
<1> QED
  BY <1>1, <1>2, <1>3, <1>4, <1>5 DEF Target!Next

\* Every step keeps the invariant.  A thread that turns a mode on has the other
\* one to clear; a thread that is done has just turned one off.
LEMMA NextIInv == IInv /\ [Target!Next]_(Target!vars) => IInv'
<1> SUFFICES ASSUME IInv, [Target!Next]_(Target!vars) PROVE IInv'
  OBVIOUS
<1>0. Target!TypeOK'
  BY NextTypeOK DEF IInv
<1> USE DEF IInv, BothOnlyWhileClearing, Target!Goes
<1>1. ASSUME NEW t \in Threads, Target!PluginModeOn(t) PROVE BothOnlyWhileClearing'
  BY <1>1 DEF Target!PluginModeOn, Target!TypeOK
<1>2. ASSUME NEW t \in Threads, Target!StripModeOn(t) PROVE BothOnlyWhileClearing'
  BY <1>2 DEF Target!StripModeOn, Target!TypeOK
<1>3. ASSUME NEW t \in Threads, Target!PluginModeOff(t) \/ Target!StripModeOff(t)
      PROVE BothOnlyWhileClearing'
  BY <1>3 DEF Target!PluginModeOff, Target!StripModeOff
<1>4. ASSUME NEW t \in Threads, Target!ClearStrip(t) \/ Target!ClearPlugin(t)
      PROVE BothOnlyWhileClearing'
  BY <1>4 DEF Target!ClearStrip, Target!ClearPlugin
<1>5. ASSUME Target!KeyPressed \/ Target!FocusMoves PROVE BothOnlyWhileClearing'
  BY <1>5 DEF Target!KeyPressed, Target!FocusMoves
<1>6. ASSUME UNCHANGED Target!vars PROVE BothOnlyWhileClearing'
  BY <1>6 DEF Target!vars
<1> QED
  BY <1>0, <1>1, <1>2, <1>3, <1>4, <1>5, <1>6 DEF Target!Next

LEMMA Inductive == Target!Spec => []IInv
  BY InitIInv, NextIInv, PTL DEF Target!Spec

\* The two modes, the threads and the switches keep their types.
THEOREM TypeCorrect == Target!Spec => []Target!TypeOK
<1>1. IInv => Target!TypeOK
  BY DEF IInv
<1> QED
  BY <1>1, Inductive, PTL

LEMMA IInvOneMode == IInv => OneMode
  BY DEF IInv, BothOnlyWhileClearing, OneMode, Target!OneMode, Target!AtRest

\* For any number of threads that turn the modes on and off at once, at most one
\* mode is on when they are done.
THEOREM ModesExclude == Target!Spec => []OneMode
  BY IInvOneMode, Inductive, PTL

\* A release writes what the drag wrote.  With both modes on it would not: SSL
\* Strip Mode would take the drag and the volume of the track the release.
THEOREM ReleaseFollowsDrag == Target!Spec => []ReleaseWritesLive
<1>1. IInv => ReleaseWritesLive
  <2> SUFFICES ASSUME IInv, Target!AtRest PROVE Target!ReleaseTarget = Target!LiveTarget
    BY DEF ReleaseWritesLive, Target!ReleaseWritesLive
  <2>1. ~(pluginMode /\ stripMode)
    BY IInvOneMode DEF OneMode, Target!OneMode
  <2> QED
    BY <2>1 DEF IInv, Target!TypeOK, Target!ReleaseTarget, Target!LiveTarget
<1> QED
  BY <1>1, Inductive, PTL

\* Alt-drag returns the very target the release writes to what it was.
THEOREM SnapshotIsInverse == Target!Spec => []SnapshotReadsWritten
<1>1. IInv => SnapshotReadsWritten
  <2> SUFFICES ASSUME IInv, Target!AtRest, Target!ReleaseTarget # "nothing"
               PROVE  Target!SnapshotTarget = Target!ReleaseTarget
    BY DEF SnapshotReadsWritten, Target!SnapshotReadsWritten
  <2> QED
    BY DEF IInv, Target!TypeOK, Target!ReleaseTarget, Target!SnapshotTarget
<1> QED
  BY <1>1, Inductive, PTL

\* Off the pan of the channel strip, the motor follows what the fader writes.
THEOREM MotorFollows == Target!Spec => []MotorFollowsFaderOffPan
<1>1. IInv => MotorFollowsFaderOffPan
  <2> SUFFICES ASSUME IInv, focus # "pan", Target!AtRest, Target!LiveTarget # "nothing"
               PROVE  Target!MotorTarget = Target!LiveTarget
    BY DEF MotorFollowsFaderOffPan, Target!MotorFollowsFaderOffPan, Target!MotorFollowsFader
  <2>1. ~(pluginMode /\ stripMode)
    BY IInvOneMode DEF OneMode, Target!OneMode
  <2> QED
    BY <2>1
    DEF IInv, Target!TypeOK, Target!MotorTarget, Target!LiveTarget, Target!UserFader,
        Target!CsFaderActive, Target!FlipActive, Target!FlipActiveParam, Target!ParamOnFader,
        Target!PanOnFader, Target!StickyOnFader
<1> QED
  BY <1>1, Inductive, PTL

-----------------------------------------------------------------------------
(* What a fader writes.                                                     *)

\* All positions in q are v.
Positions(q, v) == \A i \in DOMAIN q : q[i] # Snapshot => q[i] = Vol(v)

\* At most one position waits.
OneWaits(q) == \A i, j \in DOMAIN q : q[i] # Snapshot /\ q[j] # Snapshot => i = j

LEMMA EntryIs ==
  /\ Snapshot \in Entries
  /\ \A v \in Pb : Vol(v) \in Entries /\ Vol(v) # Snapshot /\ Vol(v).value = v
  /\ \A e \in Entries : e # Snapshot => \E v \in Pb : e = Vol(v)
  BY DEF Entries, Snapshot, Vol

\* What queueInput keeps: one position waits, and it is the newest.
LEMMA QueueInputKeeps ==
  ASSUME NEW q \in Seq(Entries), NEW e \in Entries, OneWaits(q)
  PROVE  /\ QueueInput(q, e) \in Seq(Entries)
         /\ OneWaits(QueueInput(q, e))
         /\ \A v \in Pb : e = Vol(v) => Positions(QueueInput(q, e), v)
<1> DEFINE waiting == {i \in DOMAIN q : q[i] # Snapshot}
           k == CHOOSE i \in waiting : TRUE
           n == Len(q)
<1>0. n \in Nat /\ DOMAIN q = 1..n
  BY LenProperties
<1>1. CASE e # Snapshot /\ waiting # {}
  <2>1. k \in waiting
    BY <1>1
  <2> DEFINE r == [q EXCEPT ![k] = e]
  <2>2. QueueInput(q, e) = r
    BY <1>1 DEF QueueInput, Snapshot
  <2>3. r \in Seq(Entries) /\ DOMAIN r = DOMAIN q
    BY <1>0, <2>1, ExceptSeq
  <2>4. r[k] = e /\ \A i \in DOMAIN q : i # k => r[i] = q[i]
    BY <2>1
  <2>5. \A i \in DOMAIN q : i # k => q[i] = Snapshot
    BY <2>1 DEF OneWaits
  <2> HIDE DEF r, k
  <2>6. OneWaits(r) /\ \A v : e = Vol(v) => Positions(r, v)
    BY <2>3, <2>4, <2>5 DEF OneWaits, Positions
  <2> QED BY <2>2, <2>3, <2>6
<1>2. CASE ~(e # Snapshot /\ waiting # {})
  <2> DEFINE r == Append(q, e)
  <2>1. QueueInput(q, e) = r
    BY <1>2 DEF QueueInput, Snapshot
  <2>2. /\ r \in Seq(Entries) /\ DOMAIN r = 1..(n + 1) /\ r[n + 1] = e
        /\ \A i \in 1..n : r[i] = q[i]
    BY AppendProperties, LenProperties
  <2> HIDE DEF r
  <2>3. CASE e = Snapshot
    <3>1. \A i \in DOMAIN r : r[i] # Snapshot => i \in DOMAIN q /\ r[i] = q[i]
      BY <1>0, <2>2, <2>3
    <3>2. OneWaits(r)
      BY <3>1 DEF OneWaits
    <3> QED BY <2>1, <2>2, <2>3, <3>2, EntryIs
  <2>4. CASE waiting = {}
    <3>1. \A i \in DOMAIN r : r[i] # Snapshot => i = n + 1 /\ r[i] = e
      BY <1>0, <2>2, <2>4
    <3>2. OneWaits(r) /\ \A v : e = Vol(v) => Positions(r, v)
      BY <3>1 DEF OneWaits, Positions
    <3> QED BY <2>1, <2>2, <3>2
  <2> QED BY <1>2, <2>3, <2>4
<1> QED BY <1>1, <1>2

\* What is left of a batch.
LEMMA TailKeeps ==
  ASSUME NEW q \in Seq(Entries), q # <<>>
  PROVE  /\ Tail(q) \in Seq(Entries) /\ Head(q) \in Entries /\ Len(q) \in Nat
         /\ Len(q) # 1 => Tail(q) # <<>>
         /\ \A v : Positions(q, v) =>
              Positions(Tail(q), v) /\ (Head(q) # Snapshot => Head(q) = Vol(v))
<1>1. /\ Tail(q) \in Seq(Entries) /\ Head(q) \in Entries /\ Len(Tail(q)) = Len(q) - 1
      /\ Head(q) = q[1] /\ \A i \in 1..Len(Tail(q)) : Tail(q)[i] = q[i + 1]
  BY HeadTailProperties
<1>2. Len(q) \in Nat \ {0} /\ DOMAIN q = 1..Len(q) /\ DOMAIN Tail(q) = 1..(Len(q) - 1)
  BY <1>1, EmptySeq, LenProperties
<1>3. Len(q) # 1 => Tail(q) # <<>>
  <2>1. Len(q) # 1 => Len(Tail(q)) # 0
    BY <1>1, <1>2
  <2> QED BY <2>1, EmptySeq
<1>4. \A i \in DOMAIN Tail(q) : i + 1 \in DOMAIN q /\ Tail(q)[i] = q[i + 1]
  BY <1>1, <1>2
<1>5. 1 \in DOMAIN q /\ Head(q) = q[1]
  BY <1>1, <1>2
<1>6. ASSUME NEW v, Positions(q, v)
      PROVE  Positions(Tail(q), v) /\ (Head(q) # Snapshot => Head(q) = Vol(v))
  BY <1>4, <1>5, <1>6 DEF Positions
<1> QED BY <1>1, <1>2, <1>3, <1>6

-----------------------------------------------------------------------------
(* The invariant of the value.                                              *)

Pressing == workerPc \in {"report", "anchor", "seed", "forget", "ask"}

\* The touch is dropped, its release not yet written.
Dropped == mainPc \in {"moved", "eff", "unmark", "write"}

Untouched == "touch" \notin crossed
Alone == Untouched /\ "frame" \notin crossed

\* The drain of a tick is over when its release begins, and a release is that of a
\* track, as is a mirror.
TickInOrder ==
  /\ IF mainPc = "apply" THEN batch.entries # <<>> ELSE batch = NoBatch
  /\ mainPc \in {"eff", "unmark", "write", "mirror"} => slotTrack # NoTrack

\* A release finds the press of its touch handled; a touch that does not begin in
\* the middle of it stays dropped, and no new frame is handled.
TouchOver ==
  /\ quiet => ~Pressing
  /\ Releasing /\ Untouched => quiet
  /\ Dropped /\ Untouched => ~reported
  /\ Dropped /\ Alone => workerPc = "idle"

\* The recorded position was queued, but for a deadband.
Recorded ==
  /\ workerPc # "queue" => Near(eff, lastOut)
  /\ workerPc = "queue" => eff = pos
  /\ mainPc \in {"unmark", "write"} /\ Alone /\ ~rel.snapped => Near(rel.pos, lastOut)

\* A release finds nothing in the queue but the newest position.
QueueNewest ==
  /\ OneWaits(queue)
  /\ quiet /\ mainPc # "drain" => Positions(queue, lastOut)

\* A marked position was recorded under the FLIP state of now, and so was the one
\* a release will write.
SameFlipState ==
  /\ moved /\ workerPc # "record" /\ flipPc # "clear" => effFlip = flip
  /\ mainPc = "eff" /\ crossed = {} => effFlip = flip
  /\ mainPc \in {"unmark", "write"} /\ crossed = {} /\ ~rel.snapped => rel.under = flip

LeftValue ==
  \/ Near(value[left.target], left.pos)
  \/ left.how = "overtaken" /\ value[left.target] = lastOut

\* What a release has written: nothing else is on its way, but for one frame that
\* was being handled.
LeftAlone ==
  /\ left.target # NoTarget => quiet /\ ~reported /\ ~Dropped
  /\ left.target # NoTarget /\ left.how # "snapped" =>
       /\ Positions(queue, lastOut) /\ Positions(batch.entries, lastOut)
       /\ LeftValue
       /\ left.how = "moved" => workerPc = "idle" /\ Near(lastOut, left.pos)
       /\ InFrame => /\ batch.entries = <<>>
                     /\ Near(value[left.target], left.pos)

VInv ==
  /\ TypeOK
  /\ TickInOrder /\ TouchOver /\ Recorded /\ QueueNewest /\ SameFlipState /\ LeftAlone

LEMMA NearIs ==
  /\ \A v \in Pb : Near(v, v)
  /\ \A v, w \in Pb : Near(v, w) => Near(w, v)
  BY FadersAssumption DEF FaderValueAssumption, Near, Pb

LEMMA TargetIs ==
  /\ NoTarget \notin Targets
  /\ \A t \in Tracks, f \in BOOLEAN : <<t, f>> \in Targets
  BY FadersAssumption DEF FaderValueAssumption, Targets, NoTarget

\* The records that stand for nothing.
LEMMA NothingIs ==
  /\ 0 \in Pb
  /\ NothingLeft \in Lefts /\ NothingLeft.target = NoTarget
  /\ NoBatch \in Batches /\ NoBatch.entries = <<>>
  /\ NoRelease \in Releases
<1>1. 0 \in Pb
  BY FadersAssumption DEF FaderValueAssumption, Pb
<1>2. <<>> \in Seq(Entries) /\ NoTrack \in Shown
  BY DEF Shown
<1> QED
  BY <1>1, <1>2
  DEF NothingLeft, Lefts, NoBatch, Batches, NoRelease, Releases

LEMMA NothingWaits == OneWaits(<<>>) /\ \A v : Positions(<<>>, v)
<1>1. DOMAIN <<>> = {}
  OBVIOUS
<1> QED BY <1>1 DEF OneWaits, Positions

LEMMA InitVInv == Init => VInv
<1> SUFFICES ASSUME Init PROVE VInv
  OBVIOUS
<1> USE DEF Init
<1>1. queue = <<>> /\ queue \in Seq(Entries)
  OBVIOUS
<1>2. value \in [Targets -> Pb] /\ motorTarget \in Pb
  <2>1. value \in [Targets -> Pb]
    OBVIOUS
  <2>2. bank \in Tracks => <<bank, FALSE>> \in Targets
    BY TargetIs
  <2> QED BY <2>1, <2>2, NothingIs
<1>3. setup \in SUBSET Options
  BY FadersAssumption DEF FaderValueAssumption
<1>4. TypeOK
  BY <1>1, <1>2, <1>3, NothingIs DEF TypeOK
<1>5. TickInOrder /\ TouchOver /\ SameFlipState
  BY DEF TickInOrder, TouchOver, Pressing, Releasing, Dropped, SameFlipState
<1>6. Recorded /\ QueueNewest /\ LeftAlone
  BY <1>1, NothingIs, NearIs, NothingWaits DEF Recorded, QueueNewest, LeftAlone
<1> QED
  BY <1>4, <1>5, <1>6 DEF VInv

-----------------------------------------------------------------------------
(* The worker and FLIP.                                                     *)

\* The steps of an on edge: until the press is handled no release is due.
LEMMA PressKeeps ==
  ASSUME VInv, \/ OnEdge \/ ReportTouch \/ TakeAnchor \/ QueueSeed
               \/ ForgetOrigin \/ AskOrigin
  PROVE  VInv'
<1> USE DEF VInv, touch, drag, snap, out, flipping, mirrors,
            worker, locals, Works
<1>1. CASE OnEdge
  <2>1. /\ workerPc = "idle" /\ workerPc' = "report" /\ down' = TRUE /\ quiet' = FALSE
        /\ pending' = FALSE
        /\ left' = NothingLeft
        /\ crossed' = IF Releasing THEN crossed \cup {"touch"} ELSE crossed
        /\ UNCHANGED <<setup, reported, moved, eff, origin, originValid, lastOut, queue, flip,
                       flipPc, bank, slotTrack, motorTarget, value, pos, mainPc, batch, rel,
                       effFlip>>
    BY <1>1 DEF OnEdge, TakesInput
  <2>2. TypeOK'
    <3>1. crossed' \in SUBSET {"touch", "frame", "flip"}
      BY <2>1 DEF TypeOK
    <3>2. {down', reported', pending', quiet', moved', originValid', flip', effFlip'}
            \subseteq BOOLEAN
      BY <2>1 DEF TypeOK
    <3> QED BY <2>1, <3>1, <3>2, NothingIs DEF TypeOK
  <2>3. TickInOrder' /\ QueueNewest' /\ LeftAlone'
    BY <2>1, NothingIs DEF TickInOrder, QueueNewest, LeftAlone
  <2>4. TouchOver'
    BY <2>1 DEF TouchOver, Releasing, Dropped, Untouched, Alone
  <2>5. Recorded' /\ SameFlipState'
    BY <2>1 DEF Recorded, SameFlipState, Releasing, Untouched, Alone
  <2> QED BY <2>2, <2>3, <2>4, <2>5
<1>2. ASSUME Pressing, workerPc' \in {"idle", "anchor", "seed", "forget", "ask"},
             Untouched /\ Dropped => FALSE,
             queue' \in Seq(Entries), OneWaits(queue'),
             pos' \in Pb, {reported', originValid'} \subseteq BOOLEAN,
             UNCHANGED <<setup, down, pending, quiet, moved, eff, origin, lastOut, flip, flipPc,
                         bank, slotTrack, motorTarget, value, mainPc, batch, rel, effFlip, crossed,
                         left>>
      PROVE  VInv'
  <2>1. ~quiet /\ left.target = NoTarget
    BY <1>2 DEF TouchOver, LeftAlone
  <2>2. TypeOK'
    BY <1>2 DEF TypeOK, Entries
  <2>3. TickInOrder' /\ QueueNewest' /\ LeftAlone'
    BY <1>2, <2>1 DEF TickInOrder, QueueNewest, LeftAlone
  <2>4. TouchOver'
    BY <1>2, <2>1 DEF TouchOver, Releasing, Dropped, Untouched, Alone
  <2>5. Recorded' /\ SameFlipState'
    BY <1>2 DEF Recorded, SameFlipState, Pressing, Untouched, Alone
  <2> QED BY <2>2, <2>3, <2>4, <2>5
<1>3. Pressing => (Untouched /\ Dropped => FALSE)
  BY DEF TouchOver, Releasing, Dropped
<1>4. /\ queue \in Seq(Entries) /\ OneWaits(queue) /\ pos \in Pb /\ 0 \in Pb
      /\ motorTarget \in Pb /\ {reported, originValid} \subseteq BOOLEAN
  BY NothingIs DEF TypeOK, Entries, QueueNewest
<1>5. CASE ReportTouch
  BY <1>2, <1>3, <1>4, <1>5 DEF ReportTouch, Pressing
<1>6. CASE TakeAnchor
  BY <1>2, <1>3, <1>4, <1>6 DEF TakeAnchor, Pressing
<1>7. CASE QueueSeed
  <2>1. Vol(pos) \in Entries
    BY <1>4, EntryIs
  <2>2. queue' \in Seq(Entries) /\ OneWaits(queue')
    BY <1>4, <1>7, <2>1, QueueInputKeeps DEF QueueSeed
  <2> QED BY <1>2, <1>3, <1>4, <1>7, <2>2 DEF QueueSeed, Pressing
<1>8. CASE ForgetOrigin
  BY <1>2, <1>3, <1>4, <1>8 DEF ForgetOrigin, Pressing
<1>9. CASE AskOrigin
  <2>1. queue' \in Seq(Entries) /\ OneWaits(queue')
    BY <1>4, <1>9, EntryIs, QueueInputKeeps DEF AskOrigin, Snapshot
  <2> QED BY <1>2, <1>3, <1>4, <1>9, <2>1 DEF AskOrigin, Pressing
<1> QED BY <1>1, <1>5, <1>6, <1>7, <1>8, <1>9

\* The steps of a position frame.
LEMMA FrameKeeps ==
  ASSUME VInv, \/ \E v \in Pb : PositionFrame(v)
               \/ MarkMoved \/ Record \/ QueuePosition
  PROVE  VInv'
<1> USE DEF VInv, touch, drag, snap, out, flipping, mirrors,
            worker, locals, Works
<1>1. CASE \E v \in Pb : PositionFrame(v)
  <2>1. /\ workerPc = "idle" /\ workerPc' = "mark" /\ reported /\ pos' \in Pb
        /\ UNCHANGED <<setup, down, reported, pending, quiet, moved, eff, origin, originValid,
                       lastOut, queue, flip, flipPc, bank, slotTrack, motorTarget, value, mainPc,
                       batch, rel, effFlip, crossed, left>>
    BY <1>1 DEF PositionFrame, TakesInput
  <2>2. left.target = NoTarget /\ ~(Dropped /\ Untouched)
    BY <2>1 DEF LeftAlone, TouchOver
  <2>3. TypeOK' /\ TickInOrder' /\ QueueNewest' /\ LeftAlone'
    BY <2>1, <2>2 DEF TypeOK, TickInOrder, QueueNewest, LeftAlone
  <2>4. TouchOver' /\ Recorded' /\ SameFlipState'
    BY <2>1, <2>2
    DEF TouchOver, Pressing, Releasing, Dropped, Untouched, Alone, Recorded, SameFlipState
  <2> QED BY <2>3, <2>4
<1>2. InFrame => ~(Dropped /\ Alone)
  BY DEF InFrame, TouchOver
<1>3. CASE MarkMoved
  <2>1. /\ workerPc = "mark" /\ workerPc' = "record" /\ moved' = TRUE
        /\ UNCHANGED <<setup, down, reported, pending, quiet, eff, origin, originValid, lastOut,
                       queue, flip, flipPc, bank, slotTrack, motorTarget, value, pos, mainPc,
                       batch, rel, effFlip, crossed, left>>
    BY <1>3 DEF MarkMoved
  <2>2. InFrame /\ InFrame'
    BY <2>1 DEF InFrame
  <2>3. TypeOK' /\ TickInOrder' /\ QueueNewest'
    BY <2>1 DEF TypeOK, TickInOrder, QueueNewest
  <2>4. TouchOver' /\ Recorded' /\ SameFlipState'
    BY <1>2, <2>1, <2>2
    DEF TouchOver, Pressing, Releasing, Dropped, Untouched, Alone, Recorded, SameFlipState
  <2>5. LeftAlone'
    BY <2>1, <2>2 DEF LeftAlone, LeftValue, Dropped
  <2> QED BY <2>3, <2>4, <2>5
<1>4. CASE Record
  <2>1. /\ workerPc = "record" /\ workerPc' = "queue" /\ eff' = pos /\ effFlip' = flip
        /\ UNCHANGED <<setup, down, reported, pending, quiet, moved, origin, originValid, lastOut,
                       queue, flip, flipPc, bank, slotTrack, motorTarget, value, pos, mainPc,
                       batch, rel, crossed, left>>
    BY <1>4 DEF Record
  <2>2. InFrame /\ InFrame'
    BY <2>1 DEF InFrame
  <2>3. TypeOK' /\ TickInOrder' /\ QueueNewest'
    BY <2>1 DEF TypeOK, TickInOrder, QueueNewest
  <2>4. TouchOver' /\ Recorded' /\ SameFlipState'
    BY <1>2, <2>1, <2>2
    DEF TouchOver, Pressing, Releasing, Dropped, Untouched, Alone, Recorded, SameFlipState
  <2>5. LeftAlone'
    BY <2>1, <2>2 DEF LeftAlone, LeftValue, Dropped
  <2> QED BY <2>3, <2>4, <2>5
<1>5. CASE QueuePosition
  <2>1. /\ workerPc = "queue" /\ workerPc' = "idle" /\ pos' = 0
        /\ \/ Near(pos, lastOut) /\ UNCHANGED <<lastOut, queue>>
           \/ lastOut' = pos /\ queue' = QueueInput(queue, Vol(pos))
        /\ UNCHANGED <<setup, down, reported, pending, quiet, moved, eff, origin, originValid,
                       flip, flipPc, bank, slotTrack, motorTarget, value, mainPc, batch, rel,
                       effFlip, crossed, left>>
    BY <1>5 DEF QueuePosition
  <2>2. InFrame /\ ~InFrame'
    BY <2>1 DEF InFrame
  <2>3. /\ queue \in Seq(Entries) /\ OneWaits(queue) /\ pos \in Pb
        /\ Vol(pos) \in Entries /\ Near(pos, pos)
    BY EntryIs, NearIs DEF TypeOK, Entries, QueueNewest
  <2>4. /\ queue' \in Seq(Entries) /\ OneWaits(queue') /\ lastOut' \in Pb
        /\ Near(pos, lastOut')
        /\ Positions(queue, lastOut) => Positions(queue', lastOut')
    BY <2>1, <2>3, QueueInputKeeps DEF TypeOK
  <2>5. TypeOK' /\ TickInOrder' /\ QueueNewest'
    BY <2>1, <2>4, NothingIs DEF TypeOK, TickInOrder, QueueNewest, Entries
  <2>6. TouchOver' /\ Recorded' /\ SameFlipState'
    BY <1>2, <2>1, <2>2, <2>4
    DEF TouchOver, Pressing, Releasing, Dropped, Untouched, Alone, Recorded, SameFlipState
  <2>7. LeftAlone'
    BY <2>1, <2>2, <2>4, NothingWaits DEF LeftAlone, LeftValue, Dropped
  <2> QED BY <2>5, <2>6, <2>7
<1> QED BY <1>1, <1>3, <1>4, <1>5

\* Off edges, the quiet window, FLIP, the banks and REAPER.
LEMMA OthersKeep ==
  ASSUME VInv, \/ OffEdge \/ PressAges \/ FlipStore \/ FlipClear
               \/ BankChanges \/ ReaperChanges
  PROVE  VInv'
<1> USE DEF VInv, touch, drag, snap, out, flipping, mirrors,
            worker, locals
<1> USE DEF TickInOrder, TouchOver, Recorded, QueueNewest, SameFlipState, LeftAlone, LeftValue,
            InFrame, Pressing, Releasing, Dropped, Untouched, Alone
<1>1. CASE OffEdge
  <2>1. /\ down' = FALSE /\ pending' = TRUE
        /\ UNCHANGED <<setup, reported, quiet, moved, eff, origin, originValid, lastOut, queue,
                       flip, flipPc, bank, slotTrack, motorTarget, value, workerPc, pos, mainPc,
                       batch, rel, effFlip, crossed, left>>
    BY <1>1 DEF OffEdge
  <2>2. TypeOK'
    BY <2>1 DEF TypeOK
  <2> QED BY <2>1, <2>2
<1>2. CASE PressAges
  BY <1>2 DEF PressAges, TypeOK
<1>3. CASE FlipStore
  <2>1. /\ flipPc' = "clear" /\ flip' = ~flip
        /\ crossed' = IF mainPc \in {"eff", "unmark", "write"} THEN crossed \cup {"flip"}
                      ELSE crossed
        /\ UNCHANGED <<setup, down, reported, pending, quiet, moved, eff, origin, originValid,
                       lastOut, queue, bank, slotTrack, motorTarget, value, workerPc, pos, mainPc,
                       batch, rel, effFlip, left>>
    BY <1>3 DEF FlipStore
  <2>2. TypeOK'
    BY <2>1 DEF TypeOK
  <2>3. (Untouched' <=> Untouched) /\ (Alone' <=> Alone)
    BY <2>1
  <2> HIDE DEF Untouched, Alone
  <2> QED BY <2>1, <2>2, <2>3
<1>4. CASE FlipClear
  <2>1. /\ flipPc' = "idle" /\ moved' = FALSE
        /\ UNCHANGED <<setup, down, reported, pending, quiet, eff, origin, originValid, lastOut,
                       queue, flip, bank, slotTrack, motorTarget, value, workerPc, pos, mainPc,
                       batch, rel, effFlip, crossed, left>>
    BY <1>4 DEF FlipClear
  <2>2. TypeOK'
    BY <2>1 DEF TypeOK
  <2> QED BY <2>1, <2>2
<1>5. CASE BankChanges
  BY <1>5 DEF BankChanges, TypeOK
<1>6. CASE ReaperChanges
  <2>1. PICK t \in Targets, v \in Pb :
          /\ value' = Write(t, v)
          /\ left' = IF left.target = t THEN NothingLeft ELSE left
    BY <1>6 DEF ReaperChanges
  <2>2. value' = [value EXCEPT ![t] = v]
    BY <2>1 DEF Write
  <2>3. UNCHANGED <<setup, down, reported, pending, quiet, moved, eff, origin, originValid, lastOut,
                    queue, flip, flipPc, bank, slotTrack, motorTarget, workerPc, pos, mainPc,
                    batch, rel, effFlip, crossed>>
    BY <1>6 DEF ReaperChanges
  <2>4. TypeOK'
    BY <2>1, <2>2, <2>3, NothingIs DEF TypeOK
  <2>5. left'.target # NoTarget => left' = left /\ value'[left.target] = value[left.target]
    BY <2>1, <2>2, NothingIs DEF TypeOK
  <2>6. LeftAlone'
    BY <2>3, <2>5
  <2> QED BY <2>3, <2>4, <2>6
<1> QED BY <1>1, <1>2, <1>3, <1>4, <1>5, <1>6

-----------------------------------------------------------------------------
(* The main thread.                                                         *)

\* drainInputQueue.
LEMMA DrainKeeps ==
  ASSUME VInv, SwapQueue \/ ApplyPosition \/ ApplySnapshot
  PROVE  VInv'
<1> USE DEF VInv, touch, drag, snap, out, flipping, mirrors,
            worker, locals, Goes
<1>1. CASE SwapQueue
  <2>1. /\ mainPc = "drain" /\ mainPc' = IF queue = <<>> THEN "check" ELSE "apply"
        /\ batch' = [track |-> IF queue = <<>> THEN NoTrack ELSE bank, entries |-> queue]
        /\ queue' = <<>>
        /\ left' = IF InFrame THEN NothingLeft ELSE left
        /\ UNCHANGED <<setup, down, reported, pending, quiet, moved, eff, origin, originValid,
                       lastOut, flip, flipPc, bank, slotTrack, motorTarget, value, workerPc, pos,
                       rel, effFlip, crossed>>
    BY <1>1 DEF SwapQueue
  <2>2. TypeOK'
    <3>1. batch' \in Batches /\ queue' \in Seq(Entries)
      BY <2>1 DEF TypeOK, Batches, Shown
    <3> QED BY <2>1, <3>1, NothingIs DEF TypeOK
  <2>3. TickInOrder'
    BY <2>1 DEF TickInOrder, NoBatch
  <2>4. QueueNewest'
    BY <2>1, NothingWaits DEF QueueNewest
  <2>5. TouchOver' /\ Recorded' /\ SameFlipState'
    BY <2>1
    DEF TouchOver, Pressing, Releasing, Dropped, Untouched, Alone, Recorded, SameFlipState
  <2>6. LeftAlone'
    <3>1. CASE InFrame
      BY <2>1, <3>1, NothingIs DEF LeftAlone
    <3>2. CASE ~InFrame
      BY <2>1, <3>2, NothingWaits DEF LeftAlone, LeftValue, InFrame, Dropped
    <3> QED BY <3>1, <3>2
  <2> QED BY <2>2, <2>3, <2>4, <2>5, <2>6
<1>2. ASSUME NextEntry
      PROVE  /\ mainPc = "apply" /\ mainPc' \in {"apply", "check"}
             /\ batch' \in Batches /\ TickInOrder'
             /\ \A v : Positions(batch.entries, v) => Positions(batch'.entries, v)
             /\ batch.entries \in Seq(Entries) /\ batch.entries # <<>>
             /\ UNCHANGED <<setup, down, reported, pending, quiet, moved, eff, lastOut, queue,
                            flip, flipPc, bank, slotTrack, motorTarget, workerPc, pos, rel,
                            effFlip, crossed, left>>
  <2>1. /\ mainPc = "apply" /\ batch \in Batches /\ batch.entries \in Seq(Entries)
        /\ batch.entries # <<>>
    BY <1>2 DEF NextEntry, TypeOK, Batches, Entries, TickInOrder
  <2>2. UNCHANGED <<setup, down, reported, pending, quiet, moved, eff, lastOut, queue, flip,
                    flipPc, bank, slotTrack, motorTarget, workerPc, pos, rel, effFlip, crossed,
                    left>>
    BY <1>2 DEF NextEntry
  <2>3. CASE Len(batch.entries) = 1
    <3>1. mainPc' = "check" /\ batch' = NoBatch
      BY <1>2, <2>3 DEF NextEntry
    <3> QED BY <2>1, <2>2, <3>1, NothingIs, NothingWaits DEF TickInOrder
  <2>4. CASE Len(batch.entries) # 1
    <3>1. mainPc' = "apply" /\ batch' = [batch EXCEPT !.entries = Tail(batch.entries)]
      BY <1>2, <2>1, <2>4 DEF NextEntry
    <3>2. batch' \in Batches /\ batch'.entries = Tail(batch.entries)
      BY <2>1, <3>1, TailKeeps DEF Batches, Entries
    <3> QED BY <2>1, <2>2, <2>4, <3>1, <3>2, TailKeeps DEF TickInOrder
  <2> QED BY <2>3, <2>4
<1>3. ASSUME NextEntry, value' \in [Targets -> Pb],
             origin' \in Pb, originValid' \in BOOLEAN,
             \A t \in Targets :
               \/ value'[t] = value[t]
               \/ Positions(batch.entries, lastOut) => value'[t] = lastOut
      PROVE  VInv'
  <2>1. TypeOK'
    BY <1>2, <1>3 DEF TypeOK
  <2>2. QueueNewest' /\ TickInOrder'
    BY <1>2, <1>3 DEF QueueNewest
  <2>3. TouchOver' /\ Recorded' /\ SameFlipState'
    BY <1>2, <1>3
    DEF TouchOver, Pressing, Releasing, Dropped, Untouched, Alone, Recorded, SameFlipState
  <2>4. LeftAlone'
    <3>1. left.target # NoTarget => quiet' /\ ~reported' /\ ~Dropped'
      BY <1>2, <1>3 DEF LeftAlone, Dropped
    <3>2. ASSUME left.target # NoTarget, left.how # "snapped"
          PROVE  /\ Positions(queue', lastOut') /\ Positions(batch'.entries, lastOut')
                 /\ LeftValue'
                 /\ left.how = "moved" => workerPc' = "idle" /\ Near(lastOut', left.pos)
                 /\ ~InFrame'
      <4>1. left.target \in Targets /\ left.how \in {"moved", "overtaken", "snapped"}
        BY <3>2 DEF TypeOK, Lefts
      <4>2. /\ Positions(queue, lastOut) /\ Positions(batch.entries, lastOut) /\ LeftValue
            /\ left.how = "moved" => workerPc = "idle" /\ Near(lastOut, left.pos)
            /\ ~InFrame
        BY <1>2, <1>3, <3>2 DEF LeftAlone
      <4>3. value'[left.target] \in {value[left.target], lastOut}
        BY <1>3, <4>1, <4>2
      <4> QED BY <1>2, <1>3, <3>2, <4>1, <4>2, <4>3 DEF LeftValue, InFrame
    <3> QED BY <1>2, <1>3, <3>1, <3>2 DEF LeftAlone
  <2> QED BY <2>1, <2>2, <2>3, <2>4
<1>4. value \in [Targets -> Pb] /\ origin \in Pb /\ originValid \in BOOLEAN
  BY DEF TypeOK
<1>5. CASE ApplyPosition
  <2> DEFINE u == <<batch.track, flip>>
             e == Head(batch.entries)
  <2>1. /\ NextEntry /\ e # Snapshot /\ value' = Write(u, e.value)
        /\ UNCHANGED <<origin, originValid>>
    BY <1>5 DEF ApplyPosition, Snapshot
  <2>2. e \in Entries /\ \A v : Positions(batch.entries, v) => e = Vol(v)
    BY <1>2, <2>1, TailKeeps
  <2>3. PICK w \in Pb : e = Vol(w) /\ e.value = w
    BY <2>1, <2>2, EntryIs
  <2>4. lastOut \in Pb /\ (Positions(batch.entries, lastOut) => w = lastOut)
    BY <2>2, <2>3, EntryIs DEF TypeOK
  <2>5. value' = IF u \in Targets THEN [value EXCEPT ![u] = w] ELSE value
    BY <2>1, <2>3 DEF Write
  <2> HIDE DEF u, e
  <2>6. /\ value' \in [Targets -> Pb]
        /\ \A t \in Targets : value'[t] = value[t] \/ value'[t] = w
    BY <1>4, <2>3, <2>5
  <2> QED BY <1>3, <1>4, <2>1, <2>4, <2>6
<1>6. CASE ApplySnapshot
  <2>1. NextEntry /\ value' = value
    BY <1>6 DEF ApplySnapshot
  <2>2. batch.track \in Tracks => <<batch.track, flip>> \in Targets
    BY TargetIs DEF TypeOK
  <2>3. origin' \in Pb /\ originValid' \in BOOLEAN
    BY <1>4, <1>6, <2>2 DEF ApplySnapshot
  <2> QED BY <1>3, <1>4, <2>1, <2>3
<1> QED BY <1>1, <1>5, <1>6

\* commitDebouncedTouchReleases, up to the write.
LEMMA ReleaseKeeps ==
  ASSUME VInv, \/ Check \/ ClearPending \/ DropTouch \/ ReadMoved
               \/ ReadLast \/ ReadOrigin \/ Unmark
  PROVE  VInv'
<1> USE DEF VInv, touch, drag, snap, out, flipping, mirrors,
            worker, locals, Goes
<1> USE DEF TickInOrder, TouchOver, Recorded, QueueNewest, SameFlipState, LeftAlone, LeftValue,
            InFrame, Pressing, Releasing, Dropped, Untouched, Alone
<1>1. CASE Check
  BY <1>1 DEF Check, TypeOK
<1>2. CASE ClearPending
  BY <1>2 DEF ClearPending, TypeOK
<1>3. CASE DropTouch
  <2>1. /\ mainPc = "exchange" /\ mainPc' = IF reported THEN "moved" ELSE "push"
        /\ reported' = FALSE
        /\ crossed' = IF InFrame THEN crossed \cup {"frame"} ELSE crossed
        /\ UNCHANGED <<setup, down, pending, quiet, moved, eff, origin, originValid, lastOut, queue,
                       flip, flipPc, bank, slotTrack, motorTarget, value, workerPc, pos, batch,
                       rel, effFlip, left>>
    BY <1>3 DEF DropTouch
  <2>2. TypeOK'
    BY <2>1 DEF TypeOK
  <2>3. TouchOver'
    <3>1. workerPc \in {"idle", "report", "anchor", "seed", "forget", "ask", "mark", "record",
                        "queue"}
      BY DEF TypeOK
    <3> QED BY <2>1, <3>1
  <2>4. LeftAlone'
    BY <2>1
  <2> QED BY <2>1, <2>2, <2>3, <2>4
<1>4. CASE ReadMoved
  <2>1. /\ mainPc = "moved"
        /\ mainPc' = IF slotTrack # NoTrack /\ moved THEN "eff" ELSE "push"
        /\ crossed' = IF flipPc = "clear" THEN crossed \cup {"flip"} ELSE crossed
        /\ UNCHANGED <<setup, down, reported, pending, quiet, moved, eff, origin, originValid,
                       lastOut, queue, flip, flipPc, bank, slotTrack, motorTarget, value,
                       workerPc, pos, batch, rel, effFlip, left>>
    BY <1>4 DEF ReadMoved
  <2>2. TypeOK'
    BY <2>1 DEF TypeOK
  <2>3. (Untouched' <=> Untouched) /\ (Alone' <=> Alone)
    BY <2>1
  <2>4. SameFlipState'
    BY <2>1
  <2> HIDE DEF Untouched, Alone, SameFlipState
  <2> QED BY <2>1, <2>2, <2>3, <2>4
<1>5. CASE ReadLast
  <2>1. /\ mainPc = "eff" /\ mainPc' = "unmark"
        /\ rel' = [pos |-> eff, snapped |-> FALSE, under |-> effFlip]
        /\ UNCHANGED <<setup, down, reported, pending, quiet, moved, eff, origin, originValid,
                       lastOut, queue, flip, flipPc, bank, slotTrack, motorTarget, value,
                       workerPc, pos, batch, effFlip, crossed, left>>
    BY <1>5 DEF ReadLast
  <2>2. TypeOK'
    BY <2>1 DEF TypeOK, Releases
  <2> QED BY <2>1, <2>2
<1>6. CASE ReadOrigin
  <2>1. /\ mainPc = "eff" /\ mainPc' = "unmark"
        /\ rel' = [pos |-> origin, snapped |-> TRUE, under |-> FALSE]
        /\ UNCHANGED <<setup, down, reported, pending, quiet, moved, eff, origin, originValid,
                       lastOut, queue, flip, flipPc, bank, slotTrack, motorTarget, value,
                       workerPc, pos, batch, effFlip, crossed, left>>
    BY <1>6 DEF ReadOrigin
  <2>2. TypeOK'
    BY <2>1 DEF TypeOK, Releases
  <2> QED BY <2>1, <2>2
<1>7. CASE Unmark
  BY <1>7 DEF Unmark, TypeOK
<1> QED BY <1>1, <1>2, <1>3, <1>4, <1>5, <1>6, <1>7

\* The write of a release.
LEMMA WriteKeeps ==
  ASSUME VInv, WriteRelease
  PROVE  VInv'
<1> USE DEF VInv, touch, drag, snap, out, flipping, mirrors,
            worker, locals, Goes
<1> DEFINE t == <<slotTrack, flip>>
<1>1. /\ mainPc = "write" /\ mainPc' = "push" /\ rel' = NoRelease
      /\ value' = Write(t, rel.pos)
      /\ left' = Leaves
      /\ UNCHANGED <<setup, down, reported, pending, quiet, moved, eff, origin, originValid, lastOut,
                     queue, flip, flipPc, bank, slotTrack, motorTarget, workerPc, pos, batch,
                     effFlip, crossed>>
  BY DEF WriteRelease
<1>2. rel.pos \in Pb /\ rel.snapped \in BOOLEAN /\ lastOut \in Pb
      /\ value \in [Targets -> Pb]
      /\ workerPc \in {"idle", "report", "anchor", "seed", "forget", "ask", "mark", "record",
                       "queue"}
  BY DEF TypeOK, Releases
<1>3. t \in Targets
  <2>1. slotTrack \in Tracks /\ flip \in BOOLEAN
    BY <1>1 DEF TypeOK, Shown, TickInOrder
  <2> QED BY <2>1, TargetIs
<1>4. value' \in [Targets -> Pb] /\ value'[t] = rel.pos
  BY <1>1, <1>2, <1>3 DEF Write
<1> HIDE DEF t
<1>5. left' \in Lefts
  <2>1. [target |-> t, pos |-> rel.pos, how |-> HowLeft] \in Lefts
    BY <1>2, <1>3 DEF Lefts, HowLeft
  <2> QED BY <1>1, <2>1, NothingIs DEF Leaves, t
<1>6. TypeOK'
  BY <1>1, <1>4, <1>5, NothingIs DEF TypeOK
<1>7. TickInOrder' /\ QueueNewest'
  BY <1>1 DEF TickInOrder, QueueNewest
<1>8. TouchOver' /\ Recorded' /\ SameFlipState'
  BY <1>1
  DEF TouchOver, Pressing, Releasing, Dropped, Untouched, Alone, Recorded, SameFlipState
<1>9. LeftAlone'
  <2>1. CASE ~Untouched
    BY <1>1, <2>1, NothingIs DEF Leaves, Untouched, LeftAlone
  <2>2. CASE Untouched
    <3>1. left' = [target |-> t, pos |-> rel.pos, how |-> HowLeft]
      BY <1>1, <2>2 DEF Leaves, Untouched, t
    <3>2. quiet /\ ~reported /\ batch = NoBatch /\ Positions(queue, lastOut)
      BY <1>1, <2>2 DEF TouchOver, Releasing, Dropped, TickInOrder, QueueNewest
    <3>3. HowLeft = "moved" => workerPc = "idle" /\ Near(lastOut, rel.pos)
      <4>1. HowLeft = "moved" => ~rel.snapped /\ Alone
        BY <2>2 DEF HowLeft, Alone
      <4> QED BY <1>1, <1>2, <2>2, <4>1, NearIs DEF TouchOver, Recorded, Dropped
    <3>4. Near(value'[t], rel.pos)
      BY <1>2, <1>4, NearIs
    <3> QED
      BY <1>1, <3>1, <3>2, <3>3, <3>4, NothingIs, NothingWaits
      DEF LeftAlone, LeftValue, Dropped, InFrame
  <2> QED BY <2>1, <2>2
<1> QED BY <1>6, <1>7, <1>8, <1>9

\* pushZonesForVisibleSlots.
LEMMA MirrorKeeps ==
  ASSUME VInv, Push \/ Mirror
  PROVE  VInv'
<1> USE DEF VInv, touch, drag, snap, out, flipping, mirrors,
            worker, locals, Goes
<1>1. CASE Push
  <2>1. /\ mainPc = "push"
        /\ mainPc' = IF ~reported /\ bank \in Tracks THEN "mirror" ELSE "drain"
        /\ slotTrack' = bank /\ crossed' = {}
        /\ UNCHANGED <<setup, down, reported, pending, quiet, moved, eff, origin, originValid,
                       lastOut, queue, flip, flipPc, bank, motorTarget, value, workerPc, pos,
                       batch, rel, effFlip, left>>
    BY <1>1 DEF Push
  <2>2. TypeOK'
    BY <2>1 DEF TypeOK
  <2>3. TickInOrder' /\ QueueNewest'
    BY <2>1, FadersAssumption DEF TickInOrder, QueueNewest, FaderValueAssumption
  <2>4. TouchOver' /\ Recorded' /\ SameFlipState'
    BY <2>1
    DEF TouchOver, Pressing, Releasing, Dropped, Untouched, Alone, Recorded, SameFlipState
  <2>5. LeftAlone'
    BY <2>1 DEF LeftAlone, LeftValue, Dropped, InFrame
  <2> QED BY <2>2, <2>3, <2>4, <2>5
<1>2. CASE Mirror
  <2>1. /\ mainPc = "mirror" /\ mainPc' = "drain"
        /\ motorTarget' = value[<<slotTrack, flip>>]
        /\ UNCHANGED <<setup, down, reported, pending, quiet, moved, eff, origin, originValid,
                       lastOut, queue, flip, flipPc, bank, slotTrack, value, workerPc, pos,
                       batch, rel, effFlip, crossed, left>>
    BY <1>2 DEF Mirror
  <2>2. motorTarget' \in Pb
    <3>1. slotTrack \in Tracks /\ flip \in BOOLEAN
      BY <2>1 DEF TypeOK, Shown, TickInOrder
    <3> QED BY <2>1, <3>1, TargetIs DEF TypeOK
  <2>3. TypeOK'
    BY <2>1, <2>2 DEF TypeOK
  <2>4. TickInOrder' /\ QueueNewest'
    BY <2>1 DEF TickInOrder, QueueNewest
  <2>5. TouchOver' /\ Recorded' /\ SameFlipState'
    BY <2>1
    DEF TouchOver, Pressing, Releasing, Dropped, Untouched, Alone, Recorded, SameFlipState
  <2>6. LeftAlone'
    BY <2>1 DEF LeftAlone, LeftValue, Dropped, InFrame
  <2> QED BY <2>3, <2>4, <2>5, <2>6
<1> QED BY <1>1, <1>2

\* Every step of the fader.
LEMMA NextVInv ==
  ASSUME VInv, [Next]_vars
  PROVE  VInv'
<1>1. CASE UNCHANGED vars
  BY <1>1
  DEF VInv, vars, touch, drag, snap, out, flipping,
      mirrors, worker, locals, TypeOK, TickInOrder, TouchOver, Recorded,
      QueueNewest, SameFlipState, LeftAlone, LeftValue, Pressing, Releasing, Dropped,
      Untouched, Alone, InFrame
<1>2. CASE Worker
  BY <1>2, PressKeeps, FrameKeeps, OthersKeep DEF Worker
<1>3. CASE FlipStore \/ FlipClear \/ BankChanges \/ ReaperChanges
  BY <1>3, OthersKeep
<1>4. CASE Main
  BY <1>4, DrainKeeps, ReleaseKeeps, WriteKeeps, MirrorKeeps DEF Main
<1> QED
  BY <1>1, <1>2, <1>3, <1>4 DEF Next

-----------------------------------------------------------------------------
(* Both parts together.                                                     *)

LEMMA FadersInitIs == FadersInit => Target!Init /\ Init
  BY DEF FadersInit, ValueStill

\* A step of the composition is a step of the one part or of the other.
LEMMA FadersNextIs ==
  [FadersNext]_<<vars, modes, part>> => [Target!Next]_(Target!vars) /\ [Next]_vars
  BY DEF FadersNext, modes, Target!vars, Target!switches

\* What is shown of the target alone holds of the composition.
THEOREM TargetOfFaders == FadersSpec => Target!Spec
  BY FadersInitIs, FadersNextIs, PTL DEF FadersSpec, Target!Spec

LEMMA VInvHolds == FadersSpec => []VInv
  BY FadersInitIs, FadersNextIs, InitVInv, NextVInv, PTL DEF FadersSpec

\* The modes, the switches, the touch, the queue and the values keep their types.
THEOREM FadersTypeCorrect == FadersSpec => []TypesOK
<1>1. VInv => TypeOK
  BY DEF VInv
<1>2. FadersSpec => []Target!TypeOK
  BY TargetOfFaders, TypeCorrect, PTL
<1>3. Target!TypeOK /\ TypeOK => TypesOK
  BY DEF TypesOK
<1> QED
  BY <1>1, <1>2, <1>3, VInvHolds, PTL

\* For any number of tracks, any deadband and any length of the queue, wherever
\* the threads cut into each other: once a release has written its position, no
\* position of the drag that was still queued undoes it.
THEOREM LeftThere == FadersSpec => []LeftWhereReleased
<1>1. VInv => LeftWhereReleased
  BY DEF VInv, LeftAlone, LeftValue, LeftWhereReleased
<1> QED
  BY <1>1, VInvHolds, PTL

\* A release that nothing cuts into never writes a position recorded under the
\* other FLIP state.
THEOREM SameFlip == FadersSpec => ReleaseUnderSameFlip
<1>1. VInv => [(WriteRelease /\ ~rel.snapped /\ crossed = {})
                 => rel.under = flip]_vars
  BY DEF VInv, SameFlipState, WriteRelease, Goes
<1> QED
  BY <1>1, VInvHolds, PTL DEF ReleaseUnderSameFlip

=============================================================================
