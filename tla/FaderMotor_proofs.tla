-------------------------- MODULE FaderMotor_proofs --------------------------
(***************************************************************************)
(* Proofs about the motor of one strip, for any range of positions, any     *)
(* bound on the queue, with and without snap-back and empty strips, and     *)
(* with the threads cutting into each other at every step: the types, that  *)
(* the touch of the strip is the debounce of TouchGate, what the program    *)
(* knows of the motor, and what the motor holds.                            *)
(***************************************************************************)
EXTENDS FaderMotor, SequenceTheorems, TLAPS

\* The frames, and what they ask of the motor.
LEMMA FramesAre ==
  /\ Limp \in Frames /\ Limp.cmd = "limp"
  /\ Enable \in Frames /\ Enable.cmd = "enable"
  /\ \A p \in Positions : Echo(p) \in Frames /\ Echo(p).cmd = "echo" /\ Echo(p).at = p
  /\ \A v \in Pb : /\ Drive(v) \in Frames /\ Drive(v).cmd = "drive" /\ Drive(v).at = Value(v)
                   /\ Value(v) \in Positions /\ Readback(v) \in Positions
  /\ 0 \in Pb
  BY PbMaxAssumption DEF Frames, Positions, Limp, Enable, Echo, Drive, Value, Readback, Pb

\* Appending and prepending frames keeps a queue of frames; so does sending one.
LEMMA QueueOfFrames ==
  ASSUME NEW q \in Seq(Frames), NEW f \in Frames
  PROVE  Append(q, f) \in Seq(Frames) /\ <<f>> \o q \in Seq(Frames)
<1> HIDE DEF Frames
<1>1. <<f>> \in Seq(Frames)
  OBVIOUS
<1> QED
  BY <1>1

\* Every step of the worker and the fader keeps the types.
LEMMA WorkerTypes ==
  ASSUME TypeOK, OnEdge \/ OffEdge \/ FaderMoves \/ PressAges \/ Worker
  PROVE  TypeOK'
<1> USE DEF hardware, touch, drag, reaper
<1>0. toDev \in Seq(Frames) /\ effPb \in Pb /\ 0 \in Pb
  BY FramesAre DEF TypeOK
<1>1. CASE OnEdge
  <2>1. finger' \in BOOLEAN /\ quiet' \in BOOLEAN /\ pending' \in BOOLEAN
        /\ workerPc' = "report"
    BY <1>1 DEF OnEdge, TypeOK
  <2>2. UNCHANGED <<motorOn, target, toDev, reported, moved, touchPb, engaged, lastPb,
                    effPb, mainPc, released, present, level, crossed, raced>>
    BY <1>1 DEF OnEdge
  <2> QED BY <2>1, <2>2 DEF TypeOK
<1>2. CASE OffEdge
  <2>1. finger' \in BOOLEAN /\ pending' \in BOOLEAN
    BY <1>2 DEF OffEdge, TypeOK
  <2>2. UNCHANGED <<motorOn, target, toDev, quiet, reported, moved, touchPb, engaged,
                    lastPb, workerPc, effPb, mainPc, released, present, level, crossed,
                    raced>>
    BY <1>2 DEF OffEdge
  <2> QED BY <2>1, <2>2 DEF TypeOK
<1>3. CASE FaderMoves BY <1>3 DEF FaderMoves, PositionFrame, TypeOK
<1>4. CASE PressAges BY <1>4 DEF PressAges, TypeOK
<1>5. CASE ReportTouch BY <1>5 DEF ReportTouch, TypeOK
<1>6. CASE SendLimp
  <2>1. toDev' \in Seq(Frames) BY <1>0, <1>6, FramesAre, QueueOfFrames DEF SendLimp
  <2> QED BY <1>6, <2>1 DEF SendLimp, TypeOK
<1>7. CASE NoteLimp
  <2>1. engaged' \in BOOLEAN /\ raced' \in BOOLEAN /\ workerPc' = "idle"
    BY <1>7 DEF NoteLimp
  <2>2. UNCHANGED <<finger, motorOn, target, toDev, quiet, pending, reported, moved,
                    touchPb, lastPb, effPb, mainPc, released, present, level, crossed>>
    BY <1>7 DEF NoteLimp
  <2> QED BY <2>1, <2>2 DEF TypeOK
<1>8. CASE MarkMoved BY <1>8 DEF MarkMoved, TypeOK
<1>9. CASE Record BY <1>9 DEF Record, TypeOK
<1>10. CASE SendEcho
  <2>1. toDev' \in Seq(Frames) BY <1>0, <1>10, FramesAre, QueueOfFrames DEF SendEcho
  <2> QED BY <1>0, <1>10, <2>1 DEF SendEcho, TypeOK
<1>11. CASE SendFrame
  <2>1. toDev # <<>> BY <1>11 DEF SendFrame
  <2>2. Head(toDev) \in Frames /\ Tail(toDev) \in Seq(Frames) BY <1>0, <2>1
  <2>3. Head(toDev).at \in Positions BY <2>2 DEF Frames
  <2>4. motorOn' \in BOOLEAN BY <1>11 DEF SendFrame, TypeOK
  <2>5. target' \in Positions BY <1>11, <2>3 DEF SendFrame, TypeOK
  <2> QED BY <1>11, <2>2, <2>4, <2>5 DEF SendFrame, TypeOK
<1> QED
  BY <1>1, <1>2, <1>3, <1>4, <1>5, <1>6, <1>7, <1>8, <1>9, <1>10, <1>11 DEF Worker

\* Every step of the main thread and of the banks keeps the types.
LEMMA MainTypes ==
  ASSUME TypeOK, Main \/ BankChanges
  PROVE  TypeOK'
<1> USE DEF hardware, touch, drag, reaper, Goes
<1>0. toDev \in Seq(Frames) /\ level \in Pb /\ lastPb \in Pb /\ 0 \in Pb
  BY FramesAre DEF TypeOK
<1>1. CASE Drain BY <1>1 DEF Drain, TypeOK
<1>2. CASE Check BY <1>2 DEF Check, TypeOK
<1>3. CASE ClearPending
  <2>1. pending' \in BOOLEAN /\ mainPc' = "exchange"
    BY <1>3 DEF ClearPending, TypeOK
  <2>2. UNCHANGED <<finger, motorOn, target, toDev, quiet, reported, moved, touchPb,
                    engaged, lastPb, workerPc, effPb, released, present, level,
                    crossed, raced>>
    BY <1>3 DEF ClearPending
  <2> QED BY <2>1, <2>2 DEF TypeOK
<1>4. CASE DropTouch
  <2>1. reported' \in BOOLEAN /\ crossed' \in BOOLEAN
        /\ mainPc' \in {"moved", "push"}
    BY <1>4 DEF DropTouch, TypeOK
  <2>2. UNCHANGED <<finger, motorOn, target, toDev, quiet, pending, moved, touchPb,
                    engaged, lastPb, workerPc, effPb, released, present, level, raced>>
    BY <1>4 DEF DropTouch
  <2> QED BY <2>1, <2>2 DEF TypeOK
<1>5. CASE ReadMoved BY <1>5 DEF ReadMoved, TypeOK
<1>6. CASE ReadPosition
  <2>1. released' \in [pb : Pb, snapBack : BOOLEAN] /\ mainPc' = "unmark"
    <3>1. touchPb \in Pb /\ mainPc' = "unmark"
      BY <1>6 DEF ReadPosition, TypeOK
    <3>2. \E p \in Pb, b \in BOOLEAN : released' = [pb |-> p, snapBack |-> b]
      BY <1>6, <3>1 DEF ReadPosition
    <3> QED BY <3>1, <3>2
  <2>2. UNCHANGED <<finger, motorOn, target, toDev, quiet, pending, reported, moved,
                    touchPb, engaged, lastPb, workerPc, effPb, present, level, crossed,
                    raced>>
    BY <1>6 DEF ReadPosition
  <2> QED BY <2>1, <2>2 DEF TypeOK
<1>7. CASE CommitValue
  <2>1. moved' \in BOOLEAN /\ level' \in Pb /\ mainPc' = "enable"
    BY <1>7 DEF CommitValue, TypeOK
  <2>2. UNCHANGED <<finger, motorOn, target, toDev, quiet, pending, reported, touchPb,
                    engaged, lastPb, workerPc, effPb, released, present, crossed,
                    raced>>
    BY <1>7 DEF CommitValue
  <2> QED BY <2>1, <2>2 DEF TypeOK
<1>8. CASE CommitEnable
  <2>1. toDev' \in Seq(Frames) BY <1>0, <1>8, FramesAre, QueueOfFrames DEF CommitEnable
  <2> QED BY <1>8, <2>1 DEF CommitEnable, TypeOK
<1>9. CASE CommitEngaged
  <2>1. NotReleased \in [pb : Pb, snapBack : BOOLEAN] BY <1>0 DEF NotReleased
  <2> QED BY <1>9, <2>1 DEF CommitEngaged, TypeOK
<1>10. CASE CommitBack
  <2>1. toDev' \in Seq(Frames) BY <1>0, <1>10, FramesAre, QueueOfFrames DEF CommitBack
  <2> QED BY <1>10, <2>1 DEF CommitBack, TypeOK
<1>11. CASE PushSkips \/ PushTests \/ PushRests \/ PushFollows
  BY <1>11 DEF PushSkips, PushTests, PushRests, PushFollows, TypeOK
<1>17. CASE NoteEngaged BY <1>17 DEF NoteEngaged, TypeOK
<1>12. CASE PushEmpty
  <2>1. toDev' \in Seq(Frames) BY <1>0, <1>12, FramesAre, QueueOfFrames DEF PushEmpty
  <2> QED BY <1>0, <1>12, <2>1 DEF PushEmpty, TypeOK
<1>13. CASE PushLoads
  <2>1. toDev' \in Seq(Frames) BY <1>0, <1>13, FramesAre, QueueOfFrames DEF PushLoads
  <2> QED BY <1>13, <2>1 DEF PushLoads, TypeOK
<1>14. CASE PushWakes
  <2>1. toDev' \in Seq(Frames) BY <1>0, <1>14, FramesAre, QueueOfFrames DEF PushWakes
  <2> QED BY <1>14, <2>1 DEF PushWakes, TypeOK
<1>15. CASE PushDrive
  <2>1. toDev' \in Seq(Frames) BY <1>0, <1>15, FramesAre, QueueOfFrames DEF PushDrive
  <2> QED BY <1>15, <2>1 DEF PushDrive, TypeOK
<1>16. CASE BankChanges
  <2>1. present' \in BOOLEAN BY <1>16, SettingsAssumption DEF BankChanges
  <2> QED BY <1>16, <2>1 DEF BankChanges, TypeOK
<1> QED
  BY <1>1, <1>2, <1>3, <1>4, <1>5, <1>6, <1>7, <1>8, <1>9, <1>10, <1>11, <1>12, <1>13,
     <1>14, <1>15, <1>16, <1>17 DEF Main

LEMMA InitTypeOK == Init => TypeOK
<1> SUFFICES ASSUME Init PROVE TypeOK
  OBVIOUS
<1>1. level \in Pb /\ 0 \in Pb /\ toDev \in Seq(Frames) /\ Value(level) \in Positions
  BY FramesAre DEF Init
<1>2. NotReleased \in [pb : Pb, snapBack : BOOLEAN] BY <1>1 DEF NotReleased
<1> QED
  BY <1>1, <1>2, SettingsAssumption DEF Init, TypeOK

LEMMA NextTypeOK == TypeOK /\ [Next]_vars => TypeOK'
<1> SUFFICES ASSUME TypeOK, [Next]_vars PROVE TypeOK'
  OBVIOUS
<1>1. CASE UNCHANGED vars
  BY <1>1 DEF vars, hardware, touch, drag, reaper, TypeOK
<1> QED
  BY <1>1, WorkerTypes, MainTypes DEF Next

\* Every variable of the strip keeps its type (the queue of the device holds
\* frames, positions stay in the range of the fader).
THEOREM TypeCorrect == Spec => []TypeOK
  BY InitTypeOK, NextTypeOK, PTL DEF Spec

-----------------------------------------------------------------------------
(* The touch of the strip is the debounce.                                  *)

LEMMA OneStrip == Gate!Strips = {0} /\ Gate!NoStrip = 1 /\ Gate!NextStrip = 0
  BY DEF Gate!Strips, Gate!NoStrip, Gate!NextStrip

LEMMA InitGate == Init => Gate!Init
  BY OneStrip DEF Init, Gate!Init

\* The worker and the fader: three edges, and steps that the debounce does not
\* see.
LEMMA WorkerGate ==
  ASSUME OnEdge \/ OffEdge \/ FaderMoves \/ PressAges \/ Worker
  PROVE  Gate!Next \/ UNCHANGED Gate!vars
<1> USE OneStrip DEF hardware, touch, drag, reaper, Gate!vars
<1>1. CASE OnEdge
  <2>1. Gate!OnEdge(0)
    BY <1>1 DEF OnEdge, TakesInput, Gate!OnEdge
  <2> QED BY <2>1 DEF Gate!Next
<1>2. CASE OffEdge
  <2>1. Gate!OffEdge(0)
    BY <1>2 DEF OffEdge, TakesInput, Gate!OffEdge
  <2> QED BY <2>1 DEF Gate!Next
<1>3. CASE PressAges
  <2>1. Gate!PressAges(0)
    BY <1>3 DEF PressAges, Gate!PressAges
  <2> QED BY <2>1 DEF Gate!Next
<1>4. CASE ReportTouch
  <2>1. Gate!ReportTouch(0)
    BY <1>4 DEF ReportTouch, Gate!ReportTouch
  <2> QED BY <2>1 DEF Gate!Next
<1>5. CASE FaderMoves
  BY <1>5 DEF FaderMoves, PositionFrame, TakesInput
<1>6. CASE SendLimp \/ NoteLimp \/ MarkMoved \/ Record \/ SendEcho \/ SendFrame
  BY <1>6 DEF SendLimp, NoteLimp, MarkMoved, Record, SendEcho, SendFrame
<1> QED
  BY <1>1, <1>2, <1>3, <1>4, <1>5, <1>6 DEF Worker

\* The main thread: the loop of commitDebouncedTouchReleases, with the commit in
\* several steps of which the last ends the one of the debounce.
LEMMA MainGate ==
  ASSUME TypeOK, Main \/ BankChanges
  PROVE  Gate!Next \/ UNCHANGED Gate!vars
<1> USE OneStrip DEF hardware, touch, drag, reaper, Gate!vars, Goes
<1>1. CASE Check
  <2>1. Gate!CheckDue \/ Gate!CheckSkip
    BY <1>1 DEF Check, Gate!CheckDue, Gate!CheckSkip
  <2> QED BY <2>1 DEF Gate!Next, Gate!Main
<1>2. CASE ClearPending
  <2>1. Gate!ClearPending
    BY <1>2 DEF ClearPending, Gate!ClearPending
  <2> QED BY <2>1 DEF Gate!Next, Gate!Main
<1>3. CASE DropTouch
  <2>1. Gate!DropTouch
    BY <1>3 DEF DropTouch, Gate!DropTouch
  <2> QED BY <2>1 DEF Gate!Next, Gate!Main
<1>4. CASE ReadMoved
  <2>1. Gate!FinishCommit \/ UNCHANGED Gate!vars
    BY <1>4 DEF ReadMoved, Gate!FinishCommit
  <2> QED BY <2>1 DEF Gate!Next, Gate!Main
<1>5. CASE ReadPosition \/ CommitValue \/ CommitEnable
  BY <1>5 DEF ReadPosition, CommitValue, CommitEnable
<1>6. CASE CommitEngaged
  <2>1. Gate!FinishCommit \/ UNCHANGED Gate!vars
    BY <1>6 DEF CommitEngaged, Gate!FinishCommit
  <2> QED BY <2>1 DEF Gate!Next, Gate!Main
<1>7. CASE CommitBack
  <2>1. Gate!FinishCommit
    BY <1>7 DEF CommitBack, Gate!FinishCommit
  <2> QED BY <2>1 DEF Gate!Next, Gate!Main
<1>8. CASE Drain \/ PushSkips \/ PushTests \/ PushRests \/ PushEmpty
  BY <1>8 DEF Drain, PushSkips, PushTests, PushRests, PushEmpty
<1>9. CASE PushFollows \/ PushLoads \/ PushWakes \/ NoteEngaged \/ PushDrive
  BY <1>9 DEF PushFollows, PushLoads, PushWakes, NoteEngaged, PushDrive
<1>10. CASE BankChanges
  BY <1>10 DEF BankChanges
<1> QED
  BY <1>1, <1>2, <1>3, <1>4, <1>5, <1>6, <1>7, <1>8, <1>9, <1>10 DEF Main

\* Every step of the strip is a step of the debounce or leaves it alone.
LEMMA NextGate == TypeOK /\ [Next]_vars => [Gate!Next]_(Gate!vars)
<1> SUFFICES ASSUME TypeOK, [Next]_vars PROVE [Gate!Next]_(Gate!vars)
  OBVIOUS
<1>1. CASE UNCHANGED vars
  BY <1>1 DEF vars, hardware, touch, drag, reaper, Gate!vars
<1> QED
  BY <1>1, WorkerGate, MainGate DEF Next

\* The touch of the strip takes the steps of TouchGate, also when an input event
\* lands in the middle of a tick: what is shown there of stuck touches holds
\* for the motor too.
THEOREM TouchIsDebounced == Spec => GateSteps
<1>1. Spec => []TypeOK
  BY TypeCorrect
<1> QED
  BY <1>1, InitGate, NextGate, PTL DEF Spec, GateSteps

-----------------------------------------------------------------------------
(* Queues of frames.                                                        *)

Loads(f) == f.cmd \in {"echo", "drive"}

\* Limp frames enter at the front.
LimpsFirst(q) ==
  \A i, j \in DOMAIN q : i < j /\ q[j].cmd = "limp" => q[i].cmd = "limp"

HasEnable(q) == \E i \in DOMAIN q : q[i].cmd = "enable"
NoLimp(q) == \A i \in DOMAIN q : q[i].cmd # "limp"
NoLoad(q) == \A i \in DOMAIN q : ~Loads(q[i])

\* The last position in q, or t if there is none, is v.
LastLoad(q, t, v) ==
  \/ \E i \in DOMAIN q :
       Loads(q[i]) /\ q[i].at = v /\ \A j \in DOMAIN q : i < j => ~Loads(q[j])
  \/ t = v /\ NoLoad(q)

\* A drive, which a limp motor discards, is not the last position before an enable.
LoadAfterDrive(q) ==
  \A i, j \in DOMAIN q : i < j /\ q[i].cmd = "drive" /\ q[j].cmd = "enable"
    => \E k \in DOMAIN q : i < k /\ Loads(q[k])

\* After every drive there is an echo.
EchoLast(q) ==
  \A i \in DOMAIN q : q[i].cmd = "drive" => \E k \in DOMAIN q : i < k /\ q[k].cmd = "echo"

\* What Append adds.
LEMMA AppendOf ==
  ASSUME NEW q \in Seq(Frames), NEW f \in Frames
  PROVE  /\ Append(q, f) \in Seq(Frames) /\ Len(q) \in Nat
         /\ DOMAIN q = 1..Len(q) /\ DOMAIN Append(q, f) = 1..(Len(q) + 1)
         /\ \A i \in 1..Len(q) : Append(q, f)[i] = q[i]
         /\ Append(q, f)[Len(q) + 1] = f
  BY AppendProperties, LenProperties

\* What sendPriority puts in front.
LEMMA PrependOf ==
  ASSUME NEW q \in Seq(Frames), NEW f \in Frames
  PROVE  /\ <<f>> \o q \in Seq(Frames) /\ Len(q) \in Nat
         /\ DOMAIN q = 1..Len(q) /\ DOMAIN (<<f>> \o q) = 1..(Len(q) + 1)
         /\ \A i \in 1..Len(q) : (<<f>> \o q)[i + 1] = q[i]
         /\ (<<f>> \o q)[1] = f
<1>1. <<f>> \in Seq(Frames) /\ Len(<<f>>) = 1 /\ <<f>>[1] = f
  OBVIOUS
<1>2. Len(q) \in Nat /\ DOMAIN q = 1..Len(q)
  BY LenProperties
<1>3. /\ <<f>> \o q \in Seq(Frames) /\ Len(<<f>> \o q) = 1 + Len(q)
      /\ \A i \in 1..(1 + Len(q)) :
           (<<f>> \o q)[i] = IF i <= 1 THEN <<f>>[i] ELSE q[i - 1]
  BY <1>1, ConcatProperties
<1>4. DOMAIN (<<f>> \o q) = 1..(Len(q) + 1)
  BY <1>2, <1>3, LenProperties
<1> HIDE DEF Frames
<1> QED BY <1>1, <1>2, <1>3, <1>4

\* What sending the first frame leaves.
LEMMA TailOf ==
  ASSUME NEW q \in Seq(Frames), q # <<>>
  PROVE  /\ Tail(q) \in Seq(Frames) /\ Head(q) \in Frames /\ Head(q) = q[1]
         /\ Len(q) \in Nat \ {0}
         /\ DOMAIN q = 1..Len(q) /\ DOMAIN Tail(q) = 1..(Len(q) - 1)
         /\ \A i \in 1..(Len(q) - 1) : Tail(q)[i] = q[i + 1]
<1>1. Tail(q) \in Seq(Frames) /\ Head(q) \in Frames /\ Len(Tail(q)) = Len(q) - 1
      /\ Head(q) = q[1] /\ \A i \in 1..Len(Tail(q)) : Tail(q)[i] = q[i + 1]
  BY HeadTailProperties
<1>2. Len(q) \in Nat \ {0} /\ DOMAIN q = 1..Len(q)
  BY EmptySeq, LenProperties
<1> QED BY <1>1, <1>2, LenProperties

\* A frame that is queued, but for a limp one, which is not queued at the end.
LEMMA AppendKeeps ==
  ASSUME NEW q \in Seq(Frames), NEW f \in Frames, f.cmd # "limp"
  PROVE  /\ LimpsFirst(q) => LimpsFirst(Append(q, f))
         /\ HasEnable(Append(q, f)) <=> HasEnable(q) \/ f.cmd = "enable"
         /\ NoLimp(Append(q, f)) <=> NoLimp(q)
         /\ Loads(f) => \A t : LastLoad(Append(q, f), t, f.at)
         /\ ~Loads(f) => \A t, v : LastLoad(q, t, v) => LastLoad(Append(q, f), t, v)
         /\ Loads(f) => LoadAfterDrive(Append(q, f))
         /\ LoadAfterDrive(q) /\ EchoLast(q) => LoadAfterDrive(Append(q, f))
         /\ f.cmd = "echo" => EchoLast(Append(q, f))
         /\ f.cmd # "drive" /\ EchoLast(q) => EchoLast(Append(q, f))
<1> DEFINE r == Append(q, f)
           n == Len(q)
<1>1. /\ n \in Nat /\ DOMAIN q = 1..n /\ DOMAIN r = 1..(n + 1)
      /\ \A i \in 1..n : r[i] = q[i]
      /\ r[n + 1] = f
  BY AppendOf
<1> HIDE DEF r, n
<1>2. \A i \in DOMAIN r : (i \in DOMAIN q /\ i < n + 1) \/ i = n + 1
  BY <1>1
<1>3. \A i \in DOMAIN q : i \in DOMAIN r /\ i < n + 1 /\ r[i] = q[i]
  BY <1>1
<1>4. n + 1 \in DOMAIN r /\ r[n + 1] = f /\ ~(n + 1 < n + 1)
  BY <1>1
<1>5. LimpsFirst(q) => LimpsFirst(r)
  BY <1>1 DEF LimpsFirst
<1>6. HasEnable(r) <=> HasEnable(q) \/ f.cmd = "enable"
  BY <1>2, <1>3, <1>4 DEF HasEnable
<1>7. NoLimp(r) <=> NoLimp(q)
  BY <1>2, <1>3, <1>4 DEF NoLimp
<1>8. ASSUME Loads(f) PROVE \A t : LastLoad(r, t, f.at)
  BY <1>1, <1>8 DEF LastLoad
<1>9. ASSUME ~Loads(f), NEW t, NEW v, LastLoad(q, t, v) PROVE LastLoad(r, t, v)
  <2>1. CASE t = v /\ NoLoad(q)
    BY <1>2, <1>3, <1>4, <1>9, <2>1 DEF LastLoad, NoLoad
  <2>2. ASSUME NEW i \in DOMAIN q, Loads(q[i]), q[i].at = v,
               \A j \in DOMAIN q : i < j => ~Loads(q[j])
        PROVE  LastLoad(r, t, v)
    <3>1. \A j \in DOMAIN r : i < j => ~Loads(r[j])
      BY <1>2, <1>3, <1>4, <1>9, <2>2
    <3> QED BY <1>3, <2>2, <3>1 DEF LastLoad
  <2> QED BY <1>9, <2>1, <2>2 DEF LastLoad
<1>10. Loads(f) => LoadAfterDrive(r)
  BY <1>1, <1>2 DEF LoadAfterDrive
<1>13. ASSUME LoadAfterDrive(q), EchoLast(q) PROVE LoadAfterDrive(r)
  <2>1. ASSUME NEW i \in DOMAIN q, q[i].cmd = "drive"
        PROVE  \E k \in DOMAIN r : i < k /\ Loads(r[k])
    <3>1. PICK k \in DOMAIN q : i < k /\ q[k].cmd = "echo"
      BY <1>13, <2>1 DEF EchoLast
    <3> QED BY <1>3, <3>1 DEF Loads
  <2>2. \A i, j \in DOMAIN r : i < j => i \in DOMAIN q /\ r[i] = q[i]
    BY <1>1
  <2> QED BY <2>1, <2>2 DEF LoadAfterDrive
<1>11. f.cmd = "echo" => EchoLast(r)
  BY <1>2, <1>3, <1>4 DEF EchoLast
<1>12. f.cmd # "drive" /\ EchoLast(q) => EchoLast(r)
  BY <1>2, <1>3, <1>4 DEF EchoLast
<1> QED BY <1>5, <1>6, <1>7, <1>8, <1>9, <1>10, <1>11, <1>12, <1>13 DEF r

\* The limp frame of a touch, in front of all others.
LEMMA PrependKeeps ==
  ASSUME NEW q \in Seq(Frames), NEW f \in Frames, f.cmd = "limp"
  PROVE  /\ LimpsFirst(q) => LimpsFirst(<<f>> \o q)
         /\ HasEnable(<<f>> \o q) <=> HasEnable(q)
         /\ ~NoLimp(<<f>> \o q)
         /\ \A t, v : LastLoad(q, t, v) => LastLoad(<<f>> \o q, t, v)
         /\ LoadAfterDrive(q) => LoadAfterDrive(<<f>> \o q)
         /\ EchoLast(q) => EchoLast(<<f>> \o q)
<1> DEFINE r == <<f>> \o q
           n == Len(q)
<1>1. /\ n \in Nat /\ DOMAIN q = 1..n /\ DOMAIN r = 1..(n + 1)
      /\ \A i \in 1..n : r[i + 1] = q[i]
      /\ r[1] = f
  BY PrependOf
<1> HIDE DEF r, n
<1>2. ASSUME NEW i \in DOMAIN r, i # 1
      PROVE  i - 1 \in DOMAIN q /\ 1 < i /\ r[i] = q[i - 1]
  <2>1. i - 1 \in 1..n /\ 1 < i /\ (i - 1) + 1 = i
    BY <1>1, <1>2
  <2> QED BY <1>1, <2>1
<1>3. \A i \in DOMAIN q : i + 1 \in DOMAIN r /\ 1 < i + 1 /\ r[i + 1] = q[i]
  BY <1>1
<1>4. 1 \in DOMAIN r /\ r[1].cmd = "limp" /\ DOMAIN r \subseteq Int /\ DOMAIN q \subseteq Int
  BY <1>1
<1>5. ASSUME LimpsFirst(q) PROVE LimpsFirst(r)
  BY <1>2, <1>4, <1>5 DEF LimpsFirst
<1>6. HasEnable(r) <=> HasEnable(q)
  BY <1>2, <1>3, <1>4 DEF HasEnable
<1>7. ~NoLimp(r)
  BY <1>4 DEF NoLimp
<1>8. ASSUME NEW t, NEW v, LastLoad(q, t, v) PROVE LastLoad(r, t, v)
  <2>1. CASE t = v /\ NoLoad(q)
    BY <1>2, <1>4, <2>1 DEF LastLoad, NoLoad, Loads
  <2>2. ASSUME NEW i \in DOMAIN q, Loads(q[i]), q[i].at = v,
               \A j \in DOMAIN q : i < j => ~Loads(q[j])
        PROVE  LastLoad(r, t, v)
    <3>1. \A j \in DOMAIN r : i + 1 < j => ~Loads(r[j])
      BY <1>2, <1>4, <2>2 DEF Loads
    <3> QED BY <1>3, <2>2, <3>1 DEF LastLoad
  <2> QED BY <1>8, <2>1, <2>2 DEF LastLoad
<1>9. ASSUME LoadAfterDrive(q) PROVE LoadAfterDrive(r)
  <2> SUFFICES ASSUME NEW i \in DOMAIN r, NEW j \in DOMAIN r, i < j, r[i].cmd = "drive",
                      r[j].cmd = "enable"
               PROVE  \E k \in DOMAIN r : i < k /\ Loads(r[k])
    BY DEF LoadAfterDrive
  <2>1. /\ i - 1 \in DOMAIN q /\ q[i - 1].cmd = "drive" /\ i - 1 < j - 1
        /\ j - 1 \in DOMAIN q /\ q[j - 1].cmd = "enable"
    BY <1>2, <1>4
  <2>2. PICK k \in DOMAIN q : i - 1 < k /\ Loads(q[k])
    BY <1>9, <2>1 DEF LoadAfterDrive
  <2>3. i < k + 1
    BY <1>4, <2>2
  <2> QED BY <1>3, <2>2, <2>3
<1>10. ASSUME EchoLast(q) PROVE EchoLast(r)
  <2> SUFFICES ASSUME NEW i \in DOMAIN r, r[i].cmd = "drive"
               PROVE  \E k \in DOMAIN r : i < k /\ r[k].cmd = "echo"
    BY DEF EchoLast
  <2>1. i - 1 \in DOMAIN q /\ q[i - 1].cmd = "drive"
    BY <1>2, <1>4
  <2>2. PICK k \in DOMAIN q : i - 1 < k /\ q[k].cmd = "echo"
    BY <1>10, <2>1 DEF EchoLast
  <2>3. i < k + 1
    BY <1>4, <2>2
  <2> QED BY <1>3, <2>2, <2>3
<1> QED BY <1>5, <1>6, <1>7, <1>8, <1>9, <1>10 DEF r

\* The first frame is sent, the rest is left.
LEMMA TailKeeps ==
  ASSUME NEW q \in Seq(Frames), q # <<>>
  PROVE  /\ LimpsFirst(q) => LimpsFirst(Tail(q))
         /\ LimpsFirst(q) /\ Head(q).cmd # "limp" => NoLimp(Tail(q))
         /\ NoLimp(q) <=> NoLimp(Tail(q)) /\ Head(q).cmd # "limp"
         /\ HasEnable(q) <=> HasEnable(Tail(q)) \/ Head(q).cmd = "enable"
         /\ \A t, v : LastLoad(q, t, v) =>
              IF ~Loads(Head(q)) THEN LastLoad(Tail(q), t, v)
              ELSE \/ \A u : LastLoad(Tail(q), u, v)
                   \/ NoLoad(Tail(q)) /\ Head(q).at = v
         /\ LoadAfterDrive(q) => LoadAfterDrive(Tail(q))
         /\ LoadAfterDrive(q) /\ Head(q).cmd = "drive" /\ NoLoad(Tail(q)) => ~HasEnable(Tail(q))
         /\ EchoLast(q) => EchoLast(Tail(q))
         /\ EchoLast(q) /\ Head(q).cmd = "drive" => ~NoLoad(Tail(q))
<1> DEFINE r == Tail(q)
           n == Len(q)
<1>1. /\ n \in Nat \ {0} /\ DOMAIN q = 1..n /\ DOMAIN r = 1..(n - 1)
      /\ \A i \in 1..(n - 1) : r[i] = q[i + 1]
      /\ Head(q) = q[1]
  BY TailOf
<1> HIDE DEF r, n
<1>2. ASSUME NEW i \in DOMAIN q, i # 1
      PROVE  i - 1 \in DOMAIN r /\ 1 < i /\ q[i] = r[i - 1]
  <2>1. i - 1 \in 1..(n - 1) /\ 1 < i /\ (i - 1) + 1 = i
    BY <1>1, <1>2
  <2> QED BY <1>1, <2>1
<1>3. \A i \in DOMAIN r : i + 1 \in DOMAIN q /\ 1 < i + 1 /\ q[i + 1] = r[i]
  BY <1>1
<1>4. 1 \in DOMAIN q /\ q[1] = Head(q) /\ DOMAIN r \subseteq Int /\ DOMAIN q \subseteq Int
  BY <1>1
<1>5. ASSUME LimpsFirst(q) PROVE LimpsFirst(r)
  BY <1>3, <1>4, <1>5 DEF LimpsFirst
<1>6. ASSUME LimpsFirst(q), Head(q).cmd # "limp" PROVE NoLimp(r)
  BY <1>3, <1>4, <1>6 DEF LimpsFirst, NoLimp
<1>7. NoLimp(q) <=> NoLimp(r) /\ Head(q).cmd # "limp"
  BY <1>2, <1>3, <1>4 DEF NoLimp
<1>8. HasEnable(q) <=> HasEnable(r) \/ Head(q).cmd = "enable"
  BY <1>2, <1>3, <1>4 DEF HasEnable
<1>9. NoLoad(q) => NoLoad(r) /\ ~Loads(Head(q))
  BY <1>3, <1>4 DEF NoLoad
<1>10. ASSUME NEW t, NEW v, LastLoad(q, t, v)
       PROVE  IF ~Loads(Head(q)) THEN LastLoad(r, t, v)
              ELSE (\A u : LastLoad(r, u, v)) \/ (NoLoad(r) /\ Head(q).at = v)
  <2>1. CASE t = v /\ NoLoad(q)
    BY <1>9, <2>1 DEF LastLoad
  <2>2. ASSUME NEW i \in DOMAIN q, Loads(q[i]), q[i].at = v,
               \A j \in DOMAIN q : i < j => ~Loads(q[j])
        PROVE  IF ~Loads(Head(q)) THEN LastLoad(r, t, v)
               ELSE (\A u : LastLoad(r, u, v)) \/ (NoLoad(r) /\ Head(q).at = v)
    <3>1. CASE i = 1
      <4>1. NoLoad(r)
        BY <1>3, <2>2, <3>1 DEF NoLoad
      <4> QED BY <1>4, <2>2, <3>1, <4>1
    <3>2. CASE i # 1
      <4>1. i - 1 \in DOMAIN r /\ r[i - 1] = q[i]
        BY <1>2, <3>2
      <4>2. \A j \in DOMAIN r : i - 1 < j => ~Loads(r[j])
        BY <1>3, <1>4, <2>2
      <4>3. \A u : LastLoad(r, u, v)
        BY <2>2, <4>1, <4>2 DEF LastLoad
      <4> QED BY <4>3
    <3> QED BY <3>1, <3>2
  <2> QED BY <1>10, <2>1, <2>2 DEF LastLoad
<1>11. ASSUME LoadAfterDrive(q) PROVE LoadAfterDrive(r)
  <2> SUFFICES ASSUME NEW i \in DOMAIN r, NEW j \in DOMAIN r, i < j, r[i].cmd = "drive",
                      r[j].cmd = "enable"
               PROVE  \E k \in DOMAIN r : i < k /\ Loads(r[k])
    BY DEF LoadAfterDrive
  <2>1. i + 1 < j + 1
    BY <1>4
  <2>2. PICK k \in DOMAIN q : i + 1 < k /\ Loads(q[k])
    BY <1>3, <1>11, <2>1 DEF LoadAfterDrive
  <2>3. k # 1 /\ i < k - 1
    BY <1>3, <1>4, <2>2
  <2> QED BY <1>2, <2>2, <2>3
<1>12. ASSUME LoadAfterDrive(q), Head(q).cmd = "drive", NoLoad(r) PROVE ~HasEnable(r)
  <2> SUFFICES ASSUME NEW j \in DOMAIN r, r[j].cmd = "enable" PROVE FALSE
    BY DEF HasEnable
  <2>1. PICK k \in DOMAIN q : 1 < k /\ Loads(q[k])
    BY <1>3, <1>4, <1>12 DEF LoadAfterDrive
  <2>2. k - 1 \in DOMAIN r /\ Loads(r[k - 1])
    BY <1>2, <1>4, <2>1
  <2> QED BY <1>12, <2>2 DEF NoLoad
<1>13. ASSUME EchoLast(q) PROVE EchoLast(r)
  <2> SUFFICES ASSUME NEW i \in DOMAIN r, r[i].cmd = "drive"
               PROVE  \E k \in DOMAIN r : i < k /\ r[k].cmd = "echo"
    BY DEF EchoLast
  <2>1. PICK k \in DOMAIN q : i + 1 < k /\ q[k].cmd = "echo"
    BY <1>3, <1>13 DEF EchoLast
  <2>2. k # 1 /\ i < k - 1
    BY <1>3, <1>4, <2>1
  <2> QED BY <1>2, <2>1, <2>2
<1>14. ASSUME EchoLast(q), Head(q).cmd = "drive" PROVE ~NoLoad(r)
  <2>1. PICK k \in DOMAIN q : 1 < k /\ q[k].cmd = "echo"
    BY <1>4, <1>14 DEF EchoLast
  <2>2. k - 1 \in DOMAIN r /\ r[k - 1].cmd = "echo"
    BY <1>2, <1>4, <2>1
  <2> QED BY <2>2 DEF NoLoad, Loads
<1> QED
  BY <1>5, <1>6, <1>7, <1>8, <1>10, <1>11, <1>12, <1>13, <1>14 DEF r

-----------------------------------------------------------------------------
(* What the program knows of the motor, and what the motor holds.           *)

\* Once the queue is sent the motor is on.
WillBeOn == HasEnable(toDev) \/ (motorOn /\ NoLimp(toDev))

\* The flag is set, or about to be, only for a motor that is on or will be:
\* but while a limp frame was queued and is not noted yet.
FlagRight ==
  (~raced /\ workerPc # "flag" /\ (engaged \/ mainPc \in {"engaged", "reengaged"}))
    => WillBeOn

\* Where nothing crosses, a strip whose motor is moved is not touched.
Apart ==
  /\ InFrame => reported
  /\ Moves => ~reported
  /\ workerPc \in {"record", "echo"} => moved
  /\ workerPc = "echo" => touchPb = effPb

\* The target is the readback of the last position of the touch ...
TouchIsTarget == LastLoad(toDev, target, Readback(touchPb))

\* ... from its echo to the enable of its release, with no drive after it.
TouchHeld ==
  /\ moved => reported \/ mainPc \in {"moved", "eff", "unmark"}
  /\ moved /\ workerPc \notin {"record", "echo"} => TouchIsTarget /\ EchoLast(toDev)
  /\ mainPc \in {"eff", "unmark"} => moved
  /\ mainPc = "unmark" /\ ~released.snapBack => released.pb = touchPb
  /\ mainPc \in {"enable", "engaged"} =>
       /\ ~moved /\ TouchIsTarget
       /\ ~released.snapBack => level = touchPb
  /\ mainPc \in {"enable", "engaged", "wake"} => EchoLast(toDev)

\* The main thread is done with the motor, or has not begun.
MotorLeft ==
  mainPc \notin {"enable", "engaged", "back", "load", "wake", "reengaged", "drive"}

HoldsLast ==
  LastLoad(toDev, target, Value(lastPb)) \/ LastLoad(toDev, target, Readback(lastPb))

\* A motor that will be on will have the position the program last asked for.
Holds == WillBeOn /\ ~moved /\ MotorLeft => HoldsLast

Uncrossed == LoadAfterDrive(toDev) /\ Apart /\ TouchHeld /\ Holds

IInv == TypeOK /\ LimpsFirst(toDev) /\ FlagRight /\ (~crossed => Uncrossed)

LEMMA InitIInv == Init => IInv
<1> SUFFICES ASSUME Init PROVE IInv
  OBVIOUS
<1>1. TypeOK
  BY InitTypeOK
<1>2. DOMAIN toDev = {} /\ target = Value(lastPb) /\ motorOn /\ ~moved /\ ~reported
      /\ workerPc = "idle" /\ mainPc = "drain"
  BY DEF Init
<1>3. NoLoad(toDev) /\ NoLimp(toDev) /\ LimpsFirst(toDev) /\ LoadAfterDrive(toDev)
  BY <1>2 DEF NoLoad, NoLimp, LimpsFirst, LoadAfterDrive
<1>4. HoldsLast
  BY <1>2, <1>3 DEF HoldsLast, LastLoad
<1> QED
  BY <1>1, <1>2, <1>3, <1>4
  DEF IInv, FlagRight, WillBeOn, Uncrossed, Apart, InFrame, Moves, TouchHeld, Holds

\* The steps that leave the queue, the motor and the flag's claim alone.
LEMMA QuietHolds ==
  ASSUME IInv,
         \/ OnEdge \/ OffEdge \/ FaderMoves \/ PressAges \/ ReportTouch \/ MarkMoved \/ Record
         \/ Drain \/ Check \/ ClearPending \/ DropTouch \/ ReadMoved \/ ReadPosition
         \/ CommitValue \/ PushSkips \/ PushTests \/ PushRests \/ BankChanges
  PROVE  LimpsFirst(toDev)' /\ FlagRight' /\ (~crossed => Uncrossed)'
<1> USE DEF IInv, hardware, touch, drag, reaper, Goes
<1>1. UNCHANGED <<motorOn, target, toDev, engaged, lastPb>>
  BY DEF OnEdge, OffEdge, FaderMoves, PositionFrame, PressAges, ReportTouch, MarkMoved, Record,
     Drain, Check, ClearPending, DropTouch, ReadMoved, ReadPosition, CommitValue, PushSkips,
     PushTests, PushRests, BankChanges
<1>2. LimpsFirst(toDev)' /\ WillBeOn' = WillBeOn /\ LoadAfterDrive(toDev)' = LoadAfterDrive(toDev)
      /\ EchoLast(toDev)' = EchoLast(toDev) /\ HoldsLast' = HoldsLast
  BY <1>1 DEF WillBeOn, HoldsLast
<1>3. touchPb' = touchPb => TouchIsTarget' = TouchIsTarget
  BY <1>1 DEF TouchIsTarget
<1> USE DEF FlagRight, Uncrossed, Apart, InFrame, Moves, TouchHeld, MotorLeft, Holds
<1>4. CASE OnEdge \/ OffEdge \/ PressAges
  BY <1>2, <1>3, <1>4 DEF OnEdge, OffEdge, PressAges, TakesInput
<1>5. CASE FaderMoves
  BY <1>2, <1>3, <1>5 DEF FaderMoves, PositionFrame, TakesInput
<1>6. CASE ReportTouch
  BY <1>2, <1>3, <1>6 DEF ReportTouch
<1>7. CASE MarkMoved
  BY <1>2, <1>3, <1>7 DEF MarkMoved
<1>8. CASE Record
  BY <1>2, <1>8 DEF Record
<1>9. CASE Drain \/ Check \/ ClearPending
  BY <1>2, <1>3, <1>9 DEF Drain, Check, ClearPending
<1>10. CASE DropTouch
  BY <1>2, <1>3, <1>10 DEF DropTouch
<1>11. CASE ReadMoved
  BY <1>2, <1>3, <1>11 DEF ReadMoved
<1>12. CASE ReadPosition
  BY <1>2, <1>3, <1>12 DEF ReadPosition
<1>13. CASE CommitValue
  BY <1>2, <1>3, <1>13 DEF CommitValue
<1>14. CASE PushSkips \/ PushTests \/ PushRests
  BY <1>2, <1>3, <1>14 DEF PushSkips, PushTests, PushRests
<1>15. CASE BankChanges
  BY <1>2, <1>3, <1>15 DEF BankChanges
<1> QED
  BY <1>4, <1>5, <1>6, <1>7, <1>8, <1>9, <1>10, <1>11, <1>12, <1>13, <1>14, <1>15

\* The steps that only change the flag or what the motor is asked to hold.
LEMMA FlagHolds ==
  ASSUME IInv, NoteLimp \/ CommitEngaged \/ PushFollows \/ NoteEngaged
  PROVE  LimpsFirst(toDev)' /\ FlagRight' /\ (~crossed => Uncrossed)'
<1> USE DEF IInv, hardware, touch, drag, reaper, Goes
<1>1. UNCHANGED <<motorOn, target, toDev, touchPb>>
  BY DEF NoteLimp, CommitEngaged, PushFollows, NoteEngaged
<1>2. LimpsFirst(toDev)' /\ WillBeOn' = WillBeOn /\ LoadAfterDrive(toDev)' = LoadAfterDrive(toDev)
      /\ EchoLast(toDev)' = EchoLast(toDev) /\ TouchIsTarget' = TouchIsTarget
      /\ (lastPb' = lastPb => HoldsLast' = HoldsLast)
  BY <1>1 DEF WillBeOn, HoldsLast, TouchIsTarget
<1>3. TouchIsTarget /\ lastPb' = touchPb => HoldsLast'
  BY <1>1 DEF TouchIsTarget, HoldsLast
<1> USE DEF FlagRight, Uncrossed, Apart, InFrame, Moves, TouchHeld, MotorLeft, Holds
<1>4. CASE NoteLimp
  <2>1. engaged' = FALSE /\ raced' = (mainPc = "engaged" \/ mainPc = "reengaged")
        /\ workerPc = "flag" /\ workerPc' = "idle"
        /\ UNCHANGED <<reported, moved, lastPb, effPb, mainPc, released, level, crossed>>
    BY <1>4 DEF NoteLimp
  <2>2. FlagRight'
    BY <2>1 DEF FlagRight
  <2>3. (~crossed => Uncrossed)'
    BY <1>1, <1>2, <2>1
  <2> QED BY <1>2, <2>2, <2>3
<1>5. CASE CommitEngaged
  BY <1>2, <1>3, <1>5 DEF CommitEngaged
<1>6. CASE PushFollows
  BY <1>2, <1>6 DEF PushFollows
<1>7. CASE NoteEngaged
  BY <1>2, <1>7 DEF NoteEngaged
<1> QED BY <1>4, <1>5, <1>6, <1>7

\* The worker sends the next frame, and the firmware obeys.
LEMMA SendFrameHolds ==
  ASSUME IInv, SendFrame
  PROVE  LimpsFirst(toDev)' /\ FlagRight' /\ (~crossed => Uncrossed)'
<1> USE DEF IInv, touch, drag, reaper
<1> DEFINE f == Head(toDev)
<1>1. toDev \in Seq(Frames) /\ toDev # <<>> /\ toDev' = Tail(toDev)
      /\ f \in Frames
  BY TailOf DEF SendFrame, TypeOK
<1>2. /\ motorOn' = IF f.cmd \in {"limp", "enable"} THEN f.cmd = "enable" ELSE motorOn
      /\ target' = IF f.cmd = "echo" \/ (f.cmd = "drive" /\ motorOn) THEN f.at ELSE target
      /\ workerPc = "idle"
      /\ UNCHANGED <<touch, drag, engaged, lastPb, workerPc, effPb, mainPc, released, level,
                     crossed, raced>>
  BY DEF SendFrame
<1>3. f.cmd \in {"limp", "enable", "echo", "drive"} /\ (Loads(f) <=> f.cmd \in {"echo", "drive"})
  BY <1>1 DEF Frames, Loads
<1>4. /\ LimpsFirst(toDev) => LimpsFirst(toDev')
      /\ LimpsFirst(toDev) /\ f.cmd # "limp" => NoLimp(toDev')
      /\ NoLimp(toDev) <=> NoLimp(toDev') /\ f.cmd # "limp"
      /\ HasEnable(toDev) <=> HasEnable(toDev') \/ f.cmd = "enable"
      /\ LoadAfterDrive(toDev) => LoadAfterDrive(toDev')
      /\ EchoLast(toDev) => EchoLast(toDev')
  BY <1>1, TailKeeps
<1>5. \A v : LastLoad(toDev, target, v) =>
        IF ~Loads(f) THEN LastLoad(toDev', target, v)
        ELSE (\A u : LastLoad(toDev', u, v)) \/ (NoLoad(toDev') /\ f.at = v)
  BY <1>1, TailKeeps
<1>6. /\ LoadAfterDrive(toDev) /\ f.cmd = "drive" /\ NoLoad(toDev') => ~HasEnable(toDev')
      /\ EchoLast(toDev) /\ f.cmd = "drive" => ~NoLoad(toDev')
  BY <1>1, TailKeeps
<1> HIDE DEF f
<1>7. WillBeOn' => WillBeOn
  BY <1>2, <1>3, <1>4 DEF WillBeOn
<1>8. WillBeOn => WillBeOn'
  BY <1>2, <1>3, <1>4 DEF WillBeOn
<1>9. \A u, v : u = v /\ NoLoad(toDev') => LastLoad(toDev', u, v)
  BY DEF LastLoad
<1>10. ASSUME NEW v, LastLoad(toDev, target, v),
              f.cmd = "drive" => motorOn \/ ~NoLoad(toDev')
       PROVE  LastLoad(toDev', target', v)
  BY <1>2, <1>3, <1>5, <1>9, <1>10
<1>11. LimpsFirst(toDev)' /\ FlagRight'
  BY <1>2, <1>4, <1>8 DEF FlagRight
<1>12. ASSUME ~crossed', NEW v, LastLoad(toDev, target, v), WillBeOn \/ EchoLast(toDev)
       PROVE  LastLoad(toDev', target', v)
  <2>1. f.cmd = "drive" => motorOn \/ ~NoLoad(toDev')
    BY <1>2, <1>3, <1>4, <1>6, <1>12 DEF WillBeOn, Uncrossed
  <2> QED BY <1>10, <1>12, <2>1
<1>13. ASSUME ~crossed' PROVE Uncrossed'
  <2>1. Uncrossed /\ UNCHANGED <<touch, drag, engaged, lastPb, workerPc, effPb, mainPc, released, level>>
    BY <1>2, <1>13
  <2>2. LoadAfterDrive(toDev)' /\ (EchoLast(toDev) => EchoLast(toDev)')
    BY <1>4, <2>1 DEF Uncrossed
  <2>3. Apart'
    BY <2>1 DEF Uncrossed, Apart, InFrame, Moves
  <2>4. HoldsLast /\ WillBeOn => HoldsLast'
    BY <1>12, <1>13, <2>1 DEF HoldsLast
  <2>5. Holds'
    BY <1>7, <2>1, <2>4 DEF Uncrossed, Holds, MotorLeft
  <2>6. TouchIsTarget /\ (WillBeOn \/ EchoLast(toDev)) => TouchIsTarget'
    BY <1>12, <1>13, <2>1 DEF TouchIsTarget
  <2>7. TouchHeld'
    BY <1>2, <2>1, <2>2, <2>6 DEF Uncrossed, TouchHeld
  <2> QED BY <2>2, <2>3, <2>5, <2>7 DEF Uncrossed
<1> QED BY <1>11, <1>13

\* The limp frame of a touch goes to the front: what the motor will hold stays.
LEMMA SendLimpHolds ==
  ASSUME IInv, SendLimp
  PROVE  LimpsFirst(toDev)' /\ FlagRight' /\ (~crossed => Uncrossed)'
<1> USE DEF IInv, touch, drag, reaper
<1>1. /\ toDev' = <<Limp>> \o toDev /\ workerPc = "limp" /\ workerPc' = "flag"
      /\ UNCHANGED <<motorOn, target, reported, moved, touchPb, engaged, lastPb, effPb, mainPc,
                     released, level, crossed, raced>>
  BY DEF SendLimp
<1>2. toDev \in Seq(Frames) /\ Limp \in Frames /\ Limp.cmd = "limp"
  BY FramesAre DEF TypeOK
<1>3. /\ LimpsFirst(toDev) => LimpsFirst(toDev')
      /\ HasEnable(toDev') <=> HasEnable(toDev)
      /\ ~NoLimp(toDev')
      /\ \A t, v : LastLoad(toDev, t, v) => LastLoad(toDev', t, v)
      /\ LoadAfterDrive(toDev) => LoadAfterDrive(toDev')
      /\ EchoLast(toDev) => EchoLast(toDev')
  BY <1>1, <1>2, PrependKeeps
<1>4. FlagRight'
  BY <1>1 DEF FlagRight
<1>5. WillBeOn' => WillBeOn
  BY <1>1, <1>3 DEF WillBeOn
<1>6. (TouchIsTarget => TouchIsTarget') /\ (HoldsLast => HoldsLast')
  BY <1>1, <1>3 DEF TouchIsTarget, HoldsLast
<1>7. ASSUME ~crossed' PROVE Uncrossed'
  <2>1. Uncrossed
    BY <1>1, <1>7
  <2>2. Apart' /\ Holds'
    BY <1>1, <1>5, <1>6, <2>1 DEF Uncrossed, Apart, InFrame, Moves, Holds, MotorLeft
  <2>3. TouchHeld'
    BY <1>1, <1>3, <1>6, <2>1 DEF Uncrossed, TouchHeld
  <2> QED BY <1>3, <2>1, <2>2, <2>3 DEF Uncrossed
<1> QED BY <1>3, <1>4, <1>7

\* The echo of a touch is the last position asked for.
LEMMA SendEchoHolds ==
  ASSUME IInv, SendEcho
  PROVE  LimpsFirst(toDev)' /\ FlagRight' /\ (~crossed => Uncrossed)'
<1> USE DEF IInv, touch, drag, reaper
<1> DEFINE f == Echo(Readback(effPb))
<1>1. /\ toDev' = Append(toDev, f) /\ workerPc = "echo" /\ workerPc' = "idle"
      /\ UNCHANGED <<motorOn, target, reported, moved, touchPb, engaged, lastPb, mainPc,
                     released, level, crossed, raced>>
  BY DEF SendEcho
<1>2. toDev \in Seq(Frames) /\ f \in Frames /\ f.cmd = "echo" /\ f.at = Readback(effPb)
      /\ Loads(f)
  BY FramesAre DEF TypeOK, Loads
<1> HIDE DEF f
<1>3. /\ LimpsFirst(toDev) => LimpsFirst(toDev')
      /\ HasEnable(toDev') <=> HasEnable(toDev)
      /\ NoLimp(toDev') <=> NoLimp(toDev)
      /\ LastLoad(toDev', target, Readback(effPb))
      /\ LoadAfterDrive(toDev')
      /\ EchoLast(toDev')
  BY <1>1, <1>2, AppendKeeps
<1>4. WillBeOn' <=> WillBeOn
  BY <1>1, <1>3 DEF WillBeOn
<1>5. FlagRight'
  BY <1>1, <1>4 DEF FlagRight
<1>6. ASSUME ~crossed' PROVE Uncrossed'
  <2>1. Apart /\ TouchHeld /\ moved /\ reported /\ touchPb = effPb
        /\ mainPc \notin {"moved", "eff", "unmark", "enable", "engaged", "back", "park",
                          "follow", "load", "wake", "reengaged", "drive"}
    BY <1>1, <1>6 DEF Uncrossed, Apart, InFrame, Moves
  <2>2. TouchIsTarget'
    BY <1>1, <1>3, <2>1 DEF TouchIsTarget
  <2>3. Apart' /\ Holds'
    BY <1>1, <2>1 DEF Apart, InFrame, Moves, Holds
  <2>4. TouchHeld'
    BY <1>1, <1>3, <2>1, <2>2 DEF TouchHeld
  <2> QED BY <1>3, <2>3, <2>4 DEF Uncrossed
<1> QED BY <1>3, <1>5, <1>6

\* The motor is turned on, after a release or for a value.
LEMMA EnableHolds ==
  ASSUME IInv, CommitEnable \/ PushWakes
  PROVE  LimpsFirst(toDev)' /\ FlagRight' /\ (~crossed => Uncrossed)'
<1> USE DEF IInv, touch, drag, reaper
<1>1. /\ toDev' = Append(toDev, Enable)
      /\ \/ mainPc = "enable" /\ mainPc' = "engaged"
         \/ mainPc = "wake" /\ mainPc' = "reengaged"
      /\ UNCHANGED <<motorOn, target, reported, moved, touchPb, engaged, lastPb, workerPc,
                     effPb, released, level, crossed, raced>>
  BY DEF CommitEnable, PushWakes, Goes
<1>2. toDev \in Seq(Frames) /\ Enable \in Frames /\ Enable.cmd = "enable" /\ ~Loads(Enable)
  BY FramesAre DEF TypeOK, Loads
<1>3. /\ LimpsFirst(toDev) => LimpsFirst(toDev')
      /\ HasEnable(toDev')
      /\ \A t, v : LastLoad(toDev, t, v) => LastLoad(toDev', t, v)
      /\ LoadAfterDrive(toDev) /\ EchoLast(toDev) => LoadAfterDrive(toDev')
      /\ EchoLast(toDev) => EchoLast(toDev')
  BY <1>1, <1>2, AppendKeeps
<1>4. FlagRight'
  BY <1>3 DEF FlagRight, WillBeOn
<1>5. ASSUME ~crossed' PROVE Uncrossed'
  <2>1. LoadAfterDrive(toDev) /\ Apart /\ TouchHeld /\ EchoLast(toDev)
    BY <1>1, <1>5 DEF Uncrossed, TouchHeld
  <2>2. Apart' /\ Holds'
    BY <1>1, <2>1 DEF Apart, InFrame, Moves, Holds, MotorLeft
  <2>3. TouchIsTarget => TouchIsTarget'
    BY <1>1, <1>3 DEF TouchIsTarget
  <2>4. TouchHeld'
    BY <1>1, <1>3, <2>1, <2>3 DEF TouchHeld
  <2> QED BY <1>3, <2>1, <2>2, <2>4 DEF Uncrossed
<1> QED BY <1>3, <1>4, <1>5

\* The motor is given a position to go to.
LEMMA AskHolds ==
  ASSUME IInv, CommitBack \/ PushEmpty \/ PushLoads \/ PushDrive
  PROVE  LimpsFirst(toDev)' /\ FlagRight' /\ (~crossed => Uncrossed)'
<1> USE DEF IInv, touch, drag, reaper
<1>1. UNCHANGED <<motorOn, target, reported, moved, touchPb, engaged, workerPc, effPb,
                  released, level, raced>>
  BY DEF CommitBack, PushEmpty, PushLoads, PushDrive
<1>2. mainPc \in {"back", "park", "load", "drive"} /\ mainPc' \in {"push", "drain", "wake"}
      /\ (mainPc' = "wake" <=> mainPc = "load")
  BY DEF CommitBack, PushEmpty, PushLoads, PushDrive, Goes
<1>3. \/ mainPc # "load" /\ toDev' = Append(toDev, Drive(lastPb'))
      \/ mainPc = "load" /\ toDev' = Append(toDev, Echo(Value(lastPb')))
  BY DEF CommitBack, PushEmpty, PushLoads, PushDrive, Goes
<1>4. ~crossed' => ~crossed \/ (workerPc = "idle" /\ ~reported /\ ~moved)
  BY DEF CommitBack, PushEmpty, PushLoads, PushDrive
<1>5. lastPb' \in Pb /\ toDev \in Seq(Frames)
  BY FramesAre DEF CommitBack, PushEmpty, PushLoads, PushDrive, TypeOK
<1>6. PICK f \in Frames : /\ toDev' = Append(toDev, f) /\ f.cmd \in {"echo", "drive"}
                          /\ f.at = Value(lastPb') /\ (mainPc = "load" => f.cmd = "echo")
  BY <1>3, <1>5, FramesAre
<1>7. /\ LimpsFirst(toDev) => LimpsFirst(toDev')
      /\ HasEnable(toDev') <=> HasEnable(toDev)
      /\ NoLimp(toDev') <=> NoLimp(toDev)
      /\ LastLoad(toDev', target, Value(lastPb'))
      /\ LoadAfterDrive(toDev')
      /\ f.cmd = "echo" => EchoLast(toDev')
  BY <1>5, <1>6, AppendKeeps DEF Loads
<1>8. FlagRight'
  BY <1>1, <1>2, <1>7 DEF FlagRight, WillBeOn
<1>9. ASSUME ~crossed' PROVE Uncrossed'
  <2>1. ~moved /\ ~reported /\ ~InFrame
    <3>1. CASE ~crossed
      BY <1>2, <3>1 DEF Uncrossed, Apart, Moves, TouchHeld
    <3> QED BY <1>4, <1>9, <3>1 DEF InFrame
  <2>2. Apart'
    BY <1>1, <2>1 DEF Apart, InFrame
  <2>3. HoldsLast'
    BY <1>1, <1>7 DEF HoldsLast
  <2>4. TouchHeld'
    BY <1>1, <1>2, <1>6, <1>7, <2>1 DEF TouchHeld
  <2> QED BY <1>7, <2>2, <2>3, <2>4 DEF Uncrossed, Holds
<1> QED BY <1>7, <1>8, <1>9

LEMMA NextIInv == IInv /\ [Next]_vars => IInv'
<1> SUFFICES ASSUME IInv, [Next]_vars PROVE IInv'
  OBVIOUS
<1>1. TypeOK'
  BY NextTypeOK DEF IInv
<1>2. LimpsFirst(toDev)' /\ FlagRight' /\ (~crossed => Uncrossed)'
  <2>1. CASE UNCHANGED vars
    BY <2>1 DEF vars, hardware, touch, drag, reaper, IInv, FlagRight, WillBeOn, Uncrossed, Apart,
       InFrame, Moves, TouchHeld, TouchIsTarget, Holds, MotorLeft, HoldsLast
  <2> QED
    BY <2>1, QuietHolds, FlagHolds, SendFrameHolds, SendLimpHolds, SendEchoHolds, EnableHolds,
       AskHolds
    DEF Next, Worker, Main
<1> QED BY <1>1, <1>2 DEF IInv

\* With an empty queue what the motor will be and hold is what it is and holds.
LEMMA AtRest == IInv => MotorHoldsLastPb /\ LimpIsKnown
<1> SUFFICES ASSUME IInv, Settled PROVE MotorHoldsLastPb /\ LimpIsKnown
  BY DEF MotorHoldsLastPb, LimpIsKnown
<1>1. DOMAIN toDev = {} /\ workerPc = "idle" /\ mainPc = "drain"
  BY DEF Settled
<1>2. WillBeOn <=> motorOn
  BY <1>1 DEF WillBeOn, HasEnable, NoLimp
<1>3. HoldsLast => target \in {Value(lastPb), Readback(lastPb)}
  BY <1>1 DEF HoldsLast, LastLoad
<1> QED
  BY <1>1, <1>2, <1>3
  DEF IInv, FlagRight, Uncrossed, Holds, MotorLeft, MotorHoldsLastPb, LimpIsKnown

LEMMA SpecIInv == Spec => []IInv
  BY InitIInv, NextIInv, PTL DEF Spec

\* At rest a motor that is on holds what the program last asked it to hold,
\* whatever touches, drags, releases, snap-backs and volumes came before, in any
\* interleaving of the threads in which no touch began or ended while the main
\* thread was moving the motor.
THEOREM HoldsWhatWasAsked == Spec => []MotorHoldsLastPb
  BY SpecIInv, AtRest, PTL

\* At rest a limp motor is known to be limp, in any interleaving of the threads
\* in which no limp was noted between an enable and its note.
THEOREM LimpMotorIsKnown == Spec => []LimpIsKnown
  BY SpecIInv, AtRest, PTL

=============================================================================
