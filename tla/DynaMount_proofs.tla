-------------------------- MODULE DynaMount_proofs --------------------------
(***************************************************************************)
(* Proofs about a microphone mount, for any positions of its axes, any       *)
(* failures and any edits of its settings.                                   *)
(***************************************************************************)
EXTENDS DynaMount, TLAPS

\* Another address since the copy means that nothing is known of the mount.
ReaddressedIsUnsure == readdressed => unsure

\* A good answer from the mount itself means that it stands where it was sent.
AnsweredIsThere ==
  workerPc = "finish" /\ ok /\ ~readdressed => pose = Device(flying)

\* What the worker is about to forget was dealt with, or changed meanwhile.
ReadIsTarget ==
  /\ workerPc = "forget" => target = sent \/ missed
  /\ workerPc \in {"send", "finish"} => target = flying \/ missed

\* The worker sends a position it has read.
FlyingWasRead == workerPc = "send" => flying \in Axes

Typed == TypeOK /\ FlyingWasRead

IInv ==
  /\ Typed
  /\ ReaddressedIsUnsure
  /\ AnsweredIsThere
  /\ ReadIsTarget
  /\ SentIsWhereItStands
  /\ UnsentIsMarked

LEMMA DevicePoses == \A t \in Axes : Device(t) \in Poses
  BY DEF Axes, Poses, Device

LEMMA NoneIsNoTarget == None \notin Axes
  BY DynaMountAssumption DEF None, Axes

LEMMA InitIInv == Init => IInv
<1> SUFFICES ASSUME Init PROVE IInv
  OBVIOUS
<1>1. Typed
  BY DevicePoses DEF Init, Typed, TypeOK, FlyingWasRead
<1> QED
  BY <1>1 DEF Init, IInv, ReaddressedIsUnsure, AnsweredIsThere, ReadIsTarget,
              SentIsWhereItStands, UnsentIsMarked

-----------------------------------------------------------------------------
(* Types.                                                                   *)

LEMMA NextTyped == Typed /\ [Next]_vars => Typed'
<1> SUFFICES ASSUME Typed, [Next]_vars PROVE Typed'
  OBVIOUS
<1> USE DEF Typed, TypeOK, FlyingWasRead, mount, ask, worker, external, history, Retarget, Step
<1>1. ASSUME NEW t \in Axes, Move(t) PROVE Typed'
  BY <1>1 DEF Move, WillClear
<1>2. CASE NudgeRotation
  <2>1. PICK r \in Rotations : target' = [target EXCEPT !.r = r]
    BY <1>2 DEF NudgeRotation
  <2>2. target' \in Axes
    BY <2>1 DEF Axes
  <2> QED
    BY <1>2, <2>2 DEF NudgeRotation, WillClear
<1>3. CASE RequestDetect \/ SecondPasses \/ SpacingPasses \/ Breaking
  BY <1>3 DEF RequestDetect, SecondPasses, SpacingPasses, Breaking
<1>4. CASE SetMount
  <2>1. /\ enabled' \in BOOLEAN /\ online' \in BOOLEAN
        /\ readdressed' \in BOOLEAN /\ unsure' \in BOOLEAN
    BY <1>4 DEF SetMount
  <2>2. pose' \in Poses
    BY <1>4 DEF SetMount
  <2>3. proto' \in {"unknown", "gen1", "other"}
    BY <1>4 DEF SetMount
  <2>4. UNCHANGED <<detect, ask, sent, spaced, workerPc, flying, ok, reachable, missed>>
    BY <1>4 DEF SetMount
  <2> QED
    BY <2>1, <2>2, <2>3, <2>4
<1>5. CASE Detect \/ Promote \/ SkipMount \/ AlreadySent \/ Forget
  BY <1>5 DEF Detect, Promote, SkipMount, AlreadySent, Forget, Probed
<1>6. CASE BeginSend
  BY <1>6 DEF BeginSend, Probed
<1>7. CASE Request
  <2>1. pose' = Device(flying) \/ pose' = pose
    BY <1>7 DEF Request
  <2>2. pose' \in Poses
    BY <1>7, <2>1, DevicePoses DEF Request
  <2>3. ok' \in BOOLEAN
    BY <1>7, DynaMountAssumption DEF Request
  <2> QED
    BY <1>7, <2>2, <2>3 DEF Request
<1>8. CASE Finish
  BY <1>8 DEF Finish
<1>9. CASE UNCHANGED vars
  BY <1>9 DEF vars
<1> QED
  BY <1>1, <1>2, <1>3, <1>4, <1>5, <1>6, <1>7, <1>8, <1>9 DEF Next, Worker

\* The types of a mount are kept.
THEOREM TypeCorrect == Spec => []TypeOK
<1>1. Init => Typed
  BY InitIInv DEF IInv
<1>2. Typed => TypeOK
  BY DEF Typed
<1> QED
  BY <1>1, <1>2, NextTyped, PTL DEF Spec

-----------------------------------------------------------------------------
(* The rest of the invariant, step by step.                                 *)

LEMMA NextIInv == IInv /\ [Next]_vars => IInv'
<1> SUFFICES ASSUME IInv, [Next]_vars PROVE IInv'
  OBVIOUS
<1>0. Typed /\ Typed'
  BY NextTyped DEF IInv
<1> DEFINE Rest == /\ ReaddressedIsUnsure /\ AnsweredIsThere /\ ReadIsTarget
                   /\ SentIsWhereItStands /\ UnsentIsMarked
<1> SUFFICES Rest'
  BY <1>0 DEF IInv
<1> USE DEF IInv, ReaddressedIsUnsure, AnsweredIsThere, ReadIsTarget, SentIsWhereItStands,
            UnsentIsMarked, WillClear, mount, ask, worker, external, history, Step
\* A change of the target is noted as missed while the worker is about to clear.
<1>1. ASSUME NEW t \in Axes, Move(t) PROVE Rest'
  BY <1>1 DEF Move, Retarget
<1>2. CASE NudgeRotation
  <2>1. /\ turned' = "fresh" /\ missed' = (missed \/ WillClear)
        /\ UNCHANGED <<unsure, mount, dirty, worker, external>>
    BY <1>2 DEF NudgeRotation, Retarget
  <2> QED
    BY <2>1 DEF Device
<1>3. CASE RequestDetect \/ SpacingPasses \/ Breaking
  BY <1>3 DEF RequestDetect, SpacingPasses, Breaking
<1>4. CASE SecondPasses
  BY <1>4 DEF SecondPasses
<1>5. CASE SetMount
  BY <1>5 DEF SetMount
<1>6. CASE Detect
  BY <1>6 DEF Detect
<1>7. CASE Promote
  BY <1>0, <1>7 DEF Promote, Typed, TypeOK
<1>8. CASE SkipMount
  BY <1>8 DEF SkipMount
<1>9. CASE AlreadySent
  BY <1>9 DEF AlreadySent
\* The flag goes; the mount stands at the target, which is what was last sent.
<1>10. CASE Forget
  BY <1>0, <1>10, NoneIsNoTarget DEF Forget, Typed, TypeOK
<1>11. CASE BeginSend
  BY <1>11 DEF BeginSend
<1>12. CASE Request
  BY <1>12 DEF Request
\* A good answer is from the mount itself, or the mount was edited meanwhile.
<1>13. CASE Finish
  <2>1. /\ workerPc = "finish" /\ workerPc' = "detect"
        /\ UNCHANGED <<readdressed, target, pose, turned>>
        /\ sent' = IF ok THEN flying ELSE sent
        /\ missed' = (missed /\ target # flying)
        /\ unsure' = ((unsure /\ readdressed) \/ ~ok)
    BY <1>13 DEF Finish
  <2>2. ~unsure' => ok /\ ~readdressed /\ pose = Device(flying)
    BY <2>1
  <2>3. ReaddressedIsUnsure' /\ AnsweredIsThere' /\ ReadIsTarget'
    BY <2>1
  <2>4. SentIsWhereItStands'
    <3>1. ~unsure' => pose' = Device(sent)'
      BY <2>1, <2>2 DEF Device
    <3> QED
      BY <3>1
  <2>5. UnsentIsMarked'
    <3>1. target = flying \/ missed
      BY <2>1
    <3>2. ~unsure' /\ ~missed' => pose' = Device(target)'
      BY <2>1, <2>2, <3>1 DEF Device
    <3> QED
      BY <3>2
  <2> QED
    BY <2>3, <2>4, <2>5
<1>14. CASE UNCHANGED vars
  BY <1>14 DEF vars
<1> QED
  BY <1>1, <1>2, <1>3, <1>4, <1>5, <1>6, <1>7, <1>8, <1>9, <1>10, <1>11, <1>12,
     <1>13, <1>14 DEF Next, Worker

\* What the worker believes it sent is where the mount stands, unless a request
\* failed or the mount was edited since.
THEOREM AcknowledgedIsThere == Spec => []SentIsWhereItStands
<1>1. IInv => SentIsWhereItStands
  BY DEF IInv
<1> QED
  BY <1>1, InitIInv, NextIInv, PTL DEF Spec

\* A target that was not reached is still marked, in flight or to be promoted,
\* but for the targets set while the worker was about to clear the mark.
THEOREM NoTargetForgotten == Spec => []UnsentIsMarked
<1>1. IInv => UnsentIsMarked
  BY DEF IInv
<1> QED
  BY <1>1, InitIInv, NextIInv, PTL DEF Spec

=============================================================================
