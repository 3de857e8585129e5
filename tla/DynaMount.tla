----------------------------- MODULE DynaMount -----------------------------
(***************************************************************************)
(* One robotic microphone mount (extension/src/DynaMountManager.cpp).       *)
(*                                                                          *)
(* The surfaces and the settings set targets, which only mark the mount as  *)
(* dirty; one worker thread makes the HTTP requests.  A move is an atomic   *)
(* store of the target and one of the flag, the worker reads the target,    *)
(* sends it and clears the flag when the answer is in.                      *)
(*                                                                          *)
(* The mounts share the worker and nothing else, so one stands for all: the *)
(* requests of the others only make a pass longer.  The mount is external:  *)
(* it moves where a request tells it to, and it, or the way to it, may fail. *)
(***************************************************************************)
EXTENDS Integers

CONSTANTS
  Distances, Rotations, Sides,   \* the positions of each axis
  Breaks,     \* can the mount be out of reach, or its answer be lost?
  Edits       \* can the settings switch the mount off or give another address?

ASSUME DynaMountAssumption ==
  /\ Distances # {} /\ Rotations # {} /\ Sides # {}
  /\ Distances \cup Rotations \cup Sides \subseteq Nat
  /\ Breaks \in BOOLEAN /\ Edits \in BOOLEAN

Axes == [h : Distances, r : Rotations, v : Sides]
Poses == [h : Sides, r : Rotations, v : Distances]     \* of the mount, see Device
None == [h |-> -1, r |-> -1, v |-> -1]      \* sentH, sentR, sentV before a send

VARIABLES
  enabled,    \* Mount::enabled
  target,     \* tgtH (distance), tgtR (rotation), tgtV (left-right)
  dirty,      \* Mount::dirty
  turned,     \* rotPendingMs: "no", "fresh" or, a second after it, "due"
  proto,      \* Mount::proto
  online,     \* Mount::online
  detect,     \* the bit of this mount in detectReq_
  sent,       \* sentH, sentR, sentV
  spaced,     \* now - lastSend >= kMinSpacing
  workerPc,   \* the part of the pass that comes next
  flying,     \* h, r and v as the worker read them
  readdressed,\* the address the worker copied is no longer that of the mount
  ok,         \* Result::success
  \* external
  reachable,  \* the mount answers
  pose,       \* where it stands, in its own axes
  \* history, for the properties
  missed,     \* the target changed between its read and the clearing of the flag
  unsure      \* a request failed, or the mount was edited, since the last answer

mount == <<enabled, proto, online, detect>>
ask == <<target, dirty, turned>>
worker == <<sent, spaced, workerPc, flying, readdressed, ok>>
external == <<reachable, pose>>
history == <<missed, unsure>>
vars == <<mount, ask, worker, external, history>>

TypeOK ==
  /\ {enabled, dirty, online, detect, spaced, readdressed, ok,
        reachable, missed, unsure} \subseteq BOOLEAN
  /\ target \in Axes /\ pose \in Poses
  /\ sent \in Axes \cup {None} /\ flying \in Axes \cup {None}
  /\ turned \in {"no", "fresh", "due"}
  /\ proto \in {"unknown", "gen1", "other"}
  /\ workerPc \in {"detect", "promote", "decide", "forget", "send", "finish"}

\* The query names the axes the other way round.
Device(t) == [h |-> t.v, r |-> t.r, v |-> t.h]

\* After a start: the position is restored, the mount still holds it.
Init ==
  /\ enabled = TRUE /\ proto = "unknown" /\ online = FALSE /\ detect = FALSE
  /\ target \in Axes /\ pose = Device(target)
  /\ dirty = FALSE /\ turned = "no"
  /\ sent = None /\ spaced = TRUE /\ workerPc = "detect" /\ flying = None
  /\ readdressed = FALSE /\ ok = FALSE /\ reachable = TRUE
  /\ missed = FALSE /\ unsure = FALSE

\* The worker has read the target and will clear the flag.
WillClear == workerPc \in {"forget", "send", "finish"}

-----------------------------------------------------------------------------
(* The surface and the settings.                                            *)

Retarget(t) ==
  /\ target' = t
  /\ missed' = (missed \/ WillClear)
  /\ UNCHANGED unsure

\* setHorizontal, setDistance, setTargets(markDirty): the target, then the flag.
Move(t) ==
  /\ Retarget(t)
  /\ dirty' = TRUE
  /\ UNCHANGED <<mount, turned, worker, external>>

\* nudgeRotation only notes the time; the worker waits for a second of rest.
NudgeRotation ==
  /\ \E r \in Rotations \ {target.r} : Retarget([target EXCEPT !.r = r])
  /\ turned' = "fresh"
  /\ UNCHANGED <<mount, dirty, worker, external>>

SecondPasses ==
  /\ turned = "fresh" /\ turned' = "due"
  /\ UNCHANGED <<mount, target, dirty, worker, external, history>>

RequestDetect ==
  /\ ~detect /\ detect' = TRUE
  /\ UNCHANGED <<enabled, proto, online, ask, worker, external, history>>

\* setMount: switched on or off, or the address of another mount, which stands
\* wherever it stands.  What was sent to the old one is not forgotten.
SetMount ==
  /\ Edits
  /\ \/ enabled' = ~enabled /\ UNCHANGED <<proto, online, pose, readdressed, unsure>>
     \/ /\ proto' = "unknown" /\ online' = FALSE /\ UNCHANGED enabled
        /\ pose' \in Poses /\ readdressed' = TRUE /\ unsure' = TRUE
  /\ UNCHANGED <<detect, ask, sent, spaced, workerPc, flying, ok, reachable, missed>>

-----------------------------------------------------------------------------
(* The worker: one pass of workerLoop over this mount.                      *)

Step(from, to) == workerPc = from /\ workerPc' = to

\* detectPassive tries the port of the mount.
Probed == IF reachable THEN "gen1" ELSE "other"

\* The address is copied.  The request to detect is taken, enabled or not.
Detect ==
  /\ Step("detect", IF enabled THEN "promote" ELSE "detect")
  /\ detect' = FALSE /\ readdressed' = FALSE
  /\ IF enabled /\ detect
       THEN proto' = Probed /\ online' = reachable
       ELSE UNCHANGED <<proto, online>>
  /\ UNCHANGED <<enabled, ask, sent, spaced, flying, ok, external, history>>

\* Faulty: the rotation is taken but the mount is not marked.
PromoteUnmarked ==
  /\ Step("promote", "decide")
  /\ turned' = IF turned = "due" THEN "no" ELSE turned
  /\ UNCHANGED <<mount, target, dirty, sent, spaced, flying, readdressed, ok, external, history>>

\* A rotation that rested for a second becomes a move.
Promote ==
  /\ Step("promote", "decide")
  /\ turned' = IF turned = "due" THEN "no" ELSE turned
  /\ dirty' = (dirty \/ turned = "due")
  /\ UNCHANGED <<mount, target, sent, spaced, flying, readdressed, ok, external, history>>

\* Nothing to send, or too soon after the last request.
SkipMount ==
  /\ Step("decide", "detect")
  /\ ~dirty \/ ~spaced
  /\ UNCHANGED <<mount, ask, sent, spaced, flying, readdressed, ok, external, history>>

\* The target is the one last sent: the flag is cleared, a moment later.
AlreadySent ==
  /\ Step("decide", "forget")
  /\ dirty /\ spaced /\ target = sent
  /\ UNCHANGED <<mount, ask, sent, spaced, flying, readdressed, ok, external, history>>

Forget ==
  /\ Step("forget", "detect")
  /\ dirty' = FALSE
  /\ UNCHANGED <<mount, target, turned, sent, spaced, flying, readdressed, ok, external, history>>

\* The target is read, and a mount of unknown kind is probed first.
BeginSend ==
  /\ Step("decide", "send")
  /\ dirty /\ spaced /\ target # sent
  /\ flying' = target
  /\ IF proto # "unknown" THEN UNCHANGED proto
     ELSE proto' \in IF readdressed THEN {"gen1", "other"} ELSE {Probed}
  /\ UNCHANGED <<enabled, online, detect, ask, sent, spaced, readdressed, ok,
                 external, history>>

\* gen1Move.  A request that is not answered may still have been obeyed.
Request ==
  /\ Step("send", "finish")
  /\ \/ /\ proto = "gen1" /\ reachable /\ ~readdressed
        /\ pose' = Device(flying)
        /\ ok' \in {TRUE, ~Breaks}
     \/ /\ proto = "gen1" /\ readdressed     \* to the mount at the old address
        /\ ok' \in BOOLEAN /\ UNCHANGED pose
     \/ /\ proto # "gen1" \/ ~(reachable \/ readdressed)
        /\ ok' = FALSE /\ UNCHANGED pose
  /\ UNCHANGED <<mount, ask, sent, spaced, flying, readdressed, reachable, history>>

\* Faulty: the target itself is noted as sent.
FinishWithTarget ==
  /\ Step("finish", "detect")
  /\ online' = ok
  /\ sent' = IF ok THEN target ELSE sent
  /\ dirty' = FALSE /\ spaced' = FALSE
  /\ missed' = (missed /\ target # flying)
  /\ unsure' = ((unsure /\ readdressed) \/ ~ok)
  /\ flying' = None /\ ok' = FALSE
  /\ UNCHANGED <<enabled, proto, detect, target, turned, readdressed, external>>

\* The answer: the flag is cleared, whatever happened to the target meanwhile.
Finish ==
  /\ Step("finish", "detect")
  /\ online' = ok
  /\ sent' = IF ok THEN flying ELSE sent
  /\ dirty' = FALSE /\ spaced' = FALSE
  /\ missed' = (missed /\ target # flying)
  /\ unsure' = ((unsure /\ readdressed) \/ ~ok)
  /\ flying' = None /\ ok' = FALSE
  /\ UNCHANGED <<enabled, proto, detect, target, turned, readdressed, external>>

SpacingPasses ==
  /\ ~spaced /\ spaced' = TRUE
  /\ UNCHANGED <<mount, ask, sent, workerPc, flying, readdressed, ok, external, history>>

\* The mount goes out of reach, or comes back.
Breaking ==
  /\ Breaks /\ reachable' = ~reachable
  /\ UNCHANGED <<mount, ask, worker, pose, history>>

-----------------------------------------------------------------------------
Worker ==
  Detect \/ Promote \/ SkipMount \/ AlreadySent \/ Forget \/ BeginSend \/ Request \/ Finish

Next ==
  \/ \E t \in Axes : t.r = target.r /\ Move(t)
  \/ NudgeRotation \/ RequestDetect \/ SetMount
  \/ Worker \/ SecondPasses \/ SpacingPasses \/ Breaking

\* The worker loops and time passes.
Fairness == WF_vars(Worker) /\ WF_vars(SecondPasses) /\ WF_vars(SpacingPasses)

Spec == Init /\ [][Next]_vars /\ Fairness

-----------------------------------------------------------------------------
(* What the mounts promise.                                                 *)

\* A target the mount does not stand at is marked for the worker, rests as a
\* turn that is not over, or is in flight: unless it was changed while the
\* worker was about to clear the flag, or a request was not answered.
UnsentIsMarked ==
  pose # Device(target) => dirty \/ WillClear \/ turned # "no" \/ missed \/ unsure

\* The worker skips a target that equals the last one sent, which is right only
\* while the mount stands there.
SentIsWhereItStands ==
  workerPc # "finish" /\ ~unsure => sent = None \/ pose = Device(sent)

\* A target that stays, and that did not change under a request, is reached.
CalmMovesArrive ==
  <>[](enabled /\ ~missed /\ ~unsure) /\ <>[][UNCHANGED target]_target
    => <>[](pose = Device(target))

\* "a continuous fader drag coalesces into one in-flight request per mount
\* carrying the most recent position": the last position of a drag is reached.
LatestArrives ==
  <>[]enabled /\ <>[][UNCHANGED target]_target => <>[](pose = Device(target))

=============================================================================
