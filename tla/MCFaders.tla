------------------------------ MODULE MCFaders ------------------------------
(* What a fader writes, one question at a time: part, chosen at the start of a *)
(* behaviour, says whether the values of a drag move or the modes change that  *)
(* choose its target.                                                         *)
EXTENDS FaderValue

CONSTANT Threads

VARIABLES
  part, pluginMode, stripMode, pc, route, flipped, forcePan, focus, sticky, userMap, csFader

Target == INSTANCE FaderTarget WITH flip <- flipped

ASSUME FadersAssumption == FaderValueAssumption

modes ==
  <<pluginMode, stripMode, pc, route, flipped, forcePan, focus, sticky, userMap, csFader>>

\* The part that stands still is all at one place.
ValueStill ==
  /\ Init /\ setup = CHOOSE s \in Setups : TRUE
  /\ bank = NoTrack /\ \A t \in Targets : value[t] = 0

FadersInit ==
  \/ part = "value" /\ Init /\ Target!Init /\ ~pluginMode
  \/ part = "target" /\ Target!Init /\ ValueStill

FadersNext ==
  /\ UNCHANGED part
  /\ \/ part = "value" /\ Next /\ UNCHANGED modes
     \/ part = "target" /\ Target!Next /\ UNCHANGED vars

FadersSpec == FadersInit /\ [][FadersNext]_<<vars, modes, part>>

-----------------------------------------------------------------------------
\* The types of both parts.
TypesOK == TypeOK /\ Target!TypeOK

\* Once its threads are done at most one of the fader modes is on.
OneMode == Target!OneMode

\* A release writes what the drag wrote ...
ReleaseWritesLive == Target!ReleaseWritesLive

\* ... the snapshot reads what the release writes ...
SnapshotReadsWritten == Target!SnapshotReadsWritten

\* ... and the motor follows it, unless the pan of the channel strip is in focus.
MotorFollowsFaderOffPan == Target!MotorFollowsFaderOffPan

=============================================================================
