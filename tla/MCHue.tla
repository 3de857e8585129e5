-------------------------------- MODULE MCHue --------------------------------
(* The parts of the Hue manager, one at a time: part, chosen at the start of a *)
(* behaviour, says which of them moves.  "light" and "rough" are the recording  *)
(* light, "slot" is a strip that stands for a lamp.                            *)
EXTENDS MCHueRecLight

CONSTANTS Levels, Hues, Points, ToXy, FromXy, Clamp, MaxEdit, MaxStir

VARIABLES
  part,
  slot, dirty, marking, slotWorker, sentBri, sentXy, seen, online, slotLamp, edits, stirs,
  asked, moved, spoilt

\* The recording light with one of the lamps ticked: takes in haste, a bridge
\* that goes away, settings changed at any moment.
Rough == INSTANCE HueRecLight WITH
  Marked <- OneLamp, Room <- OneLamp, InScene <- OneLamp,
  OwnValues <- Lit, Configs <- OneTarget,
  Rushes <- TRUE, Breaks <- TRUE, Edits <- TRUE

Slot == INSTANCE HueSlot WITH worker <- slotWorker, lights <- seen, lamp <- slotLamp

ASSUME SlotAssumption == Slot!HueSlotAssumption

\* One of the lamps that are ticked in the other part.
ASSUME RoughAssumption == OneLamp \subseteq Marked

slotvars ==
  <<slot, dirty, marking, slotWorker, sentBri, sentXy, seen, online, slotLamp, edits,
    stirs, asked, moved, spoilt>>
huevars == <<vars, slotvars, part>>

\* The parts that stand still are all at one place.
SlotStill ==
  Slot!Init /\ slotLamp = CHOOSE l \in Slot!Shown : l.on
LightStill ==
  Rough!Init /\ cfg = Setting("slots", FALSE, "previous") /\ \A l \in Lamps : lamp[l].on

HueInit ==
  \/ part = "light" /\ Init /\ SlotStill
  \/ part = "rough" /\ Rough!Init /\ SlotStill
  \/ part = "slot" /\ Slot!Init /\ LightStill

HueNext ==
  /\ UNCHANGED part
  /\ \/ part = "light" /\ Next /\ UNCHANGED slotvars
     \/ part = "rough" /\ Rough!Next /\ UNCHANGED slotvars
     \/ part = "slot" /\ Slot!Next /\ UNCHANGED vars

HueSpec ==
  /\ HueInit /\ [][HueNext]_huevars
  /\ WF_huevars(part = "light" /\ Worker /\ UNCHANGED <<part, slotvars>>)

-----------------------------------------------------------------------------
\* A lamp that can show two of three points, and of the third the second; of two
\* hues for one point one is what the way back leads to.
FourHues == {"amber", "orange", "blue", "violet"}
TwoLevels == {1, 2}
ThreePoints == {1, 2, 3}
PointOf == [h \in FourHues |-> CASE h \in {"amber", "orange"} -> 1
                                 [] h = "blue" -> 2
                                 [] h = "violet" -> 3]
HueOf == [p \in ThreePoints |-> IF p = 1 THEN "orange" ELSE IF p = 2 THEN "blue" ELSE "violet"]
Gamut == [p \in ThreePoints |-> IF p = 3 THEN 2 ELSE p]

-----------------------------------------------------------------------------
\* The types of all parts.
TypesOK == TypeOK /\ Slot!TypeOK

\* After a take every lamp is seen as before it, or as it was set meanwhile.
RoomComesBack == part = "light" => LampsComeBack

\* A take that ended, with no other after it, gives the room back.
RedGoesOut ==
  (part = "light" /\ ~recHeld)
    ~> (part # "light" \/ recHeld \/ \A l \in Lamps : Seen(lamp[l]) # "red")

\* An edit of a strip that nothing came after is on its lamp once the slot is clean.
LastEditWins == Slot!LastEditWins

\* A poll of the bridge moves a strip only if somebody else moved its lamp, or to
\* what the lamp shows of a colour it cannot.
NoCreep == Slot!NoCreep

=============================================================================
