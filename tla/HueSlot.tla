------------------------------- MODULE HueSlot -------------------------------
(***************************************************************************)
(* One strip that stands for one Hue lamp (extension/src/HueManager.cpp,      *)
(* workerLoop, pushSlot, runRefresh, adoptFromBridge and the edits).          *)
(*                                                                          *)
(* An input thread stores the new value of the slot and then marks it dirty.  *)
(* The worker takes the mark away, notes what it is about to send, and sends   *)
(* the slot as it then stands; every second it reads the lamps and takes over  *)
(* what differs from what it sent last: that is how the surface follows the    *)
(* Hue app and the wall switch.  The gap between two writes to one lamp and    *)
(* the flush of a released fader decide only when a dirty slot is sent, which  *)
(* may be at any time here.  White light and its warmth are left out.          *)
(***************************************************************************)
EXTENDS Naturals

CONSTANTS
  Levels,    \* brightness, in steps of more than the slack of the comparison
  Hues,      \* colours as the pot turns them, hueDeg and sat
  Points,    \* points of the colour plane, further apart than the slack
  ToXy,      \* hueSatToXy
  FromXy,    \* xyToHueSat, which need not lead back to the hue one came from
  Clamp,     \* clampToGamut: what the lamp shows of a point, which may lie outside
  MaxEdit,   \* bound: edits on the surface
  MaxStir    \* bound: changes from outside, and requests that fail

\* What the constants must be.
HueSlotAssumption ==
  /\ Levels \subseteq Nat \ {0}
  /\ ToXy \in [Hues -> Points] /\ FromXy \in [Points -> Hues]
  /\ Clamp \in [Points -> Points]
  /\ MaxEdit \in Nat /\ MaxStir \in Nat

Dark == 0   \* sentBri < 0
Lives == [on : BOOLEAN, bri : Levels, hue : Hues]
Lights == [on : BOOLEAN, bri : Levels, xy : Points]

VARIABLES
  slot,      \* SlotLive: on, bri, hueDeg with sat
  dirty,     \* dirty
  marking,   \* an input thread has stored a value and not yet the mark
  worker,    \* where the worker is: "idle", "note", "push", "check", "adopt"
  sentBri,   \* sentBri
  sentXy,    \* sentXy
  lights,    \* lights_: the lamp as it was read last
  online,    \* link_ is Online, not Failed
  lamp,      \* external: the lamp
  edits, stirs,  \* bookkeeping
  asked,     \* history: the part and value of the last edit, while nothing spoke against it
  moved,     \* history: the lamp was changed from outside or a request for it failed since
             \*   the last that arrived
  spoilt     \* history: an edit "crossed" an adoption, a "stale" reading was adopted, or
             \*   the slot as sent last was "dark", which leaves level and colour unsent

vars == <<slot, dirty, marking, worker, sentBri, sentXy, lights, online, lamp, edits, stirs,
          asked, moved, spoilt>>

Nothing == [part |-> "nothing"]

TypeOK ==
  /\ slot \in Lives /\ dirty \in BOOLEAN /\ marking \in BOOLEAN
  /\ worker \in {"idle", "note", "push", "check", "adopt"}
  /\ sentBri \in Levels \cup {Dark} /\ sentXy \in Points
  /\ lights \in Lights /\ lamp \in Lights /\ online \in BOOLEAN
  /\ edits \in 0..MaxEdit /\ stirs \in 0..MaxStir
  /\ asked \in {Nothing} \cup [part : {"on"}, val : BOOLEAN]
                 \cup [part : {"bri"}, val : Levels] \cup [part : {"hue"}, val : Hues]
  /\ moved \in BOOLEAN /\ spoilt \subseteq {"crossed", "stale", "dark"}

\* What the lamp can be made to show.
Shown == {l \in Lights : Clamp[l.xy] = l.xy}

\* The first reading has been adopted.
Init ==
  /\ lamp \in Shown /\ lights = lamp
  /\ slot = [on |-> lamp.on, bri |-> lamp.bri, hue |-> FromXy[lamp.xy]]
  /\ dirty = FALSE /\ marking = FALSE /\ worker = "idle"
  /\ sentBri = Dark /\ sentXy = lamp.xy /\ online = TRUE
  /\ edits = 0 /\ stirs = 0 /\ asked = Nothing /\ moved = FALSE /\ spoilt = {}

-----------------------------------------------------------------------------
(* The input threads: the value first, then the mark.                        *)

Edit(new, what) ==
  /\ edits < MaxEdit /\ edits' = edits + 1 /\ ~marking
  /\ slot' = new /\ asked' = what /\ marking' = TRUE
  /\ spoilt' = IF worker = "adopt" THEN spoilt \cup {"crossed"} ELSE spoilt
  /\ UNCHANGED <<dirty, worker, sentBri, sentXy, lights, online, lamp, stirs, moved>>

\* A fader above its bottom.
SetFader ==
  \E b \in Levels : Edit([slot EXCEPT !.on = TRUE, !.bri = b], [part |-> "bri", val |-> b])

\* The bottom of the fader, a push.
SetOn == Edit([slot EXCEPT !.on = ~@], [part |-> "on", val |-> ~slot.on])

NudgePot ==
  \E h \in Hues : Edit([slot EXCEPT !.hue = h], [part |-> "hue", val |-> h])

MarkDirty ==
  /\ marking /\ marking' = FALSE /\ dirty' = TRUE
  /\ UNCHANGED <<slot, worker, sentBri, sentXy, lights, online, lamp, edits, stirs, asked,
                 moved, spoilt>>

-----------------------------------------------------------------------------
(* The worker.                                                              *)

Own == <<marking, edits>>

\* The mark goes first: an edit from here on sets it again.
ClearMark ==
  /\ worker = "idle" /\ online /\ dirty
  /\ worker' = "note" /\ dirty' = FALSE
  /\ UNCHANGED <<Own, slot, sentBri, sentXy, lights, online, lamp, stirs, asked, moved, spoilt>>

\* Faulty: nothing is noted.
NoteSentNot ==
  /\ worker = "note" /\ worker' = "push" /\ UNCHANGED <<sentBri, sentXy>>
  /\ UNCHANGED <<Own, slot, dirty, lights, online, lamp, stirs, asked, moved, spoilt>>

NoteSent ==
  /\ worker = "note" /\ worker' = "push"
  /\ sentBri' = (IF slot.on THEN slot.bri ELSE Dark) /\ sentXy' = ToXy[slot.hue]
  /\ UNCHANGED <<Own, slot, dirty, lights, online, lamp, stirs, asked, moved, spoilt>>

\* What a PUT of the slot makes of the lamp: dark, it keeps the rest.
Written ==
  IF slot.on THEN [on |-> TRUE, bri |-> slot.bri, xy |-> Clamp[ToXy[slot.hue]]]
  ELSE [lamp EXCEPT !.on = FALSE]

\* pushSlot reads the slot once more.
PushSlot ==
  /\ worker = "push" /\ worker' = "idle"
  /\ \/ /\ lamp' = Written /\ UNCHANGED <<stirs, asked>>
        /\ IF slot.on THEN moved' = FALSE /\ spoilt' = spoilt \ {"dark"}
           ELSE spoilt' = spoilt \cup {"dark"} /\ UNCHANGED moved
     \/ /\ stirs < MaxStir /\ stirs' = stirs + 1
        /\ moved' = TRUE /\ asked' = Nothing /\ UNCHANGED <<lamp, spoilt>>
  /\ UNCHANGED <<Own, slot, dirty, sentBri, sentXy, lights, online>>

\* runRefresh: after a failed request the adoption runs on the reading before.
Refresh ==
  /\ worker = "idle" /\ online /\ worker' = "check"
  /\ \/ lights' = lamp /\ UNCHANGED <<online, stirs>>
     \/ /\ stirs < MaxStir /\ stirs' = stirs + 1
        /\ online' = FALSE /\ UNCHANGED lights
  /\ UNCHANGED <<Own, slot, dirty, sentBri, sentXy, lamp, asked, moved, spoilt>>

\* runVerify finds the bridge again.
Verify ==
  /\ worker = "idle" /\ ~online /\ online' = TRUE
  /\ UNCHANGED <<Own, slot, dirty, worker, sentBri, sentXy, lights, lamp, stirs, asked, moved,
                 spoilt>>

\* Faulty: a pending edit does not outrank the bridge.
LooksCleanAlways == TRUE

LooksClean == ~dirty

CheckDirty ==
  /\ worker = "check" /\ worker' = IF LooksClean THEN "adopt" ELSE "idle"
  /\ spoilt' = IF LooksClean /\ marking THEN spoilt \cup {"crossed"} ELSE spoilt
  /\ UNCHANGED <<Own, slot, dirty, sentBri, sentXy, lights, online, lamp, stirs, asked, moved>>

NewBri == sentBri = Dark \/ lights.bri # sentBri
NewColour == lights.xy # sentXy

Adopted ==
  [on |-> IF NewBri THEN lights.on ELSE slot.on,
   bri |-> IF NewBri THEN lights.bri ELSE slot.bri,
   hue |-> IF NewColour THEN FromXy[lights.xy] ELSE slot.hue]

\* adoptFromBridge: what agrees with the last write is its echo.
Adopt ==
  /\ worker = "adopt" /\ worker' = "idle"
  /\ slot' = Adopted /\ sentXy' = IF NewColour THEN lights.xy ELSE sentXy
  /\ spoilt' = IF online THEN spoilt ELSE spoilt \cup {"stale"}
  /\ UNCHANGED <<Own, dirty, sentBri, lights, online, lamp, stirs, asked, moved>>

-----------------------------------------------------------------------------
\* The Hue app, a wall switch, a scene.
Outside ==
  /\ stirs < MaxStir /\ stirs' = stirs + 1
  /\ lamp' \in Shown \ {lamp}
  /\ moved' = TRUE /\ asked' = Nothing
  /\ UNCHANGED <<slot, dirty, marking, worker, sentBri, sentXy, lights, online, edits, spoilt>>

Worker ==
  ClearMark \/ NoteSent \/ PushSlot \/ Refresh \/ Verify \/ CheckDirty \/ Adopt

Next == SetFader \/ SetOn \/ NudgePot \/ MarkDirty \/ Worker \/ Outside

Spec == Init /\ [][Next]_vars

-----------------------------------------------------------------------------
(* What the slot promises.                                                  *)

AtRest == worker = "idle" /\ ~dirty /\ ~marking

\* An edit that nothing came after is on the lamp once the slot is clean, also
\* when it came in the middle of a write; not if it crossed an adoption.
LastEditWins ==
  (AtRest /\ asked # Nothing /\ spoilt = {}) =>
    CASE asked.part = "on" -> lamp.on = asked.val
      [] asked.part = "bri" -> lamp.on /\ lamp.bri = asked.val
      [] asked.part = "hue" -> ~lamp.on \/ lamp.xy = Clamp[ToXy[asked.val]]

\* HueManager.cpp:1117: "a reported value that AGREES with them is our own echo
\* and is left alone".  The surface does not move by itself: an adoption changes
\* the slot only if somebody else moved the lamp or a write was lost.  Not so for a
\* reading adopted a second time, for an edit that crossed, and for what was edited
\* in the dark.  What is noted as sent is not clamped and what the lamp reports
\* is: after a colour it cannot show the pot goes, once, to the hue it shows.
NoCreep ==
  [][(worker = "adopt" /\ slot' # slot /\ spoilt' = {}) =>
       \/ moved
       \/ /\ Clamp[sentXy] # sentXy /\ sentXy' = Clamp[sentXy]
          /\ slot' = [slot EXCEPT !.hue = FromXy[Clamp[sentXy]]]]_vars

=============================================================================
