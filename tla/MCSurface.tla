------------------------------ MODULE MCSurface ------------------------------
(* The hands on the surface, one thing at a time: part, chosen at the start of *)
(* a behaviour, says whether they touch faders or press keys, be it those of a  *)
(* surface that goes dark.                                                    *)
EXTENDS TouchGate, ButtonSetups, FiniteSets

CONSTANTS Keys, Layers, Setups

VARIABLES
  part, layer, setup, press, long, on, latch, asleep, window, swallowed, held, at,
  engaged, ran, from, eaten, spoilt

Buttons == INSTANCE ButtonDispatch WITH down <- held

ASSUME KeysAssumption == IsFiniteSet(Keys) /\ Buttons!ButtonAssumption

faders == vars
keys ==
  <<layer, setup, press, long, on, latch, asleep, window, swallowed, held, at, engaged,
    ran, from, eaten, spoilt>>
surface == <<vars, keys, part>>

\* The part that stands still is at one place.
KeysStill ==
  /\ Buttons!Init
  /\ setup = (CHOOSE u \in Setups : TRUE) /\ layer = (CHOOSE l \in Layers : TRUE)

SurfaceInit ==
  /\ Init
  /\ \/ part = "fader" /\ KeysStill
     \/ part = "keys" /\ Buttons!Init

SurfaceNext ==
  /\ UNCHANGED part
  /\ \/ part = "fader" /\ Next /\ UNCHANGED keys
     \/ part = "keys" /\ Buttons!Next /\ UNCHANGED faders

Still == UNCHANGED part

SurfaceSpec ==
  /\ SurfaceInit /\ [][SurfaceNext]_surface
  /\ WF_surface(part = "fader" /\ Main /\ Still /\ UNCHANGED keys)
  /\ \A s \in Strips :
       /\ WF_surface(part = "fader" /\ ReportTouch(s) /\ Still /\ UNCHANGED keys)
       /\ WF_surface(part = "fader" /\ PressAges(s) /\ Still /\ UNCHANGED keys)
  /\ WF_surface(part = "keys" /\ Buttons!TickLongPress /\ Still /\ UNCHANGED faders)
  /\ \A p \in Buttons!Places :
       WF_surface(part = "keys" /\ Buttons!Ripens(p) /\ Still /\ UNCHANGED faders)

-----------------------------------------------------------------------------
\* The types of both parts.
TypesOK == TypeOK /\ Buttons!TypeOK

\* Nothing stays on without a key that holds it.
NothingStuck == Buttons!NothingStuck

\* A press fires its short or its long action, not both, and once.
OneOfShortLong == Buttons!OneOfShortLong

\* The wake of a dark surface swallows presses and releases in pairs.
WakeEatsPairs == Buttons!WakeEatsPairs

\* An armed long press fires at its threshold, unless the key is used again.
LongFiresWhileHeld ==
  \A p \in Buttons!Places :
    (part = "keys" /\ press[p] # Buttons!NoRecord /\ press[p].armed)
      ~> (at[p[2]] # Buttons!Idle \/ ran[p].long = 1)

=============================================================================
