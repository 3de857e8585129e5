---------------------------- MODULE FaderTarget ----------------------------
(***************************************************************************)
(* What a UF8 fader drives (extension/src/main.cpp): a send, the Sticky     *)
(* Pot's parameter, the focused parameter, the pan or the volume of the     *)
(* track, or a parameter of a plug-in, depending on eight switches.  The    *)
(* decision is written down four times: where a moved fader writes          *)
(* (drainInputQueue, VolumeAbs), where its release writes                   *)
(* (commitDebouncedTouchReleases), what Alt-drag snaps back to              *)
(* (computeStripCurrentPb_) and what the motor follows                      *)
(* (pushZonesForVisibleSlots).  They have to agree.                         *)
(*                                                                          *)
(* Two of the switches, UF8 Plug-in Mode and SSL Strip Mode, exclude each   *)
(* other.  The builtins that turn them on run on the input threads of the   *)
(* surfaces and on the main thread: each stores its own switch and clears   *)
(* the other one in a later step.                                           *)
(*                                                                          *)
(* The strip has a track.  The other switches change at any time.  The      *)
(* release takes the parameter of a user map from its strip, the others     *)
(* take it through fxEffectiveStrip and the FX layer.  That function        *)
(* (UserPluginCatalog.h:570) returns its argument and leaves the layer      *)
(* alone - the layers were taken out of the UF8 - so both are userParam.    *)
(***************************************************************************)

CONSTANT Threads                \* the input threads and the main thread

VARIABLES
  pluginMode,  \* g_uf8PluginMode
  stripMode,   \* g_pluginFaderMode, SSL Strip Mode
  pc,          \* what a thread still has to do after it turned a mode on
  route,       \* resolveFaderRoute_: "none", "valid" or "invalid"
  flip,        \* g_flip
  forcePan,    \* g_forcePan, the PAN key
  focus,       \* the focused parameter on this track: "none", "param", or
               \* "pan" for the pan of the channel strip (isVPotPanFocus)
  sticky,      \* a Sticky Pot pin resolves on this track
  userMap,     \* userStripCtxFocused_: "none", "unbound" or "bound" strip
  csFader      \* csFaderForTrack finds a fader parameter

switches == <<route, flip, forcePan, focus, sticky, userMap, csFader>>
vars == <<pluginMode, stripMode, pc, switches>>

TypeOK ==
  /\ {pluginMode, stripMode, flip, forcePan, sticky, csFader} \subseteq BOOLEAN
  /\ pc \in [Threads -> {"idle", "clearStrip", "clearPlugin"}]
  /\ route \in {"none", "valid", "invalid"}
  /\ focus \in {"none", "param", "pan"}
  /\ userMap \in {"none", "unbound", "bound"}

\* UF8 Plug-in Mode is restored from the last session, SSL Strip Mode is not.
Init ==
  /\ pluginMode \in BOOLEAN /\ stripMode = FALSE
  /\ pc = [t \in Threads |-> "idle"]
  /\ route = "none" /\ flip = FALSE /\ forcePan = FALSE /\ focus = "none"
  /\ sticky = FALSE /\ userMap = "none" /\ csFader = FALSE

-----------------------------------------------------------------------------
(* The two modes.                                                           *)

Goes(t, from, to) == pc[t] = from /\ pc' = [pc EXCEPT ![t] = to]

\* Faulty: Plug-in Mode does not end SSL Strip Mode.
PluginModeOnAlone(t) ==
  /\ Goes(t, "idle", "idle")
  /\ ~pluginMode /\ pluginMode' = TRUE
  /\ UNCHANGED <<stripMode, switches>>

\* uf8_plugin_mode_toggle, engageUf8PluginMode_.
PluginModeOn(t) ==
  /\ Goes(t, "idle", "clearStrip")
  /\ ~pluginMode /\ pluginMode' = TRUE
  /\ UNCHANGED <<stripMode, switches>>

PluginModeOff(t) ==
  /\ Goes(t, "idle", "idle")
  /\ pluginMode /\ pluginMode' = FALSE
  /\ UNCHANGED <<stripMode, switches>>

\* ssl_strip_mode_toggle.
StripModeOn(t) ==
  /\ Goes(t, "idle", "clearPlugin")
  /\ ~stripMode /\ stripMode' = TRUE
  /\ UNCHANGED <<pluginMode, switches>>

StripModeOff(t) ==
  /\ Goes(t, "idle", "idle")
  /\ stripMode /\ stripMode' = FALSE
  /\ UNCHANGED <<pluginMode, switches>>

ClearStrip(t) ==
  /\ Goes(t, "clearStrip", "idle")
  /\ stripMode' = FALSE
  /\ UNCHANGED <<pluginMode, switches>>

ClearPlugin(t) ==
  /\ Goes(t, "clearPlugin", "idle")
  /\ pluginMode' = FALSE
  /\ UNCHANGED <<stripMode, switches>>

\* A key: FLIP, PAN, the way to or from the sends.
KeyPressed ==
  /\ \/ flip' = ~flip /\ UNCHANGED <<route, forcePan>>
     \/ forcePan' = ~forcePan /\ UNCHANGED <<route, flip>>
     \/ route' \in {"none", "valid", "invalid"} \ {route} /\ UNCHANGED <<flip, forcePan>>
  /\ UNCHANGED <<pluginMode, stripMode, pc, focus, sticky, userMap, csFader>>

\* A track, a plug-in or one of its parameters is selected.
FocusMoves ==
  /\ focus' \in {"none", "param", "pan"} /\ sticky' \in BOOLEAN
  /\ userMap' \in {"none", "unbound", "bound"} /\ csFader' \in BOOLEAN
  /\ UNCHANGED <<pluginMode, stripMode, pc, route, flip, forcePan>>

Next ==
  \/ \E t \in Threads :
       \/ PluginModeOn(t) \/ PluginModeOff(t) \/ StripModeOn(t) \/ StripModeOff(t)
       \/ ClearStrip(t) \/ ClearPlugin(t)
  \/ KeyPressed \/ FocusMoves

Spec == Init /\ [][Next]_vars

-----------------------------------------------------------------------------
(* The four decisions.                                                      *)

RouteTarget == IF flip THEN "sendPan" ELSE "sendVolume"

\* stickyFlipFaderEnabled_
StickyOnFader == sticky /\ flip /\ ~pluginMode /\ ~stripMode /\ ~forcePan

\* The focused parameter under FLIP; the writers leave the pan focus alone.
ParamOnFader == flip /\ ~forcePan /\ focus = "param"

PanOnFader == flip /\ ~stripMode /\ ~pluginMode

\* Where a moved fader writes.
LiveTarget ==
  IF route = "valid" THEN RouteTarget
  ELSE IF route = "invalid" THEN "nothing"
  ELSE IF StickyOnFader THEN "sticky"
  ELSE IF ParamOnFader THEN "focusedParam"
  ELSE IF PanOnFader THEN "trackPan"
  ELSE IF pluginMode /\ userMap # "none"
    THEN IF userMap = "bound" THEN "userParam" ELSE "nothing"
  ELSE IF stripMode /\ csFader THEN "csFader"
  ELSE "trackVolume"

\* Faulty: the Sticky Pot is not among the targets of a release.
ReleaseTargetNoSticky ==
  IF route = "valid" THEN RouteTarget
  ELSE IF route = "invalid" THEN "nothing"
  ELSE IF ParamOnFader THEN "focusedParam"
  ELSE IF PanOnFader THEN "trackPan"
  ELSE IF stripMode /\ csFader THEN "csFader"
  ELSE IF pluginMode /\ userMap = "bound" THEN "userParam"
  ELSE IF pluginMode /\ userMap = "unbound" THEN "nothing"
  ELSE "trackVolume"

\* Where its release writes.
ReleaseTarget ==
  IF route = "valid" THEN RouteTarget
  ELSE IF route = "invalid" THEN "nothing"
  ELSE IF StickyOnFader THEN "sticky"
  ELSE IF ParamOnFader THEN "focusedParam"
  ELSE IF PanOnFader THEN "trackPan"
  ELSE IF pluginMode
    THEN IF userMap = "bound" THEN "userParam"
         ELSE IF userMap = "unbound" THEN "nothing" ELSE "trackVolume"
  ELSE IF stripMode /\ csFader THEN "csFader"
  ELSE "trackVolume"

\* Faulty: FLIP is not looked at on a strip with a send.
SnapshotTargetNoFlip ==
  IF route = "valid" THEN "sendVolume"
  ELSE IF StickyOnFader THEN "sticky"
  ELSE IF ParamOnFader THEN "focusedParam"
  ELSE IF PanOnFader THEN "trackPan"
  ELSE IF pluginMode /\ userMap = "bound" THEN "userParam"
  ELSE IF stripMode /\ csFader THEN "csFader"
  ELSE "trackVolume"

\* What Alt-drag reads at touch-on.
SnapshotTarget ==
  IF route = "valid" THEN RouteTarget
  ELSE IF route = "invalid" THEN "trackVolume"
  ELSE IF StickyOnFader THEN "sticky"
  ELSE IF ParamOnFader THEN "focusedParam"
  ELSE IF PanOnFader THEN "trackPan"
  ELSE IF pluginMode
    THEN IF userMap = "bound" THEN "userParam" ELSE "trackVolume"
  ELSE IF stripMode /\ csFader THEN "csFader"
  ELSE "trackVolume"

\* flipActive: slotForStrip leaves out only what the PAN key leaves out.
FlipActive == flip /\ ~forcePan /\ focus # "none"
FlipActiveParam == IF focus = "pan" THEN "csPan" ELSE "focusedParam"
UserFader == pluginMode /\ ~FlipActive /\ userMap = "bound"

\* Faulty: the plug-in's own fader moves the motor even under FLIP.
CsFaderActiveAlways == stripMode /\ csFader

CsFaderActive == stripMode /\ ~FlipActive /\ ~UserFader /\ csFader

\* What the motor follows.
MotorTarget ==
  IF route = "invalid" THEN "parked"
  ELSE IF route = "valid" THEN RouteTarget
  ELSE IF UserFader THEN "userParam"
  ELSE IF StickyOnFader THEN "sticky"
  ELSE IF CsFaderActive THEN "csFader"
  ELSE IF FlipActive THEN FlipActiveParam
  ELSE IF flip /\ ~stripMode /\ ~pluginMode THEN "trackPan"
  ELSE IF pluginMode /\ userMap # "none" THEN "parked"
  ELSE "trackVolume"

-----------------------------------------------------------------------------
(* Properties.                                                              *)

AtRest == \A t \in Threads : pc[t] = "idle"

\* Whatever threads turn the two modes on and off at the same time, once they
\* are done at most one of the modes is on.
OneMode == AtRest => ~(pluginMode /\ stripMode)

\* main.cpp:37325: "the touch-release writeback must follow the same precedence
\* as the live fader handler".
ReleaseWritesLive == AtRest => ReleaseTarget = LiveTarget

\* main.cpp:17357: the snapshot "is the exact inverse of what a same-pb
\* writeback would produce": what a release writes is what was read.
SnapshotReadsWritten ==
  (AtRest /\ ReleaseTarget # "nothing") => SnapshotTarget = ReleaseTarget

\* main.cpp:36070: the motor is to "travel to where the plug-in param actually
\* is".  A fader that writes a target is driven to that target.
MotorFollowsFader == (AtRest /\ LiveTarget # "nothing") => MotorTarget = LiveTarget

\* It is, unless the pan of the channel strip is the focused parameter.
MotorFollowsFaderOffPan == focus # "pan" => MotorFollowsFader

=============================================================================
