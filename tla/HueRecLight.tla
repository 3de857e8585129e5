---------------------------- MODULE HueRecLight ----------------------------
(***************************************************************************)
(* The recording light (extension/src/HueManager.cpp): lamps that go red    *)
(* for a take and back when it ends.                                        *)
(*                                                                          *)
(* The main thread notes the edges of the transport in one cell, recReq_,   *)
(* that holds the last edge only.  The worker thread takes the edge, reads  *)
(* the lamps, writes the red, and at the end of the take writes what it     *)
(* read, one lamp and one request at a time.  The lamps are external: an    *)
(* app, a switch, a fader of this surface may change them at any moment.    *)
(*                                                                          *)
(* Every lamp can show colours.  Of what it shows the model keeps whether   *)
(* it is on, and one of four looks: white light, a colour of its own, the   *)
(* red, or the colour that looks like the white light ("tinted"): a colour  *)
(* lamp reports an xy in white mode too.                                    *)
(***************************************************************************)
EXTENDS Functions

CONSTANTS
  Lamps,
  Marked,     \* the lamps of the slots ticked for the recording light
  Room,       \* the members of RecLightConfig::groupId
  InScene,    \* the lamps the scene RecLightConfig::sceneId sets
  OwnValues,  \* what somebody may set a lamp to
  Configs,    \* the settings of the recording light
  Rushes,     \* may a take start before the worker took the end of the last?
  Breaks,     \* can the bridge be out of reach?
  Edits       \* are the settings changed while the program runs?

ConfigType == [enabled : BOOLEAN, target : {"slots", "group"}, scene : BOOLEAN,
               restore : {"previous", "scene", "unset"}]

Looks == {"white", "colour", "red", "tinted"}
Values == [on : BOOLEAN, look : Looks]

ASSUME HueAssumption ==
  /\ Marked \subseteq Lamps /\ Room \subseteq Lamps /\ InScene \subseteq Lamps
  /\ OwnValues \subseteq [on : BOOLEAN, look : {"white", "colour"}]
  /\ Configs \subseteq ConfigType
  /\ Rushes \in BOOLEAN /\ Breaks \in BOOLEAN /\ Edits \in BOOLEAN

Red == [on |-> TRUE, look |-> "red"]
Mood == [on |-> TRUE, look |-> "colour"]    \* what the restore scene sets

Snapshots == UNION {[S -> Values] : S \in SUBSET Lamps}
Nothing == [l \in {} |-> Red]

VARIABLES
  recHeld, recReq,  \* recHeld_, recReq_ ("on" for 1, "off" for -1)
  cfg,              \* recCfg_
  lights,           \* lights_: the lamps as last read
  saved,            \* recSaved_
  reachable,        \* does the bridge answer?
  pc,               \* where applyRecLight is
  use,              \* cfg, as applyRecLight copied it
  left,             \* the marked lamps not yet red
  todo,             \* the snapshot being written back
  lamp,             \* external: what each lamp shows
  own,              \* history: what it shows, or showed before it went red
  touched           \* history: changed from outside since it was read

request == <<recHeld, recReq>>
worker == <<pc, use, left, todo>>
vars == <<request, cfg, lights, saved, reachable, worker, lamp, own, touched>>

TypeOK ==
  /\ recHeld \in BOOLEAN /\ recReq \in {"none", "on", "off"}
  /\ cfg \in ConfigType /\ use \in ConfigType
  /\ lights \in [Lamps -> Values] /\ lamp \in [Lamps -> Values]
  /\ own \in [Lamps -> Values]
  /\ saved \in Snapshots /\ todo \in Snapshots
  /\ left \subseteq Marked /\ touched \subseteq Lamps
  /\ reachable \in BOOLEAN
  /\ pc \in {"idle", "look", "light", "recall", "back"}
  /\ left # {} => pc \in {"look", "light"} /\ ~use.scene /\ use.target = "slots"
  /\ todo # Nothing => pc = "back" /\ saved = Nothing

Init ==
  /\ recHeld = FALSE /\ recReq = "none"
  /\ cfg \in Configs /\ use = cfg
  /\ lamp \in [Lamps -> OwnValues] /\ own = lamp /\ lights = lamp
  /\ saved = Nothing /\ todo = Nothing /\ left = {} /\ touched = {}
  /\ reachable = TRUE /\ pc = "idle"

-----------------------------------------------------------------------------
(* The main thread: the transport, the test button, the settings.           *)

RecordingStarted ==
  /\ ~recHeld /\ (Rushes \/ recReq = "none")
  /\ recHeld' = TRUE /\ recReq' = "on"
  /\ UNCHANGED <<cfg, lights, saved, reachable, worker, lamp, own, touched>>

\* Faulty: an end that finds the start still waiting is taken to cancel it.
RecordingStoppedCancels ==
  /\ recHeld
  /\ recHeld' = FALSE /\ recReq' = IF recReq = "none" /\ pc = "idle" THEN "off" ELSE "none"
  /\ UNCHANGED <<cfg, lights, saved, reachable, worker, lamp, own, touched>>

RecordingStopped ==
  /\ recHeld
  /\ recHeld' = FALSE /\ recReq' = "off"
  /\ UNCHANGED <<cfg, lights, saved, reachable, worker, lamp, own, touched>>

SetRecLight ==
  /\ Edits /\ cfg' \in Configs
  /\ UNCHANGED <<request, lights, saved, reachable, worker, lamp, own, touched>>

-----------------------------------------------------------------------------
(* The worker: applyRecLight.                                               *)

Idle == pc = "idle" /\ UNCHANGED <<recHeld, cfg, lights, reachable, lamp, own, touched>>

\* Switched off, the edge is taken and nothing else happens.
TakeNothing ==
  /\ Idle /\ recReq # "none" /\ ~cfg.enabled
  /\ recReq' = "none"
  /\ UNCHANGED <<saved, worker>>

\* Faulty: the mode alone decides, though no scene may be picked.
NeedSnapshotByMode == cfg.restore = "previous"

NeedSnapshot == cfg.restore # "scene"

TakeOn ==
  /\ Idle /\ recReq = "on" /\ cfg.enabled
  /\ recReq' = "none" /\ use' = cfg
  /\ left' = IF ~cfg.scene /\ cfg.target = "slots" THEN Marked ELSE {}
  /\ IF NeedSnapshot
       THEN pc' = "look" /\ UNCHANGED saved
       ELSE pc' = "light" /\ saved' = Nothing
  /\ UNCHANGED todo

\* recLightLightIds, from the settings as they are by now; a scene needs all.
Ids == IF use.scene THEN Lamps ELSE IF cfg.target = "group" THEN Room ELSE Marked

\* runRefresh, which leaves lights_ as they are when the bridge is silent, and
\* the snapshot.
Look ==
  /\ pc = "look" /\ pc' = "light"
  /\ lights' = IF reachable THEN lamp ELSE lights
  /\ saved' = Restrict(lights', Ids)
  /\ UNCHANGED <<request, cfg, reachable, use, left, todo, lamp, own, touched>>

\* A PUT to the lamps in ls: v[l] is what l shows after it.
Write(ls, v) ==
  lamp' = IF reachable THEN [l \in Lamps |-> IF l \in ls THEN v[l] ELSE lamp[l]]
          ELSE lamp

AllRed == [l \in Lamps |-> Red]

\* One request for a room or a scene, ...
LightAtOnce ==
  /\ pc = "light" /\ (use.scene \/ use.target = "group")
  /\ Write(IF use.scene THEN InScene ELSE Room, AllRed)
  /\ pc' = "idle"
  /\ UNCHANGED <<request, cfg, lights, saved, reachable, use, left, todo, own, touched>>

\* ... one per marked slot, ...
LightSlot ==
  /\ pc = "light" /\ \E l \in left : left' = left \ {l} /\ Write({l}, AllRed)
  /\ UNCHANGED <<request, cfg, lights, saved, reachable, pc, use, todo, own, touched>>

\* Faulty: the last slot is left out.
SlotsLitEarly ==
  /\ pc = "light" /\ ~use.scene /\ use.target = "slots" /\ \A k, l \in left : k = l
  /\ pc' = "idle"
  /\ UNCHANGED <<request, cfg, lights, saved, reachable, use, left, todo, lamp, own, touched>>

\* ... until none is left.
SlotsLit ==
  /\ pc = "light" /\ ~use.scene /\ use.target = "slots" /\ left = {}
  /\ pc' = "idle"
  /\ UNCHANGED <<request, cfg, lights, saved, reachable, use, left, todo, lamp, own, touched>>

TakeOff ==
  /\ Idle /\ recReq = "off" /\ cfg.enabled
  /\ recReq' = "none" /\ use' = cfg
  /\ IF cfg.restore = "scene"
       THEN pc' = "recall" /\ UNCHANGED <<saved, todo>>
       ELSE pc' = "back" /\ todo' = saved /\ saved' = Nothing
  /\ UNCHANGED left

Recall ==
  /\ pc = "recall" /\ pc' = "idle"
  /\ Write(Lamps, [l \in Lamps |-> Mood])
  /\ saved' = Nothing
  /\ own' = IF reachable THEN lamp' ELSE own
  /\ touched' = {}
  /\ UNCHANGED <<request, cfg, lights, reachable, use, left, todo>>

\* Faulty: every lamp is switched on again.
WrittenBackLit(s, v) ==
  [on |-> TRUE, look |-> IF s.look = "white" THEN "tinted" ELSE s.look]

\* What a lamp that shows v shows after it was written back as s: dark, it keeps
\* its look, and lit, it is given the colour it reported, in white mode too.
WrittenBack(s, v) ==
  IF ~s.on THEN [v EXCEPT !.on = FALSE]
  ELSE [on |-> TRUE, look |-> IF s.look = "white" THEN "tinted" ELSE s.look]

PutBack ==
  /\ pc = "back"
  /\ \E l \in DOMAIN todo :
       /\ todo' = Restrict(todo, DOMAIN todo \ {l})
       /\ Write({l}, [k \in {l} |-> WrittenBack(todo[l], lamp[l])])
       /\ own' = IF l \in touched THEN [own EXCEPT ![l] = lamp'[l]] ELSE own
       /\ touched' = touched \ {l}
  /\ UNCHANGED <<request, cfg, lights, saved, reachable, pc, use, left>>

AllBack ==
  /\ pc = "back" /\ todo = Nothing /\ pc' = "idle"
  /\ UNCHANGED <<request, cfg, lights, saved, reachable, use, left, todo, lamp, own, touched>>

\* The poll of every second.
Poll ==
  /\ pc = "idle" /\ reachable /\ lights' = lamp
  /\ UNCHANGED <<request, cfg, saved, reachable, worker, lamp, own, touched>>

-----------------------------------------------------------------------------
(* The house.                                                               *)

\* The worker has read l and will write it back.
AtStake(l) == l \in DOMAIN saved \cup DOMAIN todo

Outside ==
  \E l \in Lamps, v \in OwnValues :
    /\ lamp' = [lamp EXCEPT ![l] = v] /\ own' = [own EXCEPT ![l] = v]
    /\ touched' = IF AtStake(l) THEN touched \cup {l} ELSE touched
    /\ UNCHANGED <<request, cfg, lights, saved, reachable, worker>>

Breaking ==
  /\ Breaks /\ reachable' = ~reachable
  /\ UNCHANGED <<request, cfg, lights, saved, worker, lamp, own, touched>>

-----------------------------------------------------------------------------
Worker ==
  \/ TakeNothing \/ TakeOn \/ Look \/ LightAtOnce \/ LightSlot \/ SlotsLit
  \/ TakeOff \/ Recall \/ PutBack \/ AllBack

Next ==
  \/ RecordingStarted \/ RecordingStopped \/ SetRecLight
  \/ Worker \/ Poll \/ Outside \/ Breaking

Spec == Init /\ [][Next]_vars /\ WF_vars(Worker)

-----------------------------------------------------------------------------
(* What the recording light promises.                                       *)

Quiet == ~recHeld /\ recReq = "none" /\ pc = "idle"

\* What the eye sees: a dark lamp has no colour, and the tint looks like white.
Seen(v) == IF ~v.on THEN "dark" ELSE IF v.look = "tinted" THEN "white" ELSE v.look

\* After a take every lamp is seen as it was before it, or as somebody set it
\* meanwhile.
LampsComeBack == Quiet => \A l \in Lamps : Seen(lamp[l]) = Seen(own[l])

\* No lamp is made red that the snapshot misses, unless a scene will restore it.
RedOnlyIfSaved ==
  [][\A l \in Lamps :
       pc = "light" /\ lamp'[l] = Red /\ lamp[l] # Red
         => l \in DOMAIN saved \/ use.restore = "scene"]_vars

\* A take that ended, with no other after it, gives the room back.
LightGoesOut ==
  ~recHeld ~> (recHeld \/ \A l \in Lamps : Seen(lamp[l]) # "red")

=============================================================================
