----------------------------- MODULE Hue_proofs -----------------------------
(***************************************************************************)
(* Proofs about the Hue manager.  The recording light, for any lamps, rooms, *)
(* scenes and settings: its types, that no lamp is lit that is not saved,   *)
(* and that the room comes back.  A strip that stands for a lamp, for any   *)
(* levels, hues and conversions of colours: the last edit wins, and polls   *)
(* do not move the strip.                                                   *)
(***************************************************************************)
EXTENDS MCHue, TLAPS

-----------------------------------------------------------------------------
(* Types.                                                                   *)

\* A part of a reading of the lamps is a snapshot.
LEMMA RestrictIsSnapshot ==
  ASSUME NEW S \in SUBSET Lamps, NEW f \in [S -> Values], NEW R \in SUBSET S
  PROVE  Restrict(f, R) \in Snapshots /\ DOMAIN Restrict(f, R) = R
<1>1. Restrict(f, R) \in [R -> Values]
  BY DEF Restrict
<1>2. R \in SUBSET Lamps
  OBVIOUS
<1> QED BY <1>1, <1>2 DEF Snapshots

\* Every snapshot is a reading of some of the lamps.
LEMMA SnapshotIsReading ==
  ASSUME NEW s \in Snapshots
  PROVE  DOMAIN s \subseteq Lamps /\ s \in [DOMAIN s -> Values]
BY DEF Snapshots

LEMMA NothingIsSnapshot == Nothing \in Snapshots /\ DOMAIN Nothing = {}
<1>1. Nothing \in [{} -> Values]
  BY DEF Nothing
<1> QED BY <1>1 DEF Snapshots, Nothing

\* The looks a PUT can leave are looks of a lamp.
LEMMA WrittenIsValue ==
  ASSUME NEW s \in Values, NEW v \in Values
  PROVE  WrittenBack(s, v) \in Values
BY DEF WrittenBack, Values, Looks

LEMMA RedIsValue == Red \in Values /\ Mood \in Values /\ AllRed \in [Lamps -> Values]
BY DEF Red, Mood, AllRed, Values, Looks

LEMMA WriteKeepsType ==
  ASSUME lamp \in [Lamps -> Values], NEW ls, NEW v, Write(ls, v),
         \A l \in ls \cap Lamps : v[l] \in Values
  PROVE  lamp' \in [Lamps -> Values]
BY DEF Write

LEMMA InitTyped == Init => TypeOK
<1> SUFFICES ASSUME Init PROVE TypeOK
  OBVIOUS
<1>1. OwnValues \subseteq Values /\ Configs \subseteq ConfigType
  BY HueAssumption DEF Values, Looks
<1> QED BY <1>1, NothingIsSnapshot DEF Init, TypeOK

LEMMA TypeStep == TypeOK /\ [Next]_vars => TypeOK'
<1> SUFFICES ASSUME TypeOK, [Next]_vars PROVE TypeOK'
  OBVIOUS
<1> USE HueAssumption
<1>1. CASE RecordingStarted
  BY <1>1 DEF RecordingStarted, TypeOK, worker
<1>2. CASE RecordingStopped
  BY <1>2 DEF RecordingStopped, TypeOK, worker
<1>3. CASE SetRecLight
  BY <1>3 DEF SetRecLight, TypeOK, request, worker
<1>4. CASE TakeNothing
  BY <1>4 DEF TakeNothing, Idle, TypeOK, worker
<1>5. CASE TakeOn
  BY <1>5, NothingIsSnapshot DEF TakeOn, Idle, NeedSnapshot, TypeOK
<1>6. CASE Look
  <2>1. lights' \in [Lamps -> Values]
    BY <1>6 DEF Look, TypeOK
  <2>2. Ids \subseteq Lamps
    BY DEF Ids
  <2>3. saved' \in Snapshots
    BY <1>6, <2>1, <2>2, RestrictIsSnapshot DEF Look
  <2> QED BY <1>6, <2>1, <2>3 DEF Look, request, TypeOK
<1>7. CASE LightAtOnce
  <2>1. lamp' \in [Lamps -> Values]
    BY <1>7, RedIsValue, WriteKeepsType DEF LightAtOnce, TypeOK
  <2>2. left = {}
    BY <1>7 DEF LightAtOnce, TypeOK
  <2> QED BY <1>7, <2>1 DEF LightAtOnce, request, TypeOK
<1>8. CASE LightSlot
  <2>1. PICK l \in left : left' = left \ {l} /\ Write({l}, AllRed)
    BY <1>8 DEF LightSlot
  <2>2. lamp' \in [Lamps -> Values]
    BY <2>1, RedIsValue, WriteKeepsType DEF TypeOK
  <2> QED BY <1>8, <2>1, <2>2 DEF LightSlot, request, TypeOK
<1>9. CASE SlotsLit
  BY <1>9 DEF SlotsLit, request, TypeOK
<1>10. CASE TakeOff
  BY <1>10, NothingIsSnapshot DEF TakeOff, Idle, TypeOK
<1>11. CASE Recall
  <2>1. lamp' \in [Lamps -> Values]
    BY <1>11, RedIsValue, WriteKeepsType DEF Recall, TypeOK
  <2> QED BY <1>11, <2>1, NothingIsSnapshot DEF Recall, request, TypeOK
<1>12. CASE PutBack
  <2>1. PICK l \in DOMAIN todo :
          /\ todo' = Restrict(todo, DOMAIN todo \ {l})
          /\ Write({l}, [k \in {l} |-> WrittenBack(todo[l], lamp[l])])
          /\ own' = IF l \in touched THEN [own EXCEPT ![l] = lamp'[l]] ELSE own
          /\ touched' = touched \ {l}
    BY <1>12 DEF PutBack
  <2>2. l \in Lamps /\ todo[l] \in Values
    BY SnapshotIsReading DEF TypeOK
  <2>3. lamp' \in [Lamps -> Values]
    BY <2>1, <2>2, WrittenIsValue, WriteKeepsType DEF TypeOK
  <2>4. own' \in [Lamps -> Values]
    BY <2>1, <2>2, <2>3 DEF TypeOK
  <2>5. todo' \in Snapshots
    BY <2>1, SnapshotIsReading, RestrictIsSnapshot DEF TypeOK
  <2>6. saved = Nothing
    BY <2>1, NothingIsSnapshot DEF TypeOK
  <2> QED BY <1>12, <2>1, <2>3, <2>4, <2>5, <2>6 DEF PutBack, request, TypeOK
<1>13. CASE AllBack
  BY <1>13 DEF AllBack, request, TypeOK
<1>14. CASE Poll
  BY <1>14 DEF Poll, request, worker, TypeOK
<1>15. CASE Outside
  <2>1. PICK l \in Lamps, v \in OwnValues :
          /\ lamp' = [lamp EXCEPT ![l] = v] /\ own' = [own EXCEPT ![l] = v]
          /\ touched' = IF AtStake(l) THEN touched \cup {l} ELSE touched
          /\ UNCHANGED <<request, cfg, lights, saved, reachable, worker>>
    BY <1>15 DEF Outside
  <2>2. v \in Values
    BY DEF Values, Looks
  <2> QED BY <2>1, <2>2 DEF request, worker, TypeOK
<1>16. CASE Breaking
  BY <1>16 DEF Breaking, request, worker, TypeOK
<1>17. CASE UNCHANGED vars
  BY <1>17 DEF vars, request, worker, TypeOK
<1> QED BY <1>1, <1>2, <1>3, <1>4, <1>5, <1>6, <1>7, <1>8, <1>9, <1>10, <1>11, <1>12,
           <1>13, <1>14, <1>15, <1>16, <1>17 DEF Next, Worker

\* At every moment the worker holds a snapshot of real lamps, the one it writes
\* back is no longer the one it keeps, and slots wait for their red only while it
\* is about to light them.
THEOREM TypeCorrect == Spec => []TypeOK
<1>1. Init => TypeOK
  BY InitTyped
<1>2. TypeOK /\ [Next]_vars => TypeOK'
  BY TypeStep
<1> QED BY <1>1, <1>2, PTL DEF Spec

-----------------------------------------------------------------------------
(* No lamp is lit that is not saved, as long as the settings stay.           *)

\* The lamps a take lights, under the settings it took.
ToLight == IF use.scene THEN Lamps ELSE IF use.target = "group" THEN Room ELSE Marked

SameSettings == pc \in {"look", "light"} => use = cfg

SavedBeforeLit == pc = "light" /\ use.restore # "scene" => DOMAIN saved = ToLight

SaveIInv == TypeOK /\ SameSettings /\ SavedBeforeLit

LEMMA InitSaves == Init => SaveIInv
BY InitTyped DEF Init, SaveIInv, SameSettings, SavedBeforeLit

LEMMA SaveStep ==
  ASSUME ~Edits, SaveIInv, [Next]_vars
  PROVE  SaveIInv'
<1>1. TypeOK /\ TypeOK'
  BY TypeStep DEF SaveIInv
<1> USE <1>1 DEF SaveIInv, SameSettings, SavedBeforeLit, ToLight
<1>2. CASE TakeOn
  BY <1>2 DEF TakeOn, Idle, NeedSnapshot
<1>3. CASE Look
  <2>1. use = cfg
    BY <1>3 DEF Look
  <2>2. lights' \in [Lamps -> Values] /\ Ids \subseteq Lamps
    BY <1>3, HueAssumption DEF TypeOK, Ids
  <2>3. DOMAIN saved' = Ids
    BY <1>3, <2>2, RestrictIsSnapshot DEF Look
  <2>4. Ids = ToLight
    BY <2>1 DEF Ids
  <2> QED BY <1>3, <2>1, <2>3, <2>4 DEF Look
<1>4. CASE LightSlot \/ Poll \/ Outside \/ Breaking \/ RecordingStarted \/ RecordingStopped
  BY <1>4 DEF LightSlot, Poll, Outside, Breaking, RecordingStarted, RecordingStopped,
              request, worker
<1>5. CASE SetRecLight \/ TakeNothing \/ LightAtOnce \/ SlotsLit \/ TakeOff \/ Recall
           \/ PutBack \/ AllBack
  BY <1>5 DEF SetRecLight, TakeNothing, LightAtOnce, SlotsLit, TakeOff, Recall, PutBack,
              AllBack, Idle, worker
<1>6. CASE UNCHANGED vars
  BY <1>6 DEF vars, worker
<1> QED BY <1>2, <1>3, <1>4, <1>5, <1>6 DEF Next, Worker

\* A lamp that turns red while the worker lights a take is one of those to light.
LEMMA LitAreToLight ==
  ASSUME SaveIInv, [Next]_vars, pc = "light",
         NEW l \in Lamps, lamp'[l] = Red, lamp[l] # Red
  PROVE  l \in ToLight
<1> USE DEF SaveIInv, SameSettings
<1>1. CASE LightAtOnce
  <2>1. l \in IF use.scene THEN InScene ELSE Room
    BY <1>1 DEF LightAtOnce, Write, TypeOK
  <2> QED BY <1>1, <2>1, HueAssumption DEF LightAtOnce, ToLight
<1>2. CASE LightSlot
  <2>1. PICK k \in left : Write({k}, AllRed)
    BY <1>2 DEF LightSlot
  <2>2. l = k
    BY <2>1 DEF Write, TypeOK
  <2>3. ~use.scene /\ use.target = "slots" /\ left \subseteq Marked
    BY <2>1 DEF TypeOK
  <2> QED BY <2>1, <2>2, <2>3 DEF ToLight
<1>3. CASE Outside
  <2>1. PICK k \in Lamps, v \in OwnValues : lamp' = [lamp EXCEPT ![k] = v]
    BY <1>3 DEF Outside
  <2>2. v # Red
    BY HueAssumption DEF Red
  <2> QED BY <2>1, <2>2 DEF TypeOK
<1>4. CASE \/ RecordingStarted \/ RecordingStopped \/ SetRecLight \/ SlotsLit \/ Poll
           \/ Breaking \/ UNCHANGED vars
  BY <1>4 DEF RecordingStarted, RecordingStopped, SetRecLight, SlotsLit, Poll, Breaking, vars
<1>5. CASE \/ TakeNothing \/ TakeOn \/ Look \/ TakeOff \/ Recall \/ PutBack \/ AllBack
  BY <1>5 DEF TakeNothing, TakeOn, Look, TakeOff, Recall, PutBack, AllBack, Idle
<1> QED BY <1>1, <1>2, <1>3, <1>4, <1>5 DEF Next, Worker

\* applyRecLight: while the settings stay as they are, no lamp is made red that the
\* snapshot misses, unless a scene is to restore it; with takes in haste and a
\* bridge that goes away, too.
THEOREM OnlySavedLampsAreLit == ~Edits => (Spec => RedOnlyIfSaved)
<1> SUFFICES ASSUME ~Edits PROVE Spec => RedOnlyIfSaved
  OBVIOUS
<1>1. Init => SaveIInv
  BY InitSaves
<1>2. SaveIInv /\ [Next]_vars => SaveIInv'
  BY SaveStep
<1>3. SaveIInv /\ [Next]_vars
        => [\A l \in Lamps : pc = "light" /\ lamp'[l] = Red /\ lamp[l] # Red
                               => l \in DOMAIN saved \/ use.restore = "scene"]_vars
  BY LitAreToLight DEF SaveIInv, SavedBeforeLit
<1> QED BY <1>1, <1>2, <1>3, PTL DEF Spec, RedOnlyIfSaved

-----------------------------------------------------------------------------
(* The room comes back, as long as the settings stay, the bridge answers and  *)
(* no take starts before the worker took the end of the last.                 *)

Calm == ~Rushes /\ ~Breaks /\ ~Edits

\* The lamp is seen as it was, or was set.
Clean(l) == Seen(lamp[l]) = Seen(own[l])
AllClean == \A l \in Lamps : Clean(l)

\* The worker knows of no take that its end must follow.
Over == recReq = "on" \/ (~recHeld /\ recReq = "none")

EdgeIsLast == (recReq = "off" => ~recHeld) /\ (recReq = "on" => recHeld)

NothingKeptWhenOver == Over => saved = Nothing /\ pc \notin {"look", "light"}

\* What the worker kept of a lamp nobody has touched since is what it showed.
KeepsOwn(s) == \A l \in DOMAIN s \ touched : Seen(s[l]) = Seen(own[l])

\* The snapshot has every lamp the take has changed.
BySnapshot ==
  cfg.restore # "scene" =>
    /\ pc # "recall"
    /\ pc = "look" => AllClean
    /\ \A l \in Lamps : Clean(l) \/ AtStake(l)
    /\ KeepsOwn(saved) /\ KeepsOwn(todo)

ByScene ==
  cfg.restore = "scene" =>
    /\ saved = Nothing /\ pc \notin {"look", "back"}
    /\ Over /\ pc = "idle" => AllClean

SwitchedOff == ~cfg.enabled => pc = "idle" /\ saved = Nothing /\ AllClean

RoomIInv ==
  /\ SaveIInv /\ reachable
  /\ EdgeIsLast /\ NothingKeptWhenOver /\ BySnapshot /\ ByScene /\ SwitchedOff

LEMMA InitRoom == Init => RoomIInv
BY InitSaves, NothingIsSnapshot
   DEF Init, RoomIInv, EdgeIsLast, NothingKeptWhenOver, BySnapshot, ByScene, SwitchedOff,
       AllClean, Clean, KeepsOwn, Over

\* Nothing is at stake and nothing differs when the worker takes the start of a take.
LEMMA CleanWhenTaken ==
  ASSUME RoomIInv, Over, pc = "idle"
  PROVE  AllClean /\ saved = Nothing /\ todo = Nothing
<1>1. saved = Nothing /\ todo = Nothing
  BY DEF RoomIInv, SaveIInv, TypeOK, NothingKeptWhenOver
<1>2. \A l \in Lamps : ~AtStake(l)
  BY <1>1, NothingIsSnapshot DEF AtStake
<1> QED BY <1>1, <1>2 DEF RoomIInv, BySnapshot, ByScene, AllClean

\* A lamp written back is seen as it was read.
LEMMA WrittenBackIsSeen ==
  ASSUME NEW s \in Values, NEW v \in Values
  PROVE  Seen(WrittenBack(s, v)) = Seen(s)
BY DEF Seen, WrittenBack, Values, Looks

\* Lighting touches only what the snapshot has.
LEMMA LightingKeepsRoom ==
  ASSUME Calm, RoomIInv, LightAtOnce \/ LightSlot
  PROVE  RoomIInv'
<1> USE DEF Calm, RoomIInv
<1>1. SaveIInv'
  BY SaveStep DEF Next, Worker
<1>2. /\ UNCHANGED <<recHeld, recReq, cfg, reachable, saved, todo, own, touched>>
      /\ pc = "light" /\ pc' \in {"light", "idle"}
  BY DEF LightAtOnce, LightSlot, request
<1>3. ~Over /\ ~Over' /\ cfg.enabled
  BY <1>2 DEF NothingKeptWhenOver, SwitchedOff, Over
<1>4. use = cfg
  BY <1>2 DEF SaveIInv, SameSettings
<1>5. ASSUME NEW l \in Lamps, lamp'[l] # lamp[l]
      PROVE  l \in ToLight
  <2>1. CASE LightAtOnce
    BY <1>5, <2>1, HueAssumption DEF LightAtOnce, Write, ToLight, SaveIInv, TypeOK
  <2>2. CASE LightSlot
    <3>1. PICK k \in left : Write({k}, AllRed)
      BY <2>2 DEF LightSlot
    <3>2. l = k
      BY <1>5, <3>1 DEF Write, SaveIInv, TypeOK
    <3>3. ~use.scene /\ use.target = "slots" /\ left \subseteq Marked
      BY <3>1 DEF SaveIInv, TypeOK
    <3> QED BY <3>1, <3>2, <3>3 DEF ToLight
  <2> QED BY <2>1, <2>2
<1>6. cfg.restore # "scene" => \A l \in Lamps : Clean(l)' \/ AtStake(l)'
  <2> SUFFICES ASSUME cfg.restore # "scene", NEW l \in Lamps
               PROVE  Clean(l)' \/ AtStake(l)'
    OBVIOUS
  <2>1. CASE lamp'[l] = lamp[l]
    BY <1>2, <2>1 DEF BySnapshot, Clean, AtStake
  <2>2. CASE lamp'[l] # lamp[l]
    BY <1>2, <1>4, <1>5, <2>2 DEF SaveIInv, SavedBeforeLit, AtStake
  <2> QED BY <2>1, <2>2
<1>7. BySnapshot'
  BY <1>2, <1>6 DEF BySnapshot, KeepsOwn
<1>8. ByScene' /\ SwitchedOff' /\ NothingKeptWhenOver' /\ EdgeIsLast'
  BY <1>2, <1>3 DEF ByScene, SwitchedOff, NothingKeptWhenOver, EdgeIsLast
<1> QED BY <1>1, <1>2, <1>7, <1>8

\* Somebody who sets a lamp is who the lamp belongs to from then on.
LEMMA OutsideKeepsRoom ==
  ASSUME Calm, RoomIInv, Outside
  PROVE  RoomIInv'
<1> USE DEF Calm, RoomIInv
<1>1. SaveIInv'
  BY SaveStep DEF Next
<1>2. PICK l \in Lamps, v \in OwnValues :
        /\ lamp' = [lamp EXCEPT ![l] = v] /\ own' = [own EXCEPT ![l] = v]
        /\ touched' = IF AtStake(l) THEN touched \cup {l} ELSE touched
        /\ UNCHANGED <<recHeld, recReq, cfg, saved, reachable, pc, todo>>
  BY DEF Outside, request, worker
<1>3. \A k \in Lamps : Clean(k) => Clean(k)'
  BY <1>2 DEF Clean, SaveIInv, TypeOK
<1>4. ASSUME NEW s, DOMAIN s \subseteq DOMAIN saved \cup DOMAIN todo, KeepsOwn(s)
      PROVE  \A k \in DOMAIN s \ touched' : Seen(s[k]) = Seen(own'[k])
  BY <1>2, <1>4 DEF KeepsOwn, AtStake, SaveIInv, TypeOK
<1>5. cfg.restore # "scene" => KeepsOwn(saved)' /\ KeepsOwn(todo)'
  BY <1>2, <1>4 DEF BySnapshot, KeepsOwn
<1>6. BySnapshot'
  BY <1>2, <1>3, <1>5 DEF BySnapshot, AllClean, AtStake
<1>7. ByScene' /\ SwitchedOff'
  BY <1>2, <1>3 DEF ByScene, SwitchedOff, AllClean, Over
<1>8. NothingKeptWhenOver' /\ EdgeIsLast'
  BY <1>2 DEF NothingKeptWhenOver, EdgeIsLast, Over
<1> QED BY <1>1, <1>2, <1>6, <1>7, <1>8

\* One lamp is written back: it is seen as it was read, or stays as it was set.
LEMMA PuttingBackKeepsRoom ==
  ASSUME Calm, RoomIInv, PutBack
  PROVE  RoomIInv'
<1> USE DEF Calm, RoomIInv
<1>1. SaveIInv'
  BY SaveStep DEF Next, Worker
<1>2. PICK l \in DOMAIN todo :
        /\ todo' = Restrict(todo, DOMAIN todo \ {l})
        /\ Write({l}, [k \in {l} |-> WrittenBack(todo[l], lamp[l])])
        /\ own' = IF l \in touched THEN [own EXCEPT ![l] = lamp'[l]] ELSE own
        /\ touched' = touched \ {l}
  BY DEF PutBack
<1>3. UNCHANGED <<recHeld, recReq, cfg, saved, reachable, pc>> /\ pc = "back"
  BY DEF PutBack, request
<1>4. cfg.restore # "scene" /\ cfg.enabled
  BY <1>3 DEF ByScene, SwitchedOff
<1>5. l \in Lamps /\ todo[l] \in Values /\ lamp[l] \in Values
  BY SnapshotIsReading DEF SaveIInv, TypeOK
<1>6. saved = Nothing /\ DOMAIN saved = {}
  BY <1>2, NothingIsSnapshot DEF SaveIInv, TypeOK
<1>7. lamp' = [lamp EXCEPT ![l] = WrittenBack(todo[l], lamp[l])]
  BY <1>2 DEF Write, SaveIInv, TypeOK
<1>8. DOMAIN todo' = DOMAIN todo \ {l} /\ \A k \in DOMAIN todo' : todo'[k] = todo[k]
  BY <1>2 DEF Restrict
<1>9. Clean(l)'
  <2>1. CASE l \in touched
    BY <1>2, <1>5, <2>1 DEF Clean, SaveIInv, TypeOK
  <2>2. CASE l \notin touched
    <3>1. Seen(lamp'[l]) = Seen(todo[l])
      BY <1>5, <1>7, WrittenBackIsSeen DEF SaveIInv, TypeOK
    <3>2. Seen(todo[l]) = Seen(own[l])
      BY <1>4, <2>2 DEF BySnapshot, KeepsOwn
    <3> QED BY <1>2, <2>2, <3>1, <3>2 DEF Clean
  <2> QED BY <2>1, <2>2
<1>10. \A k \in Lamps \ {l} : lamp'[k] = lamp[k] /\ own'[k] = own[k]
  BY <1>2, <1>7 DEF SaveIInv, TypeOK
<1>11. \A k \in Lamps : Clean(k)' \/ AtStake(k)'
  <2> TAKE k \in Lamps
  <2>1. CASE k = l
    BY <1>9, <2>1
  <2>2. CASE k # l
    <3>1. Clean(k) \/ AtStake(k)
      BY <1>4 DEF BySnapshot
    <3>2. Clean(k) => Clean(k)'
      BY <1>10, <2>2 DEF Clean
    <3>3. AtStake(k) => AtStake(k)'
      BY <1>3, <1>8, <2>2 DEF AtStake
    <3> QED BY <3>1, <3>2, <3>3
  <2> QED BY <2>1, <2>2
<1>12. KeepsOwn(saved)'
  BY <1>3, <1>6 DEF KeepsOwn
<1>13. KeepsOwn(todo)'
  <2>1. ASSUME NEW k \in DOMAIN todo' \ touched'
        PROVE  Seen(todo'[k]) = Seen(own'[k])
    <3>1. k \in DOMAIN todo \ touched /\ k # l /\ k \in Lamps
      BY <1>2, <1>8, SnapshotIsReading DEF SaveIInv, TypeOK
    <3>2. Seen(todo[k]) = Seen(own[k])
      BY <1>4, <3>1 DEF BySnapshot, KeepsOwn
    <3> QED BY <1>8, <1>10, <3>1, <3>2
  <2> QED BY <2>1 DEF KeepsOwn
<1>14. BySnapshot' /\ ByScene' /\ SwitchedOff'
  BY <1>3, <1>4, <1>11, <1>12, <1>13 DEF BySnapshot, ByScene, SwitchedOff
<1>15. NothingKeptWhenOver' /\ EdgeIsLast'
  BY <1>3 DEF NothingKeptWhenOver, EdgeIsLast, Over
<1> QED BY <1>1, <1>3, <1>14, <1>15

\* The reading before the red, and the taking of both edges.
LEMMA EdgesKeepRoom ==
  ASSUME Calm, RoomIInv, TakeOn \/ Look \/ TakeOff \/ Recall
  PROVE  RoomIInv'
<1> USE DEF Calm, RoomIInv
<1>1. SaveIInv'
  BY SaveStep DEF Next, Worker
<1>2. CASE TakeOn
  <2>1. /\ recReq = "on" /\ recReq' = "none" /\ recHeld' = recHeld /\ pc = "idle"
        /\ cfg.enabled
        /\ UNCHANGED <<cfg, reachable, lamp, own, touched, todo>>
    BY <1>2 DEF TakeOn, Idle
  <2>2. AllClean /\ saved = Nothing /\ todo = Nothing /\ recHeld
    BY <2>1, CleanWhenTaken DEF Over, EdgeIsLast
  <2>3. saved' = Nothing /\ pc' \in {"look", "light"} /\ (cfg.restore = "scene" => pc' = "light")
    BY <1>2, <2>2 DEF TakeOn, NeedSnapshot
  <2>4. AllClean'
    BY <2>1, <2>2 DEF AllClean, Clean
  <2>5. KeepsOwn(saved)' /\ KeepsOwn(todo)'
    BY <2>1, <2>2, <2>3, NothingIsSnapshot DEF KeepsOwn
  <2>6. BySnapshot' /\ ByScene' /\ SwitchedOff'
    BY <2>1, <2>2, <2>3, <2>4, <2>5 DEF BySnapshot, ByScene, SwitchedOff, AllClean, Over
  <2>7. NothingKeptWhenOver' /\ EdgeIsLast'
    BY <2>1, <2>2, <2>3 DEF NothingKeptWhenOver, EdgeIsLast, Over
  <2> QED BY <1>1, <2>1, <2>6, <2>7
<1>3. CASE Look
  <2>1. /\ pc = "look" /\ pc' = "light" /\ saved' = Restrict(lights', Ids) /\ lights' = lamp
        /\ UNCHANGED <<recHeld, recReq, cfg, reachable, lamp, own, touched, todo>>
    BY <1>3 DEF Look, request
  <2>2. ~Over /\ cfg.enabled /\ cfg.restore # "scene" /\ todo = Nothing
    BY <2>1 DEF NothingKeptWhenOver, SwitchedOff, ByScene, SaveIInv, TypeOK
  <2>3. AllClean /\ AllClean'
    BY <2>1, <2>2 DEF BySnapshot, AllClean, Clean
  <2>4. DOMAIN saved' \subseteq Lamps /\ \A l \in DOMAIN saved' : saved'[l] = lamp[l]
    BY <2>1, HueAssumption DEF Ids, Restrict
  <2>5. KeepsOwn(saved)' /\ KeepsOwn(todo)'
    BY <2>1, <2>2, <2>3, <2>4, NothingIsSnapshot DEF KeepsOwn, AllClean, Clean
  <2>6. BySnapshot' /\ ByScene' /\ SwitchedOff'
    BY <2>1, <2>2, <2>3, <2>5 DEF BySnapshot, ByScene, SwitchedOff, AllClean
  <2>7. NothingKeptWhenOver' /\ EdgeIsLast'
    BY <2>1, <2>2 DEF NothingKeptWhenOver, EdgeIsLast, Over
  <2> QED BY <1>1, <2>1, <2>6, <2>7
<1>4. CASE TakeOff
  <2>1. /\ recReq = "off" /\ recReq' = "none" /\ recHeld' = recHeld /\ pc = "idle"
        /\ cfg.enabled
        /\ UNCHANGED <<cfg, reachable, lamp, own, touched>>
    BY <1>4 DEF TakeOff, Idle
  <2>2. todo = Nothing /\ ~recHeld
    BY <2>1 DEF EdgeIsLast, SaveIInv, TypeOK
  <2>3. CASE cfg.restore = "scene"
    <3>1. pc' = "recall" /\ saved' = Nothing
      BY <1>4, <2>3 DEF TakeOff, ByScene
    <3>2. BySnapshot' /\ ByScene' /\ SwitchedOff'
      BY <2>1, <2>3, <3>1 DEF BySnapshot, ByScene, SwitchedOff
    <3> QED BY <1>1, <2>1, <2>2, <3>1, <3>2 DEF NothingKeptWhenOver, EdgeIsLast, Over
  <2>4. CASE cfg.restore # "scene"
    <3>1. pc' = "back" /\ todo' = saved /\ saved' = Nothing
      BY <1>4, <2>4 DEF TakeOff
    <3>2. \A l \in Lamps : Clean(l)' \/ AtStake(l)'
      BY <2>1, <2>2, <2>4, <3>1, NothingIsSnapshot DEF BySnapshot, Clean, AtStake
    <3>3. KeepsOwn(saved)' /\ KeepsOwn(todo)'
      BY <2>1, <2>4, <3>1, NothingIsSnapshot DEF BySnapshot, KeepsOwn
    <3>4. BySnapshot' /\ ByScene' /\ SwitchedOff'
      BY <2>1, <2>4, <3>1, <3>2, <3>3 DEF BySnapshot, ByScene, SwitchedOff
    <3> QED BY <1>1, <2>1, <2>2, <3>1, <3>4 DEF NothingKeptWhenOver, EdgeIsLast, Over
  <2> QED BY <2>3, <2>4
<1>5. CASE Recall
  <2>1. /\ pc = "recall" /\ pc' = "idle" /\ saved' = Nothing /\ own' = lamp'
        /\ UNCHANGED <<recHeld, recReq, cfg, reachable, todo>>
    BY <1>5 DEF Recall, request
  <2>2. cfg.restore = "scene" /\ cfg.enabled
    BY <2>1 DEF BySnapshot, SwitchedOff
  <2>3. AllClean'
    BY <2>1 DEF AllClean, Clean
  <2>4. BySnapshot' /\ ByScene' /\ SwitchedOff'
    BY <2>1, <2>2, <2>3 DEF BySnapshot, ByScene, SwitchedOff
  <2> QED BY <1>1, <2>1, <2>4 DEF NothingKeptWhenOver, EdgeIsLast, Over
<1> QED BY <1>2, <1>3, <1>4, <1>5

\* The rest of the steps.
LEMMA QuietStepsKeepRoom ==
  ASSUME Calm, RoomIInv,
         \/ RecordingStarted \/ RecordingStopped \/ SetRecLight \/ TakeNothing \/ SlotsLit
         \/ AllBack \/ Poll \/ Breaking \/ UNCHANGED vars
  PROVE  RoomIInv'
<1> USE DEF Calm, RoomIInv
<1>1. SaveIInv'
  BY SaveStep DEF Next, Worker
<1>2. UNCHANGED <<cfg, reachable, saved, todo, lamp, own, touched>>
  BY DEF RecordingStarted, RecordingStopped, SetRecLight, TakeNothing, SlotsLit, AllBack,
         Poll, Breaking, vars, request, worker, Idle
<1>3. /\ KeepsOwn(saved) <=> KeepsOwn(saved)'
      /\ KeepsOwn(todo) <=> KeepsOwn(todo)'
      /\ \A l \in Lamps : (Clean(l) <=> Clean(l)') /\ (AtStake(l) <=> AtStake(l)')
      /\ AllClean <=> AllClean'
  BY <1>2 DEF KeepsOwn, Clean, AtStake, AllClean
<1>4. CASE RecordingStarted
  <2>1. ~recHeld /\ recReq = "none" /\ recHeld' /\ recReq' = "on" /\ pc' = pc
    BY <1>4 DEF RecordingStarted, worker
  <2> QED BY <1>1, <1>2, <1>3, <2>1
          DEF BySnapshot, ByScene, SwitchedOff, NothingKeptWhenOver, EdgeIsLast, Over
<1>5. CASE RecordingStopped
  <2>1. recHeld /\ ~recHeld' /\ recReq' = "off" /\ pc' = pc
    BY <1>5 DEF RecordingStopped, worker
  <2> QED BY <1>1, <1>2, <1>3, <2>1
          DEF BySnapshot, ByScene, SwitchedOff, NothingKeptWhenOver, EdgeIsLast, Over
<1>6. CASE TakeNothing
  <2>1. recHeld' = recHeld /\ recReq' = "none" /\ pc' = pc /\ ~cfg.enabled
    BY <1>6 DEF TakeNothing, Idle, worker
  <2> QED BY <1>1, <1>2, <1>3, <2>1
          DEF BySnapshot, ByScene, SwitchedOff, NothingKeptWhenOver, EdgeIsLast
<1>7. CASE SlotsLit
  <2>1. UNCHANGED <<recHeld, recReq>> /\ pc = "light" /\ pc' = "idle"
    BY <1>7 DEF SlotsLit, request
  <2> QED BY <1>1, <1>2, <1>3, <2>1
          DEF BySnapshot, ByScene, SwitchedOff, NothingKeptWhenOver, EdgeIsLast, Over
<1>8. CASE AllBack
  <2>1. UNCHANGED <<recHeld, recReq>> /\ pc = "back" /\ pc' = "idle"
    BY <1>8 DEF AllBack, request
  <2> QED BY <1>1, <1>2, <1>3, <2>1
          DEF BySnapshot, ByScene, SwitchedOff, NothingKeptWhenOver, EdgeIsLast, Over
<1>9. CASE Poll \/ UNCHANGED vars
  <2>1. UNCHANGED <<recHeld, recReq, pc>>
    BY <1>9 DEF Poll, vars, request, worker
  <2> QED BY <1>1, <1>2, <1>3, <2>1
          DEF BySnapshot, ByScene, SwitchedOff, NothingKeptWhenOver, EdgeIsLast, Over
<1> QED BY <1>4, <1>5, <1>6, <1>7, <1>8, <1>9 DEF SetRecLight, Breaking

\* With nothing under way every lamp is clean.
LEMMA NextRoom == Calm /\ RoomIInv /\ [Next]_vars => RoomIInv'
  BY LightingKeepsRoom, OutsideKeepsRoom, PuttingBackKeepsRoom, EdgesKeepRoom,
     QuietStepsKeepRoom DEF Next, Worker

LEMMA RoomIsBack == RoomIInv => LampsComeBack
BY CleanWhenTaken DEF LampsComeBack, Quiet, Over, AllClean, Clean

\* applyRecLight: after a take every lamp is seen as it was before it, or as somebody
\* set it meanwhile, whatever room, scene, slots and way to restore are chosen, if
\* the settings stay, the bridge answers and the worker takes every edge in time.
THEOREM RoomComesBackWhenCalm == Calm => (Spec => []LampsComeBack)
<1> SUFFICES ASSUME Calm PROVE Spec => []LampsComeBack
  OBVIOUS
<1>1. Init => RoomIInv
  BY InitRoom
<1>2. RoomIInv /\ [Next]_vars => RoomIInv'
  BY NextRoom
<1>3. RoomIInv => LampsComeBack
  BY RoomIsBack
<1> QED BY <1>1, <1>2, <1>3, PTL DEF Spec

-----------------------------------------------------------------------------
(* A strip that stands for a lamp.                                          *)

\* An edit still has its way to the lamp before it.
Waiting == dirty \/ marking \/ slotWorker \in {"note", "push"}

\* No edit crossed an adoption, and no stale reading was adopted.
Unspoilt == spoilt \subseteq {"dark"}

\* An adoption that starts with a clean slot ends with one.
ClearOfEdits == Unspoilt /\ slotWorker = "adopt" => ~dirty /\ ~marking

\* The slot is as the last edit left it; the lamp shows it.
SlotIsAsked ==
  CASE asked.part = "on" -> slot.on = asked.val
    [] asked.part = "bri" -> slot.on /\ slot.bri = asked.val
    [] asked.part = "hue" -> slot.hue = asked.val

LampIsAsked ==
  CASE asked.part = "on" -> slotLamp.on = asked.val
    [] asked.part = "bri" -> slotLamp.on /\ slotLamp.bri = asked.val
    [] asked.part = "hue" -> ~slotLamp.on \/ slotLamp.xy = Clamp[ToXy[asked.val]]

\* On its way the last edit is in the slot: no reading was taken over meanwhile.
SlotHasEdit == asked # Slot!Nothing /\ Unspoilt /\ Waiting => SlotIsAsked

\* Arrived it is on the lamp.
LampHasEdit == asked # Slot!Nothing /\ spoilt = {} /\ ~Waiting => LampIsAsked

\* What the worker noted is what it sends, unless an edit came between.
Noted ==
  slotWorker = "push" /\ ~dirty /\ ~marking =>
    sentBri = (IF slot.on THEN slot.bri ELSE Slot!Dark) /\ sentXy = ToXy[slot.hue]

\* What the slot, the last write and the last reading know of a lamp that nobody
\* else has moved since.
InSync ==
  ~moved /\ spoilt = {} /\ ~Waiting =>
    /\ slotLamp.xy \in {sentXy, Clamp[sentXy]} /\ sentBri \in {Slot!Dark, slotLamp.bri}
    /\ slot.on = slotLamp.on /\ slot.bri = slotLamp.bri
    /\ slotWorker \in {"check", "adopt"} /\ online => seen = slotLamp

SlotIInv ==
  /\ Slot!TypeOK /\ ClearOfEdits /\ SlotHasEdit /\ LampHasEdit /\ Noted /\ InSync

LEMMA InitSlot == Slot!Init => SlotIInv
<1> SUFFICES ASSUME Slot!Init PROVE SlotIInv
  OBVIOUS
<1>1. slotLamp \in Slot!Lights
  BY DEF Slot!Init, Slot!Shown
<1>2. slotLamp.on \in BOOLEAN /\ slotLamp.bri \in Levels /\ slotLamp.xy \in Points
  BY <1>1 DEF Slot!Lights
<1>3. FromXy[slotLamp.xy] \in Hues
  BY <1>2, SlotAssumption DEF Slot!HueSlotAssumption
<1>4. slot \in Slot!Lives /\ slot.on = slotLamp.on /\ slot.bri = slotLamp.bri
  BY <1>2, <1>3 DEF Slot!Init, Slot!Lives
<1>5. 0 \in 0..MaxEdit /\ 0 \in 0..MaxStir
  BY SlotAssumption DEF Slot!HueSlotAssumption
<1>6. Slot!TypeOK
  BY <1>1, <1>2, <1>4, <1>5 DEF Slot!Init, Slot!TypeOK
<1> QED
  BY <1>4, <1>6
  DEF Slot!Init, SlotIInv, ClearOfEdits, SlotHasEdit, LampHasEdit, Noted, InSync, Waiting

\* The input threads store a value and mark the slot.
LEMMA EditKeepsSlot ==
  ASSUME SlotIInv, Slot!SetFader \/ Slot!SetOn \/ Slot!NudgePot \/ Slot!MarkDirty
  PROVE  SlotIInv'
<1> USE DEF SlotIInv
<1>1. ASSUME NEW new \in Slot!Lives, NEW what, Slot!Edit(new, what),
             what \in [part : {"on"}, val : BOOLEAN] \cup [part : {"bri"}, val : Levels]
                        \cup [part : {"hue"}, val : Hues],
             CASE what.part = "on" -> new.on = what.val
               [] what.part = "bri" -> new.on /\ new.bri = what.val
               [] what.part = "hue" -> new.hue = what.val
      PROVE  SlotIInv'
  <2>1. /\ slot' = new /\ asked' = what /\ marking' = TRUE /\ edits' = edits + 1
        /\ edits < MaxEdit
        /\ spoilt' = IF slotWorker = "adopt" THEN spoilt \cup {"crossed"} ELSE spoilt
        /\ UNCHANGED <<dirty, slotWorker, sentBri, sentXy, seen, online, slotLamp, stirs, moved>>
    BY <1>1 DEF Slot!Edit
  <2>2. edits' \in 0..MaxEdit
    BY <2>1, SlotAssumption DEF Slot!HueSlotAssumption, Slot!TypeOK
  <2>3. Slot!TypeOK'
    <3>1. spoilt' \subseteq {"crossed", "stale", "dark"}
      BY <2>1 DEF Slot!TypeOK
    <3> QED BY <1>1, <2>1, <2>2, <3>1 DEF Slot!TypeOK
  <2>4. ClearOfEdits'
    BY <2>1 DEF ClearOfEdits, Unspoilt
  <2>5. SlotHasEdit'
    BY <1>1, <2>1 DEF SlotHasEdit, SlotIsAsked
  <2> QED
    BY <2>1, <2>3, <2>4, <2>5 DEF LampHasEdit, LampIsAsked, Noted, InSync, Waiting
<1>2. slot \in Slot!Lives
  BY DEF Slot!TypeOK
<1>3. CASE Slot!SetFader
  <2>1. PICK b \in Levels :
          Slot!Edit([slot EXCEPT !.on = TRUE, !.bri = b], [part |-> "bri", val |-> b])
    BY <1>3 DEF Slot!SetFader
  <2>2. [slot EXCEPT !.on = TRUE, !.bri = b] \in Slot!Lives
    BY <1>2 DEF Slot!Lives
  <2> DEFINE new == [slot EXCEPT !.on = TRUE, !.bri = b]
  <2>3. new.on = TRUE /\ new.bri = b
    BY <1>2 DEF Slot!Lives
  <2> HIDE DEF new
  <2>4. Slot!Edit(new, [part |-> "bri", val |-> b]) /\ new \in Slot!Lives
    BY <2>1, <2>2 DEF new
  <2> QED BY <1>1, <2>3, <2>4
<1>4. CASE Slot!SetOn
  <2>1. PICK b \in BOOLEAN : b = ~slot.on
    OBVIOUS
  <2> DEFINE new == [slot EXCEPT !.on = b]
  <2>2. Slot!Edit(new, [part |-> "on", val |-> b])
    BY <1>4, <2>1 DEF Slot!SetOn
  <2>3. new \in Slot!Lives /\ new.on = b
    BY <1>2 DEF Slot!Lives
  <2> HIDE DEF new
  <2> QED BY <1>1, <2>2, <2>3
<1>5. CASE Slot!NudgePot
  <2>1. PICK h \in Hues : Slot!Edit([slot EXCEPT !.hue = h], [part |-> "hue", val |-> h])
    BY <1>5 DEF Slot!NudgePot
  <2> DEFINE new == [slot EXCEPT !.hue = h]
  <2>2. new \in Slot!Lives /\ new.hue = h
    BY <1>2 DEF Slot!Lives
  <2>3. Slot!Edit(new, [part |-> "hue", val |-> h])
    BY <2>1
  <2> HIDE DEF new
  <2> QED BY <1>1, <2>2, <2>3
<1>6. CASE Slot!MarkDirty
  <2>1. /\ marking /\ marking' = FALSE /\ dirty' = TRUE
        /\ UNCHANGED <<slot, slotWorker, sentBri, sentXy, seen, online, slotLamp, edits, stirs,
                       asked, moved, spoilt>>
    BY <1>6 DEF Slot!MarkDirty
  <2> QED
    BY <2>1
    DEF Slot!TypeOK, ClearOfEdits, SlotHasEdit, SlotIsAsked, LampHasEdit, LampIsAsked, Noted,
        InSync, Waiting, Unspoilt
<1> QED BY <1>3, <1>4, <1>5, <1>6

\* A write to the lamp, with what is noted before it.
LEMMA WriteKeepsSlot ==
  ASSUME SlotIInv, Slot!ClearMark \/ Slot!NoteSent \/ Slot!PushSlot
  PROVE  SlotIInv'
<1> USE DEF SlotIInv, Slot!Own
<1>1. slot.on \in BOOLEAN /\ slot.bri \in Levels /\ slot.hue \in Hues /\ ToXy[slot.hue] \in Points
      /\ Clamp[ToXy[slot.hue]] \in Points
  BY SlotAssumption DEF Slot!TypeOK, Slot!Lives, Slot!HueSlotAssumption
<1>2. CASE Slot!ClearMark
  BY <1>2
  DEF Slot!ClearMark, Slot!TypeOK, ClearOfEdits, SlotHasEdit, SlotIsAsked, LampHasEdit,
      LampIsAsked, Noted, InSync, Waiting, Unspoilt
<1>3. CASE Slot!NoteSent
  <2>1. Slot!TypeOK'
    BY <1>1, <1>3 DEF Slot!NoteSent, Slot!TypeOK
  <2> QED
    BY <1>3, <2>1
    DEF Slot!NoteSent, ClearOfEdits, SlotHasEdit, SlotIsAsked, LampHasEdit, LampIsAsked, Noted,
        InSync, Waiting, Unspoilt
<1>4. CASE Slot!PushSlot
  <2>1. /\ slotWorker = "push" /\ slotWorker' = "idle"
        /\ UNCHANGED <<slot, dirty, marking, edits, sentBri, sentXy, seen, online>>
    BY <1>4 DEF Slot!PushSlot
  <2>2. CASE /\ slotLamp' = Slot!Written /\ UNCHANGED <<stirs, asked>>
             /\ slot.on /\ moved' = FALSE /\ spoilt' = spoilt \ {"dark"}
    <3>1. slotLamp' = [on |-> TRUE, bri |-> slot.bri, xy |-> Clamp[ToXy[slot.hue]]]
      BY <2>2 DEF Slot!Written
    <3>2. Slot!TypeOK'
      <4>1. slotLamp' \in Slot!Lights
        BY <1>1, <3>1 DEF Slot!Lights
      <4>2. moved' \in BOOLEAN /\ spoilt' \subseteq {"crossed", "stale", "dark"}
        BY <2>2 DEF Slot!TypeOK
      <4> QED BY <2>1, <2>2, <4>1, <4>2 DEF Slot!TypeOK
    <3>3. spoilt' = {} => Unspoilt
      BY <2>2 DEF Unspoilt
    <3>4. LampHasEdit'
      <4> SUFFICES ASSUME asked # Slot!Nothing, spoilt' = {} PROVE LampIsAsked'
        BY <2>2 DEF LampHasEdit
      <4>1. SlotIsAsked
        BY <2>1, <3>3 DEF SlotHasEdit, Waiting
      <4>2. asked.part \in {"on", "bri", "hue"} /\ (asked.part = "on" => asked.val \in BOOLEAN)
        BY DEF Slot!TypeOK
      <4>3. slotLamp'.on = TRUE /\ slotLamp'.bri = slot.bri
            /\ slotLamp'.xy = Clamp[ToXy[slot.hue]] /\ slot.on = TRUE
        BY <1>1, <2>2, <3>1
      <4> QED BY <2>2, <4>1, <4>2, <4>3 DEF SlotIsAsked, LampIsAsked
    <3>5. InSync'
      BY <1>1, <2>1, <2>2, <3>1 DEF InSync, Noted, Waiting
    <3>6. Unspoilt' => Unspoilt
      BY <2>2 DEF Unspoilt
    <3> QED
      BY <2>1, <2>2, <3>2, <3>4, <3>5, <3>6
      DEF ClearOfEdits, SlotHasEdit, SlotIsAsked, Noted, Waiting
  <2>3. CASE /\ slotLamp' = Slot!Written /\ UNCHANGED <<stirs, asked, moved>>
             /\ ~slot.on /\ spoilt' = spoilt \cup {"dark"}
    <3>1. slotLamp' = [slotLamp EXCEPT !.on = FALSE]
      BY <2>3 DEF Slot!Written
    <3>2. slotLamp' \in Slot!Lights
      BY <3>1 DEF Slot!TypeOK, Slot!Lights
    <3>3. Slot!TypeOK'
      BY <2>1, <2>3, <3>2 DEF Slot!TypeOK
    <3>4. spoilt' # {} /\ (Unspoilt' => Unspoilt)
      BY <2>3 DEF Unspoilt
    <3> QED
      BY <2>1, <2>3, <3>3, <3>4
      DEF ClearOfEdits, SlotHasEdit, SlotIsAsked, LampHasEdit, LampIsAsked, Noted, InSync, Waiting
  <2>4. CASE /\ stirs < MaxStir /\ stirs' = stirs + 1
             /\ moved' = TRUE /\ asked' = Slot!Nothing /\ UNCHANGED <<slotLamp, spoilt>>
    <3>1. stirs' \in 0..MaxStir
      BY <2>4, SlotAssumption DEF Slot!HueSlotAssumption, Slot!TypeOK
    <3>2. Slot!TypeOK'
      BY <2>1, <2>4, <3>1 DEF Slot!TypeOK
    <3> QED
      BY <2>1, <2>4, <3>2
      DEF ClearOfEdits, SlotHasEdit, SlotIsAsked, LampHasEdit, LampIsAsked, Noted, InSync, Waiting,
          Unspoilt
  <2> QED BY <1>1, <1>4, <2>2, <2>3, <2>4 DEF Slot!PushSlot
<1> QED BY <1>2, <1>3, <1>4

\* The poll of the bridge and the search for it, and what others do to the lamp.
LEMMA PollKeepsSlot ==
  ASSUME SlotIInv, Slot!Refresh \/ Slot!Verify \/ Slot!CheckDirty \/ Slot!Outside
  PROVE  SlotIInv'
<1> USE DEF SlotIInv, Slot!Own
<1>1. \A n \in 0..MaxStir : n < MaxStir => n + 1 \in 0..MaxStir
  BY SlotAssumption DEF Slot!HueSlotAssumption
<1>2. CASE Slot!Refresh
  <2>1. Slot!TypeOK'
    <3>1. seen' \in Slot!Lights /\ online' \in BOOLEAN /\ stirs' \in 0..MaxStir
      BY <1>1, <1>2 DEF Slot!Refresh, Slot!TypeOK
    <3> QED BY <1>2, <3>1 DEF Slot!Refresh, Slot!TypeOK
  <2> QED
    BY <1>2, <2>1
    DEF Slot!Refresh, ClearOfEdits, SlotHasEdit, SlotIsAsked, LampHasEdit, LampIsAsked, Noted,
        InSync, Waiting, Unspoilt
<1>3. CASE Slot!Verify
  BY <1>3
  DEF Slot!Verify, Slot!TypeOK, ClearOfEdits, SlotHasEdit, SlotIsAsked, LampHasEdit,
      LampIsAsked, Noted, InSync, Waiting, Unspoilt
<1>4. CASE Slot!CheckDirty
  <2>1. Slot!TypeOK'
    BY <1>4 DEF Slot!CheckDirty, Slot!LooksClean, Slot!TypeOK
  <2> QED
    BY <1>4, <2>1
    DEF Slot!CheckDirty, Slot!LooksClean, ClearOfEdits, SlotHasEdit, SlotIsAsked, LampHasEdit,
        LampIsAsked, Noted, InSync, Waiting, Unspoilt
<1>5. CASE Slot!Outside
  <2>1. slotLamp' \in Slot!Lights /\ stirs' \in 0..MaxStir
    BY <1>1, <1>5 DEF Slot!Outside, Slot!Shown, Slot!TypeOK
  <2>2. Slot!TypeOK'
    BY <1>5, <2>1 DEF Slot!Outside, Slot!TypeOK
  <2> QED
    BY <1>5, <2>2
    DEF Slot!Outside, ClearOfEdits, SlotHasEdit, LampHasEdit, Noted, InSync, Waiting, Unspoilt
<1> QED BY <1>2, <1>3, <1>4, <1>5

\* A reading of a lamp nobody else has moved is an echo, but for a colour that the
\* lamp cannot show.
LEMMA EchoIsNotAdopted ==
  ASSUME SlotIInv, slotWorker = "adopt", online, spoilt = {}, ~moved
  PROVE  /\ seen = slotLamp
         /\ \/ Slot!Adopted = slot /\ ~Slot!NewColour
            \/ /\ Slot!NewColour /\ seen.xy = Clamp[sentXy] /\ Clamp[sentXy] # sentXy
               /\ Slot!Adopted = [slot EXCEPT !.hue = FromXy[Clamp[sentXy]]]
<1>1. /\ slotLamp.xy \in {sentXy, Clamp[sentXy]} /\ sentBri \in {Slot!Dark, slotLamp.bri}
      /\ slot.on = slotLamp.on /\ slot.bri = slotLamp.bri /\ seen = slotLamp
  BY DEF SlotIInv, ClearOfEdits, InSync, Waiting, Unspoilt
<1>2. slot = [on |-> slot.on, bri |-> slot.bri, hue |-> slot.hue]
  BY DEF SlotIInv, Slot!TypeOK, Slot!Lives
<1>3. Slot!Adopted = [on |-> slot.on, bri |-> slot.bri,
                      hue |-> IF Slot!NewColour THEN FromXy[seen.xy] ELSE slot.hue]
  BY <1>1 DEF Slot!Adopted, Slot!NewBri
<1>4. \A h : [slot EXCEPT !.hue = h] = [on |-> slot.on, bri |-> slot.bri, hue |-> h]
  BY <1>2
<1> QED BY <1>1, <1>2, <1>3, <1>4 DEF Slot!NewColour

\* adoptFromBridge.
LEMMA AdoptKeepsSlot ==
  ASSUME SlotIInv, Slot!Adopt
  PROVE  SlotIInv'
<1> USE DEF SlotIInv, Slot!Own
<1>1. /\ slotWorker = "adopt" /\ slotWorker' = "idle"
      /\ slot' = Slot!Adopted /\ sentXy' = IF Slot!NewColour THEN seen.xy ELSE sentXy
      /\ spoilt' = IF online THEN spoilt ELSE spoilt \cup {"stale"}
      /\ UNCHANGED <<marking, edits, dirty, sentBri, seen, online, slotLamp, stirs, asked, moved>>
  BY DEF Slot!Adopt
<1>2. /\ seen.on \in BOOLEAN /\ seen.bri \in Levels /\ seen.xy \in Points
      /\ slot.on \in BOOLEAN /\ slot.bri \in Levels /\ slot.hue \in Hues
      /\ FromXy[seen.xy] \in Hues
  BY SlotAssumption DEF Slot!TypeOK, Slot!Lights, Slot!Lives, Slot!HueSlotAssumption
<1>3. Slot!Adopted \in Slot!Lives
  <2>1. /\ (IF Slot!NewBri THEN seen.on ELSE slot.on) \in BOOLEAN
        /\ (IF Slot!NewBri THEN seen.bri ELSE slot.bri) \in Levels
        /\ (IF Slot!NewColour THEN FromXy[seen.xy] ELSE slot.hue) \in Hues
    BY <1>2
  <2> QED BY <2>1 DEF Slot!Adopted, Slot!Lives
<1>4. Slot!TypeOK'
  <2>1. spoilt' \subseteq {"crossed", "stale", "dark"}
    BY <1>1 DEF Slot!TypeOK
  <2> QED BY <1>1, <1>2, <1>3, <2>1 DEF Slot!TypeOK
<1>5. Unspoilt' => Unspoilt /\ online
  BY <1>1 DEF Unspoilt
<1>6. SlotHasEdit'
  BY <1>1, <1>5 DEF SlotHasEdit, ClearOfEdits, Waiting
<1>7. LampHasEdit'
  <2>1. spoilt' = {} => spoilt = {}
    BY <1>1
  <2> QED
    BY <1>1, <2>1 DEF LampHasEdit, LampIsAsked, ClearOfEdits, Waiting, Unspoilt
<1>8. InSync'
  <2> SUFFICES ASSUME ~moved, spoilt' = {} PROVE InSync'
    BY <1>1 DEF InSync
  <2>1. spoilt = {} /\ online
    BY <1>1
  <2>2. seen = slotLamp /\ slot'.on = slot.on /\ slot'.bri = slot.bri
    BY <1>1, <2>1, EchoIsNotAdopted DEF Slot!TypeOK, Slot!Lives
  <2> QED
    BY <1>1, <2>1, <2>2 DEF InSync, ClearOfEdits, Waiting, Unspoilt
<1> QED
  BY <1>1, <1>4, <1>6, <1>7, <1>8 DEF ClearOfEdits, Noted

LEMMA NextSlot == SlotIInv /\ [Slot!Next]_(Slot!vars) => SlotIInv'
<1> SUFFICES ASSUME SlotIInv, [Slot!Next]_(Slot!vars) PROVE SlotIInv'
  OBVIOUS
<1>1. CASE UNCHANGED Slot!vars
  <2> USE <1>1 DEF Slot!vars, SlotIInv
  <2>1. Slot!TypeOK'
    BY DEF Slot!TypeOK
  <2>2. ClearOfEdits' /\ SlotHasEdit' /\ LampHasEdit'
    BY DEF ClearOfEdits, SlotHasEdit, SlotIsAsked, LampHasEdit, LampIsAsked, Waiting, Unspoilt
  <2>3. Noted' /\ InSync'
    BY DEF Noted, InSync, Waiting
  <2> QED BY <2>1, <2>2, <2>3
<1> QED
  BY <1>1, EditKeepsSlot, WriteKeepsSlot, PollKeepsSlot, AdoptKeepsSlot
  DEF Slot!Next, Slot!Worker

-----------------------------------------------------------------------------
(* The parts together.                                                      *)

\* A step of the manager moves the strip or leaves it, and in the part of the
\* recording light it is a step of that or leaves it.
LEMMA HueInitIs == HueInit => Slot!Init /\ (part = "light" => Init)
  BY DEF HueInit, SlotStill

LEMMA HueNextIs ==
  [HueNext]_huevars =>
    /\ [Slot!Next]_(Slot!vars)
    /\ UNCHANGED part /\ (part = "light" => [Next]_vars)
  BY DEF HueNext, huevars, slotvars, Slot!vars

LEMMA SlotHolds == HueSpec => []SlotIInv
<1>1. HueInit => SlotIInv
  BY HueInitIs, InitSlot
<1>2. SlotIInv /\ [HueNext]_huevars => SlotIInv'
  BY HueNextIs, NextSlot
<1> QED BY <1>1, <1>2, PTL DEF HueSpec

\* Whatever the conversions of colours do and whatever the lamp can show: an edit
\* of a strip that nothing came after is on its lamp once the slot is clean, also
\* if it came in the middle of a write (pushSlot reads the slot again, and the
\* mark was taken away before).
THEOREM LastEditIsShown == HueSpec => []LastEditWins
<1>1. SlotIInv => LastEditWins
  BY DEF SlotIInv, LampHasEdit, LampIsAsked, Waiting, LastEditWins, Slot!LastEditWins,
         Slot!AtRest
<1> QED BY <1>1, SlotHolds, PTL

\* Whatever the conversions do and whatever the lamp can show: a poll moves a strip
\* only if somebody else moved its lamp, or, after a colour the lamp cannot show,
\* to the hue of what it shows instead, and then what is taken for sent is that.
THEOREM PollsDoNotCreep == HueSpec => NoCreep
<1>1. SlotIInv /\ [HueNext]_huevars =>
        [(slotWorker = "adopt" /\ slot' # slot /\ spoilt' = {}) =>
           \/ moved
           \/ /\ Clamp[sentXy] # sentXy /\ sentXy' = Clamp[sentXy]
              /\ slot' = [slot EXCEPT !.hue = FromXy[Clamp[sentXy]]]]_(Slot!vars)
  <2> SUFFICES ASSUME SlotIInv, Slot!Next, slotWorker = "adopt", slot' # slot, spoilt' = {},
                      ~moved
               PROVE  /\ Clamp[sentXy] # sentXy /\ sentXy' = Clamp[sentXy]
                      /\ slot' = [slot EXCEPT !.hue = FromXy[Clamp[sentXy]]]
    BY HueNextIs
  <2>1. CASE Slot!Adopt
    <3>1. /\ online /\ spoilt = {} /\ slot' = Slot!Adopted
          /\ sentXy' = IF Slot!NewColour THEN seen.xy ELSE sentXy
      BY <2>1 DEF Slot!Adopt
    <3> QED BY <3>1, EchoIsNotAdopted
  <2>2. CASE Slot!SetFader \/ Slot!SetOn \/ Slot!NudgePot
    BY <2>2 DEF Slot!SetFader, Slot!SetOn, Slot!NudgePot, Slot!Edit
  <2>3. CASE Slot!MarkDirty \/ Slot!Outside
    BY <2>3 DEF Slot!MarkDirty, Slot!Outside
  <2>4. CASE \/ Slot!ClearMark \/ Slot!NoteSent \/ Slot!PushSlot \/ Slot!Refresh
             \/ Slot!Verify \/ Slot!CheckDirty
    BY <2>4 DEF Slot!ClearMark, Slot!NoteSent, Slot!PushSlot, Slot!Refresh, Slot!Verify,
                Slot!CheckDirty
  <2> QED BY <2>1, <2>2, <2>3, <2>4 DEF Slot!Next, Slot!Worker
<1> QED BY <1>1, SlotHolds, PTL DEF HueSpec, NoCreep, Slot!NoCreep

\* After a take every lamp is seen as before it, or as it was set meanwhile.
THEOREM RoomIsBackAfterTake == Calm => (HueSpec => []RoomComesBack)
<1> SUFFICES ASSUME Calm PROVE HueSpec => []RoomComesBack
  OBVIOUS
<1> DEFINE J == part = "light" => RoomIInv
<1>1. HueInit => J
  BY HueInitIs, InitRoom
<1>2. J /\ [HueNext]_huevars => J'
  BY HueNextIs, NextRoom
<1>3. J => RoomComesBack
  BY RoomIsBack DEF RoomComesBack
<1> QED BY <1>1, <1>2, <1>3, PTL DEF HueSpec

-----------------------------------------------------------------------------
(* The types of the parts beside each other.                                *)

RoughTyped == TypeOK /\ left \subseteq OneLamp

LEMMA LitIsValue == Lit \subseteq Values
<1>1. \A v \in LitOrDark : v \in Values
  <2>1. [on |-> TRUE, look |-> "white"] \in Values
    BY DEF Values, Looks
  <2>2. [on |-> FALSE, look |-> "colour"] \in Values
    BY DEF Values, Looks
  <2> QED BY <2>1, <2>2 DEF LitOrDark
<1> QED BY <1>1 DEF Lit

LEMMA RoughInit == Rough!Init => RoughTyped
<1> SUFFICES ASSUME Rough!Init PROVE RoughTyped
  OBVIOUS
<1>1. Lit \subseteq Values /\ OneTarget \subseteq ConfigType
  BY LitIsValue DEF OneTarget
<1>2. Nothing \in Snapshots
  BY NothingIsSnapshot
<1>3. Rough!Nothing = Nothing
  BY DEF Rough!Nothing, Rough!Red, Nothing, Red
<1> QED BY <1>1, <1>2, <1>3 DEF Rough!Init, TypeOK, RoughTyped

\* A step of the rough part that no constant it changes is in is one of the other.
LEMMA RoughIsStep ==
  ASSUME \/ Rough!RecordingStopped \/ Rough!TakeNothing \/ Rough!LightSlot
         \/ Rough!SlotsLit \/ Rough!TakeOff \/ Rough!Recall \/ Rough!PutBack
         \/ Rough!AllBack \/ Rough!Poll
  PROVE  Next /\ left' \subseteq left
<1> USE DEF Rough!worker, Rough!request, worker, request, Rough!Idle, Idle, Rough!Write, Write,
            Rough!Nothing, Nothing, Rough!Red, Red
<1>1. CASE Rough!RecordingStopped
  BY <1>1 DEF Rough!RecordingStopped, RecordingStopped, Next
<1>2. CASE Rough!TakeNothing
  BY <1>2 DEF Rough!TakeNothing, TakeNothing, Next, Worker
<1>3. CASE Rough!LightSlot
  BY <1>3 DEF Rough!LightSlot, LightSlot, Rough!AllRed, AllRed, Next, Worker
<1>4. CASE Rough!SlotsLit
  BY <1>4 DEF Rough!SlotsLit, SlotsLit, Next, Worker
<1>5. CASE Rough!TakeOff
  BY <1>5 DEF Rough!TakeOff, TakeOff, Next, Worker
<1>6. CASE Rough!Recall
  BY <1>6 DEF Rough!Recall, Recall, Rough!Mood, Mood, Next, Worker
<1>7. CASE Rough!PutBack
  BY <1>7 DEF Rough!PutBack, PutBack, Rough!WrittenBack, WrittenBack, Rough!Restrict,
         Restrict, Next, Worker
<1>8. CASE Rough!AllBack
  BY <1>8 DEF Rough!AllBack, AllBack, Next, Worker
<1>9. CASE Rough!Poll
  BY <1>9 DEF Rough!Poll, Poll, Next
<1> QED BY <1>1, <1>2, <1>3, <1>4, <1>5, <1>6, <1>7, <1>8, <1>9

LEMMA RoughStep == RoughTyped /\ [Rough!Next]_(Rough!vars) => RoughTyped'
<1> SUFFICES ASSUME RoughTyped, [Rough!Next]_(Rough!vars) PROVE RoughTyped'
  OBVIOUS
<1> USE HueAssumption, RoughAssumption DEF RoughTyped
<1>1. CASE \/ Rough!RecordingStopped \/ Rough!TakeNothing \/ Rough!LightSlot
           \/ Rough!SlotsLit \/ Rough!TakeOff \/ Rough!Recall \/ Rough!PutBack
           \/ Rough!AllBack \/ Rough!Poll
  BY <1>1, RoughIsStep, TypeStep
<1>2. CASE Rough!RecordingStarted
  BY <1>2 DEF Rough!RecordingStarted, TypeOK, Rough!worker
<1>3. CASE Rough!SetRecLight
  BY <1>3 DEF Rough!SetRecLight, OneTarget, TypeOK, Rough!request, Rough!worker
<1>4. CASE Rough!TakeOn
  BY <1>4, NothingIsSnapshot
  DEF Rough!TakeOn, Rough!Idle, Rough!NeedSnapshot, Rough!Nothing, Rough!Red, Nothing, Red, TypeOK
<1>5. CASE Rough!Look
  <2>1. lights' \in [Lamps -> Values]
    BY <1>5 DEF Rough!Look, TypeOK
  <2>2. Rough!Ids \subseteq Lamps
    BY DEF Rough!Ids
  <2>3. saved' \in Snapshots
    BY <1>5, <2>1, <2>2, RestrictIsSnapshot DEF Rough!Look, Rough!Restrict, Restrict
  <2> QED BY <1>5, <2>1, <2>3 DEF Rough!Look, Rough!request, TypeOK
<1>6. CASE Rough!LightAtOnce
  <2>1. PICK ls : Write(ls, AllRed)
    BY <1>6 DEF Rough!LightAtOnce, Rough!Write, Write, Rough!AllRed, AllRed, Rough!Red, Red
  <2>2. lamp' \in [Lamps -> Values]
    BY <2>1, RedIsValue, WriteKeepsType DEF TypeOK
  <2>3. left = {}
    BY <1>6 DEF Rough!LightAtOnce, TypeOK
  <2> QED BY <1>6, <2>2, <2>3 DEF Rough!LightAtOnce, Rough!request, TypeOK
<1>7. CASE Rough!Outside
  <2>1. PICK l \in Lamps, v \in Lit :
          /\ lamp' = [lamp EXCEPT ![l] = v] /\ own' = [own EXCEPT ![l] = v]
          /\ touched' = IF Rough!AtStake(l) THEN touched \cup {l} ELSE touched
          /\ UNCHANGED <<Rough!request, cfg, lights, saved, reachable, Rough!worker>>
    BY <1>7 DEF Rough!Outside
  <2>2. v \in Values
    BY LitIsValue
  <2> QED BY <2>1, <2>2 DEF Rough!request, Rough!worker, TypeOK
<1>8. CASE Rough!Breaking
  BY <1>8 DEF Rough!Breaking, Rough!request, Rough!worker, TypeOK
<1>9. CASE UNCHANGED Rough!vars
  BY <1>9 DEF Rough!vars, Rough!request, Rough!worker, TypeOK
<1> QED BY <1>1, <1>2, <1>3, <1>4, <1>5, <1>6, <1>7, <1>8, <1>9 DEF Rough!Next, Rough!Worker

\* The recording light keeps its types also with takes in haste, a bridge that goes
\* away and settings changed at any moment; so does the strip beside it.
THEOREM HueTypeCorrect == HueSpec => []TypesOK
<1> DEFINE J == /\ part \in {"light", "rough", "slot"}
                /\ TypeOK /\ (part = "rough" => left \subseteq OneLamp)
<1>1. HueInit => J
  BY InitTyped, RoughInit DEF HueInit, LightStill, RoughTyped
<1>2. J /\ [HueNext]_huevars => J'
  <2> SUFFICES ASSUME J, [HueNext]_huevars PROVE J'
    OBVIOUS
  <2>1. CASE UNCHANGED <<vars, part>>
    <3>1. TypeOK'
      BY <2>1, TypeStep
    <3> QED BY <2>1, <3>1 DEF vars, worker
  <2>2. CASE part = "light" /\ Next /\ UNCHANGED part
    BY <2>2, TypeStep
  <2>3. CASE part = "rough" /\ Rough!Next /\ UNCHANGED part
    BY <2>3, RoughStep DEF RoughTyped
  <2> QED BY <2>1, <2>2, <2>3 DEF HueNext, huevars
<1>3. J /\ SlotIInv => TypesOK
  BY DEF SlotIInv, TypesOK
<1> QED BY <1>1, <1>2, <1>3, SlotHolds, PTL DEF HueSpec

-----------------------------------------------------------------------------
(* No lamp is lit that is not saved, beside the slot and with one target.   *)

\* With one target the lamps to light are the same under any settings, so what is
\* saved is what is lit even if the settings change between Look and LightSlot.
RoughSaves ==
  /\ RoughTyped /\ cfg \in OneTarget /\ use \in OneTarget
  /\ pc = "light" /\ use.restore # "scene" => DOMAIN saved = OneLamp

LEMMA InitRoughSaves == Rough!Init => RoughSaves
BY RoughInit DEF Rough!Init, RoughSaves

LEMMA RoughSavesStep ==
  ASSUME RoughSaves, [Rough!Next]_(Rough!vars)
  PROVE  RoughSaves'
<1>1. RoughTyped /\ RoughTyped'
  BY RoughStep DEF RoughSaves
<1> USE <1>1 DEF RoughSaves
<1>2. CASE Rough!TakeOn
  BY <1>2 DEF Rough!TakeOn, Rough!Idle, Rough!NeedSnapshot
<1>3. CASE Rough!Look
  <2>1. lights' \in [Lamps -> Values] /\ OneLamp \subseteq Lamps
    BY <1>3, <1>1, HueAssumption, RoughAssumption DEF Rough!Look, RoughTyped, TypeOK
  <2>2. Rough!Ids = OneLamp
    BY DEF Rough!Ids, OneTarget
  <2>3. DOMAIN saved' = OneLamp
    BY <1>3, <2>1, <2>2, RestrictIsSnapshot DEF Rough!Look, Rough!Restrict, Restrict
  <2> QED BY <1>3, <2>3 DEF Rough!Look
<1>4. CASE \/ Rough!LightSlot \/ Rough!Poll \/ Rough!Outside \/ Rough!Breaking
           \/ Rough!RecordingStarted \/ Rough!RecordingStopped
  BY <1>4 DEF Rough!LightSlot, Rough!Poll, Rough!Outside, Rough!Breaking,
              Rough!RecordingStarted, Rough!RecordingStopped, Rough!request, Rough!worker
<1>5. CASE \/ Rough!SetRecLight \/ Rough!TakeNothing \/ Rough!LightAtOnce
           \/ Rough!SlotsLit \/ Rough!TakeOff \/ Rough!Recall \/ Rough!PutBack
           \/ Rough!AllBack
  BY <1>5 DEF Rough!SetRecLight, Rough!TakeNothing, Rough!LightAtOnce, Rough!SlotsLit,
              Rough!TakeOff, Rough!Recall, Rough!PutBack, Rough!AllBack, Rough!Idle,
              Rough!worker
<1>6. CASE UNCHANGED Rough!vars
  BY <1>6 DEF Rough!vars, Rough!worker
<1> QED BY <1>2, <1>3, <1>4, <1>5, <1>6 DEF Rough!Next, Rough!Worker

\* A lamp that turns red while the rough part lights a take is the one ticked.
LEMMA RoughLightsOne ==
  ASSUME RoughSaves, [Rough!Next]_(Rough!vars), pc = "light",
         NEW l \in Lamps, lamp'[l] = Red, lamp[l] # Red
  PROVE  l \in OneLamp
<1> USE DEF RoughSaves, RoughTyped
<1>1. CASE Rough!LightAtOnce
  BY <1>1 DEF Rough!LightAtOnce, OneTarget
<1>2. CASE Rough!LightSlot
  <2>1. PICK k \in left : Rough!Write({k}, Rough!AllRed)
    BY <1>2 DEF Rough!LightSlot
  <2>2. l = k
    BY <2>1 DEF Rough!Write, TypeOK
  <2> QED BY <2>2
<1>3. CASE Rough!Outside
  <2>1. PICK k \in Lamps, v \in Lit : lamp' = [lamp EXCEPT ![k] = v]
    BY <1>3 DEF Rough!Outside
  <2>2. v # Red
    BY DEF Lit, LitOrDark, Red
  <2> QED BY <2>1, <2>2 DEF TypeOK
<1>4. CASE \/ Rough!RecordingStarted \/ Rough!RecordingStopped \/ Rough!SetRecLight
           \/ Rough!SlotsLit \/ Rough!Poll \/ Rough!Breaking \/ UNCHANGED Rough!vars
  BY <1>4 DEF Rough!RecordingStarted, Rough!RecordingStopped, Rough!SetRecLight,
              Rough!SlotsLit, Rough!Poll, Rough!Breaking, Rough!vars
<1>5. CASE \/ Rough!TakeNothing \/ Rough!TakeOn \/ Rough!Look \/ Rough!TakeOff
           \/ Rough!Recall \/ Rough!PutBack \/ Rough!AllBack
  BY <1>5 DEF Rough!TakeNothing, Rough!TakeOn, Rough!Look, Rough!TakeOff, Rough!Recall,
              Rough!PutBack, Rough!AllBack, Rough!Idle
<1> QED BY <1>1, <1>2, <1>3, <1>4, <1>5 DEF Rough!Next, Rough!Worker

\* In the run no lamp is made red that the snapshot misses: in the rough part
\* also while settings change, since every setting there names the same lamps.
THEOREM RedIsSavedInEveryPart == ~Edits => (HueSpec => RedOnlyIfSaved)
<1> SUFFICES ASSUME ~Edits PROVE HueSpec => RedOnlyIfSaved
  OBVIOUS
<1> DEFINE J == /\ part \in {"light", "rough", "slot"}
                /\ part = "light" => SaveIInv
                /\ part = "rough" => RoughSaves
           Saves == \A l \in Lamps : pc = "light" /\ lamp'[l] = Red /\ lamp[l] # Red
                                       => l \in DOMAIN saved \/ use.restore = "scene"
<1>1. HueInit => J
  BY InitSaves, InitRoughSaves DEF HueInit
<1>2. J /\ [HueNext]_huevars => J' /\ [Saves]_vars
  <2> SUFFICES ASSUME J, [HueNext]_huevars PROVE J' /\ [Saves]_vars
    OBVIOUS
  <2>1. CASE UNCHANGED <<vars, part>>
    <3>1. SaveIInv => SaveIInv'
      BY <2>1, SaveStep
    <3>2. RoughSaves => RoughSaves'
      BY <2>1, RoughSavesStep
         DEF vars, Rough!vars, request, Rough!request, worker, Rough!worker
    <3> QED BY <2>1, <3>1, <3>2
  <2>2. CASE part = "light" /\ Next /\ UNCHANGED part
    BY <2>2, SaveStep, LitAreToLight DEF SaveIInv, SavedBeforeLit
  <2>3. CASE part = "rough" /\ Rough!Next /\ UNCHANGED part
    BY <2>3, RoughSavesStep, RoughLightsOne DEF RoughSaves
  <2> QED BY <2>1, <2>2, <2>3 DEF HueNext, huevars
<1> QED BY <1>1, <1>2, PTL DEF HueSpec, RedOnlyIfSaved

=============================================================================
