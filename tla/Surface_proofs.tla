--------------------------- MODULE Surface_proofs ---------------------------
(***************************************************************************)
(* Proofs about the hands on the surface.                                    *)
(*                                                                          *)
(* About TouchGate, for any number of strips: a touch whose finger is gone     *)
(* never loses its release.  About ButtonDispatch, for any keys, layers and    *)
(* bindings: a press decides once between its short and its long action, the   *)
(* wake swallows presses and releases in pairs, and nothing that lasts stays   *)
(* on without a key that holds it.                                            *)
(***************************************************************************)
EXTENDS MCSurface, FiniteSetTheorems, WellFoundedInduction, TLAPS

\* The worker only reports a touch whose on edge it has just handled.
PressingIsDown == pressing # NoStrip => down[pressing]

IInv == TypeOK /\ PressingIsDown /\ ReleaseOnItsWay

\* The loop of commitDebouncedTouchReleases stays on the strips of the device.
LEMMA NextStripInRange == TypeOK => NextStrip \in Strips
  BY NStripsAssumption DEF TypeOK, NextStrip, Strips

LEMMA InitIInv == Init => IInv
  BY NStripsAssumption
  DEF Init, IInv, TypeOK, PressingIsDown, ReleaseOnItsWay, Strips, NoStrip

\* Every step keeps the types.
LEMMA NextTypeOK == TypeOK /\ [Next]_vars => TypeOK'
<1> SUFFICES ASSUME TypeOK, [Next]_vars PROVE TypeOK'
  OBVIOUS
<1> USE DEF TypeOK
<1>1. ASSUME NEW s \in Strips, OnEdge(s) PROVE TypeOK'
  BY <1>1 DEF OnEdge
<1>2. ASSUME NEW s \in Strips, ReportTouch(s) PROVE TypeOK'
  BY <1>2 DEF ReportTouch
<1>3. ASSUME NEW s \in Strips, OffEdge(s) PROVE TypeOK'
  BY <1>3 DEF OffEdge
<1>4. ASSUME NEW s \in Strips, PressAges(s) PROVE TypeOK'
  BY <1>4 DEF PressAges
<1>5. CASE Main
  BY <1>5, NextStripInRange
  DEF Main, CheckSkip, CheckDue, ClearPending, DropTouch, FinishCommit
<1>6. CASE UNCHANGED vars
  BY <1>6 DEF vars
<1> QED
  BY <1>1, <1>2, <1>3, <1>4, <1>5, <1>6 DEF Next

\* Every step keeps the invariant.  The release of a strip moves from the
\* request to the main thread in ClearPending and is spent in DropTouch; an on
\* edge may take the request back, but then the finger is down.
LEMMA NextIInv == IInv /\ [Next]_vars => IInv'
<1> SUFFICES ASSUME IInv, [Next]_vars PROVE IInv'
  OBVIOUS
<1>0. TypeOK'
  BY NextTypeOK DEF IInv
<1> USE DEF IInv, PressingIsDown, ReleaseOnItsWay
<1>1. ASSUME NEW s \in Strips, OnEdge(s) PROVE (PressingIsDown /\ ReleaseOnItsWay)'
  BY <1>1 DEF OnEdge, TypeOK
<1>2. ASSUME NEW s \in Strips, ReportTouch(s) PROVE (PressingIsDown /\ ReleaseOnItsWay)'
  <2>1. down[s]
    BY <1>2, NStripsAssumption DEF ReportTouch, NoStrip, Strips
  <2> QED
    BY <1>2, <2>1 DEF ReportTouch, TypeOK
<1>3. ASSUME NEW s \in Strips, OffEdge(s) PROVE (PressingIsDown /\ ReleaseOnItsWay)'
  BY <1>3 DEF OffEdge, TypeOK
<1>4. ASSUME NEW s \in Strips, PressAges(s) PROVE (PressingIsDown /\ ReleaseOnItsWay)'
  BY <1>4 DEF PressAges, TypeOK
<1>5. ASSUME CheckSkip PROVE (PressingIsDown /\ ReleaseOnItsWay)'
  BY <1>5 DEF CheckSkip, TypeOK
<1>6. ASSUME CheckDue PROVE (PressingIsDown /\ ReleaseOnItsWay)'
  BY <1>6 DEF CheckDue, TypeOK
<1>7. ASSUME ClearPending PROVE (PressingIsDown /\ ReleaseOnItsWay)'
  BY <1>7 DEF ClearPending, TypeOK
<1>8. ASSUME DropTouch PROVE (PressingIsDown /\ ReleaseOnItsWay)'
  BY <1>8 DEF DropTouch, TypeOK
<1>9. ASSUME FinishCommit PROVE (PressingIsDown /\ ReleaseOnItsWay)'
  BY <1>9 DEF FinishCommit, TypeOK
<1>A. ASSUME UNCHANGED vars PROVE (PressingIsDown /\ ReleaseOnItsWay)'
  BY <1>A DEF vars
<1> QED
  BY <1>0, <1>1, <1>2, <1>3, <1>4, <1>5, <1>6, <1>7, <1>8, <1>9, <1>A DEF Next, Main

\* The variables of the touch debounce keep their types.
THEOREM TypeCorrect == Spec => []TypeOK
<1>1. IInv => TypeOK
  BY DEF IInv
<1> QED
  BY <1>1, InitIInv, NextIInv, PTL DEF Spec

\* For any number of strips and every interleaving of the worker and the timer,
\* a reported touch whose finger is gone has its release on its way.
THEOREM NoStuckTouch == Spec => []ReleaseOnItsWay
<1>1. IInv => ReleaseOnItsWay
  BY DEF IInv
<1> QED
  BY <1>1, InitIInv, NextIInv, PTL DEF Spec

-----------------------------------------------------------------------------
(* The keys: types.                                                         *)

\* A step of the keys, or none.
KeysStep == Buttons!Next \/ UNCHANGED keys

\* The tables of what was pressed.
RecordsTyped ==
  /\ press \in [Buttons!Places -> Buttons!Records \cup {Buttons!NoRecord}]
  /\ long \in [Buttons!Places -> Buttons!Records \cup {Buttons!NoRecord}]

OnTyped ==
  /\ on \in [Buttons!Lasting -> BOOLEAN]
  /\ latch \in [latched : BOOLEAN, armed : BOOLEAN, recent : BOOLEAN]

WakeTyped ==
  /\ asleep \in BOOLEAN /\ window \in BOOLEAN
  /\ swallowed \subseteq Keys /\ held \subseteq Keys /\ eaten \subseteq Keys

PastTyped ==
  /\ engaged \in [Keys -> Buttons!Lasting \cup {"none"}]
  /\ from \in [Keys -> [layer : Layers, written : BOOLEAN]]
  /\ spoilt \subseteq {"lost", "stray"}

SetTyped == layer \in Layers /\ setup \in Setups

\* The types, but for how often a press has fired.
KeysTyped ==
  /\ SetTyped /\ RecordsTyped /\ OnTyped /\ WakeTyped /\ PastTyped
  /\ at \in [Keys -> Buttons!Threads]

LEMMA BindTyped ==
  ASSUME SetTyped, NEW p \in Buttons!Places
  PROVE  Buttons!binds[p] \in Buttons!Bindings \cup {Buttons!Unbound}
<1>1. setup \in [binds : [Buttons!Places -> Buttons!Bindings \cup {Buttons!Unbound}],
                 losable : SUBSET Keys, sleeps : BOOLEAN]
  BY KeysAssumption DEF SetTyped, Buttons!ButtonAssumption
<1> QED
  BY <1>1 DEF Buttons!binds

\* Every edge has a layer: the smallest that wrote the press down, or the layer of the moment.
LEMMA FoundTyped ==
  ASSUME SetTyped, NEW k \in Keys
  PROVE  /\ Buttons!Found(k) \in Layers /\ Buttons!Place(k) \in Buttons!Places
         /\ Buttons!Place(k) = <<Buttons!Found(k), k>>
<1>1. ASSUME Buttons!Tracked(k) # {}
      PROVE  \E l \in Buttons!Tracked(k) : \A i \in Buttons!Tracked(k) : l <= i
  <2>1. Buttons!Tracked(k) \subseteq Nat
    BY KeysAssumption DEF Buttons!Tracked, Buttons!ButtonAssumption
  <2>2. PICK l \in Buttons!Tracked(k) :
          \A i \in Buttons!Tracked(k) : ~(<<i, l>> \in OpToRel(<, Nat))
    BY <1>1, <2>1, NatLessThanWellFounded, WFMin
  <2>3. \A i \in Buttons!Tracked(k) : ~(i < l)
    BY <2>1, <2>2 DEF OpToRel
  <2>4. \A i \in Buttons!Tracked(k) : l <= i
    BY <2>1, <2>3
  <2> QED
    BY <2>4
<1>2. Buttons!Tracked(k) \subseteq Layers
  BY DEF Buttons!Tracked
<1>3. Buttons!Found(k) \in Layers
  BY <1>1, <1>2 DEF Buttons!Found, Buttons!LayerOf, SetTyped
<1> QED
  BY <1>3 DEF Buttons!Place, Buttons!Places

\* A thread stands still, looks for its binding, or has one in hand.
LEMMA ThreadCases ==
  ASSUME at \in [Keys -> Buttons!Threads], NEW k \in Keys
  PROVE  \/ at[k] = Buttons!Idle /\ at[k].step = "idle"
         \/ at[k] \in [step : {"look"}, pressed : BOOLEAN]
         \/ at[k] \in [step : {"fire", "long"}, pressed : BOOLEAN, layer : Layers,
                       slot : Buttons!Mods]
BY DEF Buttons!Threads, Buttons!Idle

LEMMA IdleTyped == Buttons!Idle \in Buttons!Threads
BY DEF Buttons!Threads

LEMMA DoneTyped ==
  ASSUME at \in [Keys -> Buttons!Threads], NEW k \in Keys, Buttons!Done(k)
  PROVE  at' \in [Keys -> Buttons!Threads]
BY IdleTyped DEF Buttons!Done

LEMMA LookTyped ==
  ASSUME KeysTyped, NEW k \in Keys, Buttons!Look(k)
  PROVE  SetTyped' /\ OnTyped' /\ WakeTyped' /\ PastTyped'
<1>1. from' \in [Keys -> [layer : Layers, written : BOOLEAN]]
  <2>1. Buttons!Found(k) \in Layers
    BY FoundTyped DEF KeysTyped
  <2>2. Buttons!Written(Buttons!Bd(k)) \in BOOLEAN
    BY DEF Buttons!Written
  <2>3. [layer |-> Buttons!Found(k), written |-> Buttons!Written(Buttons!Bd(k))]
          \in [layer : Layers, written : BOOLEAN]
    BY <2>1, <2>2
  <2>4. \/ from' = from
        \/ from' = [from EXCEPT ![k] = [layer |-> Buttons!Found(k),
                                        written |-> Buttons!Written(Buttons!Bd(k))]]
    BY DEF Buttons!Look
  <2> QED
    BY <2>3, <2>4 DEF KeysTyped, PastTyped
<1>2. spoilt' = spoilt \/ spoilt' = spoilt \cup {"stray"}
  BY DEF Buttons!Look
<1>3. UNCHANGED <<layer, setup, on, latch, Buttons!wake, held, engaged, eaten>>
  BY DEF Buttons!Look
<1> QED
  BY <1>1, <1>2, <1>3 DEF KeysTyped, SetTyped, OnTyped, WakeTyped, PastTyped, Buttons!wake

LEMMA PressTyped ==
  ASSUME KeysTyped, NEW k \in Keys, Buttons!Press(k) PROVE KeysTyped'
<1> USE DEF Buttons!shared, Buttons!wake, Buttons!past
<1>1. [step |-> "look", pressed |-> TRUE] \in Buttons!Threads
  BY DEF Buttons!Threads
<1>2. at' = at \/ at' = [at EXCEPT ![k] = [step |-> "look", pressed |-> TRUE]]
  BY DEF Buttons!Press, Buttons!SwallowPress
<1>3. at' \in [Keys -> Buttons!Threads]
  BY <1>1, <1>2 DEF KeysTyped
<1>4. asleep' = FALSE /\ window' = (window \/ asleep) /\ held' = held \cup {k}
  BY DEF Buttons!Press, Buttons!Wake
<1>5. swallowed' \subseteq Keys /\ eaten' \subseteq Keys
  BY DEF Buttons!Press, Buttons!SwallowPress, KeysTyped, WakeTyped
<1>6. WakeTyped'
  BY <1>4, <1>5 DEF KeysTyped, WakeTyped
<1>7. engaged' = [engaged EXCEPT ![k] = "none"]
      /\ UNCHANGED <<layer, setup, press, long, on, latch, ran, from, spoilt>>
  BY DEF Buttons!Press
<1> QED
  BY <1>3, <1>6, <1>7 DEF KeysTyped, SetTyped, RecordsTyped, OnTyped, PastTyped

LEMMA ReleaseTyped ==
  ASSUME KeysTyped, NEW k \in Keys, Buttons!Release(k) \/ Buttons!LoseRelease(k)
  PROVE  KeysTyped'
<1> USE DEF Buttons!shared, Buttons!wake, Buttons!past
<1>1. [step |-> "look", pressed |-> FALSE] \in Buttons!Threads
  BY DEF Buttons!Threads
<1>2. at' = at \/ at' = [at EXCEPT ![k] = [step |-> "look", pressed |-> FALSE]]
  BY DEF Buttons!Release, Buttons!LoseRelease
<1>3. at' \in [Keys -> Buttons!Threads]
  BY <1>1, <1>2 DEF KeysTyped
<1>4. /\ held' = held \ {k} /\ (swallowed' = swallowed \/ swallowed' = swallowed \ {k})
      /\ asleep' \in BOOLEAN /\ window' \in BOOLEAN /\ eaten' = eaten
  BY DEF Buttons!Release, Buttons!LoseRelease, Buttons!Wake, KeysTyped, WakeTyped
<1>5. WakeTyped'
  BY <1>4 DEF KeysTyped, WakeTyped
<1>6. /\ UNCHANGED <<layer, setup, press, long, on, latch, engaged, ran, from>>
      /\ spoilt' = spoilt \/ spoilt' = spoilt \cup {"lost"}
  BY DEF Buttons!Release, Buttons!LoseRelease
<1> QED
  BY <1>3, <1>5, <1>6 DEF KeysTyped, SetTyped, RecordsTyped, OnTyped, PastTyped

LEMMA SnapshotTyped == Buttons!Snapshot \in Buttons!Mods
BY DEF Buttons!Snapshot, Buttons!Mods

LEMMA NewRecordTyped ==
  ASSUME NEW m \in Buttons!Mods, NEW armed \in BOOLEAN
  PROVE  /\ Buttons!NewRecord(m, armed) \in Buttons!Records
         /\ Buttons!NewRecord(m, armed) # Buttons!NoRecord
         /\ Buttons!NewRecord(m, armed).mod = m /\ ~Buttons!NewRecord(m, armed).fired
         /\ Buttons!NewRecord(m, armed).armed = armed
BY DEF Buttons!NewRecord, Buttons!Records, Buttons!NoRecord, Buttons!Mods

\* A record has the modifier of its press; no record has none.
LEMMA RecordMod ==
  ASSUME NEW rec \in Buttons!Records \cup {Buttons!NoRecord}
  PROVE  rec # Buttons!NoRecord => rec \in Buttons!Records /\ rec.mod \in Buttons!Mods
BY DEF Buttons!Records, Buttons!NoRecord

LEMMA SlotTyped ==
  ASSUME KeysTyped, NEW k \in Keys, Buttons!Place(k) \in Buttons!Places
  PROVE  Buttons!SlotTaken(k) \in Buttons!Mods
<1> DEFINE rec == press[Buttons!Place(k)]
<1>1. rec \in Buttons!Records \cup {Buttons!NoRecord}
  BY DEF KeysTyped, RecordsTyped
<1>2. CASE at[k].pressed
  BY <1>2, SnapshotTyped DEF Buttons!SlotTaken
<1>3. CASE ~at[k].pressed /\ Buttons!Bd(k).behavior # "Toggle" /\ rec # Buttons!NoRecord
  BY <1>1, <1>3, RecordMod DEF Buttons!SlotTaken
<1>4. CASE ~at[k].pressed /\ ~(Buttons!Bd(k).behavior # "Toggle" /\ rec # Buttons!NoRecord)
  <2>1. Buttons!SlotTaken(k) = "plain"
    BY <1>4 DEF Buttons!SlotTaken
  <2> QED
    BY <2>1 DEF Buttons!Mods
<1> QED
  BY <1>2, <1>3, <1>4

LEMMA DispatchTyped ==
  ASSUME KeysTyped, NEW k \in Keys, Buttons!Dispatch(k) PROVE KeysTyped'
<1> DEFINE p == Buttons!Place(k)
<1>1. p \in Buttons!Places /\ Buttons!Found(k) \in Layers
  BY FoundTyped DEF KeysTyped
<1>2. RecordsTyped /\ at \in [Keys -> Buttons!Threads]
  BY DEF KeysTyped
<1>3. CASE Buttons!NothingBound(k)
  BY <1>2, <1>3, LookTyped, DoneTyped DEF Buttons!NothingBound, KeysTyped, RecordsTyped
<1>4. CASE Buttons!DeferPress(k)
  <2> DEFINE armed == Buttons!LongSlot(Buttons!Bd(k), Buttons!Snapshot) # "none"
  <2>1. press' = [press EXCEPT ![p] = Buttons!NewRecord(Buttons!Snapshot, armed)] /\ long' = long
    BY <1>4 DEF Buttons!DeferPress
  <2>2. Buttons!NewRecord(Buttons!Snapshot, armed) \in Buttons!Records
    BY SnapshotTyped, NewRecordTyped
  <2> HIDE DEF armed, p
  <2>3. RecordsTyped'
    BY <1>1, <1>2, <2>1, <2>2 DEF RecordsTyped
  <2> QED
    BY <1>2, <1>4, <2>3, LookTyped, DoneTyped DEF Buttons!DeferPress, KeysTyped
<1>5. CASE Buttons!DeferRelease(k)
  <2>1. press' = [press EXCEPT ![p] = Buttons!NoRecord] /\ long' = long
    BY <1>5 DEF Buttons!DeferRelease
  <2> HIDE DEF p
  <2>2. RecordsTyped'
    BY <1>1, <1>2, <2>1 DEF RecordsTyped
  <2> QED
    BY <1>2, <1>5, <2>2, LookTyped, DoneTyped DEF Buttons!DeferRelease, KeysTyped
<1>6. CASE Buttons!TakeSlot(k)
  <2> DEFINE m == Buttons!SlotTaken(k)
             th == [step |-> "fire", pressed |-> at[k].pressed, layer |-> Buttons!Found(k),
                    slot |-> Buttons!SlotOf(Buttons!Bd(k), m)]
             new == Buttons!NewRecord(m, FALSE)
  <2>1. m \in Buttons!Mods
    BY <1>1, SlotTyped
  <2>2. Buttons!SlotOf(Buttons!Bd(k), m) \in Buttons!Mods
    BY <2>1 DEF Buttons!SlotOf, Buttons!Mods
  <2>3. at[k].pressed \in BOOLEAN
    BY <1>2, <1>6, ThreadCases DEF Buttons!TakeSlot, Buttons!Look
  <2>4. th \in Buttons!Threads
    BY <1>1, <2>2, <2>3 DEF Buttons!Threads
  <2>5. at' = [at EXCEPT ![k] = th] /\ long' = long
        /\ \/ press' = press
           \/ press' = [press EXCEPT ![p] = new]
           \/ press' = [press EXCEPT ![p] = Buttons!NoRecord]
    BY <1>6 DEF Buttons!TakeSlot
  <2>6. new \in Buttons!Records
    BY <2>1, NewRecordTyped
  <2>7. Buttons!Look(k)
    BY <1>6 DEF Buttons!TakeSlot
  <2> HIDE DEF m, th, new, p
  <2>8. RecordsTyped' /\ at' \in [Keys -> Buttons!Threads]
    BY <1>1, <1>2, <2>4, <2>5, <2>6 DEF RecordsTyped
  <2> QED
    BY <2>7, <2>8, LookTyped DEF KeysTyped
<1>7. CASE Buttons!Fire(k)
  <2> USE DEF Buttons!wake
  <2> DEFINE a == Buttons!Held(k).short[at[k].slot]
  <2>1. at[k] \in [step : {"fire", "long"}, pressed : BOOLEAN, layer : Layers,
                   slot : Buttons!Mods]
    BY <1>2, <1>7, ThreadCases DEF Buttons!Fire
  <2>2. at' = [at EXCEPT ![k] = Buttons!Idle] \/ at' = [at EXCEPT ![k] = [@ EXCEPT !.step = "long"]]
    BY <1>7 DEF Buttons!Fire
  <2>3. [at[k] EXCEPT !.step = "long"] \in Buttons!Threads
    BY <2>1 DEF Buttons!Threads
  <2>4. at' \in [Keys -> Buttons!Threads]
    BY <1>2, <2>2, <2>3, IdleTyped
  <2>5. \/ engaged' = [engaged EXCEPT ![k] = "none"]
        \/ a \in Buttons!Lasting /\ engaged' = [engaged EXCEPT ![k] = a]
    <3> DEFINE x == IF at[k].pressed /\ a \in Buttons!Lasting THEN a ELSE "none"
    <3>1. engaged' = [engaged EXCEPT ![k] = x]
      BY <1>7 DEF Buttons!Fire
    <3>2. x = "none" \/ (a \in Buttons!Lasting /\ x = a)
      OBVIOUS
    <3> HIDE DEF x, a
    <3> QED
      BY <3>1, <3>2
  <2>6. /\ UNCHANGED <<layer, setup, press, long, Buttons!wake, held, ran, from, eaten, spoilt>>
        /\ Buttons!Run(a, at[k].pressed \/ Buttons!Held(k).behavior = "Hold", at[k].pressed)
    BY <1>7 DEF Buttons!Fire
  <2>7. OnTyped'
    <3>1. OnTyped
      BY DEF KeysTyped
    <3>2. CASE Buttons!ShiftPressed
      BY <3>1, <3>2 DEF Buttons!ShiftPressed, OnTyped, Buttons!Lasting
    <3>3. CASE Buttons!ShiftReleased
      BY <3>1, <3>3 DEF Buttons!ShiftReleased, OnTyped, Buttons!Lasting
    <3>4. CASE on' = [on EXCEPT !["flip"] = ~@] /\ UNCHANGED latch
      BY <3>1, <3>4 DEF OnTyped, Buttons!Lasting
    <3>5. CASE UNCHANGED <<on, latch>>
      BY <3>1, <3>5 DEF OnTyped
    <3> HIDE DEF a
    <3> QED
      BY <2>6, <3>2, <3>3, <3>4, <3>5 DEF Buttons!Run
  <2>8. PastTyped'
    BY <2>5, <2>6 DEF KeysTyped, PastTyped
  <2> QED
    BY <2>4, <2>6, <2>7, <2>8 DEF KeysTyped, SetTyped, RecordsTyped, WakeTyped
<1>8. CASE Buttons!TakeLong(k)
  <2> DEFINE q == <<at[k].layer, k>>
             armed == Buttons!LongSlot(Buttons!Held(k), at[k].slot) # "none"
             new == Buttons!NewRecord(at[k].slot, armed)
  <2>1. at[k] \in [step : {"fire", "long"}, pressed : BOOLEAN, layer : Layers,
                   slot : Buttons!Mods]
    BY <1>2, <1>8, ThreadCases DEF Buttons!TakeLong
  <2>2. q \in Buttons!Places /\ new \in Buttons!Records
    BY <2>1, NewRecordTyped DEF Buttons!Places
  <2>3. /\ Buttons!Done(k)
        /\ long' = [long EXCEPT ![q] = new] \/ long' = [long EXCEPT ![q] = Buttons!NoRecord]
        /\ UNCHANGED <<layer, setup, press, on, latch, Buttons!wake, held, engaged, from, eaten,
                       spoilt>>
    BY <1>8 DEF Buttons!TakeLong
  <2>4. at' \in [Keys -> Buttons!Threads]
    BY <1>2, <2>3, DoneTyped
  <2> HIDE DEF q, new, armed
  <2>5. RecordsTyped'
    BY <1>2, <2>2, <2>3 DEF RecordsTyped
  <2> QED
    BY <2>3, <2>4, <2>5 DEF KeysTyped, SetTyped, OnTyped, WakeTyped, PastTyped, Buttons!wake
<1> QED
  BY <1>3, <1>4, <1>5, <1>6, <1>7, <1>8 DEF Buttons!Dispatch

LEMMA MarkTyped ==
  ASSUME NEW recs, recs \in [Buttons!Places -> Buttons!Records \cup {Buttons!NoRecord}]
  PROVE  Buttons!Mark(recs) \in [Buttons!Places -> Buttons!Records \cup {Buttons!NoRecord}]
<1>1. ASSUME NEW p \in Buttons!Places, Buttons!Due(recs[p])
      PROVE  [recs[p] EXCEPT !.fired = TRUE] \in Buttons!Records
  BY <1>1 DEF Buttons!Due, Buttons!Records
<1> QED
  BY <1>1 DEF Buttons!Mark

LEMMA WorldTyped ==
  ASSUME KeysTyped,
         \/ Buttons!TickLongPress \/ Buttons!ShiftTimePasses \/ Buttons!SetActiveLayer
         \/ Buttons!FallAsleep \/ Buttons!WindowPasses \/ UNCHANGED keys
         \/ \E p \in Buttons!Places : Buttons!Ripens(p)
  PROVE  KeysTyped'
<1> USE DEF Buttons!shared, Buttons!wake, Buttons!past, KeysTyped
<1>1. CASE Buttons!TickLongPress
  BY <1>1, MarkTyped DEF Buttons!TickLongPress, SetTyped, RecordsTyped, OnTyped, WakeTyped, PastTyped
<1>2. CASE Buttons!ShiftTimePasses
  BY <1>2 DEF Buttons!ShiftTimePasses, SetTyped, RecordsTyped, OnTyped, WakeTyped, PastTyped
<1>3. CASE Buttons!SetActiveLayer
  BY <1>3 DEF Buttons!SetActiveLayer, SetTyped, RecordsTyped, OnTyped, WakeTyped, PastTyped
<1>4. CASE Buttons!FallAsleep
  BY <1>4 DEF Buttons!FallAsleep, SetTyped, RecordsTyped, OnTyped, WakeTyped, PastTyped
<1>5. CASE Buttons!WindowPasses
  BY <1>5 DEF Buttons!WindowPasses, SetTyped, RecordsTyped, OnTyped, WakeTyped, PastTyped
<1>6. CASE UNCHANGED keys
  BY <1>6 DEF keys, SetTyped, RecordsTyped, OnTyped, WakeTyped, PastTyped
<1>7. ASSUME NEW p \in Buttons!Places, Buttons!Ripens(p) PROVE KeysTyped'
  <2>1. \/ press[p] # Buttons!NoRecord /\ press' = [press EXCEPT ![p].ripe = TRUE] /\ long' = long
        \/ long[p] # Buttons!NoRecord /\ long' = [long EXCEPT ![p].ripe = TRUE] /\ press' = press
    BY <1>7 DEF Buttons!Ripens
  <2>2. RecordsTyped'
    BY <2>1 DEF RecordsTyped, Buttons!Records
  <2> QED
    BY <1>7, <2>2 DEF Buttons!Ripens, SetTyped, OnTyped, WakeTyped, PastTyped
<1> QED
  BY <1>1, <1>2, <1>3, <1>4, <1>5, <1>6, <1>7

LEMMA KeysTypeStep == KeysTyped /\ KeysStep => KeysTyped'
BY PressTyped, ReleaseTyped, DispatchTyped, WorldTyped DEF KeysStep, Buttons!Next

LEMMA KeysInitTyped == Buttons!Init => KeysTyped
<1> SUFFICES ASSUME Buttons!Init PROVE KeysTyped
  OBVIOUS
<1> USE DEF Buttons!Init
<1>1. SetTyped /\ RecordsTyped
  BY DEF SetTyped, RecordsTyped
<1>2. OnTyped
  BY DEF OnTyped
<1>3. WakeTyped /\ PastTyped
  BY DEF WakeTyped, PastTyped
<1>4. at \in [Keys -> Buttons!Threads]
  BY IdleTyped
<1> QED
  BY <1>1, <1>2, <1>3, <1>4 DEF KeysTyped

-----------------------------------------------------------------------------
(* The keys: a press decides once.                                          *)

Counts == [short : 0..1, long : 0..1]
Zero == [short |-> 0, long |-> 0]

\* What a record says of the binding it was written for.
Fits(p) ==
  /\ press[p] # Buttons!NoRecord =>
       Buttons!binds[p] # Buttons!Unbound /\ Buttons!binds[p].behavior # "Toggle"
  /\ press[p] # Buttons!NoRecord /\ ~Buttons!Deferred(Buttons!binds[p]) => ~press[p].armed
  /\ long[p] # Buttons!NoRecord =>
       /\ Buttons!binds[p] # Buttons!Unbound /\ Buttons!HasLong(Buttons!binds[p])
       /\ ~Buttons!Deferred(Buttons!binds[p])

\* A press that is written down and has not fired at its threshold has fired nothing yet.
Pending(p) ==
  \/ press[p] # Buttons!NoRecord /\ Buttons!Deferred(Buttons!binds[p]) /\ ~press[p].fired
  \/ long[p] # Buttons!NoRecord /\ ~long[p].fired

PlaceOK(p) ==
  /\ ran[p] \in Counts /\ ran[p].short + ran[p].long <= 1
  /\ Fits(p)
  /\ Pending(p) => ran[p] = Zero

\* A thread that has a binding in hand fires it at the press.
HandOK(k) ==
  at[k].step \in {"fire", "long"} =>
    /\ Buttons!Held(k) # Buttons!Unbound /\ ~Buttons!Deferred(Buttons!Held(k))
    /\ at[k].step = "long" => Buttons!HasLong(Buttons!Held(k))

PlacesOK ==
  /\ DOMAIN ran = Buttons!Places /\ ran = [p \in Buttons!Places |-> ran[p]]
  /\ \A p \in Buttons!Places : PlaceOK(p)
HandsOK == \A k \in Keys : HandOK(k)

LEMMA DeferredBinding ==
  ASSUME NEW bd, Buttons!Deferred(bd)
  PROVE  bd # Buttons!Unbound /\ bd.behavior = "Momentary" /\ Buttons!HasLong(bd)
BY DEF Buttons!Deferred, Buttons!Unbound

LEMMA PlaceSame ==
  ASSUME NEW p, PlaceOK(p), setup' = setup, press'[p] = press[p], long'[p] = long[p],
         ran'[p] = ran[p]
  PROVE  PlaceOK(p)'
BY DEF PlaceOK, Fits, Pending, Buttons!binds

LEMMA HandSame ==
  ASSUME NEW k, HandOK(k), setup' = setup, at'[k] = at[k]
  PROVE  HandOK(k)'
BY DEF HandOK, Buttons!Held, Buttons!binds

LEMMA CountOnce ==
  ASSUME PlacesOK, NEW p \in Buttons!Places, NEW what \in {"nothing", "short", "long"},
         what = "nothing" \/ ran[p] = Zero, Buttons!Count(p, what)
  PROVE  /\ DOMAIN ran' = Buttons!Places /\ ran' = [q \in Buttons!Places |-> ran'[q]]
         /\ ran'[p] \in Counts /\ ran'[p].short + ran'[p].long <= 1
         /\ \A q \in Buttons!Places \ {p} : ran'[q] = ran[q]
<1>1. CASE what = "nothing"
  BY <1>1 DEF Buttons!Count, PlacesOK, PlaceOK
<1>2. CASE what = "short"
  <2>1. ran' = [ran EXCEPT ![p]["short"] = @ + 1] /\ ran[p] = Zero
    BY <1>2 DEF Buttons!Count
  <2> DEFINE one == [short |-> 1, long |-> 0]
  <2>2. [ran[p] EXCEPT !["short"] = @ + 1] = one
    BY <2>1 DEF Zero
  <2>3. ran' = [ran EXCEPT ![p] = one]
    BY <2>1, <2>2
  <2>4. one \in Counts /\ one.short + one.long <= 1
    BY DEF Counts
  <2> HIDE DEF one
  <2> QED
    BY <2>3, <2>4 DEF PlacesOK
<1>3. CASE what = "long"
  <2>1. ran' = [ran EXCEPT ![p]["long"] = @ + 1] /\ ran[p] = Zero
    BY <1>3 DEF Buttons!Count
  <2> DEFINE one == [short |-> 0, long |-> 1]
  <2>2. [ran[p] EXCEPT !["long"] = @ + 1] = one
    BY <2>1 DEF Zero
  <2>3. ran' = [ran EXCEPT ![p] = one]
    BY <2>1, <2>2
  <2>4. one \in Counts /\ one.short + one.long <= 1
    BY DEF Counts
  <2> HIDE DEF one
  <2> QED
    BY <2>3, <2>4 DEF PlacesOK
<1> QED
  BY <1>1, <1>2, <1>3

LEMMA OnePlace ==
  ASSUME PlacesOK, NEW p \in Buttons!Places, setup' = setup,
         \A q \in Buttons!Places \ {p} :
           press'[q] = press[q] /\ long'[q] = long[q] /\ ran'[q] = ran[q],
         DOMAIN ran' = Buttons!Places, ran' = [q \in Buttons!Places |-> ran'[q]],
         PlaceOK(p)'
  PROVE  PlacesOK'
<1>1. ASSUME NEW q \in Buttons!Places PROVE PlaceOK(q)'
  BY PlaceSame DEF PlacesOK
<1> QED
  BY <1>1 DEF PlacesOK

LEMMA OneHand ==
  ASSUME HandsOK, NEW k \in Keys, setup' = setup, \A j \in Keys \ {k} : at'[j] = at[j],
         HandOK(k)'
  PROVE  HandsOK'
<1>1. ASSUME NEW j \in Keys PROVE HandOK(j)'
  BY HandSame DEF HandsOK
<1> QED
  BY <1>1 DEF HandsOK

LEMMA AllSame ==
  ASSUME PlacesOK, setup' = setup, UNCHANGED <<press, long, ran>>
  PROVE  PlacesOK'
<1>1. ASSUME NEW q \in Buttons!Places PROVE PlaceOK(q)'
  BY PlaceSame DEF PlacesOK
<1> QED
  BY <1>1 DEF PlacesOK

\* A thread that has come to rest has nothing in hand.
LEMMA DoneHand ==
  ASSUME KeysTyped, HandsOK, NEW k \in Keys, setup' = setup, Buttons!Done(k)
  PROVE  HandsOK'
<1>1. at'[k] = Buttons!Idle /\ \A j \in Keys \ {k} : at'[j] = at[j]
  BY DEF KeysTyped, Buttons!Done
<1>2. HandOK(k)'
  BY <1>1 DEF HandOK, Buttons!Idle
<1> QED
  BY <1>1, <1>2, OneHand

LEMMA DispatchCounts ==
  ASSUME KeysTyped, PlacesOK, HandsOK, NEW k \in Keys, Buttons!Dispatch(k)
  PROVE  PlacesOK' /\ HandsOK'
<1>a. PICK p \in Buttons!Places : p = Buttons!Place(k)
  BY FoundTyped DEF KeysTyped
<1>b. PICK bd : bd = Buttons!Bd(k)
  OBVIOUS
<1>1. /\ p \in Buttons!Places /\ Buttons!Found(k) \in Layers /\ p = <<Buttons!Found(k), k>>
      /\ bd = Buttons!binds[p]
  BY <1>a, <1>b, FoundTyped DEF KeysTyped, Buttons!Bd
<1>2. PlaceOK(p)
  BY <1>1 DEF PlacesOK
<1>3. /\ press \in [Buttons!Places -> Buttons!Records \cup {Buttons!NoRecord}]
      /\ long \in [Buttons!Places -> Buttons!Records \cup {Buttons!NoRecord}]
      /\ at \in [Keys -> Buttons!Threads]
      /\ DOMAIN ran = Buttons!Places /\ ran = [q \in Buttons!Places |-> ran[q]]
  BY DEF KeysTyped, RecordsTyped, PlacesOK
<1>4. Buttons!Look(k) => setup' = setup
  BY DEF Buttons!Look
<1>5. setup' = setup => Buttons!binds' = Buttons!binds
  BY DEF Buttons!binds
<1>6. CASE Buttons!NothingBound(k)
  BY <1>4, <1>6, AllSame, DoneHand DEF Buttons!NothingBound
<1>7. CASE Buttons!DeferPress(k)
  <2> DEFINE armed == Buttons!LongSlot(bd, Buttons!Snapshot) # "none"
             new == Buttons!NewRecord(Buttons!Snapshot, armed)
  <2>1. /\ press' = [press EXCEPT ![p] = new] /\ long' = long
        /\ ran' = [ran EXCEPT ![p] = [short |-> 0, long |-> 0]]
        /\ Buttons!Deferred(bd) /\ Buttons!Look(k) /\ Buttons!Done(k)
    BY <1>a, <1>b, <1>7 DEF Buttons!DeferPress
  <2>2. HandsOK' /\ setup' = setup
    BY <1>4, <2>1, DoneHand
  <2>3. bd # Buttons!Unbound /\ bd.behavior = "Momentary"
    BY <2>1, DeferredBinding
  <2>4. long[p] = Buttons!NoRecord
    BY <1>1, <1>2, <2>1 DEF PlaceOK, Fits
  <2> HIDE DEF new, armed
  <2>5. press'[p] = new /\ long'[p] = Buttons!NoRecord /\ ran'[p] = Zero
    BY <1>1, <1>3, <2>1, <2>4 DEF Zero
  <2>6. PlaceOK(p)'
    BY <1>1, <1>5, <2>1, <2>2, <2>3, <2>5 DEF PlaceOK, Fits, Pending, Counts, Zero
  <2> QED
    BY <1>1, <1>3, <2>1, <2>2, <2>6, OnePlace
<1>8. CASE Buttons!DeferRelease(k)
  <2> DEFINE what == IF press[p] = Buttons!NoRecord THEN "nothing" ELSE Buttons!Decide(bd, press[p])
  <2>1. /\ press' = [press EXCEPT ![p] = Buttons!NoRecord] /\ long' = long
        /\ Buttons!Count(p, what)
        /\ Buttons!Deferred(bd) /\ Buttons!Look(k) /\ Buttons!Done(k)
    BY <1>a, <1>b, <1>8 DEF Buttons!DeferRelease
  <2>2. HandsOK' /\ setup' = setup
    BY <1>4, <2>1, DoneHand
  <2>3. what \in {"nothing", "short", "long"}
    BY DEF Buttons!Decide
  <2>4. what = "nothing" \/ ran[p] = Zero
    BY <1>1, <1>2, <2>1 DEF PlaceOK, Pending, Buttons!Decide
  <2>5. long[p] = Buttons!NoRecord
    BY <1>1, <1>2, <2>1 DEF PlaceOK, Fits
  <2> HIDE DEF what
  <2>6. /\ DOMAIN ran' = Buttons!Places /\ ran' = [q \in Buttons!Places |-> ran'[q]]
        /\ ran'[p] \in Counts /\ ran'[p].short + ran'[p].long <= 1
        /\ \A q \in Buttons!Places \ {p} : ran'[q] = ran[q]
    BY <1>1, <2>1, <2>3, <2>4, CountOnce
  <2>7. press'[p] = Buttons!NoRecord /\ long'[p] = Buttons!NoRecord
    BY <1>1, <1>3, <2>1, <2>5
  <2>8. PlaceOK(p)'
    BY <2>6, <2>7 DEF PlaceOK, Fits, Pending
  <2> QED
    BY <1>1, <1>3, <2>1, <2>2, <2>6, <2>8, OnePlace
<1>9. CASE Buttons!TakeSlot(k)
  <2> DEFINE m == Buttons!SlotTaken(k)
             th == [step |-> "fire", pressed |-> at[k].pressed, layer |-> Buttons!Found(k),
                    slot |-> Buttons!SlotOf(bd, m)]
             new == Buttons!NewRecord(m, FALSE)
  <2>1. /\ at' = [at EXCEPT ![k] = th] /\ long' = long /\ ran' = ran
        /\ \/ press' = press
           \/ bd.behavior # "Toggle" /\ press' = [press EXCEPT ![p] = new]
           \/ press' = [press EXCEPT ![p] = Buttons!NoRecord]
        /\ Buttons!Look(k) /\ bd # Buttons!Unbound /\ ~Buttons!Deferred(bd)
    BY <1>a, <1>b, <1>9 DEF Buttons!TakeSlot
  <2>2. setup' = setup
    BY <1>4, <2>1
  <2>3. th.step = "fire" /\ th.layer = Buttons!Found(k)
    OBVIOUS
  <2>4. ~new.armed
    BY DEF Buttons!NewRecord
  <2> HIDE DEF m, th, new
  <2>5. at'[k] = th /\ \A j \in Keys \ {k} : at'[j] = at[j]
    BY <1>3, <2>1
  <2>6. HandOK(k)'
    BY <1>1, <1>5, <2>1, <2>2, <2>3, <2>5 DEF HandOK, Buttons!Held
  <2>7. PlaceOK(p)'
    <3>1. CASE press' = press
      BY <1>2, <2>1, <2>2, <3>1, PlaceSame
    <3>2. CASE bd.behavior # "Toggle" /\ press' = [press EXCEPT ![p] = new]
      <4>1. press'[p] = new /\ long'[p] = long[p] /\ ran'[p] = ran[p]
        BY <1>1, <1>3, <2>1, <3>2
      <4> QED
        BY <1>1, <1>2, <1>5, <2>1, <2>2, <2>4, <3>2, <4>1 DEF PlaceOK, Fits, Pending
    <3>3. CASE press' = [press EXCEPT ![p] = Buttons!NoRecord]
      <4>1. press'[p] = Buttons!NoRecord /\ long'[p] = long[p] /\ ran'[p] = ran[p]
        BY <1>1, <1>3, <2>1, <3>3
      <4> QED
        BY <1>1, <1>2, <1>5, <2>1, <2>2, <4>1 DEF PlaceOK, Fits, Pending
    <3> QED
      BY <2>1, <3>1, <3>2, <3>3
  <2>8. \A q \in Buttons!Places \ {p} :
          press'[q] = press[q] /\ long'[q] = long[q] /\ ran'[q] = ran[q]
    BY <1>1, <1>3, <2>1
  <2> QED
    BY <1>1, <1>3, <2>1, <2>2, <2>5, <2>6, <2>7, <2>8, OnePlace, OneHand
<1>10. CASE Buttons!Fire(k)
  <2>1. /\ at[k].step = "fire"
        /\ at' = [at EXCEPT ![k] = IF Buttons!HasLong(Buttons!Held(k))
                                   THEN [@ EXCEPT !.step = "long"] ELSE Buttons!Idle]
        /\ UNCHANGED <<setup, press, long, ran>>
    BY <1>10 DEF Buttons!Fire
  <2>2. HandOK(k)
    BY DEF HandsOK
  <2>3. HandOK(k)'
    <3>1. CASE Buttons!HasLong(Buttons!Held(k))
      <4>1. at'[k] = [at[k] EXCEPT !.step = "long"]
        BY <1>3, <2>1, <3>1
      <4>2. at[k] \in [step : {"fire", "long"}, pressed : BOOLEAN, layer : Layers,
                       slot : Buttons!Mods]
        BY <1>3, <2>1, ThreadCases
      <4>3. at'[k].layer = at[k].layer
        BY <4>1, <4>2
      <4> QED
        BY <1>5, <2>1, <2>2, <3>1, <4>3 DEF HandOK, Buttons!Held
    <3>2. CASE ~Buttons!HasLong(Buttons!Held(k))
      <4>1. at'[k] = Buttons!Idle
        BY <1>3, <2>1, <3>2
      <4> QED
        BY <4>1 DEF HandOK, Buttons!Idle
    <3> QED
      BY <3>1, <3>2
  <2>4. \A j \in Keys \ {k} : at'[j] = at[j]
    BY <1>3, <2>1
  <2> QED
    BY <2>1, <2>3, <2>4, AllSame, OneHand
<1>11. CASE Buttons!TakeLong(k)
  <2>a. PICK q : q = <<at[k].layer, k>>
    OBVIOUS
  <2> DEFINE rec == long[q]
             new == Buttons!NewRecord(at[k].slot,
                      Buttons!LongSlot(Buttons!Held(k), at[k].slot) # "none")
             what == IF rec # Buttons!NoRecord /\ ~rec.fired /\ rec.ripe
                         /\ Buttons!LongSlot(Buttons!Held(k), rec.mod) # "none"
                     THEN "long" ELSE "nothing"
  <2>1. /\ at[k].step = "long" /\ Buttons!Done(k) /\ press' = press /\ setup' = setup
        /\ at[k].pressed => /\ long' = [long EXCEPT ![q] = new]
                            /\ ran' = [ran EXCEPT ![q] = [short |-> 0, long |-> 0]]
        /\ ~at[k].pressed => /\ long' = [long EXCEPT ![q] = Buttons!NoRecord]
                             /\ Buttons!Count(q, what)
    BY <1>11, <2>a DEF Buttons!TakeLong
  <2>2. at[k] \in [step : {"fire", "long"}, pressed : BOOLEAN, layer : Layers,
                   slot : Buttons!Mods]
    BY <1>3, <2>1, ThreadCases
  <2>3. q \in Buttons!Places
    BY <2>2, <2>a DEF Buttons!Places
  <2>4. /\ Buttons!binds[q] # Buttons!Unbound /\ ~Buttons!Deferred(Buttons!binds[q])
        /\ Buttons!HasLong(Buttons!binds[q])
    BY <2>1, <2>a DEF HandsOK, HandOK, Buttons!Held
  <2>5. PlaceOK(q)
    BY <2>3 DEF PlacesOK
  <2>6. what \in {"nothing", "long"} /\ (what = "nothing" \/ ran[q] = Zero)
    BY <2>5 DEF PlaceOK, Pending
  <2>7. HandsOK'
    BY <2>1, DoneHand
  <2> HIDE DEF rec, new, what
  <2>8. CASE at[k].pressed
    <3>1. long'[q] = new /\ press'[q] = press[q] /\ ran'[q] = Zero
      BY <1>3, <2>1, <2>3, <2>8 DEF Zero
    <3>2. PlaceOK(q)'
      BY <1>5, <2>1, <2>4, <2>5, <3>1 DEF PlaceOK, Fits, Pending, Counts, Zero
    <3>3. ran' = [ran EXCEPT ![q] = [short |-> 0, long |-> 0]]
      BY <2>1, <2>8
    <3>4. DOMAIN ran' = Buttons!Places /\ ran' = [r \in Buttons!Places |-> ran'[r]]
      BY <1>3, <3>3
    <3>5. \A r \in Buttons!Places \ {q} :
            press'[r] = press[r] /\ long'[r] = long[r] /\ ran'[r] = ran[r]
      BY <1>3, <2>1, <2>8, <3>3
    <3> QED
      BY <2>1, <2>3, <2>7, <3>2, <3>4, <3>5, OnePlace
  <2>9. CASE ~at[k].pressed
    <3>1. /\ DOMAIN ran' = Buttons!Places /\ ran' = [r \in Buttons!Places |-> ran'[r]]
          /\ ran'[q] \in Counts /\ ran'[q].short + ran'[q].long <= 1
          /\ \A r \in Buttons!Places \ {q} : ran'[r] = ran[r]
      BY <2>1, <2>3, <2>6, <2>9, CountOnce
    <3>2. long'[q] = Buttons!NoRecord /\ press'[q] = press[q]
      BY <1>3, <2>1, <2>3, <2>9
    <3>3. PlaceOK(q)'
      BY <1>5, <2>1, <2>4, <2>5, <3>1, <3>2 DEF PlaceOK, Fits, Pending
    <3> QED
      BY <1>3, <2>1, <2>3, <2>7, <2>9, <3>1, <3>3, OnePlace
  <2> QED
    BY <2>2, <2>8, <2>9
<1> QED
  BY <1>6, <1>7, <1>8, <1>9, <1>10, <1>11 DEF Buttons!Dispatch

\* The threshold fires what is due, once.
LEMMA TickCounts ==
  ASSUME KeysTyped, PlacesOK, Buttons!TickLongPress
  PROVE  PlacesOK'
<1> DEFINE due(p) == Buttons!Due(press[p]) \/ Buttons!Due(long[p])
<1>1. /\ press' = Buttons!Mark(press) /\ long' = Buttons!Mark(long) /\ setup' = setup
      /\ ran' = [p \in Buttons!Places |->
                   IF due(p) THEN [ran[p] EXCEPT !.long = @ + 1] ELSE ran[p]]
  BY DEF Buttons!TickLongPress
<1>2. ASSUME NEW p \in Buttons!Places PROVE PlaceOK(p)'
  <2>1. /\ press'[p] = IF Buttons!Due(press[p]) THEN [press[p] EXCEPT !.fired = TRUE] ELSE press[p]
        /\ long'[p] = IF Buttons!Due(long[p]) THEN [long[p] EXCEPT !.fired = TRUE] ELSE long[p]
        /\ ran'[p] = IF due(p) THEN [ran[p] EXCEPT !.long = @ + 1] ELSE ran[p]
    BY <1>1 DEF Buttons!Mark
  <2>2. PlaceOK(p) /\ Buttons!binds' = Buttons!binds
    BY <1>1 DEF PlacesOK, Buttons!binds
  <2>3. /\ press[p] \in Buttons!Records \cup {Buttons!NoRecord}
        /\ long[p] \in Buttons!Records \cup {Buttons!NoRecord}
    BY DEF KeysTyped, RecordsTyped
  <2>4. CASE ~due(p)
    <3>1. press'[p] = press[p] /\ long'[p] = long[p] /\ ran'[p] = ran[p]
      BY <2>1, <2>4
    <3> QED
      BY <1>1, <2>2, <3>1, PlaceSame
  <2>5. CASE due(p)
    <3>1. ran[p] = Zero
      BY <2>2, <2>5 DEF PlaceOK, Fits, Pending, Buttons!Due
    <3>2. ran'[p] = [Zero EXCEPT !.long = 0 + 1]
      BY <2>1, <2>5, <3>1 DEF Zero
    <3>3. ran'[p] \in Counts /\ ran'[p].short + ran'[p].long <= 1
      BY <3>2 DEF Zero, Counts
    <3>4. CASE Buttons!Due(press[p])
      <4>1. press[p] # Buttons!NoRecord /\ press[p].armed /\ press[p] \in Buttons!Records
        BY <2>3, <3>4 DEF Buttons!Due
      <4>2. Buttons!Deferred(Buttons!binds[p]) /\ long[p] = Buttons!NoRecord
        BY <2>2, <4>1 DEF PlaceOK, Fits
      <4>3. long'[p] = Buttons!NoRecord
        BY <2>1, <4>2 DEF Buttons!Due
      <4>4. press'[p].fired
        BY <2>1, <3>4, <4>1 DEF Buttons!Records
      <4> QED
        BY <2>2, <3>3, <4>1, <4>2, <4>3, <4>4 DEF PlaceOK, Fits, Pending
    <3>5. CASE ~Buttons!Due(press[p]) /\ Buttons!Due(long[p])
      <4>1. long[p] # Buttons!NoRecord /\ long[p] \in Buttons!Records
        BY <2>3, <3>5 DEF Buttons!Due
      <4>2. ~Buttons!Deferred(Buttons!binds[p]) /\ press'[p] = press[p]
        BY <2>1, <2>2, <3>5, <4>1 DEF PlaceOK, Fits
      <4>3. long'[p].fired
        BY <2>1, <3>5, <4>1 DEF Buttons!Records
      <4> QED
        BY <2>2, <3>3, <4>1, <4>2, <4>3 DEF PlaceOK, Fits, Pending
    <3> QED
      BY <2>5, <3>4, <3>5
  <2> QED
    BY <2>4, <2>5
<1>3. DOMAIN ran' = Buttons!Places /\ ran' = [p \in Buttons!Places |-> ran'[p]]
  BY <1>1
<1> QED
  BY <1>2, <1>3 DEF PlacesOK

LEMMA RipensCounts ==
  ASSUME KeysTyped, PlacesOK, NEW p \in Buttons!Places, Buttons!Ripens(p)
  PROVE  PlacesOK'
<1>1. UNCHANGED <<setup, ran>>
  BY DEF Buttons!Ripens, Buttons!past
<1>2. PlaceOK(p) /\ Buttons!binds' = Buttons!binds
  BY <1>1 DEF PlacesOK, Buttons!binds
<1>3. /\ press \in [Buttons!Places -> Buttons!Records \cup {Buttons!NoRecord}]
      /\ long \in [Buttons!Places -> Buttons!Records \cup {Buttons!NoRecord}]
      /\ DOMAIN ran' = Buttons!Places /\ ran' = [q \in Buttons!Places |-> ran'[q]]
  BY <1>1 DEF KeysTyped, RecordsTyped, PlacesOK
<1>4. CASE press[p] # Buttons!NoRecord /\ press' = [press EXCEPT ![p].ripe = TRUE] /\ long' = long
  <2>1. press[p] \in Buttons!Records /\ press'[p] = [press[p] EXCEPT !.ripe = TRUE]
    BY <1>3, <1>4
  <2>2. press'[p].fired = press[p].fired /\ press'[p].armed = press[p].armed
    BY <2>1 DEF Buttons!Records
  <2>3. PlaceOK(p)'
    BY <1>1, <1>2, <1>4, <2>2 DEF PlaceOK, Fits, Pending
  <2> QED
    BY <1>1, <1>3, <1>4, <2>3, OnePlace
<1>5. CASE long[p] # Buttons!NoRecord /\ long' = [long EXCEPT ![p].ripe = TRUE] /\ press' = press
  <2>1. long[p] \in Buttons!Records /\ long'[p] = [long[p] EXCEPT !.ripe = TRUE]
    BY <1>3, <1>5
  <2>2. long'[p].fired = long[p].fired
    BY <2>1 DEF Buttons!Records
  <2>3. PlaceOK(p)'
    BY <1>1, <1>2, <1>5, <2>2 DEF PlaceOK, Fits, Pending
  <2> QED
    BY <1>1, <1>3, <1>5, <2>3, OnePlace
<1> QED
  BY <1>4, <1>5 DEF Buttons!Ripens

LEMMA EdgeCounts ==
  ASSUME KeysTyped, PlacesOK, HandsOK, NEW k \in Keys,
         Buttons!Press(k) \/ Buttons!Release(k) \/ Buttons!LoseRelease(k)
  PROVE  PlacesOK' /\ HandsOK'
<1> USE DEF Buttons!shared, Buttons!past
<1>1. UNCHANGED <<setup, press, long, ran>>
  BY DEF Buttons!Press, Buttons!Release, Buttons!LoseRelease
<1>2. at \in [Keys -> Buttons!Threads]
  BY DEF KeysTyped
<1>3. \/ at' = at
      \/ at' = [at EXCEPT ![k] = [step |-> "look", pressed |-> TRUE]]
      \/ at' = [at EXCEPT ![k] = [step |-> "look", pressed |-> FALSE]]
  BY DEF Buttons!Press, Buttons!SwallowPress, Buttons!Release, Buttons!LoseRelease
<1>4. (at'[k] = at[k] \/ at'[k].step = "look") /\ \A j \in Keys \ {k} : at'[j] = at[j]
  BY <1>2, <1>3
<1>5. HandOK(k)'
  <2>1. CASE at'[k] = at[k]
    BY <1>1, <2>1, HandSame DEF HandsOK
  <2>2. CASE at'[k].step = "look"
    BY <2>2 DEF HandOK
  <2> QED
    BY <1>4, <2>1, <2>2
<1> QED
  BY <1>1, <1>4, <1>5, AllSame, OneHand

LEMMA KeysCountStep ==
  ASSUME KeysTyped, PlacesOK, HandsOK, KeysStep
  PROVE  PlacesOK' /\ HandsOK'
<1> USE DEF Buttons!shared, Buttons!past
<1>1. ASSUME UNCHANGED <<setup, at>> PROVE HandsOK'
  BY <1>1, HandSame DEF HandsOK
<1>2. CASE Buttons!TickLongPress
  <2>1. UNCHANGED <<setup, at>>
    BY <1>2 DEF Buttons!TickLongPress
  <2> QED
    BY <1>1, <1>2, <2>1, TickCounts
<1>3. ASSUME NEW p \in Buttons!Places, Buttons!Ripens(p) PROVE PlacesOK' /\ HandsOK'
  <2>1. UNCHANGED <<setup, at>>
    BY <1>3 DEF Buttons!Ripens
  <2> QED
    BY <1>1, <1>3, <2>1, RipensCounts
<1>4. Buttons!ShiftTimePasses \/ Buttons!SetActiveLayer \/ Buttons!FallAsleep
        \/ Buttons!WindowPasses \/ UNCHANGED keys => UNCHANGED <<setup, at, press, long, ran>>
  BY DEF Buttons!ShiftTimePasses, Buttons!SetActiveLayer, Buttons!FallAsleep,
         Buttons!WindowPasses, keys
<1>5. UNCHANGED <<setup, at, press, long, ran>> => PlacesOK' /\ HandsOK'
  BY <1>1, AllSame
<1> QED
  BY <1>2, <1>3, <1>4, <1>5, EdgeCounts, DispatchCounts DEF KeysStep, Buttons!Next

-----------------------------------------------------------------------------
(* The wake of a dark surface.                                              *)

\* The marks of the release and of the press are put down together.
LEMMA EatsPairsStep == KeysTyped /\ WakeEatsPairs /\ KeysStep => WakeEatsPairs'
<1> SUFFICES ASSUME KeysTyped, WakeEatsPairs, KeysStep PROVE WakeEatsPairs'
  OBVIOUS
<1> USE DEF WakeEatsPairs, Buttons!WakeEatsPairs, Buttons!wake, Buttons!past, Buttons!shared
<1>1. ASSUME NEW k \in Keys, Buttons!Press(k) PROVE WakeEatsPairs'
  <2>1. held' = held \cup {k} /\ Buttons!SwallowPress(k)
    BY <1>1 DEF Buttons!Press
  <2> QED
    BY <2>1 DEF Buttons!SwallowPress
<1>2. ASSUME NEW k \in Keys, Buttons!Release(k) \/ Buttons!LoseRelease(k) PROVE WakeEatsPairs'
  BY <1>2 DEF Buttons!Release, Buttons!LoseRelease
<1>3. ASSUME NEW k \in Keys, Buttons!Dispatch(k) PROVE UNCHANGED <<held, swallowed, eaten>>
  BY <1>3 DEF Buttons!Dispatch, Buttons!NothingBound, Buttons!DeferPress, Buttons!DeferRelease,
              Buttons!TakeSlot, Buttons!Fire, Buttons!TakeLong, Buttons!Look
<1>4. Buttons!TickLongPress \/ Buttons!ShiftTimePasses \/ (\E p \in Buttons!Places : Buttons!Ripens(p))
        \/ Buttons!SetActiveLayer \/ Buttons!FallAsleep \/ Buttons!WindowPasses
        \/ UNCHANGED keys => UNCHANGED <<held, swallowed, eaten>>
  BY DEF Buttons!TickLongPress, Buttons!ShiftTimePasses, Buttons!Ripens,
         Buttons!SetActiveLayer, Buttons!FallAsleep, Buttons!WindowPasses, keys
<1>5. UNCHANGED <<held, swallowed, eaten>> => WakeEatsPairs'
  OBVIOUS
<1> QED
  BY <1>1, <1>2, <1>3, <1>4, <1>5 DEF KeysStep, Buttons!Next


-----------------------------------------------------------------------------
(* The keys: nothing stays on.                                              *)

\* A lasting action is bound where a release ends it: a Hold runs at both edges, and
\* so does mod_shift in a Momentary binding that decides nothing at the release.
LastingHeld ==
  \A u \in Setups, p \in Buttons!Places, m \in Buttons!Mods :
    (u.binds[p] # Buttons!Unbound /\ u.binds[p].short[m] \in Buttons!Lasting) =>
      \/ u.binds[p].behavior = "Hold"
      \/ /\ u.binds[p].behavior = "Momentary" /\ ~Buttons!HasLong(u.binds[p])
         /\ u.binds[p].short[m] = "shift"

Lasts(a) == IF a \in Buttons!Lasting THEN a ELSE "none"

\* A binding that runs the slot of the press at both edges.
Single(bd) == bd # Buttons!Unbound /\ bd.behavior # "Toggle" /\ ~Buttons!Deferred(bd)

\* The place of the last press of a key, and its binding.
There(k) == <<from[k].layer, k>>
Own(k) == Buttons!binds[There(k)]

NoneAt(p) == press[p].mod = "none" /\ long[p].mod = "none"
OnlyThere(k) == \A l \in Layers \ {from[k].layer} : NoneAt(<<l, k>>)

Resting(k) == at[k].step = "idle" /\ ~(k \in held /\ k \notin swallowed)
Holding(k) == at[k].step = "idle" /\ k \in held /\ k \notin swallowed
Looks(k, pressed) == at[k].step = "look" /\ at[k].pressed = pressed

\* Nothing is left of an earlier press.
Fresh(k) == (\A l \in Layers : NoneAt(<<l, k>>)) /\ engaged[k] = "none"

\* The press has been dealt with as far as its records go.
Begun(k) ==
  /\ OnlyThere(k) /\ (from[k].written <=> Buttons!Written(Own(k)))
  /\ Single(Own(k)) => press[There(k)].mod # "none"

\* The record of the press names the slot whose lasting action is on.
Kept(k) ==
  /\ Begun(k) /\ (from[k].written => ~NoneAt(There(k)))
  /\ engaged[k] =
       IF Single(Own(k))
         THEN Lasts(Own(k).short[Buttons!SlotOf(Own(k), press[There(k)].mod)]) ELSE "none"

InHand(k) ==
  /\ at[k].layer = from[k].layer
  /\ at[k].pressed =>
       /\ Begun(k) /\ long[There(k)].mod = "none"
       /\ Single(Own(k)) => at[k].slot = Buttons!SlotOf(Own(k), press[There(k)].mod)
       /\ engaged[k] = IF at[k].step = "long" /\ Single(Own(k))
                         THEN Lasts(Own(k).short[at[k].slot]) ELSE "none"
  /\ ~at[k].pressed =>
       /\ OnlyThere(k) /\ press[There(k)].mod = "none"
       /\ ~Buttons!HasLong(Own(k)) => long[There(k)].mod = "none"
       /\ engaged[k] = IF at[k].step = "fire" /\ Single(Own(k))
                         THEN Lasts(Own(k).short[at[k].slot]) ELSE "none"

KeyOK(k) ==
  /\ at[k].step # "idle" =>
       IF at[k].pressed THEN k \in held /\ k \notin swallowed ELSE k \notin held
  /\ Resting(k) \/ Looks(k, TRUE) => Fresh(k)
  /\ Holding(k) \/ Looks(k, FALSE) => Kept(k)
  /\ at[k].step \in {"fire", "long"} => InHand(k)

\* The toggle is on if an odd number of keys holds it, the modifier if a key does.
Flippers == {k \in Keys : engaged[k] = "flip"}
FlipsOK ==
  \E n \in Nat : Cardinality(Flippers) = IF on["flip"] THEN 2 * n + 1 ELSE 2 * n
ShiftOK == on["shift"] => latch.latched \/ \E k \in Keys : engaged[k] = "shift"

StuckInv == spoilt = {} => FlipsOK /\ ShiftOK /\ \A k \in Keys : KeyOK(k)

\* A step that leaves a key and the modifiers of its records alone.
Untouched(k) ==
  /\ at'[k] = at[k] /\ engaged'[k] = engaged[k] /\ from'[k] = from[k]
  /\ (k \in held' <=> k \in held) /\ (k \in swallowed' <=> k \in swallowed)
  /\ \A l \in Layers : /\ press'[<<l, k>>].mod = press[<<l, k>>].mod
                       /\ long'[<<l, k>>].mod = long[<<l, k>>].mod

LEMMA NoneMod ==
  ASSUME NEW rec \in Buttons!Records \cup {Buttons!NoRecord}
  PROVE  rec = Buttons!NoRecord <=> rec.mod = "none"
BY DEF Buttons!Records, Buttons!NoRecord, Buttons!Mods

LEMMA KeySame ==
  ASSUME NEW k \in Keys, from[k].layer \in Layers, KeyOK(k), setup' = setup, Untouched(k)
  PROVE  KeyOK(k)'
<1>1. There(k)' = There(k) /\ Own(k)' = Own(k)
  BY DEF There, Own, Buttons!binds, Untouched
<1>2. press'[There(k)].mod = press[There(k)].mod /\ long'[There(k)].mod = long[There(k)].mod
  BY DEF There, Untouched
<1>3. OnlyThere(k)' <=> OnlyThere(k)
  BY DEF OnlyThere, NoneAt, Untouched
<1>4. (\A l \in Layers : NoneAt(<<l, k>>))' <=> \A l \in Layers : NoneAt(<<l, k>>)
  BY DEF NoneAt, Untouched
<1>5. Fresh(k)' <=> Fresh(k)
  BY <1>4 DEF Fresh, Untouched
<1>6. Begun(k)' <=> Begun(k)
  BY <1>1, <1>2, <1>3 DEF Begun, Untouched
<1>7. Kept(k)' <=> Kept(k)
  BY <1>1, <1>2, <1>6 DEF Kept, NoneAt, Untouched
<1>8. InHand(k)' <=> InHand(k)
  BY <1>1, <1>2, <1>3, <1>6 DEF InHand, Untouched
<1> QED
  BY <1>5, <1>7, <1>8 DEF KeyOK, Resting, Holding, Looks, Untouched

\* The three ways in which a step may leave a key.
LEMMA LeftResting ==
  ASSUME NEW k \in Keys, at'[k] = Buttons!Idle, ~(k \in held' /\ k \notin swallowed'),
         Fresh(k)'
  PROVE  KeyOK(k)'
BY DEF KeyOK, Resting, Holding, Looks, Buttons!Idle

LEMMA LeftHolding ==
  ASSUME NEW k \in Keys, at'[k] = Buttons!Idle, k \in held', k \notin swallowed', Kept(k)'
  PROVE  KeyOK(k)'
BY DEF KeyOK, Resting, Holding, Looks, Buttons!Idle

LEMMA LeftInHand ==
  ASSUME NEW k \in Keys, at'[k].step \in {"fire", "long"}, InHand(k)',
         IF at'[k].pressed THEN k \in held' /\ k \notin swallowed' ELSE k \notin held'
  PROVE  KeyOK(k)'
BY DEF KeyOK, Resting, Holding, Looks

\* A step of a thread touches no other key.
LEMMA DispatchOthers ==
  ASSUME KeysTyped, NEW k \in Keys, NEW j \in Keys \ {k}, Buttons!Dispatch(k)
  PROVE  setup' = setup /\ Untouched(j)
<1>a. PICK p : p = Buttons!Place(k)
  OBVIOUS
<1>b. p = <<Buttons!Found(k), k>>
  BY <1>a, FoundTyped DEF KeysTyped
<1>1. /\ press \in [Buttons!Places -> Buttons!Records \cup {Buttons!NoRecord}]
      /\ long \in [Buttons!Places -> Buttons!Records \cup {Buttons!NoRecord}]
      /\ at \in [Keys -> Buttons!Threads] /\ from \in [Keys -> [layer : Layers, written : BOOLEAN]]
      /\ engaged \in [Keys -> Buttons!Lasting \cup {"none"}]
  BY DEF KeysTyped, RecordsTyped, PastTyped
<1>2. setup' = setup /\ held' = held /\ swallowed' = swallowed
  BY DEF Buttons!Dispatch, Buttons!NothingBound, Buttons!DeferPress, Buttons!DeferRelease,
         Buttons!TakeSlot, Buttons!Fire, Buttons!TakeLong, Buttons!Look, Buttons!wake
<1>3. at'[j] = at[j]
  BY <1>1 DEF Buttons!Dispatch, Buttons!NothingBound, Buttons!DeferPress, Buttons!DeferRelease,
         Buttons!TakeSlot, Buttons!Fire, Buttons!TakeLong, Buttons!Done
<1>4. from'[j] = from[j]
  BY <1>1 DEF Buttons!Dispatch, Buttons!NothingBound, Buttons!DeferPress, Buttons!DeferRelease,
         Buttons!TakeSlot, Buttons!Fire, Buttons!TakeLong, Buttons!Look
<1>5. engaged'[j] = engaged[j]
  BY <1>1 DEF Buttons!Dispatch, Buttons!NothingBound, Buttons!DeferPress, Buttons!DeferRelease,
         Buttons!TakeSlot, Buttons!Fire, Buttons!TakeLong, Buttons!Look
<1>6. ASSUME NEW l \in Layers PROVE press'[<<l, j>>] = press[<<l, j>>]
  <2>1. press' = press \/ \E v : press' = [press EXCEPT ![p] = v]
    BY <1>a DEF Buttons!Dispatch, Buttons!NothingBound, Buttons!DeferPress,
       Buttons!DeferRelease, Buttons!TakeSlot, Buttons!Fire, Buttons!TakeLong
  <2>2. <<l, j>> \in Buttons!Places /\ <<l, j>> # p
    BY <1>b DEF Buttons!Places
  <2> QED
    BY <1>1, <2>1, <2>2
<1>7. ASSUME NEW l \in Layers PROVE long'[<<l, j>>] = long[<<l, j>>]
  <2>1. long' = long \/ \E v : long' = [long EXCEPT ![<<at[k].layer, k>>] = v]
    BY DEF Buttons!Dispatch, Buttons!NothingBound, Buttons!DeferPress,
       Buttons!DeferRelease, Buttons!TakeSlot, Buttons!Fire, Buttons!TakeLong
  <2>2. <<l, j>> \in Buttons!Places /\ <<l, j>> # <<at[k].layer, k>>
    BY DEF Buttons!Places
  <2> QED
    BY <1>1, <2>1, <2>2
<1> QED
  BY <1>2, <1>3, <1>4, <1>5, <1>6, <1>7 DEF Untouched

\* What a press finds, and what it notes of it.
LEMMA PressLooks ==
  ASSUME KeysTyped, NEW k \in Keys, KeyOK(k), Buttons!Look(k), at[k].pressed
  PROVE  /\ k \in held' /\ k \notin swallowed' /\ engaged'[k] = "none"
         /\ There(k)' = Buttons!Place(k) /\ Own(k)' = Buttons!Bd(k)
         /\ from'[k].layer = Buttons!Found(k)
         /\ from'[k].written <=> Buttons!Written(Buttons!Bd(k))
         /\ \A l \in Layers : press[<<l, k>>] = Buttons!NoRecord /\ long[<<l, k>>] = Buttons!NoRecord
<1>1. /\ at[k].step = "look" /\ UNCHANGED <<setup, held, swallowed, engaged>>
      /\ from' = [from EXCEPT ![k] = [layer |-> Buttons!Found(k),
                                      written |-> Buttons!Written(Buttons!Bd(k))]]
  BY DEF Buttons!Look, Buttons!wake
<1>2. from'[k] = [layer |-> Buttons!Found(k), written |-> Buttons!Written(Buttons!Bd(k))]
  BY <1>1 DEF KeysTyped, PastTyped
<1>3. Buttons!Place(k) = <<Buttons!Found(k), k>>
  BY FoundTyped DEF KeysTyped
<1>4. There(k)' = Buttons!Place(k)
  BY <1>2, <1>3 DEF There
<1>5. Own(k)' = Buttons!Bd(k)
  BY <1>1, <1>4 DEF Own, Buttons!Bd, Buttons!binds
<1>6. k \in held /\ k \notin swallowed /\ Fresh(k)
  BY <1>1 DEF KeyOK, Looks
<1>7. ASSUME NEW l \in Layers
      PROVE  press[<<l, k>>] = Buttons!NoRecord /\ long[<<l, k>>] = Buttons!NoRecord
  <2>1. <<l, k>> \in Buttons!Places
    BY DEF Buttons!Places
  <2>2. NoneAt(<<l, k>>)
    BY <1>6 DEF Fresh
  <2> QED
    BY <2>1, <2>2, NoneMod DEF NoneAt, KeysTyped, RecordsTyped
<1> QED
  BY <1>1, <1>2, <1>4, <1>5, <1>6, <1>7 DEF Fresh

\* A release finds the layer of its press, whatever the layer of the moment, unless
\* the press left no record.
LEMMA ReleaseLooks ==
  ASSUME KeysTyped, NEW k \in Keys, KeyOK(k), Buttons!Look(k), ~at[k].pressed, spoilt' = {}
  PROVE  /\ k \notin held' /\ engaged'[k] = engaged[k] /\ from' = from
         /\ There(k)' = There(k) /\ Own(k)' = Own(k)
         /\ There(k) = Buttons!Place(k) /\ Own(k) = Buttons!Bd(k)
         /\ from[k].layer = Buttons!Found(k) /\ Kept(k)
<1>1. /\ at[k].step = "look" /\ UNCHANGED <<setup, held, engaged, from>>
      /\ spoilt' = IF Buttons!Found(k) # from[k].layer /\ ~from[k].written
                     THEN spoilt \cup {"stray"} ELSE spoilt
  BY DEF Buttons!Look, Buttons!wake
<1>2. k \notin held /\ Kept(k)
  <2>1. at[k] \in [step : {"look"}, pressed : BOOLEAN]
    BY <1>1, ThreadCases DEF KeysTyped
  <2>2. at[k].pressed = FALSE
    BY <2>1
  <2> QED
    BY <1>1, <2>2 DEF KeyOK, Looks
<1>3. from[k].layer \in Layers /\ There(k) \in Buttons!Places
  BY DEF KeysTyped, PastTyped, There, Buttons!Places
<1>4. \A l \in Buttons!Tracked(k) : l = from[k].layer
  <2>1. ASSUME NEW l \in Layers, l # from[k].layer
        PROVE  press[<<l, k>>] = Buttons!NoRecord /\ long[<<l, k>>] = Buttons!NoRecord
    <3>1. <<l, k>> \in Buttons!Places
      BY DEF Buttons!Places
    <3>2. NoneAt(<<l, k>>)
      BY <1>2, <2>1 DEF Kept, Begun, OnlyThere
    <3> QED
      BY <3>1, <3>2, NoneMod DEF NoneAt, KeysTyped, RecordsTyped
  <2> QED
    BY <2>1 DEF Buttons!Tracked
<1>5. from[k].layer = Buttons!Found(k)
  <2>1. from[k].written => from[k].layer = Buttons!Found(k)
    <3>1. ASSUME from[k].written PROVE Buttons!Written(Own(k)) /\ ~NoneAt(There(k))
      BY <1>2, <3>1 DEF Kept, Begun
    <3>2. ASSUME from[k].written PROVE from[k].layer \in Buttons!Tracked(k)
      <4>1. press[There(k)] # Buttons!NoRecord \/ long[There(k)] # Buttons!NoRecord
        BY <3>1, <3>2 DEF NoneAt, Buttons!NoRecord
      <4> QED
        BY <1>3, <3>1, <3>2, <4>1 DEF Buttons!Tracked, There, Own, Buttons!Written
    <3>3. \A i \in Buttons!Tracked(k) : from[k].layer <= i
      <4>1. from[k].layer \in Nat
        BY <1>3, KeysAssumption DEF Buttons!ButtonAssumption
      <4>2. from[k].layer <= from[k].layer
        BY <4>1
      <4> QED
        BY <1>4, <4>2
    <3>4. ASSUME from[k].written PROVE Buttons!Found(k) \in Buttons!Tracked(k)
      BY <3>2, <3>3, <3>4 DEF Buttons!Found, Buttons!LayerOf
    <3> QED
      BY <1>4, <3>4
  <2>2. ~from[k].written => from[k].layer = Buttons!Found(k)
    BY <1>1
  <2> QED
    BY <2>1, <2>2
<1>6. There(k) = Buttons!Place(k)
  BY <1>5, FoundTyped DEF There, KeysTyped
<1>7. Own(k) = Buttons!Bd(k)
  BY <1>6 DEF Own, Buttons!Bd
<1>8. There(k)' = There(k) /\ Own(k)' = Own(k)
  BY <1>1 DEF There, Own, Buttons!binds
<1> QED
  BY <1>1, <1>2, <1>5, <1>6, <1>7, <1>8

LEMMA NothingBoundKey ==
  ASSUME KeysTyped, PlacesOK, NEW k \in Keys, KeyOK(k), spoilt' = {}, Buttons!NothingBound(k)
  PROVE  KeyOK(k)'
<1>1. /\ Buttons!Look(k) /\ Buttons!Bd(k) = Buttons!Unbound
      /\ at'[k] = Buttons!Idle /\ press' = press /\ long' = long
  BY DEF Buttons!NothingBound, Buttons!Done, KeysTyped
<1>2. ~Single(Buttons!Unbound) /\ ~Buttons!Written(Buttons!Unbound)
  BY DEF Single, Buttons!Written
<1>3. CASE at[k].pressed
  <2>1. ASSUME NEW l \in Layers PROVE NoneAt(<<l, k>>)'
    BY <1>1, <1>3, PressLooks DEF NoneAt, Buttons!NoRecord
  <2>2. Own(k)' = Buttons!Unbound /\ ~from'[k].written /\ engaged'[k] = "none"
    BY <1>1, <1>2, <1>3, PressLooks
  <2>3. Kept(k)'
    BY <1>2, <2>1, <2>2 DEF Kept, Begun, OnlyThere
  <2> QED
    BY <1>1, <1>3, <2>3, PressLooks, LeftHolding
<1>4. CASE ~at[k].pressed
  <2>1. /\ Own(k) = Buttons!Unbound /\ Kept(k) /\ k \notin held' /\ engaged'[k] = engaged[k]
        /\ There(k) = Buttons!Place(k) /\ There(k) \in Buttons!Places
    BY <1>1, <1>4, ReleaseLooks, FoundTyped DEF KeysTyped
  <2>2. NoneAt(There(k))
    <3>1. Fits(There(k))
      BY <2>1 DEF PlacesOK, PlaceOK
    <3> QED
      BY <2>1, <3>1 DEF Fits, Own, NoneAt, Buttons!NoRecord
  <2>3. ASSUME NEW l \in Layers PROVE NoneAt(<<l, k>>)'
    <3>1. NoneAt(<<l, k>>)
      BY <2>1, <2>2 DEF Kept, Begun, OnlyThere, There
    <3> QED
      BY <1>1, <3>1 DEF NoneAt
  <2>4. engaged'[k] = "none"
    BY <1>2, <2>1 DEF Kept
  <2>5. Fresh(k)'
    BY <2>3, <2>4 DEF Fresh
  <2> QED
    BY <1>1, <2>1, <2>5, LeftResting
<1> QED
  BY <1>3, <1>4

LEMMA DeferPressKey ==
  ASSUME KeysTyped, NEW k \in Keys, KeyOK(k), Buttons!DeferPress(k)
  PROVE  KeyOK(k)'
<1>a. PICK p \in Buttons!Places : p = Buttons!Place(k) /\ p = <<Buttons!Found(k), k>>
  BY FoundTyped DEF KeysTyped
<1>b. PICK bd : bd = Buttons!Bd(k)
  OBVIOUS
<1> DEFINE new == Buttons!NewRecord(Buttons!Snapshot, Buttons!LongSlot(bd, Buttons!Snapshot) # "none")
<1>1. /\ Buttons!Look(k) /\ Buttons!Deferred(bd) /\ at[k].pressed
      /\ at'[k] = Buttons!Idle /\ long' = long
      /\ press' = [press EXCEPT ![p] = new]
  BY <1>a, <1>b DEF Buttons!DeferPress, Buttons!Done, KeysTyped
<1>2. new.mod # "none"
  BY DEF Buttons!NewRecord, Buttons!Snapshot
<1> HIDE DEF new
<1>3. /\ There(k)' = p /\ Own(k)' = bd /\ engaged'[k] = "none"
      /\ from'[k].layer = Buttons!Found(k) /\ (from'[k].written <=> Buttons!Written(bd))
      /\ k \in held' /\ k \notin swallowed'
  BY <1>1, <1>a, <1>b, PressLooks
<1>4. ~Single(bd)
  BY <1>1 DEF Single
<1>5. press'[p].mod # "none"
  BY <1>1, <1>2 DEF KeysTyped, RecordsTyped
<1>6. ASSUME NEW l \in Layers, l # Buttons!Found(k) PROVE NoneAt(<<l, k>>)'
  <2>1. <<l, k>> \in Buttons!Places /\ <<l, k>> # p
    BY <1>6, <1>a DEF Buttons!Places
  <2>2. press'[<<l, k>>] = press[<<l, k>>]
    BY <1>1, <2>1 DEF KeysTyped, RecordsTyped
  <2> QED
    BY <1>1, <2>2, PressLooks DEF NoneAt, Buttons!NoRecord
<1>7. Kept(k)'
  BY <1>3, <1>4, <1>5, <1>6 DEF Kept, Begun, OnlyThere, NoneAt
<1> QED
  BY <1>1, <1>3, <1>7, LeftHolding

LEMMA DeferReleaseKey ==
  ASSUME KeysTyped, PlacesOK, NEW k \in Keys, KeyOK(k), spoilt' = {}, Buttons!DeferRelease(k)
  PROVE  KeyOK(k)'
<1>a. PICK p \in Buttons!Places : p = Buttons!Place(k) /\ p = <<Buttons!Found(k), k>>
  BY FoundTyped DEF KeysTyped
<1>1. /\ Buttons!Look(k) /\ Buttons!Deferred(Buttons!Bd(k)) /\ ~at[k].pressed
      /\ at'[k] = Buttons!Idle /\ long' = long
      /\ press' = [press EXCEPT ![p] = Buttons!NoRecord]
  BY <1>a DEF Buttons!DeferRelease, Buttons!Done, KeysTyped
<1>2. /\ Kept(k) /\ k \notin held' /\ engaged'[k] = engaged[k]
      /\ There(k) = p /\ Own(k) = Buttons!Bd(k) /\ from[k].layer = Buttons!Found(k)
  BY <1>1, <1>a, ReleaseLooks
<1>3. engaged'[k] = "none"
  BY <1>1, <1>2 DEF Kept, Single
<1>4. long[p] = Buttons!NoRecord
  <2>1. Fits(p)
    BY DEF PlacesOK, PlaceOK
  <2> QED
    BY <1>1, <1>2, <2>1 DEF Fits, Own
<1>5. ASSUME NEW l \in Layers PROVE NoneAt(<<l, k>>)'
  <2>1. CASE l = Buttons!Found(k)
    <3>1. press'[p] = Buttons!NoRecord /\ long'[p] = Buttons!NoRecord
      BY <1>1, <1>4 DEF KeysTyped, RecordsTyped
    <3> QED
      BY <2>1, <3>1, <1>a DEF NoneAt, Buttons!NoRecord
  <2>2. CASE l # Buttons!Found(k)
    <3>1. <<l, k>> \in Buttons!Places /\ <<l, k>> # p
      BY <2>2, <1>a DEF Buttons!Places
    <3>2. press'[<<l, k>>] = press[<<l, k>>]
      BY <1>1, <3>1 DEF KeysTyped, RecordsTyped
    <3>3. NoneAt(<<l, k>>)
      BY <1>2, <2>2 DEF Kept, Begun, OnlyThere
    <3> QED
      BY <1>1, <3>2, <3>3 DEF NoneAt
  <2> QED
    BY <2>1, <2>2
<1>6. Fresh(k)'
  BY <1>3, <1>5 DEF Fresh
<1> QED
  BY <1>1, <1>2, <1>6, LeftResting

LEMMA TakeSlotPressKey ==
  ASSUME KeysTyped, NEW k \in Keys, KeyOK(k), Buttons!TakeSlot(k), at[k].pressed
  PROVE  KeyOK(k)'
<1>a. PICK p \in Buttons!Places : p = Buttons!Place(k) /\ p = <<Buttons!Found(k), k>>
  BY FoundTyped DEF KeysTyped
<1>b. PICK bd : bd = Buttons!Bd(k)
  OBVIOUS
<1>c. PICK m : m = Buttons!Snapshot
  OBVIOUS
<1> DEFINE th == [step |-> "fire", pressed |-> at[k].pressed, layer |-> Buttons!Found(k),
                  slot |-> Buttons!SlotOf(bd, m)]
           new == Buttons!NewRecord(m, FALSE)
<1>1. /\ Buttons!Look(k) /\ bd # Buttons!Unbound /\ ~Buttons!Deferred(bd)
      /\ press' = IF bd.behavior = "Toggle" THEN press ELSE [press EXCEPT ![p] = new]
      /\ at'[k] = th /\ long' = long
  <2>1. Buttons!SlotTaken(k) = m
    BY <1>c DEF Buttons!SlotTaken
  <2> QED
    BY <1>a, <1>b, <2>1 DEF Buttons!TakeSlot, KeysTyped
<1>2. new.mod = m /\ m # "none"
  BY <1>c DEF Buttons!NewRecord, Buttons!Snapshot
<1>3. /\ th.step = "fire" /\ th.pressed /\ th.layer = Buttons!Found(k)
      /\ th.slot = Buttons!SlotOf(bd, m)
  OBVIOUS
<1> HIDE DEF new, th
<1>4. /\ There(k)' = p /\ Own(k)' = bd /\ engaged'[k] = "none"
      /\ from'[k].layer = Buttons!Found(k) /\ (from'[k].written <=> Buttons!Written(bd))
      /\ k \in held' /\ k \notin swallowed'
  BY <1>1, <1>a, <1>b, PressLooks
<1>5. Single(bd) => press'[p].mod = m
  BY <1>1, <1>2 DEF KeysTyped, RecordsTyped, Single
<1>6. ASSUME NEW l \in Layers, l # Buttons!Found(k) PROVE NoneAt(<<l, k>>)'
  <2>1. <<l, k>> \in Buttons!Places /\ <<l, k>> # p
    BY <1>6, <1>a DEF Buttons!Places
  <2>2. press'[<<l, k>>] = press[<<l, k>>]
    BY <1>1, <2>1 DEF KeysTyped, RecordsTyped
  <2> QED
    BY <1>1, <2>2, PressLooks DEF NoneAt, Buttons!NoRecord
<1>7. long'[p].mod = "none"
  <2>1. Buttons!Found(k) \in Layers
    BY FoundTyped DEF KeysTyped
  <2> QED
    BY <1>1, <1>a, <2>1, PressLooks DEF Buttons!NoRecord
<1>8. Begun(k)'
  BY <1>2, <1>4, <1>5, <1>6 DEF Begun, OnlyThere
<1>9. InHand(k)'
  BY <1>1, <1>3, <1>4, <1>5, <1>7, <1>8 DEF InHand
<1> QED
  BY <1>1, <1>3, <1>4, <1>9, LeftInHand

LEMMA TakeSlotReleaseKey ==
  ASSUME KeysTyped, PlacesOK, NEW k \in Keys, KeyOK(k), spoilt' = {}, Buttons!TakeSlot(k),
         ~at[k].pressed
  PROVE  KeyOK(k)'
<1>a. PICK p \in Buttons!Places : p = Buttons!Place(k) /\ p = <<Buttons!Found(k), k>>
  BY FoundTyped DEF KeysTyped
<1>b. PICK bd : bd = Buttons!Bd(k)
  OBVIOUS
<1>c. PICK m : m = Buttons!SlotTaken(k)
  OBVIOUS
<1> DEFINE th == [step |-> "fire", pressed |-> at[k].pressed, layer |-> Buttons!Found(k),
                  slot |-> Buttons!SlotOf(bd, m)]
<1>1. /\ Buttons!Look(k) /\ bd # Buttons!Unbound /\ ~Buttons!Deferred(bd)
      /\ press' = IF bd.behavior = "Toggle" THEN press
                  ELSE [press EXCEPT ![p] = Buttons!NoRecord]
      /\ at'[k] = th /\ long' = long
  BY <1>a, <1>b, <1>c DEF Buttons!TakeSlot, KeysTyped
<1>2. /\ th.step = "fire" /\ ~th.pressed /\ th.layer = Buttons!Found(k)
      /\ th.slot = Buttons!SlotOf(bd, m)
  OBVIOUS
<1> HIDE DEF th
<1>3. /\ Kept(k) /\ k \notin held' /\ engaged'[k] = engaged[k] /\ from' = from
      /\ There(k) = p /\ Own(k) = bd /\ There(k)' = p /\ Own(k)' = bd
      /\ from[k].layer = Buttons!Found(k)
  BY <1>1, <1>a, <1>b, ReleaseLooks
<1>4. Fits(p) /\ bd = Buttons!binds[p]
  BY <1>3 DEF PlacesOK, PlaceOK, Own
<1>5. Single(bd) => m = press[p].mod
  <2>1. ASSUME Single(bd) PROVE m = press[p].mod
    <3>1. press[p] # Buttons!NoRecord
      BY <1>3, <2>1 DEF Kept, Begun, Buttons!NoRecord
    <3>2. bd.behavior # "Toggle"
      BY <2>1 DEF Single
    <3> QED
      BY <1>a, <1>b, <1>c, <3>1, <3>2 DEF Buttons!SlotTaken
  <2> QED
    BY <2>1
<1>6. press'[p] = Buttons!NoRecord
  <2>1. CASE bd.behavior = "Toggle"
    BY <1>1, <1>4, <2>1 DEF Fits
  <2>2. CASE bd.behavior # "Toggle"
    BY <1>1, <2>2 DEF KeysTyped, RecordsTyped
  <2> QED
    BY <2>1, <2>2
<1>7. ~Buttons!HasLong(bd) => long'[p].mod = "none"
  BY <1>1, <1>4 DEF Fits, Buttons!NoRecord
<1>8. ASSUME NEW l \in Layers, l # Buttons!Found(k) PROVE NoneAt(<<l, k>>)'
  <2>1. <<l, k>> \in Buttons!Places /\ <<l, k>> # p
    BY <1>8, <1>a DEF Buttons!Places
  <2>2. press'[<<l, k>>] = press[<<l, k>>]
    BY <1>1, <2>1 DEF KeysTyped, RecordsTyped
  <2>3. NoneAt(<<l, k>>)
    BY <1>3, <1>8 DEF Kept, Begun, OnlyThere
  <2> QED
    BY <1>1, <2>2, <2>3 DEF NoneAt
<1>9. engaged'[k] = IF Single(bd) THEN Lasts(bd.short[th.slot]) ELSE "none"
  BY <1>2, <1>3, <1>5 DEF Kept
<1>10. InHand(k)'
  <2>1. OnlyThere(k)' /\ press'[p].mod = "none"
    BY <1>3, <1>6, <1>8 DEF OnlyThere, Buttons!NoRecord
  <2> QED
    BY <1>1, <1>2, <1>3, <1>7, <1>9, <2>1 DEF InHand
<1> QED
  BY <1>1, <1>2, <1>3, <1>10, LeftInHand

LEMMA HeldBinding ==
  ASSUME LastingHeld, SetTyped, NEW p \in Buttons!Places, NEW m \in Buttons!Mods,
         Buttons!binds[p] # Buttons!Unbound, Buttons!binds[p].short[m] \in Buttons!Lasting
  PROVE  \/ Buttons!binds[p].behavior = "Hold"
         \/ /\ Buttons!binds[p].behavior = "Momentary" /\ ~Buttons!HasLong(Buttons!binds[p])
            /\ Buttons!binds[p].short[m] = "shift"
BY DEF LastingHeld, SetTyped, Buttons!binds

\* What Fire leaves of its key, but for the modifier and the toggle.
LEMMA FireKey ==
  ASSUME LastingHeld, KeysTyped, HandsOK, NEW k \in Keys, KeyOK(k), Buttons!Fire(k)
  PROVE  KeyOK(k)'
<1>a. PICK bd : bd = Buttons!Held(k)
  OBVIOUS
<1>b. PICK p : p = There(k)
  OBVIOUS
<1> DEFINE a == bd.short[at[k].slot]
<1>1. /\ at[k].step = "fire" /\ UNCHANGED <<setup, press, long, held, swallowed, from>>
      /\ engaged'[k] = IF at[k].pressed /\ a \in Buttons!Lasting THEN a ELSE "none"
      /\ at'[k] = IF Buttons!HasLong(bd) THEN [at[k] EXCEPT !.step = "long"] ELSE Buttons!Idle
  BY <1>a DEF Buttons!Fire, Buttons!wake, KeysTyped, PastTyped
<1>2. at[k] \in [step : {"fire", "long"}, pressed : BOOLEAN, layer : Layers,
                 slot : Buttons!Mods]
  BY <1>1, ThreadCases DEF KeysTyped
<1>3. /\ InHand(k) /\ at[k].layer = from[k].layer
      /\ IF at[k].pressed THEN k \in held /\ k \notin swallowed ELSE k \notin held
  BY <1>1 DEF KeyOK, InHand
<1>4. /\ There(k)' = p /\ Own(k)' = bd /\ Own(k) = bd
      /\ bd # Buttons!Unbound /\ ~Buttons!Deferred(bd)
  BY <1>1, <1>3, <1>a, <1>b DEF There, Own, Buttons!Held, Buttons!binds, HandsOK, HandOK
<1>5. (OnlyThere(k)' <=> OnlyThere(k)) /\ (Begun(k)' <=> Begun(k))
  BY <1>1, <1>4, <1>b DEF OnlyThere, NoneAt, Begun
<1>6. a \in Buttons!Lasting => Single(bd)
  <2>1. <<at[k].layer, k>> \in Buttons!Places /\ at[k].slot \in Buttons!Mods
    BY <1>2 DEF Buttons!Places
  <2>2. bd = Buttons!binds[<<at[k].layer, k>>]
    BY <1>a DEF Buttons!Held
  <2> HIDE DEF a
  <2>3. ASSUME a \in Buttons!Lasting PROVE bd.behavior # "Toggle"
    BY <1>4, <2>1, <2>2, <2>3, HeldBinding DEF a, KeysTyped
  <2> QED
    BY <1>4, <2>3 DEF Single
<1>7. CASE at[k].pressed
  <2>1. engaged'[k] = IF Single(bd) THEN Lasts(a) ELSE "none"
    BY <1>1, <1>6, <1>7 DEF Lasts
  <2>2. /\ Begun(k)' /\ long'[p].mod = "none"
        /\ Single(bd) => at[k].slot = Buttons!SlotOf(bd, press'[p].mod)
    BY <1>1, <1>3, <1>4, <1>5, <1>7, <1>b DEF InHand
  <2>3. CASE Buttons!HasLong(bd)
    <3>1. at'[k] = [at[k] EXCEPT !.step = "long"]
      BY <1>1, <2>3
    <3>2. /\ at'[k].step = "long" /\ at'[k].pressed /\ at'[k].slot = at[k].slot
          /\ at'[k].layer = from'[k].layer
      BY <1>1, <1>2, <1>3, <1>7, <3>1
    <3>3. InHand(k)'
      BY <1>4, <2>1, <2>2, <3>2 DEF InHand
    <3> QED
      BY <1>1, <1>3, <1>7, <3>2, <3>3, LeftInHand
  <2>4. CASE ~Buttons!HasLong(bd)
    <3>1. from'[k].written => Single(bd)
      BY <1>4, <2>2, <2>4 DEF Begun, Buttons!Written, Single
    <3>2. Single(bd) => ~NoneAt(p)'
      BY <1>4, <2>2 DEF Begun, NoneAt
    <3>3. Kept(k)'
      BY <1>4, <2>1, <2>2, <3>1, <3>2 DEF Kept
    <3> QED
      BY <1>1, <1>3, <1>7, <2>4, <3>3, LeftHolding
  <2> QED
    BY <2>3, <2>4
<1>8. CASE ~at[k].pressed
  <2>1. engaged'[k] = "none" /\ k \notin held'
    BY <1>1, <1>3, <1>8
  <2>2. /\ OnlyThere(k)' /\ press'[p].mod = "none"
        /\ ~Buttons!HasLong(bd) => long'[p].mod = "none"
    BY <1>1, <1>3, <1>4, <1>5, <1>8, <1>b DEF InHand
  <2>3. CASE Buttons!HasLong(bd)
    <3>1. at'[k] = [at[k] EXCEPT !.step = "long"]
      BY <1>1, <2>3
    <3>2. /\ at'[k].step = "long" /\ ~at'[k].pressed /\ at'[k].layer = from'[k].layer
      BY <1>1, <1>2, <1>3, <1>8, <3>1
    <3>3. InHand(k)'
      BY <1>4, <2>1, <2>2, <2>3, <3>2 DEF InHand
    <3> QED
      BY <2>1, <3>2, <3>3, LeftInHand
  <2>4. CASE ~Buttons!HasLong(bd)
    <3>1. ASSUME NEW l \in Layers PROVE NoneAt(<<l, k>>)'
      BY <1>1, <1>b, <2>2, <2>4 DEF OnlyThere, NoneAt, There
    <3>2. Fresh(k)'
      BY <2>1, <3>1 DEF Fresh
    <3> QED
      BY <1>1, <2>1, <2>4, <3>2, LeftResting
  <2> QED
    BY <2>3, <2>4
<1> QED
  BY <1>7, <1>8

LEMMA TakeLongKey ==
  ASSUME KeysTyped, HandsOK, NEW k \in Keys, KeyOK(k), Buttons!TakeLong(k)
  PROVE  KeyOK(k)'
<1>a. PICK bd : bd = Buttons!Held(k)
  OBVIOUS
<1>b. PICK p : p = <<at[k].layer, k>>
  OBVIOUS
<1> DEFINE new == Buttons!NewRecord(at[k].slot, Buttons!LongSlot(bd, at[k].slot) # "none")
<1>1. /\ at[k].step = "long" /\ at'[k] = Buttons!Idle
      /\ UNCHANGED <<setup, press, held, swallowed, from, engaged>>
      /\ long' = [long EXCEPT ![p] = IF at[k].pressed THEN new ELSE Buttons!NoRecord]
  BY <1>a, <1>b DEF Buttons!TakeLong, Buttons!Done, Buttons!wake, KeysTyped
<1>2. at[k] \in [step : {"fire", "long"}, pressed : BOOLEAN, layer : Layers,
                 slot : Buttons!Mods]
  BY <1>1, ThreadCases DEF KeysTyped
<1>3. new.mod # "none"
  BY <1>2 DEF Buttons!NewRecord, Buttons!Mods
<1> HIDE DEF new
<1>4. /\ InHand(k) /\ at[k].layer = from[k].layer
      /\ IF at[k].pressed THEN k \in held /\ k \notin swallowed ELSE k \notin held
  BY <1>1 DEF KeyOK, InHand
<1>5. p \in Buttons!Places /\ There(k) = p /\ There(k)' = p /\ Own(k)' = Own(k)
  BY <1>1, <1>2, <1>4, <1>b DEF There, Own, Buttons!binds, Buttons!Places
<1>6. long'[p] = IF at[k].pressed THEN new ELSE Buttons!NoRecord
  BY <1>1, <1>5 DEF KeysTyped, RecordsTyped
<1>7. OnlyThere(k)
  BY <1>2, <1>4 DEF InHand, Begun
<1>8. ASSUME NEW l \in Layers, l # from[k].layer PROVE NoneAt(<<l, k>>)'
  <2>1. <<l, k>> \in Buttons!Places /\ <<l, k>> # p
    BY <1>4, <1>8, <1>b DEF Buttons!Places
  <2>2. long'[<<l, k>>] = long[<<l, k>>]
    BY <1>1, <2>1 DEF KeysTyped, RecordsTyped
  <2> QED
    BY <1>1, <1>7, <1>8, <2>2 DEF NoneAt, OnlyThere
<1>9. CASE at[k].pressed
  <2>1. Begun(k)'
    BY <1>1, <1>4, <1>5, <1>8, <1>9 DEF Begun, OnlyThere, InHand
  <2>2. ~NoneAt(p)'
    BY <1>3, <1>6, <1>9 DEF NoneAt
  <2>3. engaged'[k] =
          IF Single(Own(k)) THEN Lasts(Own(k).short[Buttons!SlotOf(Own(k), press[p].mod)])
          ELSE "none"
    BY <1>1, <1>4, <1>5, <1>9 DEF InHand
  <2>4. Kept(k)'
    BY <1>1, <1>5, <2>1, <2>2, <2>3 DEF Kept
  <2> QED
    BY <1>1, <1>4, <1>9, <2>4, LeftHolding
<1>10. CASE ~at[k].pressed
  <2>1. engaged'[k] = "none" /\ press'[p].mod = "none" /\ long'[p].mod = "none"
    BY <1>1, <1>4, <1>5, <1>6, <1>10 DEF InHand, Buttons!NoRecord
  <2>2. ASSUME NEW l \in Layers PROVE NoneAt(<<l, k>>)'
    BY <1>4, <1>8, <1>b, <2>1 DEF NoneAt
  <2>3. Fresh(k)'
    BY <2>1, <2>2 DEF Fresh
  <2> QED
    BY <1>1, <1>4, <1>10, <2>3, LeftResting
<1> QED
  BY <1>9, <1>10

\* The parity of the toggle, when a key takes it up or lets it go.
LEMMA FlipTurns ==
  ASSUME FlipsOK, NEW k \in Keys, on["flip"] \in BOOLEAN, on'["flip"] = ~on["flip"],
         \/ k \notin Flippers /\ Flippers' = Flippers \cup {k}
         \/ k \in Flippers /\ Flippers' = Flippers \ {k}
  PROVE  FlipsOK'
<1>1. IsFiniteSet(Flippers)
  BY KeysAssumption, FS_Subset DEF Flippers
<1>2. PICK n \in Nat : Cardinality(Flippers) = IF on["flip"] THEN 2 * n + 1 ELSE 2 * n
  BY DEF FlipsOK
<1> DEFINE c == Cardinality(Flippers)
           d == Cardinality(Flippers')
<1>3. CASE k \notin Flippers /\ Flippers' = Flippers \cup {k}
  <2>1. d = c + 1
    BY <1>1, <1>3, FS_AddElement
  <2>2. CASE on["flip"]
    <3>1. d = 2 * (n + 1) /\ n + 1 \in Nat
      BY <1>2, <2>1, <2>2
    <3> QED
      BY <2>2, <3>1 DEF FlipsOK
  <2>3. CASE ~on["flip"]
    <3>1. d = 2 * n + 1
      BY <1>2, <2>1, <2>3
    <3> QED
      BY <2>3, <3>1 DEF FlipsOK
  <2> QED
    BY <2>2, <2>3
<1>4. CASE k \in Flippers /\ Flippers' = Flippers \ {k}
  <2>1. d = c - 1 /\ d \in Nat
    <3>1. IsFiniteSet(Flippers \ {k})
      BY <1>1, FS_Subset
    <3> QED
      BY <1>1, <1>4, <3>1, FS_RemoveElement, FS_CardinalityType
  <2>2. CASE on["flip"]
    <3>1. d = 2 * n
      BY <1>2, <2>1, <2>2
    <3> QED
      BY <2>2, <3>1 DEF FlipsOK
  <2>3. CASE ~on["flip"]
    <3>1. d = 2 * (n - 1) + 1 /\ n - 1 \in Nat
      BY <1>2, <2>1, <2>3
    <3> QED
      BY <2>3, <3>1 DEF FlipsOK
  <2> QED
    BY <2>2, <2>3
<1> QED
  BY <1>3, <1>4

LEMMA FireAccounts ==
  ASSUME LastingHeld, KeysTyped, HandsOK, NEW k \in Keys, KeyOK(k), FlipsOK, ShiftOK,
         Buttons!Fire(k)
  PROVE  FlipsOK' /\ ShiftOK'
<1>a. PICK bd : bd = Buttons!Held(k)
  OBVIOUS
<1>b. PICK a : a = bd.short[at[k].slot]
  OBVIOUS
<1>1. /\ at[k].step = "fire"
      /\ Buttons!Run(a, at[k].pressed \/ bd.behavior = "Hold", at[k].pressed)
      /\ engaged' = [engaged EXCEPT ![k] =
                       IF at[k].pressed /\ a \in Buttons!Lasting THEN a ELSE "none"]
  BY <1>a, <1>b DEF Buttons!Fire
<1>2. /\ on \in [Buttons!Lasting -> BOOLEAN] /\ engaged \in [Keys -> Buttons!Lasting \cup {"none"}]
      /\ at[k] \in [step : {"fire", "long"}, pressed : BOOLEAN, layer : Layers,
                    slot : Buttons!Mods]
  BY <1>1, ThreadCases DEF KeysTyped, OnTyped, PastTyped
<1>3. /\ InHand(k) /\ Own(k) = bd /\ bd # Buttons!Unbound /\ ~Buttons!Deferred(bd)
  BY <1>1, <1>a DEF KeyOK, InHand, Own, There, Buttons!Held, HandsOK, HandOK
<1>4. a \in Buttons!Lasting => \/ bd.behavior = "Hold"
                               \/ bd.behavior = "Momentary" /\ a = "shift"
  <2>1. <<at[k].layer, k>> \in Buttons!Places /\ at[k].slot \in Buttons!Mods
    BY <1>2 DEF Buttons!Places
  <2> QED
    BY <1>3, <1>a, <1>b, <2>1, HeldBinding DEF KeysTyped, Buttons!Held
<1>5. a \in Buttons!Lasting => Single(bd)
  BY <1>3, <1>4 DEF Single
<1>6. /\ at[k].pressed => engaged[k] = "none" /\ engaged'[k] = Lasts(a)
      /\ ~at[k].pressed => engaged[k] = Lasts(a) /\ engaged'[k] = "none"
      /\ \A j \in Keys \ {k} : engaged'[j] = engaged[j]
  BY <1>1, <1>2, <1>3, <1>5, <1>b DEF InHand, Lasts
<1>7. CASE a = "flip"
  <2>1. Lasts(a) = "flip" /\ bd.behavior = "Hold"
    BY <1>4, <1>7 DEF Lasts, Buttons!Lasting
  <2>2. on' = [on EXCEPT !["flip"] = ~@] /\ latch' = latch
    BY <1>1, <1>7, <2>1 DEF Buttons!Run
  <2>3. on'["flip"] = ~on["flip"] /\ on'["shift"] = on["shift"] /\ on["flip"] \in BOOLEAN
    BY <1>2, <2>2 DEF Buttons!Lasting
  <2>4. \/ k \notin Flippers /\ Flippers' = Flippers \cup {k}
        \/ k \in Flippers /\ Flippers' = Flippers \ {k}
    BY <1>6, <2>1 DEF Flippers
  <2>5. FlipsOK'
    BY <2>3, <2>4, FlipTurns
  <2>6. ShiftOK'
    BY <1>6, <2>1, <2>2, <2>3 DEF ShiftOK
  <2> QED
    BY <2>5, <2>6
<1>8. CASE a = "shift"
  <2>1. Lasts(a) = "shift"
    BY <1>8 DEF Lasts, Buttons!Lasting
  <2>2. IF at[k].pressed THEN Buttons!ShiftPressed ELSE Buttons!ShiftReleased
    BY <1>1, <1>8 DEF Buttons!Run
  <2>3. on'["flip"] = on["flip"]
    BY <1>2, <2>2 DEF Buttons!ShiftPressed, Buttons!ShiftReleased, Buttons!Lasting
  <2>4. Flippers' = Flippers
    BY <1>6, <2>1 DEF Flippers
  <2>5. FlipsOK'
    BY <2>3, <2>4 DEF FlipsOK
  <2>6. CASE at[k].pressed
    BY <1>6, <2>1, <2>5, <2>6 DEF ShiftOK
  <2>7. CASE ~at[k].pressed
    <3>1. /\ latch' = [latched |-> latch.latched \/ latch.armed, armed |-> FALSE,
                       recent |-> ~latch.armed]
          /\ on' = IF latch.armed THEN on ELSE [on EXCEPT !["shift"] = FALSE]
      BY <2>2, <2>7 DEF Buttons!ShiftReleased
    <3>2. ~latch.armed => ~on'["shift"]
      BY <1>2, <3>1 DEF Buttons!Lasting
    <3>3. latch.armed => latch'.latched
      BY <3>1
    <3> QED
      BY <2>5, <3>2, <3>3 DEF ShiftOK
  <2> QED
    BY <2>5, <2>6, <2>7
<1>9. CASE a \notin Buttons!Lasting
  <2>1. UNCHANGED <<on, latch>>
    BY <1>1, <1>9 DEF Buttons!Run, Buttons!Lasting
  <2>2. \A j \in Keys : engaged'[j] = engaged[j]
    BY <1>6, <1>9 DEF Lasts
  <2>3. Flippers' = Flippers
    BY <2>2 DEF Flippers
  <2> QED
    BY <2>1, <2>2, <2>3 DEF FlipsOK, ShiftOK
<1> QED
  BY <1>7, <1>8, <1>9 DEF Buttons!Lasting

\* A step that runs no lasting action.
LEMMA SameOn ==
  ASSUME FlipsOK, ShiftOK, on' = on, latch'.latched = latch.latched,
         \A k \in Keys : engaged'[k] = engaged[k]
  PROVE  FlipsOK' /\ ShiftOK'
<1>1. Flippers' = Flippers
  BY DEF Flippers
<1> QED
  BY <1>1 DEF FlipsOK, ShiftOK

LEMMA DispatchStuck ==
  ASSUME LastingHeld, KeysTyped, PlacesOK, HandsOK, StuckInv, NEW k \in Keys,
         Buttons!Dispatch(k)
  PROVE  StuckInv'
<1> SUFFICES ASSUME spoilt' = {} PROVE FlipsOK' /\ ShiftOK' /\ \A j \in Keys : KeyOK(j)'
  BY DEF StuckInv
<1>1. spoilt = {}
  BY DEF Buttons!Dispatch, Buttons!NothingBound, Buttons!DeferPress, Buttons!DeferRelease,
         Buttons!TakeSlot, Buttons!Fire, Buttons!TakeLong, Buttons!Look
<1>2. FlipsOK /\ ShiftOK /\ \A j \in Keys : KeyOK(j)
  BY <1>1 DEF StuckInv
<1>3. KeyOK(k)'
  BY <1>2, NothingBoundKey, DeferPressKey, DeferReleaseKey, TakeSlotPressKey,
     TakeSlotReleaseKey, FireKey, TakeLongKey DEF Buttons!Dispatch
<1>4. ASSUME NEW j \in Keys \ {k} PROVE KeyOK(j)'
  BY <1>2, DispatchOthers, KeySame DEF KeysTyped, PastTyped
<1>5. FlipsOK' /\ ShiftOK'
  <2>1. CASE Buttons!Fire(k)
    BY <1>2, <2>1, FireAccounts
  <2>2. CASE ~Buttons!Fire(k)
    <3>1. UNCHANGED <<on, latch, engaged>>
      BY <2>2 DEF Buttons!Dispatch, Buttons!NothingBound, Buttons!DeferPress,
         Buttons!DeferRelease, Buttons!TakeSlot, Buttons!TakeLong, Buttons!Look
    <3> QED
      BY <1>2, <3>1, SameOn
  <2> QED
    BY <2>1, <2>2
<1> QED
  BY <1>3, <1>4, <1>5

LEMMA EdgeStuck ==
  ASSUME KeysTyped, StuckInv, NEW k \in Keys,
         Buttons!Press(k) \/ Buttons!Release(k) \/ Buttons!LoseRelease(k)
  PROVE  StuckInv'
<1> USE DEF Buttons!shared, Buttons!past
<1> SUFFICES ASSUME spoilt' = {} PROVE FlipsOK' /\ ShiftOK' /\ \A j \in Keys : KeyOK(j)'
  BY DEF StuckInv
<1>1. (Buttons!Press(k) \/ Buttons!Release(k)) /\ spoilt = {}
  BY DEF Buttons!Press, Buttons!Release, Buttons!LoseRelease
<1>2. FlipsOK /\ ShiftOK /\ \A j \in Keys : KeyOK(j)
  BY <1>1 DEF StuckInv
<1>3. /\ at[k] = Buttons!Idle /\ at[k].step = "idle"
      /\ UNCHANGED <<setup, press, long, on, latch, from>>
  BY <1>1 DEF Buttons!Press, Buttons!Release, Buttons!Idle
<1>4. /\ at \in [Keys -> Buttons!Threads] /\ engaged \in [Keys -> Buttons!Lasting \cup {"none"}]
      /\ from \in [Keys -> [layer : Layers, written : BOOLEAN]] /\ held \subseteq Keys
  BY DEF KeysTyped, PastTyped, WakeTyped
<1>5. \A j \in Keys : from[j].layer \in Layers
  BY <1>4
<1>6. ASSUME NEW j \in Keys \ {k} PROVE KeyOK(j)'
  <2>1. Untouched(j)
    BY <1>1, <1>3, <1>4 DEF Untouched, Buttons!Press, Buttons!Release, Buttons!SwallowPress
  <2> QED
    BY <1>2, <1>3, <1>5, <2>1, KeySame
<1>7. There(k)' = There(k) /\ Own(k)' = Own(k)
  BY <1>3 DEF There, Own, Buttons!binds
<1>8. CASE Buttons!Press(k)
  <2>1. k \notin held /\ Buttons!SwallowPress(k) /\ held' = held \cup {k}
    BY <1>8 DEF Buttons!Press
  <2>2. Fresh(k)
    BY <1>2, <1>3, <2>1 DEF KeyOK, Resting
  <2>3. engaged' = engaged
    BY <1>4, <1>8, <2>2 DEF Fresh, Buttons!Press
  <2>4. Fresh(k)'
    BY <1>3, <2>2, <2>3 DEF Fresh, NoneAt
  <2>5. KeyOK(k)'
    <3>1. CASE window'
      <4>1. at'[k] = Buttons!Idle /\ k \in swallowed'
        BY <1>3, <2>1, <3>1 DEF Buttons!SwallowPress
      <4> QED
        BY <2>4, <4>1, LeftResting
    <3>2. CASE ~window'
      <4>1. at'[k] = [step |-> "look", pressed |-> TRUE] /\ k \in held' /\ k \notin swallowed'
        BY <1>4, <2>1, <3>2 DEF Buttons!SwallowPress
      <4> QED
        BY <2>4, <4>1 DEF KeyOK, Resting, Holding, Looks
    <3> QED
      BY <3>1, <3>2
  <2> QED
    BY <1>2, <1>3, <1>6, <2>3, <2>5, SameOn
<1>9. CASE Buttons!Release(k)
  <2>1. /\ k \in held /\ held' = held \ {k} /\ engaged' = engaged
        /\ at' = IF k \in swallowed THEN at
                 ELSE [at EXCEPT ![k] = [step |-> "look", pressed |-> FALSE]]
    BY <1>9 DEF Buttons!Release
  <2>2. KeyOK(k)'
    <3>1. CASE k \in swallowed
      <4>1. Fresh(k)
        BY <1>2, <1>3, <3>1 DEF KeyOK, Resting
      <4>2. Fresh(k)'
        BY <1>3, <2>1, <4>1 DEF Fresh, NoneAt
      <4> QED
        BY <1>3, <2>1, <3>1, <4>2, LeftResting
    <3>2. CASE k \notin swallowed
      <4>1. Kept(k)
        BY <1>2, <1>3, <2>1, <3>2 DEF KeyOK, Holding
      <4>2. Kept(k)'
        BY <1>3, <1>7, <2>1, <4>1 DEF Kept, Begun, OnlyThere, NoneAt
      <4>3. at'[k] = [step |-> "look", pressed |-> FALSE] /\ k \notin held'
        BY <1>4, <2>1, <3>2
      <4> QED
        BY <4>2, <4>3 DEF KeyOK, Resting, Holding, Looks
    <3> QED
      BY <3>1, <3>2
  <2> QED
    BY <1>2, <1>3, <1>6, <2>1, <2>2, SameOn
<1> QED
  BY <1>1, <1>8, <1>9

\* The threshold and the half second change no modifier of a record.
LEMMA RecordsKeepMods ==
  ASSUME KeysTyped, NEW p \in Buttons!Places,
         Buttons!TickLongPress \/ \E q \in Buttons!Places : Buttons!Ripens(q)
  PROVE  press'[p].mod = press[p].mod /\ long'[p].mod = long[p].mod
<1>1. /\ press \in [Buttons!Places -> Buttons!Records \cup {Buttons!NoRecord}]
      /\ long \in [Buttons!Places -> Buttons!Records \cup {Buttons!NoRecord}]
  BY DEF KeysTyped, RecordsTyped
<1>2. ASSUME NEW rec \in Buttons!Records PROVE [rec EXCEPT !.fired = TRUE].mod = rec.mod
  BY DEF Buttons!Records
<1>3. ASSUME NEW rec \in Buttons!Records PROVE [rec EXCEPT !.ripe = TRUE].mod = rec.mod
  BY DEF Buttons!Records
<1>4. CASE Buttons!TickLongPress
  <2>1. /\ press'[p] = IF Buttons!Due(press[p]) THEN [press[p] EXCEPT !.fired = TRUE] ELSE press[p]
        /\ long'[p] = IF Buttons!Due(long[p]) THEN [long[p] EXCEPT !.fired = TRUE] ELSE long[p]
    BY <1>4 DEF Buttons!TickLongPress, Buttons!Mark
  <2>2. /\ Buttons!Due(press[p]) => press[p] \in Buttons!Records
        /\ Buttons!Due(long[p]) => long[p] \in Buttons!Records
    BY <1>1 DEF Buttons!Due
  <2> QED
    BY <1>2, <2>1, <2>2
<1>5. ASSUME NEW q \in Buttons!Places, Buttons!Ripens(q)
      PROVE  press'[p].mod = press[p].mod /\ long'[p].mod = long[p].mod
  <2>1. \/ /\ press[q] \in Buttons!Records /\ long' = long
           /\ press' = [press EXCEPT ![q].ripe = TRUE]
        \/ /\ long[q] \in Buttons!Records /\ press' = press
           /\ long' = [long EXCEPT ![q].ripe = TRUE]
    BY <1>1, <1>5 DEF Buttons!Ripens
  <2>2. CASE p = q
    BY <1>1, <1>3, <2>1, <2>2
  <2>3. CASE p # q
    BY <1>1, <2>1, <2>3
  <2> QED
    BY <2>2, <2>3
<1> QED
  BY <1>4, <1>5

LEMMA StuckStep ==
  ASSUME LastingHeld, KeysTyped, PlacesOK, HandsOK, StuckInv, KeysStep
  PROVE  StuckInv'
<1> USE DEF Buttons!shared, Buttons!past, Buttons!wake
<1>1. CASE \E k \in Keys : Buttons!Press(k) \/ Buttons!Release(k) \/ Buttons!LoseRelease(k)
                             \/ Buttons!Dispatch(k)
  BY <1>1, EdgeStuck, DispatchStuck
<1>2. ASSUME UNCHANGED <<setup, at, engaged, from, held, swallowed, on, spoilt>>,
             latch'.latched = latch.latched,
             \A p \in Buttons!Places :
               press'[p].mod = press[p].mod /\ long'[p].mod = long[p].mod
      PROVE  StuckInv'
  <2>1. ASSUME NEW k \in Keys, KeyOK(k) PROVE KeyOK(k)'
    <3>1. Untouched(k)
      BY <1>2 DEF Untouched, Buttons!Places
    <3>2. from[k].layer \in Layers
      BY DEF KeysTyped, PastTyped
    <3> QED
      BY <1>2, <2>1, <3>1, <3>2, KeySame
  <2> QED
    BY <1>2, <2>1, SameOn DEF StuckInv
<1>3. CASE Buttons!TickLongPress \/ \E p \in Buttons!Places : Buttons!Ripens(p)
  <2>1. UNCHANGED <<setup, at, engaged, from, held, swallowed, on, spoilt, latch>>
    BY <1>3 DEF Buttons!TickLongPress, Buttons!Ripens
  <2> QED
    BY <1>2, <1>3, <2>1, RecordsKeepMods
<1>4. CASE Buttons!ShiftTimePasses \/ Buttons!SetActiveLayer \/ Buttons!FallAsleep
             \/ Buttons!WindowPasses \/ UNCHANGED keys
  <2>1. /\ UNCHANGED <<setup, at, engaged, from, held, swallowed, on, spoilt, press, long>>
        /\ latch' = latch \/ latch' = [latch EXCEPT !.recent = FALSE]
    BY <1>4 DEF Buttons!ShiftTimePasses, Buttons!SetActiveLayer, Buttons!FallAsleep,
         Buttons!WindowPasses, keys
  <2>2. latch'.latched = latch.latched
    BY <2>1 DEF KeysTyped, OnTyped
  <2> QED
    BY <1>2, <2>1, <2>2
<1> QED
  BY <1>1, <1>3, <1>4 DEF KeysStep, Buttons!Next

LEMMA StuckInit == Buttons!Init => StuckInv
<1> SUFFICES ASSUME Buttons!Init PROVE StuckInv
  OBVIOUS
<1>1. /\ press = [p \in Buttons!Places |-> Buttons!NoRecord] /\ long = press
      /\ on = [a \in Buttons!Lasting |-> FALSE] /\ held = {}
      /\ at = [k \in Keys |-> Buttons!Idle] /\ engaged = [k \in Keys |-> "none"]
  BY DEF Buttons!Init
<1>2. ASSUME NEW k \in Keys PROVE KeyOK(k)
  <2>1. at[k].step = "idle" /\ k \notin held
    BY <1>1 DEF Buttons!Idle
  <2>2. Fresh(k)
    BY <1>1 DEF Fresh, NoneAt, Buttons!Places, Buttons!NoRecord
  <2> QED
    BY <2>1, <2>2 DEF KeyOK, Resting, Holding, Looks
<1>3. Flippers = {}
  BY <1>1 DEF Flippers
<1>4. FlipsOK
  <2>1. Cardinality(Flippers) = 2 * 0 /\ 0 \in Nat
    BY <1>3, FS_EmptySet
  <2> QED
    BY <1>1, <2>1 DEF FlipsOK, Buttons!Lasting
<1>5. ShiftOK
  BY <1>1 DEF ShiftOK, Buttons!Lasting
<1> QED
  BY <1>2, <1>4, <1>5 DEF StuckInv

LEMMA StuckIsAccounted == StuckInv => NothingStuck
<1> SUFFICES ASSUME StuckInv, spoilt = {}, NEW a \in Buttons!Lasting, on[a]
             PROVE  Buttons!Accounted(a)
  BY DEF NothingStuck, Buttons!NothingStuck
<1>1. FlipsOK /\ ShiftOK
  BY DEF StuckInv
<1>2. CASE a = "shift"
  BY <1>1, <1>2 DEF ShiftOK, Buttons!Accounted
<1>3. CASE a = "flip"
  <2>1. Flippers # {}
    <3>1. PICK n \in Nat : Cardinality(Flippers) = 2 * n + 1
      BY <1>1, <1>3 DEF FlipsOK
    <3>2. 2 * n + 1 # 0
      OBVIOUS
    <3> QED
      BY <3>1, <3>2, FS_EmptySet
  <2> QED
    BY <1>3, <2>1 DEF Flippers, Buttons!Accounted
<1> QED
  BY <1>2, <1>3 DEF Buttons!Lasting

-----------------------------------------------------------------------------
(* The surface: faders and keys beside each other.                          *)

KeysInv == KeysTyped /\ PlacesOK /\ HandsOK /\ WakeEatsPairs

LEMMA KeysInit == Buttons!Init => KeysInv
<1> SUFFICES ASSUME Buttons!Init PROVE KeysInv
  OBVIOUS
<1>1. /\ press = [p \in Buttons!Places |-> Buttons!NoRecord] /\ long = press
      /\ ran = [p \in Buttons!Places |-> [short |-> 0, long |-> 0]]
      /\ at = [k \in Keys |-> Buttons!Idle] /\ held = {}
  BY DEF Buttons!Init
<1>2. ASSUME NEW p \in Buttons!Places PROVE PlaceOK(p)
  <2>1. press[p] = Buttons!NoRecord /\ long[p] = Buttons!NoRecord /\ ran[p] = Zero
    BY <1>1 DEF Zero
  <2> QED
    BY <2>1 DEF PlaceOK, Fits, Pending, Counts, Zero
<1>3. PlacesOK
  BY <1>1, <1>2 DEF PlacesOK
<1>4. HandsOK
  BY <1>1 DEF HandsOK, HandOK, Buttons!Idle
<1>5. WakeEatsPairs
  BY <1>1 DEF WakeEatsPairs, Buttons!WakeEatsPairs
<1> QED
  BY <1>3, <1>4, <1>5, KeysInitTyped DEF KeysInv

LEMMA KeysInvStep == KeysInv /\ KeysStep => KeysInv'
BY KeysTypeStep, KeysCountStep, EatsPairsStep DEF KeysInv

LEMMA KeysTypeOK == KeysInv => Buttons!TypeOK
<1> SUFFICES ASSUME KeysInv PROVE Buttons!TypeOK
  OBVIOUS
<1>1. ran \in [Buttons!Places -> [short : 0..1, long : 0..1]]
  BY DEF KeysInv, PlacesOK, PlaceOK, Counts
<1> QED
  BY <1>1 DEF Buttons!TypeOK, KeysInv, KeysTyped, SetTyped, RecordsTyped, OnTyped, WakeTyped,
              PastTyped

SurfaceInv == IInv /\ KeysInv

LEMMA SurfaceInitInv == SurfaceInit => SurfaceInv
<1>1. SurfaceInit => Init /\ Buttons!Init
  BY DEF SurfaceInit, KeysStill
<1> QED
  BY <1>1, InitIInv, KeysInit DEF SurfaceInv

LEMMA SurfaceSteps == [SurfaceNext]_surface => [Next]_vars /\ KeysStep
BY DEF SurfaceNext, surface, faders, KeysStep

LEMMA SurfaceNextInv == SurfaceInv /\ [SurfaceNext]_surface => SurfaceInv'
BY SurfaceSteps, NextIInv, KeysInvStep DEF SurfaceInv

\* The faders and the keys keep their types: in every set of bindings, and for any
\* number of keys and layers, dispatch holds of every key what it says it holds.
THEOREM SurfaceTypeCorrect == SurfaceSpec => []TypesOK
<1>1. SurfaceInv => TypesOK
  BY KeysTypeOK DEF SurfaceInv, IInv, TypesOK
<1> QED
  BY <1>1, SurfaceInitInv, SurfaceNextInv, PTL DEF SurfaceSpec

\* Beside the keys, too, a reported touch whose finger is gone has its release on
\* its way.
THEOREM NoStuckTouchBesideKeys == SurfaceSpec => []ReleaseOnItsWay
<1>1. SurfaceInv => ReleaseOnItsWay
  BY DEF SurfaceInv, IInv
<1> QED
  BY <1>1, SurfaceInitInv, SurfaceNextInv, PTL DEF SurfaceSpec

\* A press fires its deferred short action or its long one, not both and neither
\* twice, however tickLongPressThreshold and the release race each other, whatever
\* the bindings, and also when releases are lost.
THEOREM DecidesOnce == SurfaceSpec => []OneOfShortLong
<1>1. SurfaceInv => OneOfShortLong
  BY DEF SurfaceInv, KeysInv, PlacesOK, PlaceOK, OneOfShortLong, Buttons!OneOfShortLong
<1> QED
  BY <1>1, SurfaceInitInv, SurfaceNextInv, PTL DEF SurfaceSpec

\* wakeSwallow_ swallows the release of a key exactly if it swallowed its press,
\* also when an earlier release of that key was lost.
THEOREM SwallowsInPairs == SurfaceSpec => []WakeEatsPairs
<1>1. SurfaceInv => WakeEatsPairs
  BY DEF SurfaceInv, KeysInv
<1> QED
  BY <1>1, SurfaceInitInv, SurfaceNextInv, PTL DEF SurfaceSpec

\* No modifier and no toggle stays on without a key that holds it, or the latch,
\* whatever happens to the layer, the modifiers and the other keys between a press and
\* its release: dispatch finds the release's binding by what the press wrote down.
\* The theorem is about bindings that end what they begin (LastingHeld).
THEOREM NothingStaysOn == LastingHeld => (SurfaceSpec => []NothingStuck)
<1> SUFFICES ASSUME LastingHeld PROVE SurfaceSpec => []NothingStuck
  OBVIOUS
<1>1. SurfaceInit => SurfaceInv /\ StuckInv
  BY SurfaceInitInv, StuckInit DEF SurfaceInit, KeysStill
<1>2. SurfaceInv /\ StuckInv /\ [SurfaceNext]_surface => (SurfaceInv /\ StuckInv)'
  BY SurfaceNextInv, SurfaceSteps, StuckStep DEF SurfaceInv, KeysInv
<1>3. StuckInv => NothingStuck
  BY StuckIsAccounted
<1> QED
  BY <1>1, <1>2, <1>3, PTL DEF SurfaceSpec

=============================================================================
