---------------------------- MODULE ButtonDispatch ----------------------------
(***************************************************************************)
(* What a key of a surface does (extension/src/Bindings.cpp, dispatch and    *)
(* tickLongPressThreshold; the mod_shift handler of main.cpp).                *)
(*                                                                          *)
(* Every surface has an input thread, and a key belongs to one; the layer may *)
(* change at any moment, a modifier may come and go on another surface,  *)
(* and the main thread fires long presses while the key is held. *)
(* A release may be lost on its way, as the code says the UF1 does.            *)
(*                                                                          *)
(* An action is opaque but for two kinds that last from the press to the      *)
(* release: "shift", the modifier, and "flip", a REAPER toggle bound as Hold,  *)
(* which fires at both edges.  Double presses, chains of steps and the memory  *)
(* of the LEDs are left out.                                                  *)
(***************************************************************************)
EXTENDS Naturals

CONSTANTS
  Keys,     \* the keys
  Layers,   \* the layers of bindings, 0 .. 2
  Setups    \* what a behaviour is about: the bindings, and two bounds, which keys may
            \*   lose a release on its way and whether the surface goes dark

Mods == {"plain", "shift"}
Lasting == {"shift", "flip"}
Actions == Lasting \cup {"none", "tap", "tap2"}

Unbound == [behavior |-> "none"]
Bindings ==
  [behavior : {"Momentary", "Toggle", "Hold"},
   short : [Mods -> Actions], long : [Mods -> Actions \ Lasting]]

Places == Layers \X Keys

ButtonAssumption ==
  /\ Layers \subseteq Nat
  /\ Setups \subseteq [binds : [Places -> Bindings \cup {Unbound}],
                     losable : SUBSET Keys, sleeps : BOOLEAN]

\* A press that was written down: the modifier held at that moment, and whether
\* a long press is armed, has fired, and half a second has gone by.
Records == [mod : Mods, armed : BOOLEAN, fired : BOOLEAN, ripe : BOOLEAN]
NoRecord == [mod |-> "none"]

VARIABLES
  layer,      \* g_cfg.activeLayer
  setup,      \* with g_cfg.layers
  press,      \* g_pressStart
  long,       \* g_longPressStart
  on,         \* which lasting actions are on
  latch,      \* the double click of the shift key: latched, armed, recent
  asleep,     \* g_asleep
  window,     \* g_wakeSwallowUntilMs has not passed
  swallowed,  \* g_wakeSwallowed
  down,       \* the keys that are held
  at,         \* where the thread of each key is in dispatch
  engaged,    \* history: the lasting action the last press of a key ran
  ran,        \* history: how often the press written down at a place fired its
              \*   deferred short and its long action
  from,       \* history: the layer of the last press, and whether it was written down
  eaten,      \* history: the last press of the key was swallowed
  spoilt      \* history: "lost" a release, or a "stray" one ran another layer's binding

\* g_cfg.layers; a binding is not changed under the keys.
binds == setup.binds

shared == <<press, long, on, latch>>
wake == <<asleep, window, swallowed>>
past == <<engaged, ran, from, eaten, spoilt>>
vars == <<layer, setup, shared, wake, down, at, past>>

Idle == [step |-> "idle"]
Threads ==
  {Idle}
    \cup [step : {"look"}, pressed : BOOLEAN]
    \cup [step : {"fire", "long"}, pressed : BOOLEAN, layer : Layers, slot : Mods]

TypeOK ==
  /\ layer \in Layers
  /\ setup \in Setups
  /\ press \in [Places -> Records \cup {NoRecord}]
  /\ long \in [Places -> Records \cup {NoRecord}]
  /\ on \in [Lasting -> BOOLEAN]
  /\ latch \in [latched : BOOLEAN, armed : BOOLEAN, recent : BOOLEAN]
  /\ asleep \in BOOLEAN /\ window \in BOOLEAN /\ swallowed \subseteq Keys
  /\ down \subseteq Keys
  /\ at \in [Keys -> Threads]
  /\ engaged \in [Keys -> Lasting \cup {"none"}]
  /\ ran \in [Places -> [short : 0..1, long : 0..1]]
  /\ from \in [Keys -> [layer : Layers, written : BOOLEAN]]
  /\ eaten \subseteq Keys
  /\ spoilt \subseteq {"lost", "stray"}

Init ==
  /\ layer \in Layers
  /\ setup \in Setups
  /\ press = [p \in Places |-> NoRecord] /\ long = press
  /\ on = [a \in Lasting |-> FALSE]
  /\ latch = [latched |-> FALSE, armed |-> FALSE, recent |-> FALSE]
  /\ asleep = FALSE /\ window = FALSE /\ swallowed = {}
  /\ down = {}
  /\ at = [k \in Keys |-> Idle]
  /\ engaged = [k \in Keys |-> "none"]
  /\ ran = [p \in Places |-> [short |-> 0, long |-> 0]]
  /\ from = [k \in Keys |-> [layer |-> layer, written |-> FALSE]]
  /\ eaten = {}
  /\ spoilt = {}

-----------------------------------------------------------------------------
(* What a binding says.                                                     *)

HasLong(bd) == \E m \in Mods : bd.long[m] # "none"

\* A Momentary key with a long press decides at the release what it was.
Deferred(bd) == bd.behavior = "Momentary" /\ HasLong(bd)

\* The long action of a modifier, or else the plain one.
LongSlot(bd, m) == IF bd.long[m] # "none" THEN bd.long[m] ELSE bd.long["plain"]

\* A slot without an action falls back to the plain one.
SlotOf(bd, m) == IF bd.short[m] = "none" THEN "plain" ELSE m

Snapshot == IF on["shift"] THEN "shift" ELSE "plain"

NewRecord(m, armed) == [mod |-> m, armed |-> armed, fired |-> FALSE, ripe |-> FALSE]

\* Does a press of this binding leave a record?
Written(bd) == bd # Unbound /\ (bd.behavior # "Toggle" \/ HasLong(bd))

-----------------------------------------------------------------------------
(* The edges as they arrive, and the wake of a dark surface.                 *)

\* surfaceWake_: the event that finds the surface dark opens the window.
Wake == asleep' = FALSE /\ window' = (window \/ asleep)

\* Faulty: a press outside the window leaves the mark of an earlier one.
SwallowPressKeeps(k) ==
  /\ swallowed' = IF window' THEN swallowed \cup {k} ELSE swallowed
  /\ eaten' = IF window' THEN eaten \cup {k} ELSE eaten \ {k}
  /\ at' = IF window' THEN at ELSE [at EXCEPT ![k] = [step |-> "look", pressed |-> TRUE]]

\* wakeSwallow_, at a press.
SwallowPress(k) ==
  /\ swallowed' = IF window' THEN swallowed \cup {k} ELSE swallowed \ {k}
  /\ eaten' = IF window' THEN eaten \cup {k} ELSE eaten \ {k}
  /\ at' = IF window' THEN at ELSE [at EXCEPT ![k] = [step |-> "look", pressed |-> TRUE]]

Press(k) ==
  /\ k \notin down /\ at[k] = Idle
  /\ down' = down \cup {k} /\ engaged' = [engaged EXCEPT ![k] = "none"]
  /\ Wake /\ SwallowPress(k)
  /\ UNCHANGED <<layer, setup, shared, ran, from, spoilt>>

Release(k) ==
  /\ k \in down /\ at[k] = Idle
  /\ down' = down \ {k} /\ Wake
  /\ swallowed' = swallowed \ {k}
  /\ at' = IF k \in swallowed THEN at
           ELSE [at EXCEPT ![k] = [step |-> "look", pressed |-> FALSE]]
  /\ UNCHANGED <<layer, setup, shared, past>>

\* The release never arrives.
LoseRelease(k) ==
  /\ k \in setup.losable /\ k \in down /\ at[k] = Idle
  /\ down' = down \ {k} /\ spoilt' = spoilt \cup {"lost"}
  /\ UNCHANGED <<layer, setup, shared, wake, at, engaged, ran, from, eaten>>

-----------------------------------------------------------------------------
(* dispatch, on the thread of the key.                                       *)

\* The layers in which a press of the key is written down and still bound.
Tracked(k) ==
  {l \in Layers : /\ press[<<l, k>>] # NoRecord \/ long[<<l, k>>] # NoRecord
                  /\ binds[<<l, k>>] # Unbound}

\* Faulty: a release is looked up in the layer of the moment.
LayerOfNow(k, pressed) == layer

\* The layer an edge belongs to: a release goes to the first layer that wrote a
\* press down.
LayerOf(k, pressed) ==
  IF pressed \/ Tracked(k) = {} THEN layer
  ELSE CHOOSE l \in Tracked(k) : \A i \in Tracked(k) : l <= i

\* What the edge finds: its layer and the copy of the binding.
Found(k) == LayerOf(k, at[k].pressed)
Place(k) == <<Found(k), k>>
Bd(k) == binds[Place(k)]

Look(k) ==
  /\ at[k].step = "look"
  /\ IF at[k].pressed
       THEN /\ from' = [from EXCEPT ![k] = [layer |-> Found(k), written |-> Written(Bd(k))]]
            /\ UNCHANGED spoilt
       ELSE /\ spoilt' = IF Found(k) # from[k].layer /\ ~from[k].written
                            THEN spoilt \cup {"stray"} ELSE spoilt
            /\ UNCHANGED from
  /\ UNCHANGED <<layer, setup, on, latch, wake, down, engaged, eaten>>

Done(k) == at' = [at EXCEPT ![k] = Idle]

NothingBound(k) ==
  /\ Look(k) /\ Bd(k) = Unbound /\ Done(k)
  /\ UNCHANGED <<press, long, ran>>

\* A deferred press is only written down.
DeferPress(k) ==
  /\ Look(k) /\ Deferred(Bd(k)) /\ at[k].pressed
  /\ press' = [press EXCEPT ![Place(k)] =
                 NewRecord(Snapshot, LongSlot(Bd(k), Snapshot) # "none")]
  /\ ran' = [ran EXCEPT ![Place(k)] = [short |-> 0, long |-> 0]]
  /\ Done(k) /\ UNCHANGED long

\* Faulty: the release fires whether the threshold has fired or not.
DecideAnyway(bd, rec) ==
  IF rec.ripe THEN IF LongSlot(bd, rec.mod) = "none" THEN "nothing" ELSE "long"
  ELSE "short"

\* What the release of a deferred press fires.
Decide(bd, rec) ==
  IF rec.fired THEN "nothing"
  ELSE IF rec.ripe THEN IF LongSlot(bd, rec.mod) = "none" THEN "nothing" ELSE "long"
  ELSE "short"

Count(p, what) ==
  ran' = IF what = "nothing" THEN ran ELSE [ran EXCEPT ![p][what] = @ + 1]

DeferRelease(k) ==
  LET rec == press[Place(k)]
  IN  /\ Look(k) /\ Deferred(Bd(k)) /\ ~at[k].pressed
      /\ press' = [press EXCEPT ![Place(k)] = NoRecord]
      /\ Count(Place(k), IF rec = NoRecord THEN "nothing" ELSE Decide(Bd(k), rec))
      /\ Done(k) /\ UNCHANGED long

\* The modifier of the press decides at both edges; Toggle has no record.
SlotTaken(k) ==
  LET rec == press[Place(k)]
  IN  CASE at[k].pressed -> Snapshot
        [] ~at[k].pressed /\ Bd(k).behavior # "Toggle" /\ rec # NoRecord -> rec.mod
        [] OTHER -> "plain"

TakeSlot(k) ==
  LET m == SlotTaken(k)
  IN  /\ Look(k) /\ Bd(k) # Unbound /\ ~Deferred(Bd(k))
      /\ press' = IF Bd(k).behavior = "Toggle" THEN press
                  ELSE [press EXCEPT ![Place(k)] =
                          IF at[k].pressed THEN NewRecord(m, FALSE) ELSE NoRecord]
      /\ at' = [at EXCEPT ![k] = [step |-> "fire", pressed |-> at[k].pressed,
                                  layer |-> Found(k), slot |-> SlotOf(Bd(k), m)]]
      /\ UNCHANGED <<long, ran>>

\* mod_shift: a second press soon after a release latches the modifier at its own
\* release, and the press after that takes the latch off.
ShiftPressed ==
  /\ latch' = [latched |-> FALSE, armed |-> latch.recent /\ ~latch.latched, recent |-> FALSE]
  /\ on' = [on EXCEPT !["shift"] = ~latch.latched]

ShiftReleased ==
  /\ latch' = [latched |-> latch.latched \/ latch.armed, armed |-> FALSE,
               recent |-> ~latch.armed]
  /\ on' = IF latch.armed THEN on ELSE [on EXCEPT !["shift"] = FALSE]

\* runStep_, for the two lasting actions.
Run(a, firing, pressed) ==
  CASE a = "shift" /\ pressed -> ShiftPressed
    [] a = "shift" /\ ~pressed -> ShiftReleased
    [] a = "flip" /\ firing -> on' = [on EXCEPT !["flip"] = ~@] /\ UNCHANGED latch
    [] OTHER -> UNCHANGED <<on, latch>>

\* The binding the thread has in hand.
Held(k) == binds[<<at[k].layer, k>>]

Fire(k) ==
  LET bd == Held(k)
      a == bd.short[at[k].slot]
  IN  /\ at[k].step = "fire"
      /\ Run(a, at[k].pressed \/ bd.behavior = "Hold", at[k].pressed)
      /\ engaged' = [engaged EXCEPT ![k] = IF at[k].pressed /\ a \in Lasting THEN a ELSE "none"]
      /\ at' = [at EXCEPT ![k] = IF HasLong(bd) THEN [@ EXCEPT !.step = "long"] ELSE Idle]
      /\ UNCHANGED <<layer, setup, press, long, wake, down, ran, from, eaten, spoilt>>

\* Toggle and Hold: the long action comes on top of the short one.
TakeLong(k) ==
  LET p == <<at[k].layer, k>>
      rec == long[p]
  IN  /\ at[k].step = "long" /\ Done(k)
      /\ long' = [long EXCEPT ![p] =
                    IF at[k].pressed
                      THEN NewRecord(at[k].slot, LongSlot(Held(k), at[k].slot) # "none")
                      ELSE NoRecord]
      /\ IF at[k].pressed
           THEN ran' = [ran EXCEPT ![p] = [short |-> 0, long |-> 0]]
           ELSE Count(p, IF /\ rec # NoRecord /\ ~rec.fired /\ rec.ripe
                            /\ LongSlot(Held(k), rec.mod) # "none"
                           THEN "long" ELSE "nothing")
      /\ UNCHANGED <<layer, setup, press, on, latch, wake, down, engaged, from, eaten, spoilt>>

-----------------------------------------------------------------------------
(* The main thread and the world.                                           *)

\* Faulty: only presses without a modifier.
DuePlain(rec) ==
  rec # NoRecord /\ rec.armed /\ ~rec.fired /\ rec.ripe /\ rec.mod = "plain"

Due(rec) == rec # NoRecord /\ rec.armed /\ ~rec.fired /\ rec.ripe

\* Faulty: the records keep no mark of having fired.
MarkNot(recs) == recs

Mark(recs) == [p \in Places |-> IF Due(recs[p]) THEN [recs[p] EXCEPT !.fired = TRUE] ELSE recs[p]]

\* tickLongPressThreshold, under the mutex; the actions run after it.
TickLongPress ==
  /\ \E p \in Places : Due(press[p]) \/ Due(long[p])
  /\ press' = Mark(press) /\ long' = Mark(long)
  /\ ran' = [p \in Places |->
               IF Due(press[p]) \/ Due(long[p]) THEN [ran[p] EXCEPT !.long = @ + 1] ELSE ran[p]]
  /\ UNCHANGED <<layer, setup, on, latch, wake, down, at, engaged, from, eaten, spoilt>>

\* Half a second since the press; only a record of a long press looks at it.
Ripens(p) ==
  /\ binds[p] # Unbound /\ HasLong(binds[p])
  /\ \/ press[p] # NoRecord /\ ~press[p].ripe
        /\ press' = [press EXCEPT ![p].ripe = TRUE] /\ UNCHANGED long
     \/ long[p] # NoRecord /\ ~long[p].ripe
        /\ long' = [long EXCEPT ![p].ripe = TRUE] /\ UNCHANGED press
  /\ UNCHANGED <<layer, setup, on, latch, wake, down, at, past>>

\* The time for a double click of the shift key runs out.
ShiftTimePasses ==
  /\ latch.recent /\ latch' = [latch EXCEPT !.recent = FALSE]
  /\ UNCHANGED <<layer, setup, press, long, on, wake, down, at, past>>

\* setActiveLayer, or the mixer that opens and closes.
SetActiveLayer ==
  /\ layer' \in Layers \ {layer}
  /\ UNCHANGED <<setup, shared, wake, down, at, past>>

FallAsleep ==
  /\ setup.sleeps /\ ~asleep /\ asleep' = TRUE
  /\ UNCHANGED <<layer, setup, shared, window, swallowed, down, at, past>>

WindowPasses ==
  /\ window /\ window' = FALSE
  /\ UNCHANGED <<layer, setup, shared, asleep, swallowed, down, at, past>>

Dispatch(k) ==
  NothingBound(k) \/ DeferPress(k) \/ DeferRelease(k) \/ TakeSlot(k) \/ Fire(k) \/ TakeLong(k)

Next ==
  \/ \E k \in Keys : Press(k) \/ Release(k) \/ LoseRelease(k) \/ Dispatch(k)
  \/ TickLongPress \/ ShiftTimePasses \/ (\E p \in Places : Ripens(p))
  \/ SetActiveLayer \/ FallAsleep \/ WindowPasses

Spec ==
  /\ Init /\ [][Next]_vars
  /\ WF_vars(TickLongPress)
  /\ \A p \in Places : WF_vars(Ripens(p))

-----------------------------------------------------------------------------
(* What dispatch promises.                                                  *)

\* Is a lasting action on with a reason: a key whose press ran it and whose
\* release has not been dealt with, or the latch?
Accounted(a) ==
  \/ \E k \in Keys : engaged[k] = a
  \/ a = "shift" /\ latch.latched

\* Nothing stays on without a key that holds it, whatever happens to the layer
\* and the modifiers in between, but for releases that were lost or that met
\* another layer's binding because their press left no record.
NothingStuck == spoilt = {} => \A a \in Lasting : on[a] => Accounted(a)

\* A press fires its short or its long action, never both and neither twice.
OneOfShortLong == \A p \in Places : ran[p].short + ran[p].long <= 1

\* The release of a held key will be swallowed exactly if its press was, also when
\* an earlier release of the key was lost.
WakeEatsPairs == \A k \in down : k \in swallowed <=> k \in eaten

\* The release of a key ends what its press began, unless another key holds it.
\* Comments: "finding any entry pinpoints which layer originally handled this
\* press"; a lost release leaves an entry behind that does not.
ReleaseEndsPress ==
  [][spoilt' \subseteq {"lost"} =>
       \A k \in Keys, a \in Lasting :
         (at[k] # Idle /\ ~at[k].pressed /\ at'[k] # at[k] /\ at'[k].step # "fire"
            /\ engaged[k] = a /\ on'[a])
           => \/ \E j \in Keys \ {k} : engaged[j] = a
              \/ latch'.latched /\ a = "shift"]_vars

=============================================================================
