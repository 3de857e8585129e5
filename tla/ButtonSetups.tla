----------------------------- MODULE ButtonSetups -----------------------------
(* Two keys and two layers: a shift key, and a key with a binding of each kind. *)

CONSTANTS fine, key

BothKeys == {fine, key}
TwoLayers == {0, 1}

Kind(b, plain, shifted, held) ==
  [behavior |-> b, short |-> [plain |-> plain, shift |-> shifted],
   long |-> [plain |-> held, shift |-> "none"]]

None == [behavior |-> "none"]
HoldShift == Kind("Hold", "shift", "none", "none")
HoldFlip == Kind("Hold", "flip", "tap", "none")
HoldLong == Kind("Hold", "flip", "none", "tap2")
TapOrLong == Kind("Momentary", "tap", "none", "tap2")
Switch == Kind("Toggle", "tap", "tap2", "none")

BindAll(f0, f1, k0, k1) ==
  [p \in TwoLayers \X BothKeys |->
     IF p[2] = fine THEN IF p[1] = 0 THEN f0 ELSE f1
                    ELSE IF p[1] = 0 THEN k0 ELSE k1]

Setup(losable, sleeps, bound) == [binds |-> bound, losable |-> losable, sleeps |-> sleeps]

ManyBinds ==
  {BindAll(HoldShift, HoldShift, TapOrLong, HoldFlip), BindAll(HoldShift, None, Switch, HoldLong)}

BrightSetups == {Setup({fine}, FALSE, bound) : bound \in ManyBinds}

\* For the wake: the second key, in one layer.
DarkSetups ==
  {Setup({key}, TRUE, BindAll(None, None, k, None)) : k \in {HoldFlip, TapOrLong}}

ManySetups == BrightSetups \cup DarkSetups

\* Any release may be lost.
LosingSetups == {Setup(BothKeys, FALSE, bound) : bound \in ManyBinds}

=============================================================================
