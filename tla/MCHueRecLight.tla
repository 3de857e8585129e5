--------------------------- MODULE MCHueRecLight ---------------------------
(* Two lamps, one of them ticked for the recording light, in one room.      *)
EXTENDS HueRecLight

CONSTANTS l1, l2

TheLamps == {l1, l2}
OneLamp == {l1}

\* A lamp is lit in white mode, or dark.
LitOrDark == {[on |-> TRUE, look |-> "white"], [on |-> FALSE, look |-> "colour"]}
Lit == {v \in LitOrDark : v.on}

Setting(t, s, r) == [enabled |-> TRUE, target |-> t, scene |-> s, restore |-> r]

\* Every setting with the light switched on.
Enabled == {c \in ConfigType : c.enabled}

\* One target: every way to restore, and switched off.
OneTarget == {c \in ConfigType : /\ c.target = "slots" /\ ~c.scene
                                 /\ c.enabled \/ c.restore = "previous"}

=============================================================================
