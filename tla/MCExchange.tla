----------------------------- MODULE MCExchange -----------------------------
(* Three names of plug-ins, and two vendors or three.  Names, rows and contents *)
(* are interchangeable.                                                       *)
EXTENDS Exchange, TLC

CONSTANTS comp, compTwo, compThree, acme, bolt, coda, p1, p2, p3,
          v1, v2, v3, flat, bright

ThreeNames == {comp, compTwo, compThree}
TwoVendorNames == {acme, bolt}
ThreeVendorNames == {acme, bolt, coda}
ThreePlugins == {p1, p2, p3}
TwoVendors == {v1, v2}
ThreeVendors == {v1, v2, v3}
TwoContents == {flat, bright}

\* No vendor that the fixed table of other spellings knows.
AsSpelt == [name \in VendorNames |-> name]

Interchangeable ==
  UNION {Permutations(S) : S \in {Names, VendorNames, PluginIds, VendorIds, Contents}}

=============================================================================
