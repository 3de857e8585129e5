-------------------------- MODULE Exchange_proofs --------------------------
(***************************************************************************)
(* Proofs about the catalogue of the exchange, for any number of names,     *)
(* vendors, accounts and uploads.                                           *)
(*                                                                          *)
(* A map stands where its name resolves to because a name is never both the *)
(* name of a plug-in and an alias, and names are unique: these are the      *)
(* lemmas NextTables and NextLand.                                          *)
(***************************************************************************)
EXTENDS Exchange, SequenceTheorems, TLAPS

\* A name is that of one plug-in at most, or an alias of one that is there.
NamesApart ==
  /\ \A p, q \in DOMAIN plugins : plugins[p].norm = plugins[q].norm => p = q
  /\ \A p \in DOMAIN plugins : plugins[p].norm \notin DOMAIN pluginAliases
  /\ \A n \in DOMAIN pluginAliases : pluginAliases[n] \in DOMAIN plugins

\* A map that is down carries the note that keeps its author from republishing.
DownIsNoted ==
  \A m \in DOMAIN maps :
    maps[m].down => ~maps[m].published /\ maps[m].note \in {"moderated", "replaced"}

IInv ==
  /\ TypeOK
  /\ NamesApart
  /\ UploadsLandTogether
  /\ DownIsNoted
  /\ TwinsAreRelisted

-----------------------------------------------------------------------------
(* Sequences of maps.                                                       *)

\* A sequence is a function on 1..n.
LEMMA Rows ==
  ASSUME NEW n \in Nat, NEW f \in [1..n -> Map]
  PROVE  f \in Seq(Map) /\ Len(f) = n /\ DOMAIN f = 1..n
  OBVIOUS

LEMMA MapsRows ==
  ASSUME TypeOK
  PROVE  /\ Len(maps) \in Nat
         /\ DOMAIN maps = 1..Len(maps)
         /\ maps \in [1..Len(maps) -> Map]
         /\ \A m \in DOMAIN maps : maps[m] \in Map
  BY DEF TypeOK

\* A change of the rows that keeps their types and ids.
LEMMA SameIds ==
  ASSUME TypeOK, NEW f, DOMAIN f = DOMAIN maps, f = [m \in DOMAIN maps |-> f[m]],
         \A m \in DOMAIN maps : f[m] \in Map
  PROVE  f \in Seq(Map) /\ Len(f) = Len(maps)
<1>1. f \in [1..Len(maps) -> Map]
  BY MapsRows
<1> QED
  BY <1>1, MapsRows, Rows

LEMMA RetiredRows ==
  ASSUME TypeOK, NEW r \in Nat, r < Len(maps) + 1
  PROVE  /\ Retired(r) \in Seq(Map)
         /\ Len(Retired(r)) = Len(maps)
         /\ \A m \in DOMAIN maps :
              Retired(r)[m] = IF m = r
                THEN [maps[m] EXCEPT !.published = FALSE, !.note = "replaced", !.down = TRUE]
                ELSE maps[m]
<1>1. \A m \in DOMAIN maps : Retired(r)[m] \in Map
  BY MapsRows DEF Retired, Map, Notes
<1>2. /\ DOMAIN Retired(r) = DOMAIN maps
      /\ Retired(r) = [m \in DOMAIN maps |-> Retired(r)[m]]
  BY DEF Retired
<1> QED
  BY <1>1, <1>2, SameIds DEF Retired

-----------------------------------------------------------------------------
(* Uploads.                                                                 *)

\* The tables of vendors and plug-ins after their two look-ups.
LEMMA LookUpTypes ==
  ASSUME TypeOK, NEW name \in Names, NEW vendorName \in VendorNames \cup {NoVendor},
         NEW vendor \in VendorIds \cup {NoVendor}, NEW plugin \in PluginIds,
         VendorFor(vendorName, vendor), PluginFor(name, vendor, plugin)
  PROVE  IsTable(vendors', VendorIds, VendorNames) /\ IsTable(plugins', PluginIds, Plugin)
<1>1. IsTable(vendors', VendorIds, VendorNames)
  BY ExchangeAssumption DEF VendorFor, TypeOK, IsTable, With
<1>2. IsTable(plugins', PluginIds, Plugin)
  <2>1. CASE UNCHANGED plugins
    BY <2>1 DEF TypeOK
  <2>2. CASE /\ plugin \in DOMAIN plugins
             /\ plugins' = [plugins EXCEPT ![plugin].vendor = vendor]
    BY <2>2 DEF TypeOK, IsTable, Plugin
  <2>3. CASE plugins' = With(plugins, plugin, [norm |-> name, vendor |-> vendor])
    BY <2>3 DEF TypeOK, IsTable, Plugin, With
  <2> QED
    BY <2>1, <2>2, <2>3 DEF PluginFor
<1> QED
  BY <1>1, <1>2

\* The look-up of a plug-in keeps names apart, leaves every name that resolves
\* where it is, and makes the name resolve to what it found.
LEMMA LookUpResolves ==
  ASSUME TypeOK, NamesApart, NEW name \in Names, NEW vendor, NEW plugin \in PluginIds,
         PluginFor(name, vendor, plugin), UNCHANGED pluginAliases
  PROVE  /\ NamesApart'
         /\ Resolved(name)' = {plugin}
         /\ \A n \in Names : Resolved(n) # {} => Resolved(n)' = Resolved(n)
<1> DEFINE Same == /\ DOMAIN plugins' = DOMAIN plugins
                   /\ \A p \in DOMAIN plugins : plugins'[p].norm = plugins[p].norm
<1>1. CASE name \in DOMAIN pluginAliases /\ plugin = pluginAliases[name] /\ UNCHANGED plugins
  BY <1>1 DEF NamesApart, Resolved
<1>2. CASE /\ name \notin DOMAIN pluginAliases
           /\ plugin \in DOMAIN plugins /\ plugins[plugin].norm = name
           /\ plugins' = IF plugins[plugin].vendor = NoVendor
                           THEN [plugins EXCEPT ![plugin].vendor = vendor] ELSE plugins
  <2>1. Same
    BY <1>2 DEF TypeOK, IsTable, Plugin
  <2>2. /\ \A p \in DOMAIN plugins : p \in DOMAIN plugins' /\ plugins'[p].norm = plugins[p].norm
        /\ \A p \in DOMAIN plugins' : p \in DOMAIN plugins
    BY <2>1
  <2>3. NamesApart'
    BY <2>2 DEF NamesApart
  <2>4. \A n \in Names : Resolved(n)' = Resolved(n)
    BY <2>2 DEF Resolved
  <2>5. Resolved(name) = {plugin}
    BY <1>2 DEF NamesApart, Resolved
  <2> QED
    BY <2>3, <2>4, <2>5
<1>3. CASE /\ name \notin DOMAIN pluginAliases
           /\ \A p \in DOMAIN plugins : plugins[p].norm # name
           /\ plugin \in PluginIds \ DOMAIN plugins
           /\ plugins' = With(plugins, plugin, [norm |-> name, vendor |-> vendor])
  <2>1. /\ DOMAIN plugins' = DOMAIN plugins \cup {plugin}
        /\ plugins'[plugin].norm = name
        /\ \A p \in DOMAIN plugins : plugins'[p] = plugins[p]
    BY <1>3 DEF With
  <2>2. NamesApart'
    BY <1>3, <2>1 DEF NamesApart
  <2>3. Resolved(name)' = {plugin}
    BY <1>3, <2>1 DEF Resolved
  <2>4. \A n \in Names : Resolved(n) # {} => Resolved(n)' = Resolved(n)
    BY <1>3, <2>1 DEF Resolved
  <2> QED
    BY <2>2, <2>3, <2>4
<1> QED
  BY <1>1, <1>2, <1>3 DEF PluginFor

\* The rows of the maps after an upload.
LEMMA UploadRows ==
  ASSUME TypeOK, NEW r \in Nat, r < Len(maps) + 1, NEW new \in Map, new.replaces = r,
         maps' = Append(Retired(r), new)
  PROVE  /\ maps' \in Seq(Map)
         /\ DOMAIN maps' = DOMAIN maps \cup {Len(maps) + 1}
         /\ maps'[Len(maps) + 1] = new
         /\ \A m \in DOMAIN maps : m # r => maps'[m] = maps[m]
         /\ r \in DOMAIN maps =>
              maps'[r] = [maps[r] EXCEPT !.published = FALSE, !.note = "replaced", !.down = TRUE]
         /\ \A m \in DOMAIN maps' : maps'[m].replaces < m
<1> DEFINE old == Retired(r)
<1>1. /\ old \in Seq(Map) /\ Len(old) = Len(maps)
      /\ \A m \in DOMAIN maps : m # r => old[m] = maps[m]
      /\ r \in DOMAIN maps =>
           old[r] = [maps[r] EXCEPT !.published = FALSE, !.note = "replaced", !.down = TRUE]
  BY RetiredRows
<1>2. Len(maps) \in Nat /\ DOMAIN maps = 1..Len(maps)
  BY MapsRows
<1> HIDE DEF old
<1>3. maps' = Append(old, new)
  BY DEF old
<1>4. /\ maps' \in Seq(Map)
      /\ DOMAIN maps' = 1..(Len(maps) + 1)
      /\ maps'[Len(maps) + 1] = new
      /\ \A m \in 1..Len(maps) : maps'[m] = old[m]
  <2>1. maps' \in Seq(Map) /\ Len(maps') = Len(maps) + 1
    BY <1>1, <1>3, AppendProperties
  <2> QED
    BY <2>1, <1>1, <1>2, <1>3, AppendProperties
<1>5. /\ \A m \in DOMAIN maps : m # r => maps'[m] = maps[m]
      /\ r \in DOMAIN maps =>
           maps'[r] = [maps[r] EXCEPT !.published = FALSE, !.note = "replaced", !.down = TRUE]
  BY <1>1, <1>2, <1>4
<1>6. \A m \in DOMAIN maps : maps'[m].replaces = maps[m].replaces
  <2>1. CASE r \in DOMAIN maps
    <3>1. maps[r] \in Map
      BY <2>1, MapsRows
    <3>2. maps'[r].replaces = maps[r].replaces
      BY <2>1, <3>1, <1>5 DEF Map
    <3> QED
      BY <3>2, <1>5
  <2> QED
    BY <2>1, <1>5
<1>7. \A m \in DOMAIN maps' : maps'[m].replaces < m
  <2> TAKE m \in DOMAIN maps'
  <2>1. CASE m \in DOMAIN maps
    BY <2>1, <1>6 DEF TypeOK
  <2>2. CASE m = Len(maps) + 1
    BY <2>2, <1>4
  <2> QED
    BY <2>1, <2>2, <1>2, <1>4
<1>8. DOMAIN maps' = DOMAIN maps \cup {Len(maps) + 1}
  BY <1>2, <1>4
<1> QED
  BY <1>4, <1>5, <1>7, <1>8

\* An upload, taken apart: what its two look-ups found and what it replaced.
LEMMA UploadParts ==
  ASSUME TypeOK, NEW account \in Accounts, NEW name \in Names,
         NEW vendorName \in VendorNames \cup {NoVendor}, NEW content \in Contents,
         Upload(account, name, vendorName, content)
  PROVE  \E vendor \in VendorIds \cup {NoVendor}, plugin \in PluginIds, r \in Nat,
            new \in Map :
           /\ VendorFor(vendorName, vendor) /\ PluginFor(name, vendor, plugin)
           /\ UNCHANGED <<pluginAliases, vendorAliases>>
           /\ r < Len(maps) + 1 /\ new.replaces = r /\ ~Duplicate(plugin, content, r)
           /\ new.plugin = plugin /\ new.under = name /\ new.content = content
           /\ ~new.down
           /\ maps' = Append(Retired(r), new)
<1>1. PICK vendor \in VendorIds \cup {NoVendor}, plugin \in PluginIds, r \in Replaceable(account) :
        /\ VendorFor(vendorName, vendor) /\ PluginFor(name, vendor, plugin)
        /\ ~Duplicate(plugin, content, r)
        /\ maps' = Append(Retired(r),
             [plugin |-> plugin, account |-> account, replaces |-> r,
              content |-> content, published |-> TRUE, note |-> "none",
              under |-> name, unchecked |-> FALSE, down |-> FALSE])
  BY DEF Upload
<1>2. r \in Nat /\ r < Len(maps) + 1
  BY MapsRows DEF Replaceable
<1> DEFINE new == [plugin |-> plugin, account |-> account, replaces |-> r,
                   content |-> content, published |-> TRUE, note |-> "none",
                   under |-> name, unchecked |-> FALSE, down |-> FALSE]
<1>3. new \in Map
  BY <1>2 DEF Map, Notes
<1>4. UNCHANGED <<pluginAliases, vendorAliases>>
  BY DEF Upload
<1> QED
  BY <1>1, <1>2, <1>3, <1>4

LEMMA UploadIInv ==
  ASSUME IInv, NEW account \in Accounts, NEW name \in Names,
         NEW vendorName \in VendorNames \cup {NoVendor}, NEW content \in Contents,
         Upload(account, name, vendorName, content)
  PROVE  IInv'
<1>0. TypeOK
  BY DEF IInv
<1>1. PICK vendor \in VendorIds \cup {NoVendor}, plugin \in PluginIds, r \in Nat,
           new \in Map :
        /\ VendorFor(vendorName, vendor) /\ PluginFor(name, vendor, plugin)
        /\ UNCHANGED <<pluginAliases, vendorAliases>>
        /\ r < Len(maps) + 1 /\ new.replaces = r /\ ~Duplicate(plugin, content, r)
        /\ new.plugin = plugin /\ new.under = name /\ new.content = content
        /\ ~new.down
        /\ maps' = Append(Retired(r), new)
  BY <1>0, UploadParts
<1>2. /\ maps' \in Seq(Map)
      /\ DOMAIN maps' = DOMAIN maps \cup {Len(maps) + 1}
      /\ maps'[Len(maps) + 1] = new
      /\ \A m \in DOMAIN maps : m # r => maps'[m] = maps[m]
      /\ r \in DOMAIN maps =>
           maps'[r] = [maps[r] EXCEPT !.published = FALSE, !.note = "replaced", !.down = TRUE]
      /\ \A m \in DOMAIN maps' : maps'[m].replaces < m
  BY <1>0, <1>1, UploadRows
\* The fields of the replaced map that stay.
<1>3. r \in DOMAIN maps =>
        /\ maps'[r].plugin = maps[r].plugin /\ maps'[r].under = maps[r].under
        /\ maps'[r].content = maps[r].content /\ ~maps'[r].published
        /\ maps'[r].note = "replaced" /\ maps'[r].unchecked = maps[r].unchecked
  BY <1>0, <1>2, MapsRows DEF Map
<1>4. TypeOK'
  BY <1>0, <1>1, <1>2, LookUpTypes DEF TypeOK
<1>5. /\ NamesApart'
      /\ Resolved(name)' = {plugin}
      /\ \A n \in Names : Resolved(n) # {} => Resolved(n)' = Resolved(n)
  BY <1>0, <1>1, LookUpResolves DEF IInv
<1>6. UploadsLandTogether'
  <2> SUFFICES ASSUME NEW m \in DOMAIN maps'
               PROVE  (Resolved(maps[m].under) = {maps[m].plugin})'
    BY DEF UploadsLandTogether
  <2>1. CASE m \in DOMAIN maps
    <3>1. PICK n \in Names : n = maps[m].under
      BY <1>0, <2>1, MapsRows DEF Map
    <3>2. Resolved(n) = {maps[m].plugin}
      BY <2>1, <3>1 DEF IInv, UploadsLandTogether
    <3>3. Resolved(n)' = {maps[m].plugin}
      BY <3>2, <1>5
    <3>4. maps'[m].under = n /\ maps'[m].plugin = maps[m].plugin
      BY <1>2, <1>3, <2>1, <3>1
    <3> QED
      BY <3>3, <3>4 DEF Resolved
  <2>2. CASE m = Len(maps) + 1
    BY <2>2, <1>1, <1>2, <1>5 DEF Resolved
  <2> QED
    BY <2>1, <2>2, <1>2
<1>7. DownIsNoted'
  BY <1>1, <1>2, <1>3 DEF IInv, DownIsNoted
<1>8. TwinsAreRelisted'
  <2> SUFFICES ASSUME NEW m \in DOMAIN maps', NEW n \in DOMAIN maps', m # n,
                      maps'[m].published, maps'[n].published,
                      maps'[n].plugin = maps'[m].plugin,
                      maps'[m].content = maps'[n].content
               PROVE  maps'[m].unchecked \/ maps'[n].unchecked
    BY DEF TwinsAreRelisted, Live
  \* A published map that was there before is not the one of the upload.
  <2>1. ASSUME NEW k \in DOMAIN maps, maps'[k].published
        PROVE  maps'[k] = maps[k] /\ (maps[k].plugin = plugin => maps[k].content # content)
    <3>1. k # r
      BY <2>1, <1>3
    <3> QED
      BY <2>1, <3>1, <1>1, <1>2 DEF Duplicate, Live
  <2>2. CASE m \in DOMAIN maps /\ n \in DOMAIN maps
    BY <2>1, <2>2 DEF IInv, TwinsAreRelisted, Live
  <2> QED
    BY <2>1, <2>2, <1>1, <1>2
<1> QED
  BY <1>4, <1>5, <1>6, <1>7, <1>8 DEF IInv

-----------------------------------------------------------------------------
(* The author's page and the moderator's.                                   *)

\* A change of one row keeps the invariant when the row stays where it is, a map
\* that comes back is marked unchecked, and one that is down carries the note.
LEMMA ChangeIInv ==
  ASSUME IInv, NEW m \in DOMAIN maps, NEW row \in Map, Change(m, row),
         row.plugin = maps[m].plugin, row.under = maps[m].under,
         row.content = maps[m].content, row.replaces = maps[m].replaces,
         row.published => maps[m].published \/ row.unchecked,
         maps[m].unchecked => row.unchecked,
         row.down => ~row.published /\ row.note \in {"moderated", "replaced"}
  PROVE  IInv'
<1>1. /\ maps' = [maps EXCEPT ![m] = row]
      /\ UNCHANGED <<plugins, pluginAliases, vendors, vendorAliases>>
  BY DEF Change
<1>2. /\ DOMAIN maps' = DOMAIN maps
      /\ maps'[m] = row
      /\ \A n \in DOMAIN maps : n # m => maps'[n] = maps[n]
  BY <1>1
<1>3. maps' \in Seq(Map)
  BY <1>1, ExceptSeq, MapsRows DEF IInv, TypeOK
<1>4. TypeOK'
  BY <1>1, <1>2, <1>3 DEF IInv, TypeOK
<1>5. NamesApart'
  BY <1>1 DEF IInv, NamesApart
<1>6. \A n \in DOMAIN maps' : maps'[n].under = maps[n].under /\ maps'[n].plugin = maps[n].plugin
  BY <1>2
<1>7. UploadsLandTogether'
  BY <1>1, <1>2, <1>6 DEF IInv, UploadsLandTogether, Resolved
<1>8. DownIsNoted'
  BY <1>2 DEF IInv, DownIsNoted
<1>9. TwinsAreRelisted'
  BY <1>2 DEF IInv, TwinsAreRelisted, Live
<1> QED
  BY <1>4, <1>5, <1>7, <1>8, <1>9 DEF IInv

\* The four changes are such changes.
LEMMA PageIInv ==
  ASSUME IInv, NEW m \in DOMAIN maps,
         Withdraw(m) \/ Republish(m) \/ Unpublish(m) \/ Publish(m)
  PROVE  IInv'
<1>1. maps[m] \in Map /\ (maps[m].down => maps[m].note \in {"moderated", "replaced"})
  BY MapsRows DEF IInv, DownIsNoted
<1>2. maps[m].published => ~maps[m].down
  BY DEF IInv, DownIsNoted
<1>3. CASE Withdraw(m)
  <2> DEFINE row == [maps[m] EXCEPT !.published = FALSE, !.note = "withdrawn"]
  <2>1. row \in Map /\ ~row.down /\ ~row.published
    BY <1>1, <1>2, <1>3 DEF Withdraw, Map, Notes
  <2>2. /\ row.plugin = maps[m].plugin /\ row.under = maps[m].under
        /\ row.content = maps[m].content /\ row.replaces = maps[m].replaces
        /\ row.unchecked = maps[m].unchecked
    BY <1>1 DEF Map
  <2>3. Change(m, row)
    BY <1>3 DEF Withdraw
  <2> QED
    BY <2>1, <2>2, <2>3, ChangeIInv
<1>4. CASE Republish(m)
  <2> DEFINE row == [maps[m] EXCEPT !.published = TRUE, !.note = "none",
                                    !.unchecked = @ \/ ~maps[m].published]
  <2>1. row \in Map /\ ~row.down
    BY <1>1, <1>4 DEF Republish, Map, Notes
  <2>2. /\ row.plugin = maps[m].plugin /\ row.under = maps[m].under
        /\ row.content = maps[m].content /\ row.replaces = maps[m].replaces
        /\ row.unchecked <=> (maps[m].unchecked \/ ~maps[m].published)
    BY <1>1 DEF Map
  <2>3. Change(m, row)
    BY <1>4 DEF Republish
  <2> QED
    BY <2>1, <2>2, <2>3, ChangeIInv
<1>5. CASE Unpublish(m)
  <2> DEFINE row == [maps[m] EXCEPT !.published = FALSE, !.note = "moderated", !.down = TRUE]
  <2>1. row \in Map /\ ~row.published /\ row.note = "moderated"
    BY <1>1 DEF Map, Notes
  <2>2. /\ row.plugin = maps[m].plugin /\ row.under = maps[m].under
        /\ row.content = maps[m].content /\ row.replaces = maps[m].replaces
        /\ row.unchecked = maps[m].unchecked
    BY <1>1 DEF Map
  <2>3. Change(m, row)
    BY <1>5 DEF Unpublish
  <2> QED
    BY <2>1, <2>2, <2>3, ChangeIInv
<1>6. CASE Publish(m)
  <2> DEFINE row == [maps[m] EXCEPT !.published = TRUE, !.note = "none", !.down = FALSE,
                                    !.unchecked = @ \/ ~maps[m].published]
  <2>1. row \in Map /\ ~row.down
    BY <1>1 DEF Map, Notes
  <2>2. /\ row.plugin = maps[m].plugin /\ row.under = maps[m].under
        /\ row.content = maps[m].content /\ row.replaces = maps[m].replaces
        /\ row.unchecked <=> (maps[m].unchecked \/ ~maps[m].published)
    BY <1>1 DEF Map
  <2>3. Change(m, row)
    BY <1>6 DEF Publish
  <2> QED
    BY <2>1, <2>2, <2>3, ChangeIInv
<1> QED
  BY <1>3, <1>4, <1>5, <1>6

-----------------------------------------------------------------------------
(* Merging.                                                                 *)

LEMMA MergePluginsIInv ==
  ASSUME IInv, NEW t \in DOMAIN plugins, NEW s \in DOMAIN plugins, t # s,
         MergePlugins(t, s)
  PROVE  IInv'
<1>0. TypeOK /\ NamesApart
  BY DEF IInv
<1>1. /\ DOMAIN plugins' = DOMAIN plugins \ {s}
      /\ \A p \in DOMAIN plugins' : plugins'[p].norm = plugins[p].norm
      /\ plugins' \in [DOMAIN plugins' -> Plugin]
  <2> DEFINE inherit == [plugins EXCEPT ![t].vendor =
                           IF @ = NoVendor THEN plugins[s].vendor ELSE @]
  <2>1. plugins \in [DOMAIN plugins -> Plugin]
    BY <1>0 DEF TypeOK, IsTable
  <2>2. /\ inherit \in [DOMAIN plugins -> Plugin]
        /\ \A p \in DOMAIN plugins : inherit[p].norm = plugins[p].norm
    BY <2>1 DEF Plugin
  <2>3. plugins' = Without(inherit, s)
    BY DEF MergePlugins
  <2> HIDE DEF inherit
  <2> QED
    BY <2>2, <2>3 DEF Without
<1>2. /\ DOMAIN pluginAliases' = DOMAIN pluginAliases \cup {plugins[s].norm}
      /\ pluginAliases'[plugins[s].norm] = t
      /\ \A n \in DOMAIN pluginAliases : n # plugins[s].norm =>
           pluginAliases'[n] = IF pluginAliases[n] = s THEN t ELSE pluginAliases[n]
      /\ pluginAliases' = [n \in DOMAIN pluginAliases' |-> pluginAliases'[n]]
  BY DEF MergePlugins, AliasesMoved, With
<1>3. /\ DOMAIN maps' = DOMAIN maps
      /\ maps' = [m \in DOMAIN maps |-> maps'[m]]
      /\ \A m \in DOMAIN maps : maps[m].plugin # s => maps'[m] = maps[m]
      /\ \A m \in DOMAIN maps : maps[m].plugin = s =>
           maps'[m] = [maps[m] EXCEPT !.plugin = t, !.unchecked = TRUE]
  BY DEF MergePlugins, MapsMoved
<1>4. t \in PluginIds /\ s \in PluginIds /\ plugins[s].norm \in Names
  BY <1>0 DEF TypeOK, IsTable, Plugin
<1>5. \A m \in DOMAIN maps :
        /\ maps'[m] \in Map
        /\ maps'[m].replaces = maps[m].replaces /\ maps'[m].under = maps[m].under
        /\ maps'[m].content = maps[m].content /\ maps'[m].published = maps[m].published
        /\ maps'[m].down = maps[m].down /\ maps'[m].note = maps[m].note
        /\ maps'[m].plugin = IF maps[m].plugin = s THEN t ELSE maps[m].plugin
        /\ maps'[m].unchecked <=> (maps[m].plugin = s \/ maps[m].unchecked)
  <2> TAKE m \in DOMAIN maps
  <2>1. maps[m] \in Map
    BY <1>0, MapsRows
  <2>2. CASE maps[m].plugin = s
    BY <2>1, <2>2, <1>3, <1>4 DEF Map
  <2>3. CASE maps[m].plugin # s
    BY <2>1, <2>3, <1>3 DEF Map
  <2> QED
    BY <2>2, <2>3
<1>6. TypeOK'
  <2>1. maps' \in Seq(Map)
    BY <1>0, <1>3, <1>5, SameIds
  <2>2. \A m \in DOMAIN maps' : maps'[m].replaces < m
    BY <1>0, <1>3, <1>5 DEF TypeOK
  <2>3. IsTable(plugins', PluginIds, Plugin)
    BY <1>0, <1>1 DEF TypeOK, IsTable
  <2>4. IsTable(pluginAliases', Names, PluginIds)
    BY <1>0, <1>2, <1>4 DEF TypeOK, IsTable
  <2>5. UNCHANGED <<vendors, vendorAliases>>
    BY DEF MergePlugins
  <2> QED
    BY <1>0, <2>1, <2>2, <2>3, <2>4, <2>5 DEF TypeOK
<1>7. NamesApart'
  <2>1. \A p \in DOMAIN plugins' :
          /\ p \in DOMAIN plugins /\ p # s /\ plugins'[p].norm = plugins[p].norm
    BY <1>1
  <2>2. \A p \in DOMAIN plugins' : plugins'[p].norm \notin DOMAIN pluginAliases'
    BY <1>0, <1>2, <2>1 DEF NamesApart
  <2>3. \A n \in DOMAIN pluginAliases' : pluginAliases'[n] \in DOMAIN plugins'
    BY <1>0, <1>1, <1>2 DEF NamesApart
  <2>4. \A p, q \in DOMAIN plugins' : plugins'[p].norm = plugins'[q].norm => p = q
    BY <1>0, <2>1 DEF NamesApart
  <2> QED
    BY <2>2, <2>3, <2>4 DEF NamesApart
\* A name that led to the source leads to the target, the others stay.
<1>8. \A n \in Names : \A p \in PluginIds :
        Resolved(n) = {p} => Resolved(n)' = {IF p = s THEN t ELSE p}
  <2> TAKE n \in Names
  <2> TAKE p \in PluginIds
  <2> HAVE Resolved(n) = {p}
  <2>1. CASE n \in DOMAIN pluginAliases
    <3>1. n # plugins[s].norm /\ pluginAliases[n] = p
      BY <1>0, <2>1 DEF NamesApart, Resolved
    <3> QED
      BY <2>1, <3>1, <1>2 DEF Resolved
  <2>2. CASE n = plugins[s].norm
    <3>1. p = s
      BY <1>0, <2>2 DEF NamesApart, Resolved
    <3> QED
      BY <2>2, <3>1, <1>2 DEF Resolved
  <2>3. CASE n \notin DOMAIN pluginAliases /\ n # plugins[s].norm
    <3>1. /\ p \in DOMAIN plugins /\ p # s /\ plugins[p].norm = n
          /\ \A q \in DOMAIN plugins : plugins[q].norm = n => q = p
      BY <2>3 DEF Resolved
    <3>2. \A q : q \in DOMAIN plugins' /\ plugins'[q].norm = n <=> q = p
      BY <3>1, <1>1
    <3> QED
      BY <2>3, <3>1, <3>2, <1>2 DEF Resolved
  <2> QED
    BY <2>1, <2>2, <2>3
<1>9. UploadsLandTogether'
  <2> SUFFICES ASSUME NEW m \in DOMAIN maps
               PROVE  (Resolved(maps[m].under) = {maps[m].plugin})'
    BY <1>3 DEF UploadsLandTogether
  <2>1. PICK n \in Names : n = maps[m].under
    BY <1>0, MapsRows DEF Map
  <2>2. PICK p \in PluginIds : p = maps[m].plugin
    BY <1>0, MapsRows DEF Map
  <2>3. Resolved(n) = {p}
    BY <2>1, <2>2 DEF IInv, UploadsLandTogether
  <2>4. Resolved(n)' = {IF p = s THEN t ELSE p}
    BY <2>3, <1>8
  <2>5. maps'[m].under = n /\ maps'[m].plugin = IF p = s THEN t ELSE p
    BY <2>1, <2>2, <1>5
  <2> QED
    BY <2>4, <2>5 DEF Resolved
<1>10. DownIsNoted'
  BY <1>3, <1>5 DEF IInv, DownIsNoted
<1>11. TwinsAreRelisted'
  <2> SUFFICES ASSUME NEW m \in DOMAIN maps, NEW n \in DOMAIN maps, m # n,
                      maps'[m].published, maps'[n].published,
                      maps'[n].plugin = maps'[m].plugin,
                      maps'[m].content = maps'[n].content,
                      maps[m].plugin # s, maps[n].plugin # s
               PROVE  maps'[m].unchecked \/ maps'[n].unchecked
    BY <1>3, <1>5 DEF TwinsAreRelisted, Live
  <2>1. maps'[m] = maps[m] /\ maps'[n] = maps[n]
    BY <1>3
  <2> QED
    BY <2>1 DEF IInv, TwinsAreRelisted, Live
<1> QED
  BY <1>6, <1>7, <1>9, <1>10, <1>11 DEF IInv

LEMMA MergeVendorsIInv ==
  ASSUME IInv, NEW t \in DOMAIN vendors, NEW s \in DOMAIN vendors, t # s,
         MergeVendors(t, s)
  PROVE  IInv'
<1>0. TypeOK
  BY DEF IInv
<1>1. /\ DOMAIN plugins' = DOMAIN plugins
      /\ \A p \in DOMAIN plugins : plugins'[p].norm = plugins[p].norm
      /\ plugins' \in [DOMAIN plugins -> Plugin]
  BY <1>0 DEF MergeVendors, TypeOK, IsTable, Plugin
<1>2. UNCHANGED <<pluginAliases, maps>>
  BY DEF MergeVendors
<1>3. IsTable(vendors', VendorIds, VendorNames)
  BY <1>0 DEF MergeVendors, Without, TypeOK, IsTable
<1>4. IsTable(vendorAliases', VendorNames, VendorIds)
  BY <1>0 DEF MergeVendors, With, TypeOK, IsTable
<1>5. TypeOK'
  BY <1>0, <1>1, <1>2, <1>3, <1>4 DEF TypeOK, IsTable
<1>6. NamesApart'
  BY <1>1, <1>2 DEF IInv, NamesApart
<1>7. UploadsLandTogether'
  BY <1>1, <1>2 DEF IInv, UploadsLandTogether, Resolved
<1>8. DownIsNoted' /\ TwinsAreRelisted'
  BY <1>2 DEF IInv, DownIsNoted, TwinsAreRelisted, Live
<1> QED
  BY <1>5, <1>6, <1>7, <1>8 DEF IInv

-----------------------------------------------------------------------------
LEMMA InitIInv == Init => IInv
<1> SUFFICES ASSUME Init PROVE IInv
  OBVIOUS
<1>1. maps \in Seq(Map) /\ DOMAIN maps = {}
  BY DEF Init
<1>2. TypeOK
  BY <1>1 DEF Init, TypeOK, IsTable, Empty
<1> QED
  BY <1>1, <1>2 DEF Init, IInv, NamesApart, UploadsLandTogether, DownIsNoted,
                    TwinsAreRelisted, Empty

LEMMA NextIInv == IInv /\ [Next]_vars => IInv'
<1> SUFFICES ASSUME IInv, [Next]_vars PROVE IInv'
  OBVIOUS
<1>1. CASE UNCHANGED vars
  BY <1>1 DEF vars, IInv, TypeOK, NamesApart, UploadsLandTogether, Resolved,
              DownIsNoted, TwinsAreRelisted, Live, IsTable
<1> QED
  BY <1>1, UploadIInv, PageIInv, MergePluginsIInv, MergeVendorsIInv DEF Next

\* The tables keep their types.
THEOREM TypeCorrect == Spec => []TypeOK
<1>1. IInv => TypeOK
  BY DEF IInv
<1> QED
  BY <1>1, InitIInv, NextIInv, PTL DEF Spec

\* Whatever was merged, a map stands where the next upload of its name goes.
THEOREM NamesStayTogether == Spec => []UploadsLandTogether
<1>1. IInv => UploadsLandTogether
  BY DEF IInv
<1> QED
  BY <1>1, InitIInv, NextIInv, PTL DEF Spec

\* No upload brings a second published copy of a mapping.
THEOREM NoTwinByUpload == Spec => []TwinsAreRelisted
<1>1. IInv => TwinsAreRelisted
  BY DEF IInv
<1> QED
  BY <1>1, InitIInv, NextIInv, PTL DEF Spec

\* What is down comes back by a moderator alone.
THEOREM ModeratorDecides == Spec => []DownStaysDown
<1>1. IInv => DownStaysDown
  BY DEF IInv, DownIsNoted, DownStaysDown
<1> QED
  BY <1>1, InitIInv, NextIInv, PTL DEF Spec

\* Every step leaves the maps that are there what they are.
LEMMA NextSameMaps == IInv /\ [Next]_vars => [SameMaps]_vars
<1> SUFFICES ASSUME IInv, Next PROVE SameMaps
  OBVIOUS
<1>0. TypeOK
  BY DEF IInv
<1>1. ASSUME NEW a \in Accounts, NEW n \in Names, NEW v \in VendorNames \cup {NoVendor},
             NEW c \in Contents, Upload(a, n, v, c)
      PROVE  SameMaps
  <2>1. PICK r \in Nat, new \in Map :
          r < Len(maps) + 1 /\ new.replaces = r /\ maps' = Append(Retired(r), new)
    BY <1>0, <1>1, UploadParts
  <2>2. /\ DOMAIN maps' = DOMAIN maps \cup {Len(maps) + 1}
        /\ \A m \in DOMAIN maps : m # r => maps'[m] = maps[m]
        /\ r \in DOMAIN maps =>
             maps'[r] = [maps[r] EXCEPT !.published = FALSE, !.note = "replaced", !.down = TRUE]
    BY <1>0, <2>1, UploadRows
  <2>3. r \in DOMAIN maps =>
          /\ maps'[r].account = maps[r].account /\ maps'[r].content = maps[r].content
          /\ maps'[r].replaces = maps[r].replaces
    BY <1>0, <2>2, MapsRows DEF Map
  <2> QED
    BY <2>2, <2>3 DEF SameMaps
<1>2. ASSUME NEW m \in DOMAIN maps, Withdraw(m) \/ Republish(m) \/ Unpublish(m) \/ Publish(m)
      PROVE  SameMaps
  <2>1. maps[m] \in Map
    BY <1>0, MapsRows
  <2>2. PICK row : /\ maps' = [maps EXCEPT ![m] = row]
                   /\ row.account = maps[m].account /\ row.content = maps[m].content
                   /\ row.replaces = maps[m].replaces
    BY <1>2, <2>1 DEF Withdraw, Republish, Unpublish, Publish, Change, Map
  <2> QED
    BY <2>2 DEF SameMaps
<1>3. ASSUME NEW t \in DOMAIN plugins, NEW s \in DOMAIN plugins, MergePlugins(t, s)
      PROVE  SameMaps
  <2>1. \A m \in DOMAIN maps : maps[m] \in Map
    BY <1>0, MapsRows
  <2> QED
    BY <1>3, <2>1 DEF MergePlugins, MapsMoved, SameMaps, Map
<1>4. ASSUME NEW t \in DOMAIN vendors, NEW s \in DOMAIN vendors, MergeVendors(t, s)
      PROVE  SameMaps
  BY <1>4 DEF MergeVendors, SameMaps
<1> QED
  BY <1>1, <1>2, <1>3, <1>4 DEF Next

\* No request loses a map, though merging deletes the plug-in it was for.
THEOREM NoMapLost == Spec => IdsKeepResolving
  BY InitIInv, NextIInv, NextSameMaps, PTL DEF Spec, IdsKeepResolving

=============================================================================
