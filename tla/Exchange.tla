------------------------------ MODULE Exchange ------------------------------
(***************************************************************************)
(* The catalogue of the mapping exchange (server/src): plug-ins, vendors,   *)
(* their aliases, and the maps that accounts upload for the plug-ins.       *)
(*                                                                          *)
(* The server is one process over one database, and every handler works in  *)
(* one go, so a request is one step.  What is hard is the long sequences:   *)
(* names that were merged and come back in a later upload, maps that leave  *)
(* the index and return to it.  An upload that fails leaves nothing behind, *)
(* since it is one transaction.                                             *)
(***************************************************************************)
EXTENDS Sequences, Naturals

CONSTANTS
  Accounts,
  Names,        \* the match keys of plug-in names (normPlugin)
  VendorNames,  \* the match keys of vendor names (normVendor)
  Canonical,    \* canonicalVendor: a name to the one it is known to stand for
  NoVendor,     \* no vendor name, and vendor_id NULL
  PluginIds, VendorIds,
  Contents,     \* the fingerprints of mappings
  MaxMaps       \* bound: the uploads

ASSUME ExchangeAssumption ==
  /\ Canonical \in [VendorNames -> VendorNames]
  /\ NoVendor \notin VendorNames \cup VendorIds
  /\ MaxMaps \in Nat

VARIABLES
  plugins,      \* id -> norm, vendor_id
  pluginAliases,\* norm -> plugin_id
  vendors,      \* id -> norm
  vendorAliases,\* norm -> vendor_id
  maps          \* the table maps, by id; history: see Map

vars == <<plugins, pluginAliases, vendors, vendorAliases, maps>>

Plugin == [norm : Names, vendor : VendorIds \cup {NoVendor}]

\* unpublish_note.
Notes == {"none", "withdrawn", "moderated", "replaced"}

\* replaces_id is 0 for NULL.  History: the name it was uploaded under; whether
\* it came to be published in this plug-in past the check of an upload; whether
\* it was replaced or taken down by a moderator, who did not publish it since.
Map == [plugin : PluginIds, account : Accounts, replaces : Nat, content : Contents,
        published : BOOLEAN, note : Notes,
        under : Names, unchecked : BOOLEAN, down : BOOLEAN]

\* A table: rows by key, for some of the keys.
IsTable(table, Key, Row) ==
  /\ DOMAIN table \subseteq Key
  /\ table \in [DOMAIN table -> Row]

TypeOK ==
  /\ IsTable(plugins, PluginIds, Plugin)
  /\ IsTable(pluginAliases, Names, PluginIds)
  /\ IsTable(vendors, VendorIds, VendorNames)
  /\ IsTable(vendorAliases, VendorNames, VendorIds)
  /\ maps \in Seq(Map)
  /\ \A m \in DOMAIN maps : maps[m].replaces < m

Empty == [x \in {} |-> x]

Init ==
  /\ plugins = Empty /\ pluginAliases = Empty
  /\ vendors = Empty /\ vendorAliases = Empty
  /\ maps = <<>>

\* A table with another row, or with a row of that key replaced.
With(table, key, row) ==
  [k \in DOMAIN table \cup {key} |-> IF k = key THEN row ELSE table[k]]

Without(table, key) == [k \in DOMAIN table \ {key} |-> table[k]]

-----------------------------------------------------------------------------
(* Uploads.                                                                 *)

\* resolveVendor: an alias, a vendor of that name, or a new one.
VendorFor(name, id) ==
  \/ name = NoVendor /\ id = NoVendor /\ UNCHANGED vendors
  \/ name \in DOMAIN vendorAliases /\ id = vendorAliases[name] /\ UNCHANGED vendors
  \/ /\ name \in VendorNames \ DOMAIN vendorAliases
     /\ id \in DOMAIN vendors /\ vendors[id] = Canonical[name]
     /\ UNCHANGED vendors
  \/ /\ name \in VendorNames \ DOMAIN vendorAliases
     /\ \A v \in DOMAIN vendors : vendors[v] # Canonical[name]
     /\ id \in VendorIds \ DOMAIN vendors
     /\ vendors' = With(vendors, id, Canonical[name])

\* resolvePlugin; a vendor learned later is noted when there was none.
PluginFor(name, vendor, id) ==
  \/ name \in DOMAIN pluginAliases /\ id = pluginAliases[name] /\ UNCHANGED plugins
  \/ /\ name \notin DOMAIN pluginAliases
     /\ id \in DOMAIN plugins /\ plugins[id].norm = name
     /\ plugins' = IF plugins[id].vendor = NoVendor
                     THEN [plugins EXCEPT ![id].vendor = vendor] ELSE plugins
  \/ /\ name \notin DOMAIN pluginAliases
     /\ \A p \in DOMAIN plugins : plugins[p].norm # name
     /\ id \in PluginIds \ DOMAIN plugins
     /\ plugins' = With(plugins, id, [norm |-> name, vendor |-> vendor])

Live(m, plugin) == maps[m].published /\ maps[m].plugin = plugin

\* What an upload may replace: nothing, or an own map, picked by hand from all of
\* them or, with replace_mine, the newest one published for the plug-in.
Replaceable(account) == {0} \cup {m \in DOMAIN maps : maps[m].account = account}

\* Mutant: a replacement is exempt from the check altogether.
DuplicateUnlessReplacing(plugin, content, replaced) ==
  replaced = 0 /\ \E m \in DOMAIN maps : Live(m, plugin) /\ maps[m].content = content

\* An identical mapping of the same plug-in is published, and not replaced.
Duplicate(plugin, content, replaced) ==
  \E m \in DOMAIN maps : Live(m, plugin) /\ maps[m].content = content /\ m # replaced

\* The replaced map goes out of the index.
Retired(replaced) ==
  [m \in DOMAIN maps |->
     IF m = replaced
       THEN [maps[m] EXCEPT !.published = FALSE, !.note = "replaced", !.down = TRUE]
       ELSE maps[m]]

\* ingestMap.
Upload(account, name, vendorName, content) ==
  /\ Len(maps) < MaxMaps
  /\ \E vendor \in VendorIds \cup {NoVendor}, plugin \in PluginIds :
       /\ VendorFor(vendorName, vendor)
       /\ PluginFor(name, vendor, plugin)
       /\ \E replaced \in Replaceable(account) :
            /\ ~Duplicate(plugin, content, replaced)
            /\ maps' = Append(Retired(replaced),
                 [plugin |-> plugin, account |-> account, replaces |-> replaced,
                  content |-> content, published |-> TRUE, note |-> "none",
                  under |-> name, unchecked |-> FALSE, down |-> FALSE])
  /\ UNCHANGED <<pluginAliases, vendorAliases>>

-----------------------------------------------------------------------------
(* The author's page and the moderator's.                                   *)

Change(m, row) ==
  /\ maps' = [maps EXCEPT ![m] = row]
  /\ UNCHANGED <<plugins, pluginAliases, vendors, vendorAliases>>

\* Mutant: without "AND published = 1", over what a moderator noted.
WithdrawAlways(m) ==
  Change(m, [maps[m] EXCEPT !.published = FALSE, !.note = "withdrawn"])

Withdraw(m) ==
  /\ maps[m].published
  /\ Change(m, [maps[m] EXCEPT !.published = FALSE, !.note = "withdrawn"])

\* Only a withdrawal is undone, but a published map is published again.
Republish(m) ==
  /\ maps[m].note \in {"none", "withdrawn"}
  /\ Change(m, [maps[m] EXCEPT !.published = TRUE, !.note = "none",
                               !.unchecked = @ \/ ~maps[m].published])

Unpublish(m) ==
  /\ maps[m].published
  /\ Change(m, [maps[m] EXCEPT !.published = FALSE, !.note = "moderated", !.down = TRUE])

Publish(m) ==
  Change(m, [maps[m] EXCEPT !.published = TRUE, !.note = "none", !.down = FALSE,
                            !.unchecked = @ \/ ~maps[m].published])

-----------------------------------------------------------------------------
(* Merging, by a moderator.                                                 *)

\* Mutant: the maps are not moved, and go with the row of the source.
MapsMovedNot(target, source) == SelectSeq(maps, LAMBDA row : row.plugin # source)

MapsMoved(target, source) ==
  [m \in DOMAIN maps |->
     IF maps[m].plugin = source
       THEN [maps[m] EXCEPT !.plugin = target, !.unchecked = TRUE] ELSE maps[m]]

\* Mutant: the aliases of the source are not re-pointed, and go with its row.
AliasesMovedNot(target, source) ==
  With([n \in {k \in DOMAIN pluginAliases : pluginAliases[k] # source} |->
          pluginAliases[n]],
       plugins[source].norm, target)

\* The aliases of the source now point at the target, and so does its name.
AliasesMoved(target, source) ==
  With([n \in DOMAIN pluginAliases |->
          IF pluginAliases[n] = source THEN target ELSE pluginAliases[n]],
       plugins[source].norm, target)

\* mergePlugins; the target inherits a vendor that it lacked.
MergePlugins(target, source) ==
  /\ maps' = MapsMoved(target, source)
  /\ pluginAliases' = AliasesMoved(target, source)
  /\ plugins' =
       Without([plugins EXCEPT ![target].vendor =
                  IF @ = NoVendor THEN plugins[source].vendor ELSE @],
               source)
  /\ UNCHANGED <<vendors, vendorAliases>>

\* mergeVendors: the plug-ins of the source go to the target, its name becomes
\* an alias, and with its row go the aliases that still point at it.
MergeVendors(target, source) ==
  /\ plugins' = [p \in DOMAIN plugins |->
                   IF plugins[p].vendor = source
                     THEN [plugins[p] EXCEPT !.vendor = target] ELSE plugins[p]]
  /\ LET aliased == With(vendorAliases, vendors[source], target)
     IN vendorAliases' =
          [n \in {k \in DOMAIN aliased : aliased[k] # source} |-> aliased[n]]
  /\ vendors' = Without(vendors, source)
  /\ UNCHANGED <<pluginAliases, maps>>

-----------------------------------------------------------------------------
Next ==
  \/ \E a \in Accounts, n \in Names, v \in VendorNames \cup {NoVendor}, c \in Contents :
       Upload(a, n, v, c)
  \/ \E m \in DOMAIN maps : Withdraw(m) \/ Republish(m) \/ Unpublish(m) \/ Publish(m)
  \/ \E t, s \in DOMAIN plugins : t # s /\ MergePlugins(t, s)
  \/ \E t, s \in DOMAIN vendors : t # s /\ MergeVendors(t, s)

Spec == Init /\ [][Next]_vars

-----------------------------------------------------------------------------
(* Properties.                                                              *)

\* The plug-ins that an upload under this name would go to.
Resolved(name) ==
  IF name \in DOMAIN pluginAliases THEN {pluginAliases[name]}
  ELSE {p \in DOMAIN plugins : plugins[p].norm = name}

\* However plug-ins were merged since, a map stands in the one plug-in that the
\* next upload under its name goes to, so that maps of one plug-in can be
\* compared (merge.js: "instead of recreating the split").
UploadsLandTogether ==
  \A m \in DOMAIN maps : Resolved(maps[m].under) = {maps[m].plugin}

\* Two published maps of one plug-in hold the same mapping only if one of them
\* came back to the index, or into the plug-in by a merge: uploads never bring a
\* second copy (service.js, "Reject a duplicate").
TwinsAreRelisted ==
  \A m, n \in DOMAIN maps :
    /\ m # n
    /\ maps[m].published /\ Live(n, maps[m].plugin)
    /\ maps[m].content = maps[n].content
    => maps[m].unchecked \/ maps[n].unchecked

\* What a moderator took down, or a newer upload replaced, is not in the index
\* until a moderator publishes it: no sequence of withdrawals, uploads and
\* republications by the author undoes it (account.js, republish).
DownStaysDown == \A m \in DOMAIN maps : maps[m].down => ~maps[m].published

\* The rows of the maps that were there are still the same maps.
SameMaps ==
  \A m \in DOMAIN maps :
    /\ m \in DOMAIN maps'
    /\ maps'[m].account = maps[m].account /\ maps'[m].content = maps[m].content
    /\ maps'[m].replaces = maps[m].replaces

\* No map is ever lost, though merging deletes plug-ins, and with a plug-in
\* would go its maps: an id keeps naming the same mapping of the same author,
\* and what it replaced (admin.js, "NOTHING HERE DELETES").
IdsKeepResolving == [][SameMaps]_vars

\* A vendor name that once named a vendor, by itself or as an alias, names one for
\* ever: the alias that a merge leaves behind is there "so a later upload of the
\* source name resolves to the target" (merge.js).
VendorNameKnown(name) ==
  \/ name \in DOMAIN vendorAliases
  \/ \E v \in DOMAIN vendors : vendors[v] = Canonical[name]

VendorNamesKeepResolving ==
  [][\A name \in VendorNames : VendorNameKnown(name) => VendorNameKnown(name)']_vars

=============================================================================
