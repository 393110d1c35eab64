---------------------------- MODULE BundleTransfer ----------------------------
(***************************************************************************)
(* Dashboards, charts, datasets and databases that are exported from one   *)
(* installation as a bundle of files and imported into another, or into    *)
(* the same one later (superset/commands/export.py,                        *)
(* superset/commands/importers/v1, and the export and import commands of   *)
(* each kind).                                                             *)
(*                                                                         *)
(* Rows have an id of their installation and a uuid that travels.  A file  *)
(* names its parent by uuid; the layout and the metadata of a dashboard    *)
(* name charts by the ids of the installation that exported them, and the  *)
(* import translates these.                                                *)
(*                                                                         *)
(* An import is one transaction, rolled back when anything in it raises,   *)
(* and so an action, enabled when nothing raises.  Left out: passwords of  *)
(* databases, which the request must carry, the loading of examples, and of*)
(* a dashboard's metadata the native filters and chart_configuration: the  *)
(* charts that these name by id are not translated (update_id_refs in      *)
(* importers/v1/utils.py), and the import leaves them as they were.        *)
(***************************************************************************)
EXTENDS Integers, FiniteSets, FiniteSetsExt, TLC

CONSTANTS
  Sites,       \* installations
  FirstSites,  \* what the sites may store at first
  NoUuid,      \* the uuid in the layout of a chart that was gone when it was saved
  Nameless,      \* the name of a row without a unique one
  MaxSteps     \* bound on the number of steps

VARIABLES
  sites,   \* what each site stores: rows by id, links of dashboards to charts, the next id
  bundle,  \* the files exported last, and the kind that was asked for
  last,    \* history: the import that was the last step, if it was one
  steps    \* number of steps so far

transferVars == <<sites, bundle, last, steps>>

BundleKinds == {"Database", "Dataset", "Chart", "Dashboard"}
RowFields == {"kind", "uuid", "name", "title", "parent", "columns", "slots", "kept", "scoped"}

\* A uuid is generated once, for a row of one kind.
UuidsOf(kind) ==
  UNION {UNION {{first[s].rows[i].uuid :
                   i \in {j \in DOMAIN first[s].rows : first[s].rows[j].kind = kind}} :
                s \in Sites} : first \in FirstSites}

\* What the constraints of the database and its foreign keys say of a row: only charts,
\* which have no unique name, may have lost their parent.
SoundRow(rows, next, i) ==
  LET r == rows[i] IN
  /\ DOMAIN r = RowFields /\ r.kind \in BundleKinds /\ r.uuid \in UuidsOf(r.kind)
  /\ r.kind \in {"Database", "Dashboard"} => r.parent = 0
  /\ r.kind = "Dataset" =>
       r.parent \in DOMAIN rows /\ r.parent # 0 /\ rows[r.parent].kind = "Database"
  /\ r.kind = "Chart" =>
       /\ r.name = Nameless /\ r.parent \in 1..(next - 1)
       /\ r.parent \in DOMAIN rows => rows[r.parent].kind = "Dataset"
  /\ \A slot \in r.slots :
       DOMAIN slot = {"uuid", "id"} /\ slot.uuid \in UuidsOf("Chart") \cup {NoUuid}

\* Uuids are unique, and names where there are any among the rows of one parent.
SoundRows(rows, next) ==
  /\ next \in Nat \ {0} /\ DOMAIN rows \subseteq 1..(next - 1)
  /\ \A i \in DOMAIN rows : SoundRow(rows, next, i)
  /\ \A i, j \in DOMAIN rows :
       /\ rows[i].uuid = rows[j].uuid => i = j
       /\ /\ rows[i].kind = rows[j].kind /\ rows[i].parent = rows[j].parent
          /\ rows[i].name = rows[j].name /\ rows[i].name # Nameless
          => i = j

SoundSite(site) ==
  /\ DOMAIN site = {"rows", "links", "next"}
  /\ SoundRows(site.rows, site.next)
  /\ \A link \in site.links :
       /\ link = <<link[1], link[2]>> /\ {link[1], link[2]} \subseteq DOMAIN site.rows
       /\ site.rows[link[1]].kind = "Dashboard" /\ site.rows[link[2]].kind = "Chart"

ASSUME TransferAssumption ==
  /\ MaxSteps \in Nat
  /\ \A first \in FirstSites : DOMAIN first = Sites /\ \A s \in Sites : SoundSite(first[s])
  /\ \A k, l \in BundleKinds : k # l => UuidsOf(k) \cap UuidsOf(l) = {}
  /\ \A k \in BundleKinds : NoUuid \notin UuidsOf(k)

\* A row, or with the uuid of its parent a file.  A slot is a chart component of a
\* layout: the uuid and the id of its chart.  `kept` are the charts that the metadata
\* mentions as immune to refreshes, `scoped` those of the scopes and defaults of filters.
BundleRow(kind, uuid, name, title, parent) ==
  [kind |-> kind, uuid |-> uuid, name |-> name, title |-> title, parent |-> parent,
   columns |-> {}, slots |-> {}, kept |-> {}, scoped |-> {}]

Ids(s, kind) == {i \in DOMAIN sites[s].rows : sites[s].rows[i].kind = kind}
ChartsOf(s, d) == {c \in Ids(s, "Chart") : <<d, c>> \in sites[s].links}
Files(kind) == {f \in bundle.files : f.kind = kind}

-------------------------------------------------------------------------------
(* Export *)

\* The file of a row; the parent of a chart may have been deleted.
FileOf(s, i) ==
  LET rows == sites[s].rows
      r == rows[i]
  IN  [r EXCEPT !.parent = IF r.parent \in DOMAIN rows THEN rows[r.parent].uuid ELSE NoUuid]

ExportDatabases(s, chosen) == {FileOf(s, i) : i \in chosen}

\* A dataset brings its database along.
ExportDatasets(s, chosen) ==
  {FileOf(s, i) : i \in chosen}
    \cup ExportDatabases(s, {sites[s].rows[i].parent : i \in chosen})

\* A chart brings its dataset along, when it still exists.
ExportCharts(s, chosen) ==
  {FileOf(s, i) : i \in chosen}
    \cup ExportDatasets(s, {sites[s].rows[i].parent : i \in chosen} \cap Ids(s, "Dataset"))

\* find_chart_uuids
SlotUuids(layout) == {slot.uuid : slot \in layout}

\* Charts that are linked and not in the layout are appended to it.
append_charts(s, d) ==
  LET rows == sites[s].rows IN
  {[uuid |-> rows[c].uuid, id |-> c] :
     c \in {x \in ChartsOf(s, d) : rows[x].uuid \notin SlotUuids(rows[d].slots)}}

ExportDashboards(s, chosen) ==
  {[FileOf(s, d) EXCEPT !.slots = @ \cup append_charts(s, d)] : d \in chosen}
    \cup ExportCharts(s, UNION {ChartsOf(s, d) : d \in chosen})

\* A database brings all its datasets along.
DatasetsOf(s, chosen) == {t \in Ids(s, "Dataset") : sites[s].rows[t].parent \in chosen}

_export(s, kind, chosen) ==
  CASE kind = "Database" ->
         ExportDatabases(s, chosen) \cup ExportDatasets(s, DatasetsOf(s, chosen))
    [] kind = "Dataset" -> ExportDatasets(s, chosen)
    [] kind = "Chart" -> ExportCharts(s, chosen)
    [] kind = "Dashboard" -> ExportDashboards(s, chosen)

\* Dashboards are filed by title, and of two with the same only the first is kept.
Filed(s, kind, chosen) ==
  IF kind # "Dashboard" THEN {chosen}
  ELSE {kept \in SUBSET chosen :
          /\ \A d, e \in kept : sites[s].rows[d].title = sites[s].rows[e].title => d = e
          /\ \A d \in chosen : \E e \in kept : sites[s].rows[d].title = sites[s].rows[e].title}

\* The charts of a dashboard are exported even when its own file is not.
ExportCommand(s, kind, chosen) ==
  /\ steps < MaxSteps
  /\ chosen # {}
  /\ \E kept \in Filed(s, kind, chosen) :
       bundle' = [kind |-> kind,
                  files |-> {f \in _export(s, kind, chosen) :
                               \/ f.kind # "Dashboard"
                               \/ \E d \in kept : sites[s].rows[d].uuid = f.uuid}]
  /\ last' = [done |-> FALSE]
  /\ steps' = steps + 1
  /\ UNCHANGED sites

-------------------------------------------------------------------------------
(* Import *)

\* The files that an import starts from, and what these need.
DatasetsNeeded ==
  CASE bundle.kind \in {"Database", "Dataset"} -> Files("Dataset")
    [] bundle.kind = "Chart" -> {t \in Files("Dataset") :
                                   \E c \in Files("Chart") : c.parent = t.uuid}
    [] bundle.kind = "Dashboard" ->
         {t \in Files("Dataset") :
            \E c \in Files("Chart"), d \in Files("Dashboard") :
               c.uuid \in SlotUuids(d.slots) /\ c.parent = t.uuid}

DatabasesNeeded ==
  IF bundle.kind = "Database" THEN Files("Database")
  ELSE {b \in Files("Database") : \E t \in DatasetsNeeded : t.parent = b.uuid}

\* Only rows of the kind that was asked for are overwritten.
Overwrites(file, overwrite) == overwrite /\ file.kind = bundle.kind

WithUuid(rows, file) ==
  {i \in DOMAIN rows : rows[i].kind = file.kind /\ rows[i].uuid = file.uuid}

\* Mutant: the parent is not part of the filter.
Matches_of_any_parent(rows, file, parent) ==
  {i \in DOMAIN rows :
     /\ rows[i].kind = file.kind
     /\ \/ rows[i].uuid = file.uuid
        \/ file.name # Nameless /\ rows[i].name = file.name}

\* import_from_dict looks for a row of the same parent with the uuid or the name.
Matches(rows, file, parent) ==
  {i \in DOMAIN rows :
     /\ rows[i].kind = file.kind
     /\ rows[i].parent = parent
     /\ \/ rows[i].uuid = file.uuid
        \/ file.name # Nameless /\ rows[i].name = file.name}

\* The columns that the file does not have are deleted when the dataset is overwritten.
ColumnsAfter(rows, i, file, overwrite) ==
  IF i \in DOMAIN rows /\ ~Overwrites(file, overwrite)
  THEN file.columns \cup rows[i].columns ELSE file.columns

\* A function with the value y of x.
Assign(f, x, y) == [z \in DOMAIN f \cup {x} |-> IF z = x THEN y ELSE f[z]]

\* What the import of one file makes of `state`: the rows and the next id, the ids of
\* the uuids imported so far, and whether nothing was raised so far.
import_file(state, file, parent, overwrite) ==
  LET rows == state.rows
      existing == WithUuid(rows, file)
      found == Matches(rows, file, parent)
      target == IF found = {} THEN state.next ELSE CHOOSE i \in found : TRUE
      stored == [file EXCEPT !.parent = parent,
                             !.columns = ColumnsAfter(rows, target, file, overwrite)]
  IN  IF existing # {} /\ ~Overwrites(file, overwrite)
      THEN [state EXCEPT !.ids = Assign(@, file.uuid, CHOOSE i \in existing : TRUE)]
      ELSE IF Cardinality(found) <= 1 /\ existing \subseteq found
           THEN [state EXCEPT !.rows = Assign(@, target, stored),
                              !.next = IF found = {} THEN @ + 1 ELSE @,
                              !.ids = Assign(@, file.uuid, target)]
           ELSE [state EXCEPT !.ok = FALSE]

import_databases(state, files, overwrite) ==
  FoldSet(LAMBDA file, now : import_file(now, file, 0, overwrite), state, files)

\* Only files whose parent was imported are.
import_children(state, files, overwrite) ==
  FoldSet(LAMBDA file, now :
            IF file.parent \in DOMAIN state.ids
            THEN import_file(now, file, state.ids[file.parent], overwrite) ELSE now,
          state, files)

\* The rows after databases, datasets and charts.  A bundle of databases or datasets
\* has no charts.
import_supplies(s, overwrite) ==
  LET start == [rows |-> sites[s].rows, next |-> sites[s].next,
                ids |-> [u \in {} |-> 0], ok |-> TRUE]
      databases == import_databases(start, DatabasesNeeded, overwrite)
  IN  import_children(import_children(databases, Files("Dataset"), overwrite),
                      Files("Chart"), overwrite)

\* The new id of an old one: of a chart in the layout that was imported.
id_map(file, ids) ==
  [old \in {slot.id : slot \in {x \in file.slots : x.uuid \in DOMAIN ids}} |->
     ids[(CHOOSE slot \in file.slots : slot.id = old /\ slot.uuid \in DOMAIN ids).uuid]]

\* Mutant: the components keep the ids of the site that exported them.
fixed_slot_unfixed(slot, ids) == slot

fixed_slot(slot, ids) ==
  [slot EXCEPT !.id = IF slot.uuid \in DOMAIN ids THEN ids[slot.uuid] ELSE @]

update_id_refs(file, ids) ==
  LET new == id_map(file, ids) IN
  [file EXCEPT !.slots = {fixed_slot(slot, ids) : slot \in @},
               !.kept = {new[old] : old \in @},
               !.scoped = {new[old] : old \in @}]

\* A mention of any other chart is a KeyError.
RefersToImported(file, ids) == (file.kept \cup file.scoped) \subseteq DOMAIN id_map(file, ids)

import_dashboards(state, overwrite) ==
  FoldSet(LAMBDA file, now :
            IF RefersToImported(file, state.ids)
            THEN import_file(now, update_id_refs(file, state.ids), 0, overwrite)
            ELSE [now EXCEPT !.ok = FALSE],
          state, Files("Dashboard"))

\* The charts that are linked: the loop over the uuids of the layout, a set, breaks
\* at the first that was not imported.
Linked(file, ids) ==
  LET present == SlotUuids(file.slots) \cap DOMAIN ids
  IN  IF SlotUuids(file.slots) \subseteq DOMAIN ids THEN {present} ELSE SUBSET present

\* ImportModelsCommand.validate: a chart needs a dataset, and what exists is
\* overwritten only when that was asked for.
Valid(s, overwrite) ==
  /\ \A c \in Files("Chart") : c.parent # NoUuid
  /\ overwrite \/ \A f \in Files(bundle.kind) : WithUuid(sites[s].rows, f) = {}

ImportCommand(s, overwrite) ==
  LET supplies == import_supplies(s, overwrite)
      result == import_dashboards(supplies, overwrite)
  IN
  /\ steps < MaxSteps
  /\ bundle.files # {}
  /\ Valid(s, overwrite)
  /\ result.ok
  /\ \E linked \in [Files("Dashboard") -> SUBSET DOMAIN supplies.ids] :
       /\ \A d \in Files("Dashboard") : linked[d] \in Linked(d, supplies.ids)
       /\ sites' = [sites EXCEPT ![s] =
            [rows |-> result.rows, next |-> result.next,
             links |-> @.links \cup UNION {{<<result.ids[d.uuid], supplies.ids[u]>> :
                                             u \in linked[d]} : d \in Files("Dashboard")}]]
  /\ last' = [done |-> TRUE, site |-> s, overwrite |-> overwrite, before |-> sites[s]]
  /\ steps' = steps + 1
  /\ UNCHANGED bundle

-------------------------------------------------------------------------------
(* What else changes the rows between an export and an import *)

Changed(s, site) ==
  /\ steps < MaxSteps
  /\ sites' = [sites EXCEPT ![s] = site]
  /\ last' = [done |-> FALSE]
  /\ steps' = steps + 1
  /\ UNCHANGED bundle

RowsWithout(rows, i) == [j \in DOMAIN rows \ {i} |-> rows[j]]

\* Mutant: the rows of the association table are forgotten.
DeleteChart_keeps_links(s, c) == Changed(s, [sites[s] EXCEPT !.rows = RowsWithout(@, c)])

\* The layout and the metadata of a dashboard go on naming a deleted chart.
DeleteChart(s, c) ==
  Changed(s, [sites[s] EXCEPT !.rows = RowsWithout(@, c), !.links = {l \in @ : l[2] # c}])

\* The charts of a deleted dataset keep its id.
DeleteDataset(s, t) == Changed(s, [sites[s] EXCEPT !.rows = RowsWithout(@, t)])

\* set_dash_metadata: a dashboard is saved with components for the charts `shown`.
SaveDashboard(s, d, shown) ==
  LET rows == sites[s].rows
      charts == shown \cap Ids(s, "Chart")
  IN  Changed(s, [sites[s] EXCEPT
        !.links = {l \in @ : l[1] # d} \cup ({d} \X charts),
        !.rows[d].slots = {[uuid |-> IF c \in charts THEN rows[c].uuid ELSE NoUuid,
                            id |-> c] : c \in shown},
        !.rows[d].scoped = @ \cap shown])

-------------------------------------------------------------------------------
TransferInit ==
  /\ sites \in FirstSites
  /\ bundle = [kind |-> "Dashboard", files |-> {}]
  /\ last = [done |-> FALSE]
  /\ steps = 0

TransferNext ==
  \E s \in Sites :
    \/ \E kind \in BundleKinds, n \in {1, 2} :
         \E chosen \in kSubset(n, Ids(s, kind)) : ExportCommand(s, kind, chosen)
    \/ \E overwrite \in BOOLEAN : ImportCommand(s, overwrite)
    \/ \E c \in Ids(s, "Chart") : DeleteChart(s, c)
    \/ \E t \in Ids(s, "Dataset") : DeleteDataset(s, t)
    \/ \E d \in Ids(s, "Dashboard") :
         \E shown \in SUBSET {slot.id : slot \in sites[s].rows[d].slots} :
            SaveDashboard(s, d, shown)

TransferSpec == TransferInit /\ [][TransferNext]_transferVars

-------------------------------------------------------------------------------
(* Properties *)

\* What every site stores is as its database's constraints have it.
TransferTypeOK == DOMAIN sites = Sites /\ \A s \in Sites : SoundSite(sites[s])

UuidsIn(layout, ids) == {slot.uuid : slot \in {x \in layout : x.id \in ids}}

\* In a layout that was imported without some of its charts an id may be that of two.
IdsAreClear(layout) == \A x, y \in layout : x.id = y.id => x.uuid = y.uuid

\* After the import of a dashboard whose charts all came along, the dashboard shows
\* the charts of its file, whatever ids they have at this site: each component has
\* the id of the chart with its uuid, that chart is linked to the dashboard, and the
\* metadata mentions the charts that it mentioned before, if their ids were clear.
ImportRestores ==
  last.done =>
    LET rows == sites[last.site].rows IN
    \A f \in Files("Dashboard") :
       SlotUuids(f.slots) \subseteq {c.uuid : c \in Files("Chart")} =>
         \E d \in WithUuid(rows, f) :
            /\ SlotUuids(rows[d].slots) = SlotUuids(f.slots)
            /\ \A slot \in rows[d].slots :
                 /\ slot.id \in ChartsOf(last.site, d)
                 /\ rows[slot.id].uuid = slot.uuid
            /\ IdsAreClear(f.slots) =>
                 /\ UuidsIn(rows[d].slots, rows[d].kept) = UuidsIn(f.slots, f.kept)
                 /\ UuidsIn(rows[d].slots, rows[d].scoped) = UuidsIn(f.slots, f.scoped)

\* A file speaks for a row that has its uuid, or its unique name below a parent that
\* the file of its own parent speaks for.
SharesKey(file, r) ==
  /\ file.kind = r.kind
  /\ file.uuid = r.uuid \/ (file.name = r.name /\ file.name # Nameless)

SpeaksFor(file, r, rows) ==
  /\ SharesKey(file, r)
  /\ \/ file.uuid = r.uuid \/ r.parent = 0
     \/ \E above \in bundle.files : above.uuid = file.parent /\ SharesKey(above, rows[r.parent])

\* An import removes no row and no link, and changes only rows that the bundle speaks
\* for: of those with a uuid of the bundle only the kind that was asked for.
ImportKeepsTheRest ==
  last.done =>
    LET before == last.before
        after == sites[last.site]
    IN  /\ before.links \subseteq after.links
        /\ \A i \in DOMAIN before.rows :
             /\ i \in DOMAIN after.rows
             /\ \/ after.rows[i] = before.rows[i]
                \/ \E f \in bundle.files :
                     /\ SpeaksFor(f, before.rows[i], before.rows)
                     /\ f.uuid = before.rows[i].uuid => Overwrites(f, last.overwrite)

\* An import does what its bundle says, and nothing besides.
ImportFollowsBundle == ImportRestores /\ ImportKeepsTheRest
===============================================================================
