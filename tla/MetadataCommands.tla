--------------------------- MODULE MetadataCommands ---------------------------
(***************************************************************************)
(* The commands behind the REST API that create, update, delete and bulk   *)
(* delete the rows of the metadata database: databases, datasets, charts,  *)
(* dashboards, and alerts and reports.  Every command has two halves: it   *)
(* validates against what the database holds, and then writes and commits; *)
(* nothing locks the rows in between, so the commits of other requests     *)
(* come between the halves.                                                *)
(*                                                                         *)
(* A row is what the halves depend on: its owners and creator, the rows it *)
(* refers to (a chart its dataset and dashboards, a dataset its database,  *)
(* a report its chart, dashboard and database) and, for a database, its    *)
(* name, for a dataset and a chart, the database name in its `perm`.       *)
(* Columns and metrics, names of the other rows and their uniqueness       *)
(* checks, schemas and roles are left out.                                 *)
(***************************************************************************)
EXTENDS Naturals, FiniteSets

CONSTANTS Users,
          Admins,        \* the users that pass every ownership check
          Databases, Datasets, Charts, Dashboards, Reports,
          DbNames,       \* names a database may have
          Free, Gone,    \* an id not used yet, the id of a deleted row
          Handlers,      \* web workers: the requests in progress at a time
          MaxRequests,   \* bound: requests in all
          FirstRows,     \* the states of the tables to start from, [Objects -> row]
          OwnerLists     \* the lists of owners a request may name

Kinds == {Databases, Datasets, Charts, Dashboards, Reports}
Objects == UNION Kinds
KindOf(o) == CHOOSE K \in Kinds : o \in K

NoName == "-"
Unnamed == {"not in the body of the request"}

VARIABLES rows,      \* row, Free or Gone of every id
          perms,     \* datasource_access permissions: <<database name, dataset>>
          enforced,  \* the database enforces foreign keys (SQLite does not)
          pending,   \* what the request of each handler validated and has yet to commit
          served,    \* requests so far
          excuses    \* history: which of Excuses has happened

metaVars == <<rows, perms, enforced, pending, served, excuses>>

Row(owners, creator, refs, label) ==
  [owners |-> owners, creator |-> creator, refs |-> refs, label |-> label]
Found(o) == rows[o] \notin {Free, Gone}


Idle == [op |-> "idle", user |-> NoName, ids |-> {}, kind |-> {}, kinds |-> {},
         refs |-> {}, owners |-> {}, seen |-> {}, name |-> NoName, bases |-> {}, stale |-> FALSE]

Excuses == {"race", "rename", "failure", "cascade"}
Ops == {"create", "update", "delete", "bulk_delete", "remove_permissions"}

MetaTypeOK ==
  /\ \A o \in Objects : Found(o) =>
       /\ rows[o].owners \subseteq Users /\ rows[o].creator \in Users
       /\ rows[o].refs \subseteq Objects /\ rows[o].label \in DbNames \cup {NoName}
  /\ perms \subseteq DbNames \X Datasets /\ enforced \in BOOLEAN
  /\ \A r \in Handlers : pending[r] = Idle \/ pending[r].op \in Ops
  /\ served \in 0..MaxRequests
  /\ excuses \subseteq Excuses

(***************************************************************************)
(* What the halves read                                                    *)
(***************************************************************************)
Referrers(o, K) == {p \in K : Found(p) /\ o \in rows[p].refs}

\* Mutant of ReportsOn: the reports are looked up under another column.
no_reports(o) == {}

ReportsOn(o) == Referrers(o, Reports)
DatasetsIn(o) == Referrers(o, Datasets)

\* check_ownership
MayAlter(u, o) == u \in Admins \cup rows[o].owners \cup {rows[o].creator}

\* What validate() of the delete commands asks, by kind.
DeletesDatabase(o) == o \in Databases /\ ReportsOn(o) = {} /\ DatasetsIn(o) = {}
DeletesDataset(u, o) == o \in Datasets /\ MayAlter(u, o)
DeletesChart(u, o) == o \in Charts /\ ReportsOn(o) = {} /\ MayAlter(u, o)
DeletesDashboard(u, o) == o \in Dashboards /\ ReportsOn(o) = {} /\ MayAlter(u, o)
DeletesReport(u, o) == o \in Reports /\ MayAlter(u, o)
MayDelete(u, o) ==
  /\ Found(o)
  /\ \/ DeletesDatabase(o) \/ DeletesDataset(u, o) \/ DeletesChart(u, o)
     \/ DeletesDashboard(u, o) \/ DeletesReport(u, o)

ReportTargets == Charts \cup Dashboards

\* populate_owners: whoever asks becomes an owner, alone when none are named.
Populated(u, named) == {u} \cup named

\* Mutant of OwnersAfter: no owners named is no owners but the caller.
drops_owners(q, o) == Populated(q.user, IF q.owners = Unnamed THEN {} ELSE q.owners)

\* Dashboards and reports keep their owners when the body names none, charts
\* and datasets do not.  The list is set on the loaded row, so that only its
\* difference to what was loaded is written.
OwnersAfter(q, o) ==
  IF q.owners # Unnamed THEN Populated(q.user, q.owners)
  ELSE IF KindOf(o) \in {Dashboards, Reports} THEN rows[o].owners \cup (Populated(q.user, q.seen) \ q.seen)
  ELSE Populated(q.user, {})
--------------------------------------------------------------------------------
(***************************************************************************)
(* First half: run() calls validate()                                      *)
(***************************************************************************)
Begin(r, q) ==
  /\ served < MaxRequests
  /\ pending[r] = Idle /\ r = CHOOSE p \in Handlers : pending[p] = Idle
  /\ pending' = [pending EXCEPT ![r] = q]
  /\ served' = served + 1
  /\ UNCHANGED <<rows, perms, enforced, excuses>>

\* The loaded Database keeps its name for as long as the request runs.
NameSeen(refs) ==
  LET D == {d \in refs \cap Databases : Found(d)}
  IN  IF D = {} THEN NoName ELSE rows[CHOOSE d \in D : TRUE].label

NameTaken(n) == \E b \in Databases : Found(b) /\ rows[b].label = n

BeginCreate(r, K, refs) ==
  \E u \in Users, owners \in {Unnamed} \cup OwnerLists :
    /\ \A o \in refs : Found(o)
    /\ Begin(r, [Idle EXCEPT !.op = "create", !.user = u, !.kind = K, !.refs = refs,
                             !.owners = owners, !.name = NameSeen(refs)])

ValidateCreateDataset(r) == \E b \in Databases : BeginCreate(r, Datasets, {b})
ValidateCreateChart(r) ==
  \E t \in Datasets, D \in SUBSET Dashboards : BeginCreate(r, Charts, {t} \cup D)
ValidateCreateDashboard(r) == BeginCreate(r, Dashboards, {})
\* A report, and an alert, which needs a database.
ValidateCreateReport(r) ==
  \E t \in ReportTargets, D \in {{}} \cup {{b} : b \in Databases} :
    BeginCreate(r, Reports, {t} \cup D)

ValidateCreateDatabase(r) ==
  \E u \in Users, n \in DbNames :
    /\ ~NameTaken(n)
    /\ Begin(r, [Idle EXCEPT !.op = "create", !.user = u, !.kind = Databases, !.name = n])

\* The new references are refs, in place of those to rows of the given kinds.
BeginUpdate(r, o, kinds, refs) ==
  \E u \in Users, owners \in {Unnamed} \cup OwnerLists :
    /\ Found(o) /\ MayAlter(u, o) /\ \A p \in refs : Found(p)
    /\ Begin(r, [Idle EXCEPT !.op = "update", !.user = u, !.ids = {o}, !.kind = KindOf(o),
                             !.kinds = kinds, !.refs = refs, !.owners = owners,
                             !.seen = rows[o].owners])

ValidateUpdateDataset(r) == \E o \in Datasets : BeginUpdate(r, o, {}, {})
ValidateUpdateChart(r) == \E o \in Charts :
  \/ BeginUpdate(r, o, {}, {})
  \/ \E D \in SUBSET Dashboards : BeginUpdate(r, o, {Dashboards}, D)
  \/ \E t \in Datasets : BeginUpdate(r, o, {Datasets}, {t})
ValidateUpdateDashboard(r) == \E o \in Dashboards : BeginUpdate(r, o, {}, {})
ValidateUpdateReport(r) == \E o \in Reports :
  \/ BeginUpdate(r, o, {}, {})
  \/ \E p \in ReportTargets \cup Databases : BeginUpdate(r, o, {KindOf(p)}, {p})

ValidateRename(r) ==
  \E u \in Users, o \in Databases, n \in DbNames :
    /\ Found(o) /\ ~NameTaken(n)
    /\ Begin(r, [Idle EXCEPT !.op = "update", !.user = u, !.ids = {o}, !.kind = Databases,
                             !.name = n, !.seen = {}])

ValidateDelete(r) ==
  \E u \in Users, o \in Objects :
    /\ MayDelete(u, o)
    /\ Begin(r, [Idle EXCEPT !.op = "delete", !.user = u, !.ids = {o}, !.kind = KindOf(o)])

BeginBulkDelete(r, K) ==
  \E u \in Users, S \in (SUBSET K) \ {{}} :
    /\ \A o \in S : MayDelete(u, o)
    /\ Begin(r, [Idle EXCEPT !.op = "bulk_delete", !.user = u, !.ids = S, !.kind = K])

ValidateBulkDeleteDatasets(r) == BeginBulkDelete(r, Datasets)
ValidateBulkDeleteCharts(r) == BeginBulkDelete(r, Charts)
ValidateBulkDeleteDashboards(r) == BeginBulkDelete(r, Dashboards)
ValidateBulkDeleteReports(r) == BeginBulkDelete(r, Reports)
--------------------------------------------------------------------------------
(***************************************************************************)
(* Second half: the DAO writes and commits                                 *)
(***************************************************************************)
\* The references that are foreign keys: a chart's dataset is a bare number.
KeysIn(R) == [o \in Objects |-> IF R[o] \in {Free, Gone} THEN {} ELSE R[o].refs \ Datasets]
Resolves(R) == \A o \in Objects : \A p \in KeysIn(R)[o] : R[p] \notin {Free, Gone}

\* One transaction: rows and permissions become R and P, unless `possible` is
\* FALSE or a foreign key refuses it, when all of it is rolled back.  Handlers
\* that have validated go on with what they saw.
Commit(r, possible, R, P, next, more) ==
  /\ UNCHANGED <<enforced, served>>
  /\ IF possible /\ (enforced => Resolves(R))
     THEN /\ rows' = R /\ perms' = P
          /\ excuses' = excuses \cup more \cup (IF pending[r].stale /\ R # rows THEN {"race"} ELSE {})
          /\ pending' = [q \in Handlers |->
                           IF q = r THEN next
                           ELSE IF pending[q] = Idle \/ R = rows THEN pending[q]
                           ELSE [pending[q] EXCEPT !.stale = TRUE]]
     ELSE /\ pending' = [pending EXCEPT ![r] = Idle]
          /\ UNCHANGED <<rows, perms, excuses>>

\* set_perm on a dataset and set_related_perm on a chart, at every flush.
DatasetLabel(R, o) == LET b == CHOOSE d \in Databases : d \in R[o].refs
                      IN  IF R[b] \in {Free, Gone} THEN R[o].label ELSE R[b].label
ChartLabel(R, o) ==
  LET T == {t \in R[o].refs \cap Datasets : R[t] \notin {Free, Gone}}
  IN  IF T = {} THEN R[o].label ELSE R[CHOOSE t \in T : TRUE].label
Flushed(R, S) ==
  [o \in Objects |-> IF o \notin S THEN R[o]
                     ELSE IF o \in Datasets THEN [R[o] EXCEPT !.label = DatasetLabel(R, o)]
                     ELSE IF o \in Charts THEN [R[o] EXCEPT !.label = ChartLabel(R, o)]
                     ELSE R[o]]

PermsOf(R, S) == {<<R[o].label, o>> : o \in S \cap Datasets}

CommitCreate(r) ==
  LET q == pending[r] IN
  /\ q.op = "create"
  /\ \E o \in q.kind :
       LET made == [rows EXCEPT ![o] = Row(IF q.kind = Databases THEN {}
                                           ELSE Populated(q.user, q.owners \ Unnamed),
                                           q.user, q.refs, q.name)]
           R == IF q.kind = Charts THEN Flushed(made, {o}) ELSE made IN
       /\ rows[o] = Free
       /\ Commit(r, ~(q.kind = Databases /\ NameTaken(q.name)), R,
                 perms \cup PermsOf(R, {o}), Idle, {})

\* DashboardDAO.update_charts_owners
WithChartOwners(R, d) ==
  [o \in Objects |-> IF o \in Charts /\ Found(o) /\ d \in rows[o].refs
                     THEN [R[o] EXCEPT !.owners = @ \cup R[d].owners] ELSE R[o]]

\* No row matches an UPDATE of a deleted row: StaleDataError.
CommitUpdate(r) ==
  LET q == pending[r] IN
  /\ q.op = "update" /\ q.kind # Databases
  /\ \E o \in q.ids : IF ~Found(o) THEN Commit(r, FALSE, rows, perms, Idle, {}) ELSE
       LET kept == {p \in rows[o].refs : KindOf(p) \notin q.kinds}
           set == [rows EXCEPT ![o].owners = OwnersAfter(q, o), ![o].refs = kept \cup q.refs]
           R == IF o \in Dashboards
                THEN Flushed(WithChartOwners(set, o), Referrers(o, Charts))
                ELSE Flushed(set, {o})
       IN  Commit(r, TRUE, R, perms \cup PermsOf(R, {o}), Idle, {})

CommitRename(r) ==
  LET q == pending[r] IN
  /\ q.op = "update" /\ q.kind = Databases
  /\ \E o \in q.ids :
       IF ~Found(o) THEN Commit(r, FALSE, rows, perms, Idle, {})
       ELSE Commit(r, ~NameTaken(q.name), [rows EXCEPT ![o].label = q.name], perms,
                   Idle, {"rename"})

\* Mutant of Unlinked: the links stay.
keeps_links(R, S) == R

\* The links between charts and dashboards go with either end.
Unlinked(R, S) ==
  [o \in Objects |->
     IF R[o] \in {Free, Gone} \/ o \notin Charts THEN R[o]
     ELSE [R[o] EXCEPT !.refs = @ \ (S \cap Dashboards)]]

\* The ORM clears the references of the reports to a deleted chart or
\* dashboard (backref report_schedules): those of the moment of the flush.
Nullified(R, S) ==
  [o \in Objects |->
     IF R[o] \in {Free, Gone} \/ o \notin Reports THEN R[o]
     ELSE [R[o] EXCEPT !.refs = @ \ (S \cap ReportTargets)]]

WithoutRows(S) == [o \in Objects |-> IF o \in S THEN Gone ELSE rows[o]]

\* Mutant of PermissionsNamed: the permission is not found.
finds_none(S) == {}

\* The permission is looked up under the name that the dataset has now.
PermissionsNamed(S) ==
  {<<DatasetLabel(rows, o), o>> : o \in {t \in S \cap Datasets : Found(t)}}

\* With a database the ORM deletes its datasets (backref tables), but not their
\* permissions: those of the moment of the flush.
Cascaded(S) == {t \in Datasets : Found(t) /\ rows[t].refs \cap S # {}}

CommitDelete(r) ==
  LET q == pending[r]
      S == q.ids \cup Cascaded(q.ids) IN
  /\ q.op = "delete"
  /\ Commit(r, TRUE, Nullified(Unlinked(WithoutRows(S), S), S),
            perms \ PermissionsNamed(q.ids), Idle,
            IF Cascaded(q.ids) = {} THEN {} ELSE {"cascade"})

\* Each dataset of S with its database.
BasesOf(S) == {x \in S \X Databases : x[2] \in rows[x[1]].refs}

\* The datasets are gone with the first commit, their permissions with the
\* second.  Emptying `owners` marks a dataset dirty, so that set_perm runs.
CommitBulkDelete(r) ==
  LET q == pending[r]
      S == {o \in q.ids : Found(o)}
      R == Unlinked(WithoutRows(q.ids), q.ids)
      then == IF S \cap Datasets = {} THEN Idle
              ELSE [q EXCEPT !.op = "remove_permissions", !.ids = S, !.stale = FALSE,
                             !.bases = BasesOf(S)] IN
  /\ q.op = "bulk_delete"
  /\ Commit(r, TRUE, R, perms \cup PermissionsNamed(S), then, {})

\* get_perm of each: the commit has expired the databases, which are read again.
RemovePermissions(r) ==
  LET q == pending[r] IN
  /\ q.op = "remove_permissions" /\ \A x \in q.bases : Found(x[2])
  /\ perms' = perms \ {<<rows[x[2]].label, x[1]>> : x \in q.bases}
  /\ pending' = [pending EXCEPT ![r] = Idle]
  /\ UNCHANGED <<rows, enforced, served, excuses>>

\* The process dies, the metadata database fails, or a database of the datasets is
\* deleted, between the two commits.
PermissionsRemain(r) ==
  /\ pending[r].op = "remove_permissions"
  /\ pending' = [pending EXCEPT ![r] = Idle]
  /\ excuses' = excuses \cup {"failure"}
  /\ UNCHANGED <<rows, perms, enforced, served>>

\* What the tables hold to start from: rows whose references are of their kinds and
\* resolve, reports that have a target, and datasets under the name of their database.  There
\* are ids of every kind, and they are of no other.
RowsIn(R) == {o \in Objects : R[o] \notin {Free, Gone}}
RowTypes == [owners : SUBSET Users, creator : Users, refs : SUBSET Objects,
             label : DbNames \cup {NoName}]
RefsFit(K, refs) ==
  /\ K \in {Databases, Dashboards} => refs = {}
  /\ K = Datasets => \E b \in Databases : refs = {b}
  /\ K = Charts => refs \subseteq Datasets \cup Dashboards
  /\ K = Reports => refs \subseteq ReportTargets \cup Databases
Consistent(R) ==
  /\ R \in [Objects -> {Free, Gone} \cup RowTypes]
  /\ \A o \in RowsIn(R) :
       /\ RefsFit(KindOf(o), R[o].refs) /\ R[o].refs \subseteq RowsIn(R)
       /\ o \in Databases \cup Datasets => R[o].label \in DbNames
       /\ o \in Datasets => R[o].label = DatasetLabel(R, o)
       /\ o \in Reports => R[o].refs \cap ReportTargets # {}

ASSUME MetaAssumption ==
  /\ MaxRequests \in Nat /\ OwnerLists \subseteq SUBSET Users
  /\ Free # Gone /\ {Free, Gone} \cap RowTypes = {}
  /\ {} \notin Kinds
  /\ Databases \cap (Datasets \cup Charts \cup Dashboards \cup Reports) = {}
  /\ Datasets \cap (Charts \cup Dashboards \cup Reports) = {}
  /\ Charts \cap (Dashboards \cup Reports) = {} /\ Dashboards \cap Reports = {}
  /\ \A R \in FirstRows : Consistent(R)

MetaInit ==
  /\ rows \in FirstRows
  /\ perms = {<<rows[o].label, o>> : o \in {t \in Datasets : Found(t)}}
  /\ enforced \in BOOLEAN
  /\ pending = [r \in Handlers |-> Idle]
  /\ served = 0 /\ excuses = {}

Validate(r) ==
  \/ ValidateCreateDatabase(r) \/ ValidateCreateDataset(r) \/ ValidateCreateChart(r)
  \/ ValidateCreateDashboard(r) \/ ValidateCreateReport(r)
  \/ ValidateRename(r) \/ ValidateUpdateDataset(r) \/ ValidateUpdateChart(r)
  \/ ValidateUpdateDashboard(r) \/ ValidateUpdateReport(r) \/ ValidateDelete(r)
  \/ ValidateBulkDeleteDatasets(r) \/ ValidateBulkDeleteCharts(r)
  \/ ValidateBulkDeleteDashboards(r) \/ ValidateBulkDeleteReports(r)

MetaNext == \E r \in Handlers :
  \/ Validate(r)
  \/ CommitCreate(r) \/ CommitUpdate(r) \/ CommitRename(r)
  \/ CommitDelete(r) \/ CommitBulkDelete(r)
  \/ RemovePermissions(r) \/ PermissionsRemain(r)

MetaSpec == MetaInit /\ [][MetaNext]_metaVars
--------------------------------------------------------------------------------
(***************************************************************************)
(* Properties                                                              *)
(***************************************************************************)
\* The checks of one request at a time keep every reference of a report, a
\* dataset or a dashboard's chart to a row that exists; when a commit comes
\* between another's check and its commit, only the foreign keys of the
\* database do, and SQLite's are off.
ReferencesResolve == enforced \/ "race" \notin excuses => Resolves(rows)

\* Without such a race no alert or report loses the chart or dashboard it is
\* about.  With one it does even where foreign keys are enforced: the ORM sets
\* the reference of a report saved after the check to NULL.
ReportsHaveTarget ==
  "race" \notin excuses =>
    \A o \in Reports : Found(o) => rows[o].refs \cap ReportTargets # {}

\* The permission of a deleted dataset goes with it, unless its database was
\* renamed meanwhile, the second commit of a bulk delete failed, or the dataset went
\* with a database for which it was made after the check.
PermissionsAreRemoved ==
  excuses \cap {"rename", "failure", "cascade"} = {} =>
    \A p \in perms : rows[p[2]] = Gone =>
      \E r \in Handlers : pending[r].op = "remove_permissions" /\ p[2] \in pending[r].ids

\* What a delete command checks and then removes leaves nothing dangling: no reference
\* to it, no report without a subject, no permission of its name.
DeletionsLeaveNothing == ReferencesResolve /\ ReportsHaveTarget /\ PermissionsAreRemoved

\* An owner of a dashboard, an alert or a report stays one unless a request for
\* that very row names the owners.  (Of charts and datasets this is not so: an
\* update without owners leaves the caller as the only one.)
OwnersAreKept ==
  [][\A o \in Dashboards \cup Reports :
       Found(o) /\ Found(o)' /\ ~(rows[o].owners \subseteq rows'[o].owners) =>
         \E r \in Handlers : pending[r].ids = {o} /\ pending[r].owners # Unnamed
                              /\ pending'[r] = Idle]_metaVars
================================================================================
