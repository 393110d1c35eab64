--------------------------- MODULE MetadataProofs ---------------------------
(***************************************************************************)
(* Theorems about the metadata database, for any rows, users and number of *)
(* requests: about the commands that change it, about the tags that        *)
(* objects have without anyone giving them, and about the bundles that     *)
(* take dashboards from one installation to another.                       *)
(***************************************************************************)
EXTENDS MetadataCommands, ImplicitTags, BundleTransfer, FiniteSetTheorems, TLAPS

-----------------------------------------------------------------------------
(* The invariant of the commands *)

\* No row refers to an id that was never used.
RowsOK(R) ==
  /\ R \in [Objects -> {Free, Gone} \cup RowTypes]
  /\ \A o \in RowsIn(R) :
       /\ RefsFit(KindOf(o), R[o].refs) /\ \A p \in R[o].refs : R[p] # Free
       /\ o \in Databases \cup Datasets => R[o].label \in DbNames

OwnersNamed == {Unnamed, {}} \cup OwnerLists
Requests ==
  [op : Ops \cup {"idle"}, user : Users \cup {NoName}, ids : SUBSET Objects,
   kind : SUBSET Objects, kinds : SUBSET (SUBSET Objects), refs : SUBSET Objects,
   owners : OwnersNamed, seen : SUBSET Users, name : DbNames \cup {NoName},
   bases : SUBSET (Datasets \X Databases), stale : BOOLEAN]

\* What the request of each command is, by what it validated.
CreateOK(q) ==
  /\ q.kind \in Kinds /\ RefsFit(q.kind, q.refs) /\ q.user \in Users
  /\ q.kind \in {Databases, Datasets} => q.name \in DbNames
  /\ q.kind = Reports => q.refs \cap ReportTargets # {}
UpdateOK(q) ==
  \E o \in Objects :
    /\ q.ids = {o} /\ q.kind = KindOf(o) /\ q.user \in Users
    /\ q.kind = Databases => q.name \in DbNames
    /\ q.kind \in {Datasets, Dashboards} => q.kinds = {} /\ q.refs = {}
    /\ q.kind = Charts => q.refs \subseteq Datasets \cup Dashboards
    /\ q.kind = Reports =>
         /\ q.refs \subseteq ReportTargets \cup Databases
         /\ q.kinds \subseteq {Databases} \/ q.refs \cap ReportTargets # {}
BulkOK(q) == \E K \in {Datasets, Charts, Dashboards, Reports} : q.ids \subseteq K
RemovalOK(q) ==
  /\ q.ids \subseteq Datasets /\ \A o \in q.ids : rows[o] = Gone
  /\ {x[1] : x \in q.bases} = q.ids
  /\ \A x \in q.bases : rows[x[2]] # Free

RequestOK(q) ==
  /\ q \in Requests /\ \A o \in q.refs \cup q.ids : rows[o] # Free
  /\ q.op = "create" => CreateOK(q)
  /\ q.op = "update" => UpdateOK(q)
  /\ q.op = "bulk_delete" => BulkOK(q)
  /\ q.op = "remove_permissions" => RemovalOK(q)

MetaTypes ==
  /\ RowsOK(rows) /\ perms \subseteq DbNames \X Datasets /\ enforced \in BOOLEAN
  /\ pending \in [Handlers -> Requests] /\ \A r \in Handlers : RequestOK(pending[r])
  /\ served \in 0..MaxRequests /\ excuses \subseteq Excuses
  /\ \A p \in perms : rows[p[2]] # Free
  /\ \A r \in Handlers : pending[r].op = "idle" => pending[r] = Idle

\* What validate() saw is still so, unless the request is stale.
Deletable(o) ==
  /\ Found(o)
  /\ o \in Databases => ReportsOn(o) = {} /\ DatasetsIn(o) = {}
  /\ o \in ReportTargets => ReportsOn(o) = {}
StillValid(q) ==
  /\ q.op \in {"create", "update"} => \A o \in q.refs : Found(o)
  /\ q.op \in {"delete", "bulk_delete"} => \A o \in q.ids : Deletable(o)
SeenIsSo == \A r \in Handlers : pending[r].stale \/ StillValid(pending[r])

\* As long as no database is renamed, a dataset, its permissions and the requests that
\* will add or remove them have the name of its database.
NameOf(b, n) == Found(b) => rows[b].label = n
NamesAgree ==
  "rename" \notin excuses =>
    /\ \A o \in Datasets : Found(o) =>
         /\ \A b \in rows[o].refs : NameOf(b, rows[o].label)
         /\ \A n : <<n, o>> \in perms => n = rows[o].label
    /\ \A r \in Handlers : pending[r].op = "create" /\ pending[r].kind = Datasets =>
         \A b \in pending[r].refs : NameOf(b, pending[r].name)
    /\ \A r \in Handlers : pending[r].op = "remove_permissions" =>
         \A x \in pending[r].bases, n \in DbNames :
           <<n, x[1]>> \in perms => NameOf(x[2], n)

MetaInv ==
  /\ MetaTypes /\ SeenIsSo /\ NamesAgree
  /\ ReferencesResolve /\ ReportsHaveTarget /\ PermissionsAreRemoved

-----------------------------------------------------------------------------
(* Commits *)

\* Ids are of one kind.
LEMMA KindsFacts ==
  /\ \A K \in Kinds : \A o \in K : o \in Objects /\ KindOf(o) = K
  /\ \A o \in Objects : KindOf(o) \in Kinds /\ o \in KindOf(o)
  /\ Databases \notin {Datasets, Charts, Dashboards, Reports}
  /\ Datasets \notin {Charts, Dashboards, Reports}
  /\ Charts \notin {Dashboards, Reports} /\ Dashboards # Reports
<1>1. \A o \in Objects : KindOf(o) \in Kinds /\ o \in KindOf(o)
  BY DEF Objects, KindOf
<1>2. \A o \in Objects, K \in Kinds, L \in Kinds : o \in K /\ o \in L => K = L
  BY MetaAssumption DEF Kinds
<1>3. \A K \in Kinds : \A o \in K : o \in Objects
  BY DEF Objects
<1>4. /\ Databases \notin {Datasets, Charts, Dashboards, Reports}
      /\ Datasets \notin {Charts, Dashboards, Reports}
      /\ Charts \notin {Dashboards, Reports} /\ Dashboards # Reports
  BY MetaAssumption DEF Kinds
<1> QED BY <1>1, <1>2, <1>3, <1>4

LEMMA KindsAre ==
  /\ Objects = Databases \cup Datasets \cup Charts \cup Dashboards \cup Reports
  /\ \A o \in Databases : KindOf(o) = Databases
  /\ \A o \in Datasets : KindOf(o) = Datasets
  /\ \A o \in Charts : KindOf(o) = Charts
  /\ \A o \in Dashboards : KindOf(o) = Dashboards
  /\ \A o \in Reports : KindOf(o) = Reports
BY KindsFacts DEF Kinds, Objects

\* Rows are never taken back, and the ids of deleted rows are not used again.
Grown(R) ==
  \A o \in Objects : (rows[o] # Free => R[o] # Free) /\ (rows[o] = Gone => R[o] = Gone)
TargetsIn(R) == \A o \in Reports : o \in RowsIn(R) => R[o].refs \cap ReportTargets # {}
LabelsStay(R) ==
  \A b \in Databases : Found(b) /\ b \in RowsIn(R) => R[b].label = rows[b].label
NamesIn(R, P) ==
  \A o \in Datasets : o \in RowsIn(R) =>
    /\ \A b \in R[o].refs : b \in RowsIn(R) => R[b].label = R[o].label
    /\ \A n : <<n, o>> \in P => n = R[o].label

\* A commit that is not refused.
Done(r, R, P, next, more) ==
  /\ UNCHANGED <<enforced, served>> /\ rows' = R /\ perms' = P
  /\ enforced => Resolves(R)
  /\ excuses' = excuses \cup more \cup (IF pending[r].stale /\ R # rows THEN {"race"} ELSE {})
  /\ pending' = [q \in Handlers |->
                   IF q = r THEN next
                   ELSE IF pending[q] = Idle \/ R = rows THEN pending[q]
                   ELSE [pending[q] EXCEPT !.stale = TRUE]]
Undone(r) ==
  /\ UNCHANGED <<enforced, served, rows, perms, excuses>>
  /\ pending' = [pending EXCEPT ![r] = Idle]

LEMMA CommitIs ==
  ASSUME NEW r, NEW possible, NEW R, NEW P, NEW next, NEW more,
         Commit(r, possible, R, P, next, more)
  PROVE  (possible /\ Done(r, R, P, next, more)) \/ Undone(r)
BY DEF Commit, Done, Undone

LEMMA IdleIs ==
  /\ Idle \in Requests /\ Idle.op = "idle" /\ Idle.refs = {} /\ Idle.ids = {}
  /\ Idle.bases = {}
BY DEF Idle, Requests, Ops, OwnersNamed

\* A request is what it was when the tables grow.
LEMMA RequestStays ==
  ASSUME MetaTypes, NEW q, RequestOK(q), Grown(rows'), NEW x \in Requests,
         x.op = q.op, x.user = q.user, x.ids = q.ids, x.kind = q.kind, x.kinds = q.kinds,
         x.refs = q.refs, x.name = q.name, x.bases = q.bases
  PROVE  RequestOK(x)'
<1>1. q \in Requests
  BY DEF RequestOK
<1>2. \A o \in x.refs \cup x.ids : rows'[o] # Free
  BY <1>1 DEF RequestOK, Requests, Grown
<1>3. x.op = "remove_permissions" => RemovalOK(x)'
  <2> SUFFICES ASSUME x.op = "remove_permissions" PROVE RemovalOK(x)'
    OBVIOUS
  <2>1. RemovalOK(q)
    BY DEF RequestOK
  <2>2. \A o \in q.ids : o \in Objects
    BY <1>1 DEF Requests
  <2>3. \A y \in q.bases : y[2] \in Objects
    BY <1>1, KindsAre DEF Requests
  <2> QED BY <2>1, <2>2, <2>3 DEF RemovalOK, Grown
<1>4. /\ x.op = "create" => CreateOK(x)
      /\ x.op = "update" => UpdateOK(x)
      /\ x.op = "bulk_delete" => BulkOK(x)
  BY DEF RequestOK, CreateOK, UpdateOK, BulkOK
<1> QED BY <1>2, <1>3, <1>4 DEF RequestOK, CreateOK, UpdateOK, BulkOK

LEMMA UndoneKeeps ==
  ASSUME MetaInv, NEW r \in Handlers, pending[r].op # "remove_permissions", Undone(r)
  PROVE  MetaInv'
<1>1. /\ UNCHANGED <<enforced, served, rows, perms, excuses>>
      /\ pending' \in [Handlers -> Requests]
      /\ \A q \in Handlers : pending'[q] = IF q = r THEN Idle ELSE pending[q]
  BY IdleIs DEF Undone, MetaInv, MetaTypes
<1>2. MetaTypes'
  <2>1. Grown(rows')
    BY <1>1 DEF Grown
  <2>2. ASSUME NEW q \in Handlers, NEW x, x = pending'[q], x # Idle PROVE RequestOK(x)'
    BY <1>1, <2>1, <2>2, RequestStays DEF MetaInv, MetaTypes
  <2>3. RequestOK(Idle)'
    BY IdleIs DEF RequestOK
  <2>4. \A q \in Handlers : RequestOK(pending[q])'
    BY <2>2, <2>3 DEF RequestOK, RemovalOK
  <2>5. \A q \in Handlers : pending'[q].op = "idle" => pending'[q] = Idle
    BY <1>1 DEF MetaInv, MetaTypes
  <2> QED BY <1>1, <2>4, <2>5 DEF MetaInv, MetaTypes
<1>3. SeenIsSo'
  <2>1. StillValid(Idle)'
    BY IdleIs DEF StillValid
  <2> QED BY <1>1, <2>1 DEF MetaInv, SeenIsSo, StillValid, Deletable, Found, ReportsOn,
                            DatasetsIn, Referrers
<1>4. NamesAgree'
  BY <1>1, IdleIs DEF MetaInv, NamesAgree, NameOf, Found
<1>5. ReferencesResolve' /\ ReportsHaveTarget'
  BY <1>1 DEF MetaInv, ReferencesResolve, ReportsHaveTarget, Resolves, KeysIn, Found
<1>6. PermissionsAreRemoved'
  BY <1>1 DEF MetaInv, PermissionsAreRemoved
<1> QED BY <1>2, <1>3, <1>4, <1>5, <1>6 DEF MetaInv

\* A commit keeps the invariant when what it writes is sound, and no other request than a
\* stale one may write what is not.
LEMMA DoneKeeps ==
  ASSUME MetaInv, NEW r \in Handlers, NEW R, NEW P, NEW next, NEW more,
         Done(r, R, P, next, more), more \subseteq {"rename", "cascade"},
         pending[r].op # "remove_permissions", RowsOK(R), Grown(R),
         P \subseteq DbNames \X Datasets, \A p \in P : R[p[2]] # Free,
         pending[r].stale \/ "race" \in excuses \/ (Resolves(R) /\ TargetsIn(R)),
         "rename" \in more \cup excuses \/ (LabelsStay(R) /\ NamesIn(R, P)),
         \A p \in P : rows[p[2]] = Gone => p \in perms,
         \A p \in P : R[p[2]] = Gone =>
           \/ "rename" \in more \cup excuses \/ "cascade" \in more \/ rows[p[2]] = Gone
           \/ next.op = "remove_permissions" /\ p[2] \in next.ids,
         next \in Requests, next.op \in {"idle", "remove_permissions"},
         next.op = "idle" => next = Idle, RequestOK(next)',
         "rename" \in more \cup excuses \/ next.op = "idle" \/
           \A x \in next.bases, n \in DbNames :
             <<n, x[1]>> \in P /\ x[2] \in RowsIn(R) => R[x[2]].label = n
  PROVE  MetaInv'
<1>1. /\ UNCHANGED <<enforced, served>> /\ rows' = R /\ perms' = P
      /\ enforced => Resolves(R)
      /\ excuses' \subseteq excuses \cup {"rename", "cascade", "race"}
      /\ excuses \cup more \subseteq excuses'
      /\ "race" \notin excuses' => "race" \notin excuses /\ (~pending[r].stale \/ R = rows)
  BY DEF Done
<1>2. ASSUME NEW q \in Handlers, NEW x, x = pending'[q]
      PROVE  \/ q = r /\ x = next
             \/ /\ q # r /\ x \in Requests
                /\ x.op = pending[q].op /\ x.user = pending[q].user
                /\ x.ids = pending[q].ids /\ x.kind = pending[q].kind
                /\ x.kinds = pending[q].kinds /\ x.refs = pending[q].refs
                /\ x.name = pending[q].name /\ x.bases = pending[q].bases
                /\ x.stale \/ x.op = "idle" \/ (R = rows /\ x = pending[q])
  <2>1. CASE q = r
    BY <1>2, <2>1 DEF Done
  <2>2. CASE q # r /\ (pending[q] = Idle \/ R = rows)
    BY <1>2, <2>2, IdleIs DEF Done, MetaInv, MetaTypes
  <2>3. CASE q # r /\ ~(pending[q] = Idle \/ R = rows)
    <3>1. PICK p \in Requests : p = pending[q]
      BY DEF MetaInv, MetaTypes
    <3>2. x = [p EXCEPT !.stale = TRUE]
      BY <1>2, <2>3, <3>1 DEF Done
    <3>3. x \in Requests
      BY <3>1, <3>2 DEF Requests
    <3> QED BY <2>3, <3>1, <3>2, <3>3 DEF Requests
  <2> QED BY <2>1, <2>2, <2>3
<1>3. pending' \in [Handlers -> Requests]
  <2>1. \A q \in Handlers : pending'[q] \in Requests
    BY <1>2
  <2>2. pending' = [q \in Handlers |-> pending'[q]]
    BY DEF Done
  <2> QED BY <2>1, <2>2
<1>4. MetaTypes'
  <2>1. Grown(rows')
    BY <1>1
  <2>2. ASSUME NEW q \in Handlers, NEW x, x = pending'[q] PROVE RequestOK(x)'
    <3>1. RequestOK(pending[q])
      BY DEF MetaInv, MetaTypes
    <3>2. PICK p : p = pending[q]
      OBVIOUS
    <3> QED BY <1>2, <2>1, <2>2, <3>1, <3>2, RequestStays DEF MetaInv
  <2>3. \A q \in Handlers : RequestOK(pending[q])'
    BY <2>2 DEF RequestOK, RemovalOK
  <2>4. RowsOK(rows)'
    BY <1>1 DEF RowsOK, RowsIn
  <2>5. ASSUME NEW q \in Handlers, pending'[q].op = "idle" PROVE pending'[q] = Idle
    <3>1. CASE q = r
      BY <2>5, <3>1 DEF Done
    <3>2. CASE q # r
      <4>1. pending[q].op = "idle" => pending[q] = Idle
        BY DEF MetaInv, MetaTypes
      <4>2. PICK x : x = pending'[q]
        OBVIOUS
      <4> QED BY <1>2, <2>5, <3>2, <4>1, <4>2 DEF Done
    <3> QED BY <3>1, <3>2
  <2> QED BY <1>1, <1>3, <2>3, <2>4, <2>5 DEF MetaInv, MetaTypes, Excuses
<1>5. SeenIsSo'
  <2>1. ASSUME NEW q \in Handlers, NEW x, x = pending'[q] PROVE x.stale \/ StillValid(x)'
    <3>1. CASE x.op \in {"idle", "remove_permissions"}
      BY <3>1 DEF StillValid
    <3>2. CASE x.stale
      BY <3>2
    <3>3. CASE R = rows /\ x = pending[q]
      BY <1>1, <3>3 DEF MetaInv, SeenIsSo, StillValid, Deletable, Found, ReportsOn,
                        DatasetsIn, Referrers
    <3> QED BY <1>2, <2>1, <3>1, <3>2, <3>3
  <2> QED BY <2>1 DEF SeenIsSo, StillValid, Deletable, Found, ReportsOn, DatasetsIn, Referrers
<1>6. ReferencesResolve'
  <2>1. Resolves(rows)' <=> Resolves(R)
    BY <1>1 DEF Resolves, KeysIn
  <2>2. CASE R = rows
    BY <1>1, <2>1, <2>2 DEF MetaInv, ReferencesResolve
  <2> QED BY <1>1, <2>1, <2>2 DEF MetaInv, ReferencesResolve
<1>7. ReportsHaveTarget'
  BY <1>1 DEF MetaInv, ReportsHaveTarget, TargetsIn, Found, RowsIn, Objects, Kinds
<1>8. NamesAgree'
  <2> SUFFICES ASSUME "rename" \notin excuses' PROVE NamesAgree'
    BY DEF NamesAgree
  <2>1. LabelsStay(R) /\ NamesIn(R, P) /\ "rename" \notin excuses /\ "rename" \notin more
    BY <1>1
  <2>2. ASSUME NEW b \in Databases, rows[b] # Free, NEW n, NameOf(b, n) PROVE NameOf(b, n)'
    <3>1. b \in Objects
      BY KindsAre
    <3> QED BY <1>1, <2>1, <2>2, <3>1 DEF NameOf, Found, LabelsStay, Grown, RowsIn
  <2>3. ASSUME NEW o \in Datasets, Found(o)'
        PROVE  /\ \A b \in R[o].refs : NameOf(b, R[o].label)'
               /\ \A n : <<n, o>> \in P => n = R[o].label
    <3>1. o \in RowsIn(R)
      BY <1>1, <2>3, KindsAre DEF Found, RowsIn
    <3>2. \A b \in R[o].refs : b \in Objects
      BY <3>1 DEF RowsOK, RowTypes, RowsIn
    <3> QED BY <1>1, <2>1, <3>1, <3>2 DEF NamesIn, NameOf, Found, RowsIn
  <2>4. ASSUME NEW q \in Handlers, NEW x, x = pending'[q],
               x.op = "create", x.kind = Datasets, NEW b \in x.refs
        PROVE  NameOf(b, x.name)'
    <3>1. /\ x.op = pending[q].op /\ x.kind = pending[q].kind /\ x.refs = pending[q].refs
          /\ x.name = pending[q].name
      BY <1>2, <2>4
    <3>2. RequestOK(pending[q]) /\ NameOf(b, pending[q].name)
      BY <2>1, <2>4, <3>1 DEF MetaInv, MetaTypes, NamesAgree
    <3>3. b \in Databases
      BY <2>4, <3>1, <3>2 DEF RequestOK, CreateOK, RefsFit
    <3>4. rows[b] # Free
      BY <2>4, <3>1, <3>2 DEF RequestOK
    <3>5. PICK n : n = pending[q].name
      OBVIOUS
    <3> QED BY <2>2, <3>1, <3>2, <3>3, <3>4, <3>5
  <2>5. ASSUME NEW q \in Handlers, NEW x, x = pending'[q],
               x.op = "remove_permissions", NEW y \in x.bases, NEW n \in DbNames,
               <<n, y[1]>> \in P
        PROVE  NameOf(y[2], n)'
    <3>1. CASE x = next
      BY <1>1, <2>1, <2>5, <3>1, KindsAre DEF NameOf, Found, RowsIn, Requests
    <3>2. CASE x.op = pending[q].op /\ x.bases = pending[q].bases /\ x.ids = pending[q].ids
      <4>1. pending[q] \in Requests /\ RemovalOK(pending[q])
        BY <2>5, <3>2 DEF MetaInv, MetaTypes, RequestOK
      <4>2. y[2] \in Databases /\ rows[y[2]] # Free /\ rows[y[1]] = Gone
        BY <2>5, <3>2, <4>1 DEF Requests, RemovalOK
      <4>3. <<n, y[1]>> \in perms
        BY <2>5, <4>2
      <4>4. NameOf(y[2], n)
        BY <2>1, <2>5, <3>2, <4>3 DEF MetaInv, NamesAgree
      <4> QED BY <2>2, <4>2, <4>4
    <3> QED BY <1>2, <2>5, <3>1, <3>2
  <2> QED BY <1>1, <2>3, <2>4, <2>5 DEF NamesAgree, NameOf, Found
<1>9. PermissionsAreRemoved'
  <2> SUFFICES ASSUME excuses' \cap {"rename", "failure", "cascade"} = {}, NEW p \in P, R[p[2]] = Gone
               PROVE  \E q \in Handlers : pending'[q].op = "remove_permissions"
                                           /\ p[2] \in pending'[q].ids
    BY <1>1 DEF PermissionsAreRemoved
  <2>0. "rename" \notin more \cup excuses /\ "cascade" \notin more
    BY <1>1
  <2>1. CASE rows[p[2]] = Gone
    <3>1. PICK q \in Handlers : pending[q].op = "remove_permissions" /\ p[2] \in pending[q].ids
      BY <1>1, <2>1 DEF MetaInv, PermissionsAreRemoved
    <3> QED BY <1>2, <3>1
  <2>2. CASE next.op = "remove_permissions" /\ p[2] \in next.ids
    BY <2>2 DEF Done
  <2> QED BY <2>0, <2>1, <2>2
<1> QED BY <1>4, <1>5, <1>6, <1>7, <1>8, <1>9 DEF MetaInv

-----------------------------------------------------------------------------
(* The first half of a command *)

LEMMA DatasetLabelIs ==
  ASSUME NEW R, NEW o, NEW b \in Databases, R[o].refs = {b}
  PROVE  DatasetLabel(R, o) = IF R[b] \in {Free, Gone} THEN R[o].label ELSE R[b].label
<1>1. (CHOOSE d \in Databases : d \in R[o].refs) = b
  OBVIOUS
<1> QED BY <1>1 DEF DatasetLabel

LEMMA MetaInitHolds == MetaInit => MetaInv
<1> SUFFICES ASSUME MetaInit PROVE MetaInv
  OBVIOUS
<1>1. Consistent(rows) /\ MaxRequests \in Nat
  BY MetaAssumption DEF MetaInit
<1>2. perms = {<<rows[o].label, o>> : o \in {t \in Datasets : Found(t)}}
      /\ enforced \in BOOLEAN /\ pending = [r \in Handlers |-> Idle] /\ served = 0
      /\ excuses = {}
  BY DEF MetaInit
<1>3. \A o \in Objects : Found(o) <=> o \in RowsIn(rows)
  BY DEF Found, RowsIn
<1>4. RowsOK(rows)
  BY <1>1 DEF Consistent, RowsOK, RowsIn
<1>5. MetaTypes
  <2>1. ASSUME NEW p \in perms PROVE p \in DbNames \X Datasets /\ rows[p[2]] # Free
    BY <1>1, <1>2, <1>3, <2>1, KindsAre DEF Consistent, RowsIn
  <2>2. RequestOK(Idle)
    BY IdleIs DEF RequestOK
  <2> QED BY <1>1, <1>2, <1>4, <2>1, <2>2, IdleIs DEF MetaTypes
<1>6. SeenIsSo
  BY <1>2, IdleIs DEF SeenIsSo, StillValid
<1>7. NamesAgree
  <2>1. ASSUME NEW o \in Datasets, Found(o)
        PROVE  \A b \in rows[o].refs : NameOf(b, rows[o].label)
    <3>1. PICK b \in Databases : rows[o].refs = {b}
      BY <1>1, <1>3, <2>1, KindsAre DEF Consistent, RefsFit
    <3>2. rows[o].label = DatasetLabel(rows, o)
      BY <1>1, <1>3, <2>1, KindsAre DEF Consistent
    <3> QED BY <3>1, <3>2, DatasetLabelIs DEF NameOf, Found
  <2> QED BY <1>2, <2>1, IdleIs DEF NamesAgree
<1>8. ReferencesResolve
  BY <1>1 DEF Consistent, ReferencesResolve, Resolves, KeysIn, RowsIn
<1>9. ReportsHaveTarget
  BY <1>1, <1>3, KindsAre DEF Consistent, ReportsHaveTarget
<1>10. PermissionsAreRemoved
  BY <1>2 DEF PermissionsAreRemoved, Found
<1> QED BY <1>5, <1>6, <1>7, <1>8, <1>9, <1>10 DEF MetaInv

LEMMA BeginKeeps ==
  ASSUME MetaInv, NEW r \in Handlers, NEW q \in Requests, Begin(r, q), RequestOK(q),
         StillValid(q), q.op \notin {"idle", "remove_permissions"},
         q.op = "create" /\ q.kind = Datasets => \A b \in q.refs : NameOf(b, q.name)
  PROVE  MetaInv'
<1>1. /\ UNCHANGED <<rows, perms, enforced, excuses>> /\ served' = served + 1
      /\ served < MaxRequests /\ pending[r] = Idle
      /\ pending' \in [Handlers -> Requests]
      /\ \A p \in Handlers : pending'[p] = IF p = r THEN q ELSE pending[p]
  BY DEF Begin, MetaInv, MetaTypes
<1>2. served' \in 0..MaxRequests
  BY <1>1, MetaAssumption DEF MetaInv, MetaTypes
<1>3. Grown(rows')
  BY <1>1 DEF Grown
<1>4. MetaTypes'
  <2>1. ASSUME NEW p \in Handlers, NEW x, x = pending'[p] PROVE RequestOK(x)'
    <3>1. x \in Requests /\ RequestOK(x)
      BY <1>1, <2>1 DEF MetaInv, MetaTypes
    <3> QED BY <1>3, <3>1, RequestStays DEF MetaInv
  <2>2. \A p \in Handlers : RequestOK(pending[p])'
    BY <2>1 DEF RequestOK, RemovalOK
  <2>3. \A p \in Handlers : pending'[p].op = "idle" => pending'[p] = Idle
    BY <1>1 DEF MetaInv, MetaTypes
  <2> QED BY <1>1, <1>2, <2>2, <2>3 DEF MetaInv, MetaTypes, RowsOK, RowsIn
<1>5. SeenIsSo'
  BY <1>1 DEF MetaInv, SeenIsSo, StillValid, Deletable, Found, ReportsOn, DatasetsIn, Referrers
<1>6. NamesAgree'
  BY <1>1 DEF MetaInv, NamesAgree, NameOf, Found
<1>7. ReferencesResolve' /\ ReportsHaveTarget'
  BY <1>1 DEF MetaInv, ReferencesResolve, ReportsHaveTarget, Resolves, KeysIn, Found
<1>8. PermissionsAreRemoved'
  BY <1>1, IdleIs DEF MetaInv, PermissionsAreRemoved
<1> QED BY <1>4, <1>5, <1>6, <1>7, <1>8 DEF MetaInv

LEMMA NameSeenIs ==
  ASSUME MetaInv, NEW refs
  PROVE  /\ NameSeen(refs) \in DbNames \cup {NoName}
         /\ \A b \in Databases : refs = {b} /\ Found(b) =>
              NameSeen(refs) = rows[b].label /\ rows[b].label \in DbNames
<1>1. ASSUME NEW b \in Databases, Found(b) PROVE rows[b].label \in DbNames
  BY <1>1, KindsAre DEF MetaInv, MetaTypes, RowsOK, RowsIn, Found
<1>2. PICK D : D = {d \in refs \cap Databases : Found(d)}
  OBVIOUS
<1>3. NameSeen(refs) = IF D = {} THEN NoName ELSE rows[CHOOSE d \in D : TRUE].label
  BY <1>2 DEF NameSeen
<1>4. D # {} => (CHOOSE d \in D : TRUE) \in D
  OBVIOUS
<1>5. ASSUME NEW b \in Databases, refs = {b}, Found(b) PROVE NameSeen(refs) = rows[b].label
  BY <1>2, <1>3, <1>4, <1>5
<1> QED BY <1>1, <1>2, <1>3, <1>4, <1>5

LEMMA BeginCreateKeeps ==
  ASSUME MetaInv, NEW r \in Handlers, NEW K \in Kinds \ {Databases}, NEW refs \in SUBSET Objects,
         RefsFit(K, refs), K = Reports => refs \cap ReportTargets # {}, BeginCreate(r, K, refs)
  PROVE  MetaInv'
<1>1. PICK u \in Users, named \in {Unnamed} \cup OwnerLists :
        /\ \A o \in refs : Found(o)
        /\ Begin(r, [Idle EXCEPT !.op = "create", !.user = u, !.kind = K, !.refs = refs,
                                 !.owners = named, !.name = NameSeen(refs)])
  BY DEF BeginCreate
<1>2. PICK n : n = NameSeen(refs)
  OBVIOUS
<1>3. PICK q : q = [Idle EXCEPT !.op = "create", !.user = u, !.kind = K, !.refs = refs,
                                !.owners = named, !.name = n]
  OBVIOUS
<1>4. /\ q.op = "create" /\ q.user = u /\ q.kind = K /\ q.refs = refs /\ q.name = n
      /\ q.ids = {}
  BY <1>3 DEF Idle
<1>5. K \in SUBSET Objects
  BY DEF Objects
<1>6. n \in DbNames \cup {NoName} /\ (K = Datasets => n \in DbNames)
  BY <1>1, <1>2, NameSeenIs, KindsFacts DEF RefsFit
<1>7. q \in Requests
  BY <1>3, <1>5, <1>6 DEF Idle, Requests, Ops, OwnersNamed
<1>8. CreateOK(q)
  BY <1>4, <1>6 DEF CreateOK
<1>9. RequestOK(q) /\ StillValid(q)
  BY <1>1, <1>4, <1>7, <1>8 DEF RequestOK, StillValid, Found
<1>10. K = Datasets => \A b \in refs : NameOf(b, n)
  BY <1>1, <1>2, NameSeenIs DEF NameOf, RefsFit
<1>11. Begin(r, q)
  BY <1>1, <1>2, <1>3
<1> QED BY <1>4, <1>7, <1>9, <1>10, <1>11, BeginKeeps

LEMMA BeginUpdateKeeps ==
  ASSUME MetaInv, NEW r \in Handlers, NEW o \in Objects, NEW kinds \in SUBSET (SUBSET Objects),
         NEW refs \in SUBSET Objects, KindOf(o) # Databases,
         KindOf(o) \in {Datasets, Dashboards} => kinds = {} /\ refs = {},
         KindOf(o) = Charts => refs \subseteq Datasets \cup Dashboards,
         KindOf(o) = Reports => /\ refs \subseteq ReportTargets \cup Databases
                                /\ kinds \subseteq {Databases} \/ refs \cap ReportTargets # {},
         BeginUpdate(r, o, kinds, refs)
  PROVE  MetaInv'
<1>1. PICK u \in Users, named \in {Unnamed} \cup OwnerLists :
        /\ Found(o) /\ \A p \in refs : Found(p)
        /\ Begin(r, [Idle EXCEPT !.op = "update", !.user = u, !.ids = {o}, !.kind = KindOf(o),
                                 !.kinds = kinds, !.refs = refs, !.owners = named,
                                 !.seen = rows[o].owners])
  BY DEF BeginUpdate
<1>2. PICK seen : seen = rows[o].owners
  OBVIOUS
<1>3. PICK q : q = [Idle EXCEPT !.op = "update", !.user = u, !.ids = {o}, !.kind = KindOf(o),
                                !.kinds = kinds, !.refs = refs, !.owners = named, !.seen = seen]
  OBVIOUS
<1>4. /\ q.op = "update" /\ q.user = u /\ q.ids = {o} /\ q.kind = KindOf(o)
      /\ q.kinds = kinds /\ q.refs = refs
  BY <1>3 DEF Idle
<1>5. KindOf(o) \in SUBSET Objects
  BY KindsFacts DEF Objects
<1>6. seen \in SUBSET Users
  BY <1>1, <1>2 DEF MetaInv, MetaTypes, RowsOK, RowTypes, Found
<1>7. q \in Requests
  BY <1>3, <1>5, <1>6 DEF Idle, Requests, Ops, OwnersNamed
<1>8. UpdateOK(q)
  BY <1>4 DEF UpdateOK
<1>9. RequestOK(q) /\ StillValid(q)
  BY <1>1, <1>4, <1>7, <1>8 DEF RequestOK, StillValid, Found
<1>10. Begin(r, q)
  BY <1>1, <1>2, <1>3
<1> QED BY <1>4, <1>7, <1>9, <1>10, BeginKeeps

LEMMA BeginDatabaseKeeps ==
  ASSUME MetaInv, NEW r \in Handlers, ValidateCreateDatabase(r) \/ ValidateRename(r)
  PROVE  MetaInv'
<1>0. Databases \in SUBSET Objects /\ Databases \in Kinds
  BY DEF Objects, Kinds
<1>1. CASE ValidateCreateDatabase(r)
  <2>1. PICK u \in Users, n \in DbNames :
          Begin(r, [Idle EXCEPT !.op = "create", !.user = u, !.kind = Databases, !.name = n])
    BY <1>1 DEF ValidateCreateDatabase
  <2>2. PICK q : q = [Idle EXCEPT !.op = "create", !.user = u, !.kind = Databases, !.name = n]
    OBVIOUS
  <2>3. /\ q.op = "create" /\ q.user = u /\ q.kind = Databases /\ q.name = n
        /\ q.ids = {} /\ q.refs = {} /\ q \in Requests
    BY <1>0, <2>2 DEF Idle, Requests, Ops, OwnersNamed
  <2>4. CreateOK(q)
    BY <1>0, <2>3, KindsFacts DEF CreateOK, RefsFit
  <2>5. RequestOK(q) /\ StillValid(q)
    BY <2>3, <2>4 DEF RequestOK, StillValid
  <2> QED BY <2>1, <2>2, <2>3, <2>5, BeginKeeps
<1>2. CASE ValidateRename(r)
  <2>1. PICK u \in Users, o \in Databases, n \in DbNames :
          /\ Found(o)
          /\ Begin(r, [Idle EXCEPT !.op = "update", !.user = u, !.ids = {o}, !.kind = Databases,
                                   !.name = n, !.seen = {}])
    BY <1>2 DEF ValidateRename
  <2>2. PICK q : q = [Idle EXCEPT !.op = "update", !.user = u, !.ids = {o}, !.kind = Databases,
                                  !.name = n, !.seen = {}]
    OBVIOUS
  <2>3. /\ q.op = "update" /\ q.user = u /\ q.kind = Databases /\ q.name = n
        /\ q.ids = {o} /\ q.refs = {} /\ q \in Requests
    BY <1>0, <2>2 DEF Idle, Requests, Ops, OwnersNamed
  <2>4. UpdateOK(q)
    BY <1>0, <2>3, KindsFacts DEF UpdateOK
  <2>5. RequestOK(q) /\ StillValid(q)
    BY <2>1, <2>3, <2>4 DEF RequestOK, StillValid, Found
  <2> QED BY <2>1, <2>2, <2>3, <2>5, BeginKeeps
<1> QED BY <1>1, <1>2

LEMMA BeginDeleteKeeps ==
  ASSUME MetaInv, NEW r \in Handlers,
         \/ ValidateDelete(r)
         \/ \E K \in {Datasets, Charts, Dashboards, Reports} : BeginBulkDelete(r, K)
  PROVE  MetaInv'
<1>1. ASSUME NEW u \in Users, NEW o, MayDelete(u, o) PROVE Deletable(o)
  BY <1>1, MetaAssumption DEF MayDelete, Deletable, DeletesDatabase, DeletesDataset, DeletesChart,
                              DeletesDashboard, DeletesReport, ReportTargets
<1>2. PICK u \in Users, S \in SUBSET Objects, K \in SUBSET Objects, op \in {"delete", "bulk_delete"} :
        /\ \A o \in S : Deletable(o)
        /\ Begin(r, [Idle EXCEPT !.op = op, !.user = u, !.ids = S, !.kind = K])
        /\ op = "bulk_delete" => K \in {Datasets, Charts, Dashboards, Reports} /\ S \subseteq K
  <2>1. CASE ValidateDelete(r)
    <3>1. PICK u \in Users, o \in Objects :
            /\ MayDelete(u, o)
            /\ Begin(r, [Idle EXCEPT !.op = "delete", !.user = u, !.ids = {o}, !.kind = KindOf(o)])
      BY <2>1 DEF ValidateDelete
    <3>2. KindOf(o) \in SUBSET Objects
      BY KindsFacts DEF Objects
    <3>3. \A p \in {o} : Deletable(p)
      BY <1>1, <3>1
    <3>4. {o} \in SUBSET Objects /\ "delete" # "bulk_delete"
      OBVIOUS
    <3> QED BY <3>1, <3>2, <3>3, <3>4
  <2>2. CASE \E K \in {Datasets, Charts, Dashboards, Reports} : BeginBulkDelete(r, K)
    <3>1. PICK K \in {Datasets, Charts, Dashboards, Reports} : BeginBulkDelete(r, K)
      BY <2>2
    <3>2. PICK u \in Users, S \in (SUBSET K) \ {{}} :
            /\ \A o \in S : MayDelete(u, o)
            /\ Begin(r, [Idle EXCEPT !.op = "bulk_delete", !.user = u, !.ids = S, !.kind = K])
      BY <3>1 DEF BeginBulkDelete
    <3>3. \A o \in S : Deletable(o)
      BY <1>1, <3>2
    <3>4. K \in SUBSET Objects /\ S \in SUBSET Objects
      BY <3>1, <3>2, KindsAre
    <3> QED BY <3>2, <3>3, <3>4
  <2> QED BY <2>1, <2>2
<1>3. PICK q : q = [Idle EXCEPT !.op = op, !.user = u, !.ids = S, !.kind = K]
  OBVIOUS
<1>4. q.op = op /\ q.ids = S /\ q.refs = {}
  BY <1>3 DEF Idle
<1>5. q \in Requests
  BY <1>3 DEF Idle, Requests, Ops, OwnersNamed
<1>6. op = "bulk_delete" => BulkOK(q)
  BY <1>2, <1>4 DEF BulkOK
<1>7. RequestOK(q)
  BY <1>2, <1>4, <1>5, <1>6 DEF RequestOK, Deletable, Found
<1>8. StillValid(q)
  BY <1>2, <1>4 DEF StillValid
<1>9. Begin(r, q)
  BY <1>2, <1>3
<1> QED BY <1>4, <1>5, <1>7, <1>8, <1>9, BeginKeeps

LEMMA ValidateKeeps ==
  ASSUME MetaInv, NEW r \in Handlers, Validate(r)
  PROVE  MetaInv' /\ UNCHANGED rows
<1>1. UNCHANGED rows
  BY DEF Validate, ValidateCreateDatabase, ValidateCreateDataset, ValidateCreateChart,
         ValidateCreateDashboard, ValidateCreateReport, ValidateRename, ValidateUpdateDataset,
         ValidateUpdateChart, ValidateUpdateDashboard, ValidateUpdateReport, ValidateDelete,
         ValidateBulkDeleteDatasets, ValidateBulkDeleteCharts, ValidateBulkDeleteDashboards,
         ValidateBulkDeleteReports, BeginCreate, BeginUpdate, BeginBulkDelete, Begin
<1> SUFFICES MetaInv'
  BY <1>1
<1>2. CASE ValidateCreateDatabase(r) \/ ValidateRename(r)
  BY <1>2, BeginDatabaseKeeps
<1>3. CASE \/ ValidateDelete(r) \/ ValidateBulkDeleteDatasets(r) \/ ValidateBulkDeleteCharts(r)
           \/ ValidateBulkDeleteDashboards(r) \/ ValidateBulkDeleteReports(r)
  BY <1>3, BeginDeleteKeeps DEF ValidateBulkDeleteDatasets, ValidateBulkDeleteCharts,
                                ValidateBulkDeleteDashboards, ValidateBulkDeleteReports
<1>4. {Datasets, Charts, Dashboards, Reports} \subseteq Kinds \ {Databases}
  BY KindsFacts DEF Kinds
<1>5. CASE ValidateCreateDataset(r)
  <2>1. PICK b \in Databases : BeginCreate(r, Datasets, {b})
    BY <1>5 DEF ValidateCreateDataset
  <2>2. RefsFit(Datasets, {b}) /\ {b} \in SUBSET Objects
    BY KindsFacts, KindsAre DEF RefsFit
  <2>3. Datasets # Reports
    BY KindsFacts
  <2> QED BY <1>4, <2>1, <2>2, <2>3, BeginCreateKeeps
<1>6. CASE ValidateCreateChart(r)
  <2>1. PICK t \in Datasets, D \in SUBSET Dashboards : BeginCreate(r, Charts, {t} \cup D)
    BY <1>6 DEF ValidateCreateChart
  <2>2. RefsFit(Charts, {t} \cup D) /\ {t} \cup D \in SUBSET Objects
    BY KindsFacts, KindsAre DEF RefsFit
  <2>3. Charts # Reports
    BY KindsFacts
  <2> QED BY <1>4, <2>1, <2>2, <2>3, BeginCreateKeeps
<1>7. CASE ValidateCreateDashboard(r)
  <2>1. RefsFit(Dashboards, {}) /\ Dashboards # Reports
    BY KindsFacts DEF RefsFit
  <2> QED BY <1>4, <1>7, <2>1, BeginCreateKeeps DEF ValidateCreateDashboard
<1>8. CASE ValidateCreateReport(r)
  <2>1. PICK t \in ReportTargets, D \in {{}} \cup {{b} : b \in Databases} :
          BeginCreate(r, Reports, {t} \cup D)
    BY <1>8 DEF ValidateCreateReport
  <2>2. RefsFit(Reports, {t} \cup D) /\ {t} \cup D \in SUBSET Objects
    BY KindsFacts, KindsAre DEF RefsFit, ReportTargets
  <2>3. ({t} \cup D) \cap ReportTargets # {}
    OBVIOUS
  <2> QED BY <1>4, <2>1, <2>2, <2>3, BeginCreateKeeps
<1>9. CASE ValidateUpdateDataset(r) \/ ValidateUpdateDashboard(r)
  <2>1. PICK o \in Datasets \cup Dashboards : BeginUpdate(r, o, {}, {})
    BY <1>9 DEF ValidateUpdateDataset, ValidateUpdateDashboard
  <2>2. o \in Objects /\ KindOf(o) \in {Datasets, Dashboards}
    BY KindsAre
  <2> QED BY <2>1, <2>2, KindsFacts, BeginUpdateKeeps
<1>10. CASE ValidateUpdateChart(r)
  <2>1. PICK o \in Charts :
          \/ BeginUpdate(r, o, {}, {})
          \/ \E D \in SUBSET Dashboards : BeginUpdate(r, o, {Dashboards}, D)
          \/ \E t \in Datasets : BeginUpdate(r, o, {Datasets}, {t})
    BY <1>10 DEF ValidateUpdateChart
  <2>2. o \in Objects /\ KindOf(o) = Charts
    BY KindsAre
  <2>3. PICK kinds \in SUBSET (SUBSET Objects), refs \in SUBSET (Datasets \cup Dashboards) :
          BeginUpdate(r, o, kinds, refs)
    BY <2>1, KindsAre
  <2>4. refs \in SUBSET Objects
    BY KindsAre
  <2> QED BY <2>2, <2>3, <2>4, KindsFacts, BeginUpdateKeeps
<1>11. CASE ValidateUpdateReport(r)
  <2>1. PICK o \in Reports :
          \/ BeginUpdate(r, o, {}, {})
          \/ \E p \in ReportTargets \cup Databases : BeginUpdate(r, o, {KindOf(p)}, {p})
    BY <1>11 DEF ValidateUpdateReport
  <2>2. o \in Objects /\ KindOf(o) = Reports
    BY KindsAre
  <2>3. CASE BeginUpdate(r, o, {}, {})
    BY <2>2, <2>3, KindsFacts, BeginUpdateKeeps
  <2>4. ASSUME NEW p \in ReportTargets \cup Databases, BeginUpdate(r, o, {KindOf(p)}, {p})
        PROVE  MetaInv'
    <3>1. {p} \in SUBSET Objects /\ {KindOf(p)} \in SUBSET (SUBSET Objects)
      BY KindsAre DEF ReportTargets
    <3>2. {KindOf(p)} \subseteq {Databases} \/ {p} \cap ReportTargets # {}
      BY KindsAre
    <3> QED BY <2>2, <2>4, <3>1, <3>2, KindsFacts, BeginUpdateKeeps
  <2> QED BY <2>1, <2>3, <2>4
<1> QED BY <1>1, <1>2, <1>3, <1>5, <1>6, <1>7, <1>8, <1>9, <1>10, <1>11 DEF Validate

-----------------------------------------------------------------------------
(* Writing a row *)

\* What a flush leaves: it sets the names of datasets and charts.
SameRefs(M, R) ==
  \A o \in Objects :
    /\ M[o] \in {Free, Gone} => R[o] = M[o]
    /\ M[o] \notin {Free, Gone} =>
         /\ R[o] \notin {Free, Gone} /\ R[o].refs = M[o].refs
         /\ o \notin Charts => R[o].owners = M[o].owners
         /\ o \in Databases => R[o].label = M[o].label
         /\ o \in Datasets => R[o].label \in {M[o].label, DatasetLabel(M, o)}

LEMMA FlushedIs ==
  ASSUME NEW M, RowsOK(M), NEW S \in SUBSET RowsIn(M), NEW F, F = Flushed(M, S)
  PROVE  /\ RowsOK(F) /\ SameRefs(M, F) /\ \A o \in Objects \ S : F[o] = M[o]
<1>1. \A o \in Objects \ S : F[o] = M[o]
  BY DEF Flushed
<1>2. \A o \in RowsIn(M) : o \in Objects /\ M[o] \in RowTypes /\ M[o] \notin {Free, Gone}
  BY DEF RowsOK, RowsIn
<1>3. ASSUME NEW o \in Datasets, o \in RowsIn(M) PROVE DatasetLabel(M, o) \in DbNames
  <2>1. PICK b \in Databases : M[o].refs = {b}
    BY <1>3, KindsAre DEF RowsOK, RefsFit
  <2>2. DatasetLabel(M, o) = IF M[b] \in {Free, Gone} THEN M[o].label ELSE M[b].label
    BY <2>1, DatasetLabelIs
  <2> QED BY <1>3, <2>2, KindsAre DEF RowsOK, RowsIn
<1>4. ASSUME NEW o \in Charts, o \in RowsIn(M) PROVE ChartLabel(M, o) \in DbNames \cup {NoName}
  <2>1. PICK T : T = {t \in M[o].refs \cap Datasets : M[t] \notin {Free, Gone}}
    OBVIOUS
  <2>2. ChartLabel(M, o) = IF T = {} THEN M[o].label ELSE M[CHOOSE t \in T : TRUE].label
    BY <2>1 DEF ChartLabel
  <2>3. T # {} => (CHOOSE t \in T : TRUE) \in T
    OBVIOUS
  <2>4. \A t \in T : M[t].label \in DbNames
    BY <2>1, KindsAre DEF RowsOK, RowsIn
  <2>5. M[o].label \in DbNames \cup {NoName}
    BY <1>2, <1>4 DEF RowTypes
  <2> QED BY <2>2, <2>3, <2>4, <2>5
<1>5. ASSUME NEW o \in S
      PROVE  \E n \in DbNames \cup {NoName} :
               /\ F[o] = M[o] \/ F[o] = [M[o] EXCEPT !.label = n]
               /\ o \notin Datasets \cup Charts => F[o] = M[o]
               /\ o \in Datasets => n = DatasetLabel(M, o) /\ n \in DbNames
                                    /\ F[o] = [M[o] EXCEPT !.label = n]
  <2>1. o \in RowsIn(M) /\ o \in Objects
    BY <1>2, <1>5
  <2>2. CASE o \in Datasets
    BY <1>3, <1>5, <2>1, <2>2 DEF Flushed
  <2>3. CASE o \notin Datasets /\ o \in Charts
    BY <1>4, <1>5, <2>1, <2>3 DEF Flushed
  <2>4. CASE o \notin Datasets \cup Charts
    BY <1>5, <2>1, <2>4 DEF Flushed
  <2> QED BY <2>2, <2>3, <2>4
<1>6. ASSUME NEW o \in S
      PROVE  /\ F[o] \in RowTypes /\ F[o].refs = M[o].refs /\ F[o].owners = M[o].owners
             /\ o \notin Datasets \cup Charts => F[o].label = M[o].label
             /\ o \in Datasets => F[o].label = DatasetLabel(M, o) /\ F[o].label \in DbNames
  <2>1. PICK n \in DbNames \cup {NoName} :
               /\ F[o] = M[o] \/ F[o] = [M[o] EXCEPT !.label = n]
               /\ o \notin Datasets \cup Charts => F[o] = M[o]
               /\ o \in Datasets => n = DatasetLabel(M, o) /\ n \in DbNames
                                    /\ F[o] = [M[o] EXCEPT !.label = n]
    BY <1>5
  <2>2. PICK m \in RowTypes : m = M[o]
    BY <1>2, <1>6
  <2>3. F[o] = m \/ F[o] = [m EXCEPT !.label = n]
    BY <2>1, <2>2
  <2>4. F[o] \in RowTypes /\ F[o].refs = m.refs /\ F[o].owners = m.owners
    BY <2>3 DEF RowTypes
  <2>5. o \in Datasets => F[o].label = n
    BY <2>1, <2>2 DEF RowTypes
  <2> QED BY <2>1, <2>2, <2>4, <2>5
<1>7. \A o \in S : F[o] \notin {Free, Gone}
  BY <1>6, MetaAssumption
<1>8. SameRefs(M, F)
  <2> SUFFICES ASSUME NEW o \in Objects
               PROVE  /\ M[o] \in {Free, Gone} => F[o] = M[o]
                      /\ M[o] \notin {Free, Gone} =>
                           /\ F[o] \notin {Free, Gone} /\ F[o].refs = M[o].refs
                           /\ o \notin Charts => F[o].owners = M[o].owners
                           /\ o \in Databases => F[o].label = M[o].label
                           /\ o \in Datasets => F[o].label \in {M[o].label, DatasetLabel(M, o)}
    BY DEF SameRefs
  <2>1. o \in Databases => o \notin Datasets \cup Charts
    BY MetaAssumption
  <2> QED BY <1>1, <1>2, <1>6, <1>7, <2>1
<1>9. RowsIn(F) = RowsIn(M)
  BY <1>1, <1>2, <1>7 DEF RowsIn
<1>10. F \in [Objects -> {Free, Gone} \cup RowTypes]
  <2>1. \A o \in Objects : F[o] \in {Free, Gone} \cup RowTypes
    BY <1>1, <1>6 DEF RowsOK
  <2> QED BY <2>1 DEF Flushed
<1>11. ASSUME NEW o \in RowsIn(F)
       PROVE  /\ RefsFit(KindOf(o), F[o].refs) /\ \A p \in F[o].refs : F[p] # Free
              /\ o \in Databases \cup Datasets => F[o].label \in DbNames
  <2>1. o \in RowsIn(M) /\ o \in Objects /\ F[o].refs = M[o].refs
    BY <1>1, <1>2, <1>6, <1>9
  <2>2. RefsFit(KindOf(o), F[o].refs)
    BY <2>1 DEF RowsOK
  <2>3. \A p \in F[o].refs : p \in Objects /\ M[p] # Free
    BY <1>2, <2>1 DEF RowsOK, RowTypes
  <2>4. \A p \in F[o].refs : F[p] # Free
    BY <1>1, <1>7, <2>3
  <2>5. o \in Databases \cup Datasets => F[o].label \in DbNames
    BY <1>1, <1>6, <2>1, MetaAssumption DEF RowsOK
  <2> QED BY <2>2, <2>4, <2>5
<1> QED BY <1>1, <1>8, <1>10, <1>11 DEF RowsOK

\* A command that writes the row o, new or not.
LEMMA WriteKeeps ==
  ASSUME MetaInv, NEW r \in Handlers, NEW o \in Objects, NEW M, NEW R,
         RowsOK(M), RowsOK(R), SameRefs(M, R), \A x \in Objects : x # o => M[x] = rows[x],
         rows[o] # Gone, M[o] \notin {Free, Gone},
         o \in Databases /\ Found(o) => M[o].label = rows[o].label,
         Done(r, R, perms \cup PermsOf(R, {o}), Idle, {}),
         pending[r].op # "remove_permissions",
         \/ pending[r].stale \/ "race" \in excuses
         \/ /\ \A p \in M[o].refs \ Datasets : Found(p)
            /\ o \in Reports => M[o].refs \cap ReportTargets # {},
         "rename" \in excuses \/ o \notin Datasets \/
           /\ \A b \in M[o].refs : NameOf(b, M[o].label)
           /\ \A n : <<n, o>> \in perms => n = M[o].label
  PROVE  MetaInv'
<1>1. PICK P : P = perms \cup PermsOf(R, {o})
  OBVIOUS
<1>2. RowsOK(rows) /\ perms \subseteq DbNames \X Datasets /\ \A p \in perms : rows[p[2]] # Free
  BY DEF MetaInv, MetaTypes
<1>3. o \in RowsIn(M) /\ o \in RowsIn(R)
  BY DEF SameRefs, RowsIn
<1>4. Datasets \subseteq Objects
  BY KindsAre
<1>5. Grown(R)
  BY DEF SameRefs, Grown
<1>6. /\ P \subseteq DbNames \X Datasets /\ \A p \in P : R[p[2]] # Free
      /\ \A p \in P : p \in perms \/ (p[2] = o /\ p[1] = R[o].label)
  <2>1. ASSUME NEW p \in PermsOf(R, {o})
        PROVE  p \in DbNames \X Datasets /\ p[2] = o /\ p[1] = R[o].label
    BY <1>3, <2>1 DEF PermsOf, RowsOK
  <2>2. \A p \in perms : R[p[2]] # Free
    BY <1>2, <1>4, <1>5 DEF Grown
  <2> QED BY <1>1, <1>2, <1>3, <2>1, <2>2 DEF RowsIn
<1>7. /\ \A p \in P : rows[p[2]] = Gone => p \in perms
      /\ \A p \in P : R[p[2]] = Gone => rows[p[2]] = Gone
  BY <1>3, <1>4, <1>6 DEF SameRefs, RowsIn
<1>8. pending[r].stale \/ "race" \in excuses \/ (Resolves(R) /\ TargetsIn(R))
  <2> SUFFICES ASSUME ~pending[r].stale, "race" \notin excuses
               PROVE  Resolves(R) /\ TargetsIn(R)
    OBVIOUS
  <2>1. Resolves(rows) /\ \A x \in Reports : Found(x) => rows[x].refs \cap ReportTargets # {}
    BY DEF MetaInv, ReferencesResolve, ReportsHaveTarget
  <2>2. ASSUME NEW x \in RowsIn(R), NEW p \in R[x].refs \ Datasets PROVE R[p] \notin {Free, Gone}
    <3>1. x \in Objects /\ p \in Objects
      BY <2>2 DEF RowsOK, RowsIn, RowTypes
    <3>2. x \in RowsIn(M) /\ p \in M[x].refs \ Datasets
      BY <2>2, <3>1 DEF SameRefs, RowsIn
    <3>3. Found(p)
      <4>1. CASE x = o
        BY <3>2, <4>1
      <4>2. CASE x # o
        <5>1. M[x] = rows[x] /\ rows[x] \notin {Free, Gone}
          BY <3>1, <3>2, <4>2 DEF RowsIn
        <5>2. KeysIn(rows)[x] = rows[x].refs \ Datasets
          BY <3>1, <5>1 DEF KeysIn
        <5>3. p \in KeysIn(rows)[x]
          BY <3>2, <5>1, <5>2
        <5> QED BY <2>1, <3>1, <5>3 DEF Resolves, Found
      <4> QED BY <4>1, <4>2
    <3>4. M[p] \notin {Free, Gone}
      BY <3>1, <3>3 DEF Found
    <3> QED BY <3>1, <3>4 DEF SameRefs
  <2>3. Resolves(R)
    BY <2>2 DEF Resolves, KeysIn, RowsIn
  <2>4. TargetsIn(R)
    <3>1. ASSUME NEW x \in Reports, x \in RowsIn(R) PROVE R[x].refs \cap ReportTargets # {}
      <4>1. x \in Objects /\ x \in RowsIn(M) /\ R[x].refs = M[x].refs
        BY <3>1, KindsAre DEF SameRefs, RowsIn
      <4> QED BY <2>1, <3>1, <4>1 DEF Found, RowsIn
    <3> QED BY <3>1 DEF TargetsIn
  <2> QED BY <2>3, <2>4
<1>9. "rename" \in excuses \/ (LabelsStay(R) /\ NamesIn(R, P))
  <2> SUFFICES ASSUME "rename" \notin excuses PROVE LabelsStay(R) /\ NamesIn(R, P)
    OBVIOUS
  <2>1. LabelsStay(R)
    BY <1>3, KindsAre DEF LabelsStay, SameRefs, Found, RowsIn
  <2>2. ASSUME NEW x \in Datasets, x \in RowsIn(R)
        PROVE  /\ \A b \in R[x].refs : b \in RowsIn(R) => R[b].label = R[x].label
               /\ \A n : <<n, x>> \in P => n = R[x].label
    <3>1. x \in Objects /\ x \in RowsIn(M) /\ R[x].refs = M[x].refs
      BY <1>4, <2>2 DEF SameRefs, RowsIn
    <3>2. PICK b \in Databases : M[x].refs = {b}
      BY <2>2, <3>1, KindsAre DEF RowsOK, RefsFit
    <3>3. /\ NameOf(b, M[x].label) /\ \A n : <<n, x>> \in perms => n = M[x].label
      BY <2>2, <3>1, <3>2 DEF MetaInv, NamesAgree, Found, RowsIn
    <3>4. b \in Objects /\ rows[b] # Free
      <4>1. b \in Objects /\ M[b] # Free
        BY <3>1, <3>2, KindsAre DEF RowsOK
      <4>2. CASE x = o
        <5>1. b # o
          BY <2>2, <4>2, MetaAssumption
        <5> QED BY <4>1, <5>1
      <4>3. CASE x # o
        BY <1>2, <3>1, <3>2, <4>1, <4>3 DEF RowsOK, RowsIn
      <4> QED BY <4>2, <4>3
    <3>5. M[b] \notin {Free, Gone} => Found(b) /\ M[b].label = rows[b].label
      <4>1. CASE b = o
        BY <3>4, <4>1 DEF Found
      <4>2. CASE b # o
        BY <3>4, <4>2 DEF Found
      <4> QED BY <4>1, <4>2
    <3>6. M[b] \notin {Free, Gone} => M[b].label = M[x].label
      BY <3>3, <3>5 DEF NameOf
    <3>7. DatasetLabel(M, x) = M[x].label
      BY <3>2, <3>6, DatasetLabelIs
    <3>8. R[x].label = M[x].label
      BY <2>2, <3>1, <3>7 DEF SameRefs, RowsIn
    <3>9. b \in RowsIn(R) => M[b] \notin {Free, Gone} /\ R[b].label = M[b].label
      BY <3>4 DEF SameRefs, RowsIn
    <3> QED BY <1>6, <3>1, <3>2, <3>3, <3>6, <3>8, <3>9
  <2> QED BY <2>1, <2>2 DEF NamesIn
<1>10. RequestOK(Idle)'
  BY IdleIs DEF RequestOK
<1>11. Done(r, R, P, Idle, {})
  BY <1>1
<1> QED BY <1>5, <1>6, <1>7, <1>8, <1>9, <1>10, <1>11, IdleIs, DoneKeeps

\* What OwnersAreKept says of a step.
OwnersStay ==
  \A o \in Dashboards \cup Reports :
    Found(o) /\ Found(o)' /\ ~(rows[o].owners \subseteq rows'[o].owners) =>
      \E r \in Handlers : pending[r].ids = {o} /\ pending[r].owners # Unnamed
                           /\ pending'[r] = Idle

LEMMA UndoneIsFine ==
  ASSUME MetaInv, NEW r \in Handlers, pending[r].op # "remove_permissions", Undone(r)
  PROVE  MetaInv' /\ OwnersStay
BY UndoneKeeps DEF Undone, OwnersStay

\* A row put in place of another.
LEMMA PutRow ==
  ASSUME RowsOK(rows), NEW o \in Objects, NEW row \in RowTypes, RefsFit(KindOf(o), row.refs),
         \A p \in row.refs : rows[p] # Free,
         o \in Databases \cup Datasets => row.label \in DbNames,
         NEW M \in [Objects -> {Free, Gone} \cup RowTypes],
         M[o] = row, \A x \in Objects \ {o} : M[x] = rows[x]
  PROVE  RowsOK(M) /\ row \notin {Free, Gone}
<1>1. \A x \in Objects : M[x] = IF x = o THEN row ELSE rows[x]
  OBVIOUS
<1>2. row \notin {Free, Gone}
  BY MetaAssumption
<1>3. ASSUME NEW x \in RowsIn(M)
      PROVE  /\ RefsFit(KindOf(x), M[x].refs) /\ \A p \in M[x].refs : M[p] # Free
             /\ x \in Databases \cup Datasets => M[x].label \in DbNames
  <2>1. \A p \in Objects : rows[p] # Free => M[p] # Free
    BY <1>1, <1>2
  <2>2. M[x].refs \subseteq Objects
    BY <1>1, <1>3 DEF RowsIn, RowTypes
  <2> QED BY <1>1, <1>3, <2>1, <2>2 DEF RowsOK, RowsIn
<1> QED BY <1>1, <1>2, <1>3 DEF RowsOK

LEMMA CommitCreateKeeps ==
  ASSUME MetaInv, NEW r \in Handlers, CommitCreate(r)
  PROVE  MetaInv' /\ OwnersStay
<1>1. PICK q \in Requests : q = pending[r]
  BY DEF MetaInv, MetaTypes
<1>2. q.op = "create" /\ CreateOK(q) /\ RequestOK(q) /\ RowsOK(rows)
  BY <1>1 DEF CommitCreate, MetaInv, MetaTypes, RequestOK
<1>3. PICK row : row = Row(IF q.kind = Databases THEN {} ELSE Populated(q.user, q.owners \ Unnamed),
                           q.user, q.refs, q.name)
  OBVIOUS
<1>4. PICK o \in q.kind :
        /\ rows[o] = Free
        /\ LET M == [rows EXCEPT ![o] = row]
               R == IF q.kind = Charts THEN Flushed(M, {o}) ELSE M
           IN  Commit(r, ~(q.kind = Databases /\ NameTaken(q.name)), R,
                      perms \cup PermsOf(R, {o}), Idle, {})
  BY <1>1, <1>3 DEF CommitCreate
<1>5. PICK M : M = [rows EXCEPT ![o] = row]
  OBVIOUS
<1>6. PICK R : R = IF q.kind = Charts THEN Flushed(M, {o}) ELSE M
  OBVIOUS
<1>7. o \in Objects /\ KindOf(o) = q.kind
  BY <1>2, KindsFacts DEF CreateOK
<1>8. Done(r, R, perms \cup PermsOf(R, {o}), Idle, {}) \/ Undone(r)
  BY <1>4, <1>5, <1>6, CommitIs
<1>9. row \in RowTypes /\ row.refs = q.refs /\ row.label = q.name
  <2>1. q.owners \ Unnamed \subseteq Users
    BY MetaAssumption DEF Requests, OwnersNamed
  <2> QED BY <1>2, <1>3, <2>1 DEF Row, RowTypes, Populated, Requests, CreateOK
<1>10. RefsFit(KindOf(o), row.refs) /\ \A p \in row.refs : rows[p] # Free
  BY <1>2, <1>7, <1>9 DEF CreateOK, RequestOK
<1>11. o \in Databases \cup Datasets => row.label \in DbNames
  BY <1>2, <1>7, <1>9, KindsAre DEF CreateOK
<1>12. /\ RowsOK(M) /\ row \notin {Free, Gone}
       /\ M[o] = row /\ \A x \in Objects \ {o} : M[x] = rows[x]
  <2>1. /\ M \in [Objects -> {Free, Gone} \cup RowTypes]
        /\ M[o] = row /\ \A x \in Objects \ {o} : M[x] = rows[x]
    BY <1>2, <1>5, <1>7, <1>9 DEF RowsOK
  <2> QED BY <1>2, <1>7, <1>9, <1>10, <1>11, <2>1, PutRow
<1>13. RowsOK(R) /\ SameRefs(M, R)
  <2>1. CASE q.kind = Charts
    BY <1>6, <1>7, <1>12, <2>1, FlushedIs DEF RowsIn
  <2>2. CASE q.kind # Charts
    BY <1>6, <1>12, <2>2 DEF SameRefs
  <2> QED BY <2>1, <2>2
<1>14. CASE Undone(r)
  BY <1>1, <1>2, <1>14, UndoneIsFine
<1>15. CASE Done(r, R, perms \cup PermsOf(R, {o}), Idle, {})
  <2>1. pending[r].stale \/ \A p \in M[o].refs \ Datasets : Found(p)
    BY <1>1, <1>2, <1>7, <1>9, <1>12 DEF MetaInv, SeenIsSo, StillValid
  <2>2. o \in Reports => M[o].refs \cap ReportTargets # {}
    BY <1>2, <1>7, <1>9, <1>12, KindsAre DEF CreateOK
  <2>3. "rename" \in excuses \/ o \notin Datasets \/
          /\ \A b \in M[o].refs : NameOf(b, M[o].label)
          /\ \A n : <<n, o>> \in perms => n = M[o].label
    <3> SUFFICES ASSUME "rename" \notin excuses, o \in Datasets
                 PROVE  /\ \A b \in M[o].refs : NameOf(b, M[o].label)
                        /\ \A n : <<n, o>> \in perms => n = M[o].label
      OBVIOUS
    <3>1. q.kind = Datasets
      BY <1>7, KindsAre
    <3>2. \A b \in q.refs : NameOf(b, q.name)
      BY <1>1, <1>2, <3>1 DEF MetaInv, NamesAgree
    <3>3. \A n : <<n, o>> \notin perms
      BY <1>4 DEF MetaInv, MetaTypes
    <3> QED BY <1>7, <1>9, <1>12, <3>2, <3>3
  <2>4. rows[o] # Gone /\ ~Found(o)
    BY <1>4, MetaAssumption DEF Found
  <2>5. /\ \A x \in Objects : x # o => M[x] = rows[x]
        /\ M[o] \notin {Free, Gone} /\ pending[r].op # "remove_permissions"
    BY <1>1, <1>2, <1>7, <1>12
  <2>6. MetaInv'
    BY <1>7, <1>12, <1>13, <1>15, <2>1, <2>2, <2>3, <2>4, <2>5, WriteKeeps
  <2>7. OwnersStay
    <3>1. rows' = R
      BY <1>15 DEF Done
    <3>2. ASSUME NEW x \in Dashboards \cup Reports, Found(x)
          PROVE  R[x].owners = rows[x].owners
      <4>1. x \in Objects /\ x \notin Charts /\ x # o
        BY <2>4, <3>2, KindsAre, MetaAssumption
      <4> QED BY <1>12, <1>13, <3>2, <4>1 DEF SameRefs, Found
    <3> QED BY <3>1, <3>2 DEF OwnersStay
  <2> QED BY <2>6, <2>7
<1> QED BY <1>8, <1>14, <1>15

LEMMA CommitRenameKeeps ==
  ASSUME MetaInv, NEW r \in Handlers, CommitRename(r)
  PROVE  MetaInv' /\ OwnersStay
<1>1. PICK q \in Requests : q = pending[r]
  BY DEF MetaInv, MetaTypes
<1>2. q.op = "update" /\ q.kind = Databases /\ UpdateOK(q) /\ RowsOK(rows)
  BY <1>1 DEF CommitRename, MetaInv, MetaTypes, RequestOK
<1>3. PICK o \in Databases : q.ids = {o} /\ q.name \in DbNames
  <2>1. PICK o \in Objects : q.ids = {o} /\ q.kind = KindOf(o) /\ q.name \in DbNames
    BY <1>2 DEF UpdateOK
  <2>2. o \in Databases
    BY <1>2, <2>1, KindsFacts
  <2> QED BY <2>1, <2>2
<1>4. PICK M : M = [rows EXCEPT ![o].label = q.name]
  OBVIOUS
<1>5. (Found(o) /\ Done(r, M, perms, Idle, {"rename"})) \/ Undone(r)
  <2>1. CASE ~Found(o)
    <3>1. Commit(r, FALSE, rows, perms, Idle, {})
      BY <1>1, <1>3, <2>1 DEF CommitRename
    <3> QED BY <3>1 DEF Commit, Undone
  <2>2. CASE Found(o)
    <3>1. Commit(r, ~NameTaken(q.name), M, perms, Idle, {"rename"})
      BY <1>1, <1>3, <1>4, <2>2 DEF CommitRename
    <3> QED BY <2>2, <3>1, CommitIs
  <2> QED BY <2>1, <2>2
<1>6. CASE Undone(r)
  BY <1>1, <1>2, <1>6, UndoneIsFine
<1>7. CASE Found(o) /\ Done(r, M, perms, Idle, {"rename"})
  <2>0. o \in Objects /\ KindOf(o) = Databases
    BY KindsAre
  <2>1. PICK row \in RowTypes : row = rows[o]
    BY <1>2, <1>7, <2>0 DEF RowsOK, Found
  <2>2. PICK new : new = [row EXCEPT !.label = q.name]
    OBVIOUS
  <2>3. new \in RowTypes /\ new.refs = row.refs /\ new.label = q.name /\ new.owners = row.owners
    BY <1>3, <2>1, <2>2 DEF RowTypes
  <2>4. M = [rows EXCEPT ![o] = new]
    BY <1>4, <2>1, <2>2
  <2>5. RefsFit(KindOf(o), new.refs) /\ \A p \in new.refs : rows[p] # Free
    BY <1>2, <1>7, <2>0, <2>1, <2>3 DEF RowsOK, RowsIn, Found
  <2>6. /\ RowsOK(M) /\ new \notin {Free, Gone}
        /\ M[o] = new /\ \A x \in Objects \ {o} : M[x] = rows[x]
    <3>1. /\ M \in [Objects -> {Free, Gone} \cup RowTypes]
          /\ M[o] = new /\ \A x \in Objects \ {o} : M[x] = rows[x]
      BY <1>2, <2>0, <2>3, <2>4 DEF RowsOK
    <3> QED BY <1>2, <1>3, <2>0, <2>3, <2>5, <3>1, PutRow
  <2>7. Grown(M)
    BY <1>7, <2>6, MetaAssumption DEF Grown, Found
  <2>8. perms \subseteq DbNames \X Datasets /\ \A p \in perms : rows[p[2]] # Free
    BY DEF MetaInv, MetaTypes
  <2>9. \A p \in perms : M[p[2]] # Free
    BY <2>7, <2>8, KindsAre DEF Grown
  <2>10. \A x \in Objects : /\ M[x] \in {Free, Gone} <=> rows[x] \in {Free, Gone}
                            /\ M[x] \notin {Free, Gone} => M[x].refs = rows[x].refs
    BY <1>7, <2>1, <2>3, <2>6 DEF Found
  <2>11. pending[r].stale \/ "race" \in excuses \/ (Resolves(M) /\ TargetsIn(M))
    <3>1. Resolves(rows) => Resolves(M)
      <4>1. KeysIn(M) = KeysIn(rows)
        BY <2>10 DEF KeysIn
      <4>2. ASSUME NEW x \in Objects, NEW p \in KeysIn(rows)[x] PROVE p \in Objects
        BY <1>2, <4>2 DEF KeysIn, RowsOK, RowTypes
      <4> QED BY <2>10, <4>1, <4>2 DEF Resolves
    <3>2. (\A x \in Reports : Found(x) => rows[x].refs \cap ReportTargets # {}) => TargetsIn(M)
      BY <2>10, KindsAre DEF TargetsIn, RowsIn, Found
    <3> QED BY <3>1, <3>2 DEF MetaInv, ReferencesResolve, ReportsHaveTarget
  <2>12. RequestOK(Idle)'
    BY IdleIs DEF RequestOK
  <2>13. \A p \in perms : M[p[2]] = Gone => rows[p[2]] = Gone
    BY <1>7, <2>6, <2>8, KindsAre DEF Found
  <2>14. MetaInv'
    BY <1>1, <1>2, <1>7, <2>6, <2>7, <2>8, <2>9, <2>11, <2>12, <2>13, IdleIs, DoneKeeps
  <2>15. OwnersStay
    BY <1>7, <2>1, <2>3, <2>6, KindsAre DEF OwnersStay, Done
  <2> QED BY <2>14, <2>15
<1> QED BY <1>5, <1>6, <1>7

\* The owners of a dashboard become owners of its charts.
LEMMA ChartOwnersIs ==
  ASSUME NEW M, RowsOK(M), RowsIn(M) = RowsIn(rows), NEW d \in Dashboards, d \in RowsIn(M),
         NEW W, W = WithChartOwners(M, d)
  PROVE  /\ RowsOK(W) /\ RowsIn(W) = RowsIn(M)
         /\ \A x \in Objects \ Charts : W[x] = M[x]
         /\ \A x \in RowsIn(M) : W[x].refs = M[x].refs
<1>1. \A x \in RowsIn(M) : x \in Objects /\ M[x] \in RowTypes /\ M[x] \notin {Free, Gone}
  BY DEF RowsOK, RowsIn
<1>2. PICK shared : shared = M[d].owners
  OBVIOUS
<1>3. shared \subseteq Users
  BY <1>1, <1>2 DEF RowTypes
<1>4. ASSUME NEW x \in Objects
      PROVE  \/ W[x] = M[x]
             \/ /\ x \in Charts /\ x \in RowsIn(M)
                /\ W[x] = [M[x] EXCEPT !.owners = M[x].owners \cup shared]
  <2>1. CASE x \in Charts /\ Found(x) /\ d \in rows[x].refs
    <3>1. x \in RowsIn(M)
      BY <2>1 DEF Found, RowsIn
    <3> QED BY <1>2, <2>1, <3>1 DEF WithChartOwners
  <2>2. CASE ~(x \in Charts /\ Found(x) /\ d \in rows[x].refs)
    BY <2>2 DEF WithChartOwners
  <2> QED BY <2>1, <2>2
<1>5. ASSUME NEW x \in RowsIn(M)
      PROVE  /\ W[x] \in RowTypes /\ W[x].refs = M[x].refs /\ W[x].label = M[x].label
             /\ W[x] \notin {Free, Gone}
  <2>1. PICK m \in RowTypes : m = M[x]
    BY <1>1
  <2>2. W[x] = m \/ W[x] = [m EXCEPT !.owners = m.owners \cup shared]
    BY <1>1, <1>4, <2>1
  <2>3. W[x] \in RowTypes /\ W[x].refs = m.refs /\ W[x].label = m.label
    BY <1>3, <2>2 DEF RowTypes
  <2> QED BY <2>1, <2>3, MetaAssumption
<1>6. RowsIn(W) = RowsIn(M)
  BY <1>1, <1>4, <1>5 DEF RowsIn
<1>7. W \in [Objects -> {Free, Gone} \cup RowTypes]
  <2>1. \A x \in Objects : W[x] \in {Free, Gone} \cup RowTypes
    BY <1>4, <1>5 DEF RowsOK
  <2> QED BY <2>1 DEF WithChartOwners
<1>8. ASSUME NEW x \in RowsIn(W)
      PROVE  /\ RefsFit(KindOf(x), W[x].refs) /\ \A p \in W[x].refs : W[p] # Free
             /\ x \in Databases \cup Datasets => W[x].label \in DbNames
  <2>1. x \in RowsIn(M) /\ W[x].refs = M[x].refs /\ W[x].label = M[x].label
    BY <1>5, <1>6
  <2>2. \A p \in M[x].refs : p \in Objects /\ M[p] # Free
    BY <1>1, <2>1 DEF RowsOK, RowTypes
  <2>3. \A p \in M[x].refs : W[p] # Free
    BY <1>4, <1>5, <2>2
  <2> QED BY <2>1, <2>3 DEF RowsOK
<1> QED BY <1>4, <1>5, <1>6, <1>7, <1>8 DEF RowsOK

\* The owners and references that an update leaves a row with.
LEMMA UpdatedRow ==
  ASSUME MetaInv, NEW r \in Handlers, NEW q \in Requests, q = pending[r], q.op = "update",
         NEW o \in Objects, q.ids = {o}, KindOf(o) = q.kind, q.kind # Databases, Found(o),
         NEW refs, refs = {p \in rows[o].refs : KindOf(p) \notin q.kinds} \cup q.refs
  PROVE  /\ refs \in SUBSET Objects /\ RefsFit(KindOf(o), refs)
         /\ \A p \in refs : rows[p] # Free
         /\ OwnersAfter(q, o) \in SUBSET Users
         /\ o \in Datasets => refs = rows[o].refs
         /\ pending[r].stale \/ "race" \in excuses \/
              /\ \A p \in refs \ Datasets : Found(p)
              /\ o \in Reports => refs \cap ReportTargets # {}
         /\ o \in Dashboards \cup Reports /\ q.owners = Unnamed =>
              rows[o].owners \subseteq OwnersAfter(q, o)
<1>1. UpdateOK(q) /\ RequestOK(q) /\ RowsOK(rows)
  BY DEF MetaInv, MetaTypes, RequestOK
<1>2. rows[o] \in RowTypes /\ o \in RowsIn(rows)
  BY <1>1 DEF RowsOK, Found, RowsIn
<1>3. /\ RefsFit(KindOf(o), rows[o].refs) /\ \A p \in rows[o].refs : rows[p] # Free
      /\ rows[o].refs \subseteq Objects /\ rows[o].owners \subseteq Users
  BY <1>1, <1>2 DEF RowsOK, RowTypes
<1>4. refs \in SUBSET Objects /\ \A p \in refs : rows[p] # Free
  BY <1>1, <1>3 DEF RequestOK, Requests
<1>5. /\ q.kind \in {Datasets, Dashboards} => q.kinds = {} /\ q.refs = {}
      /\ q.kind = Charts => q.refs \subseteq Datasets \cup Dashboards
      /\ q.kind = Reports =>
           /\ q.refs \subseteq ReportTargets \cup Databases
           /\ q.kinds \subseteq {Databases} \/ q.refs \cap ReportTargets # {}
      /\ q.user \in Users
  BY <1>1 DEF UpdateOK
<1>6. q.kind \in {Datasets, Dashboards} => refs = rows[o].refs
  BY <1>5
<1>7. RefsFit(KindOf(o), refs)
  <2>1. CASE q.kind \in {Datasets, Dashboards}
    BY <1>3, <1>6, <2>1
  <2>2. CASE q.kind = Charts
    BY <1>3, <1>5, <2>2, KindsFacts DEF RefsFit
  <2>3. CASE q.kind = Reports
    BY <1>3, <1>5, <2>3, KindsFacts DEF RefsFit
  <2> QED BY <2>1, <2>2, <2>3, KindsFacts DEF Kinds
<1>8. OwnersAfter(q, o) \in SUBSET Users
  BY <1>3, <1>5, MetaAssumption DEF OwnersAfter, Populated, Requests, OwnersNamed
<1>9. ASSUME ~pending[r].stale, "race" \notin excuses
      PROVE  /\ \A p \in refs \ Datasets : Found(p)
             /\ o \in Reports => refs \cap ReportTargets # {}
  <2>1. Resolves(rows) /\ (o \in Reports => rows[o].refs \cap ReportTargets # {})
    BY <1>9 DEF MetaInv, ReferencesResolve, ReportsHaveTarget
  <2>2. \A p \in q.refs : Found(p)
    BY <1>9 DEF MetaInv, SeenIsSo, StillValid
  <2>3. ASSUME NEW p \in rows[o].refs \ Datasets PROVE Found(p)
    <3>1. p \in KeysIn(rows)[o]
      BY <2>3 DEF KeysIn, Found
    <3> QED BY <2>1, <3>1 DEF Resolves, Found
  <2>4. ASSUME o \in Reports PROVE refs \cap ReportTargets # {}
    <3>1. \A p \in ReportTargets : KindOf(p) # Databases
      BY KindsAre, KindsFacts DEF ReportTargets
    <3>2. q.kind = Reports
      BY <2>4, KindsAre
    <3> QED BY <1>5, <2>1, <2>4, <3>1, <3>2
  <2> QED BY <2>2, <2>3, <2>4
<1>10. ASSUME o \in Dashboards \cup Reports, q.owners = Unnamed
       PROVE  rows[o].owners \subseteq OwnersAfter(q, o)
  <2>1. KindOf(o) \in {Dashboards, Reports}
    BY <1>10, KindsAre
  <2> QED BY <1>10, <2>1 DEF OwnersAfter
<1>11. o \in Datasets => refs = rows[o].refs
  BY <1>6, KindsAre
<1> QED BY <1>4, <1>7, <1>8, <1>9, <1>10, <1>11

LEMMA CommitUpdateKeeps ==
  ASSUME MetaInv, NEW r \in Handlers, CommitUpdate(r)
  PROVE  MetaInv' /\ OwnersStay
<1>1. PICK q \in Requests : q = pending[r]
  BY DEF MetaInv, MetaTypes
<1>2. q.op = "update" /\ q.kind # Databases /\ UpdateOK(q) /\ RowsOK(rows)
  BY <1>1 DEF CommitUpdate, MetaInv, MetaTypes, RequestOK
<1>3. PICK o \in Objects : q.ids = {o} /\ KindOf(o) = q.kind
  BY <1>2 DEF UpdateOK
<1>4. CASE ~Found(o)
  <2>1. Commit(r, FALSE, rows, perms, Idle, {})
    BY <1>1, <1>3, <1>4 DEF CommitUpdate
  <2>2. Undone(r)
    BY <2>1 DEF Commit, Undone
  <2> QED BY <1>1, <1>2, <2>2, UndoneIsFine
<1>5. CASE Found(o)
  <2>1. PICK refs : refs = {p \in rows[o].refs : KindOf(p) \notin q.kinds} \cup q.refs
    OBVIOUS
  <2>2. PICK named : named = OwnersAfter(q, o)
    OBVIOUS
  <2>3. /\ refs \in SUBSET Objects /\ RefsFit(KindOf(o), refs)
        /\ \A p \in refs : rows[p] # Free
        /\ named \in SUBSET Users
        /\ o \in Datasets => refs = rows[o].refs
        /\ pending[r].stale \/ "race" \in excuses \/
             /\ \A p \in refs \ Datasets : Found(p)
             /\ o \in Reports => refs \cap ReportTargets # {}
        /\ o \in Dashboards \cup Reports /\ q.owners = Unnamed => rows[o].owners \subseteq named
    BY <1>1, <1>2, <1>3, <1>5, <2>1, <2>2, UpdatedRow
  <2>4. PICK row \in RowTypes : row = rows[o] /\ o \in RowsIn(rows)
    BY <1>2, <1>5 DEF RowsOK, Found, RowsIn
  <2>5. PICK new : new = [row EXCEPT !.owners = named, !.refs = refs]
    OBVIOUS
  <2>6. new \in RowTypes /\ new.refs = refs /\ new.owners = named /\ new.label = row.label
    BY <2>3, <2>4, <2>5 DEF RowTypes
  <2>7. PICK M : M = [rows EXCEPT ![o].owners = named, ![o].refs = refs]
    OBVIOUS
  <2>8. /\ M \in [Objects -> {Free, Gone} \cup RowTypes]
        /\ M[o] = new /\ \A x \in Objects \ {o} : M[x] = rows[x]
    <3>1. M = [rows EXCEPT ![o] = new]
      BY <1>2, <2>4, <2>5, <2>7 DEF RowsOK
    <3> QED BY <1>2, <2>6, <3>1 DEF RowsOK
  <2>9. o \in Databases \cup Datasets => new.label \in DbNames
    BY <1>2, <2>4, <2>6 DEF RowsOK
  <2>10. RowsOK(M) /\ new \notin {Free, Gone}
    BY <1>2, <2>3, <2>6, <2>8, <2>9, PutRow
  <2>11. RowsIn(M) = RowsIn(rows)
    BY <2>4, <2>8, <2>10 DEF RowsIn
  <2>12. PICK W : W = WithChartOwners(M, o)
    OBVIOUS
  <2>13. PICK R : R = IF o \in Dashboards THEN Flushed(W, Referrers(o, Charts))
                      ELSE Flushed(M, {o})
    OBVIOUS
  <2>14. Commit(r, TRUE, R, perms \cup PermsOf(R, {o}), Idle, {})
    BY <1>1, <1>3, <1>5, <2>1, <2>2, <2>7, <2>12, <2>13 DEF CommitUpdate
  <2>15. RowsOK(R) /\ SameRefs(M, R)
    <3>1. CASE o \in Dashboards
      <4>1. /\ RowsOK(W) /\ RowsIn(W) = RowsIn(M)
            /\ \A x \in Objects \ Charts : W[x] = M[x]
            /\ \A x \in RowsIn(M) : W[x].refs = M[x].refs
        BY <2>4, <2>10, <2>11, <2>12, <3>1, ChartOwnersIs
      <4>2. PICK S : S = Referrers(o, Charts)
        OBVIOUS
      <4>3. S \in SUBSET RowsIn(W) /\ S \subseteq Charts
        BY <2>11, <4>1, <4>2, KindsAre DEF Referrers, Found, RowsIn
      <4>4. R = Flushed(W, S)
        BY <2>13, <3>1, <4>2
      <4>5. RowsOK(R) /\ SameRefs(W, R) /\ \A x \in Objects \ S : R[x] = W[x]
        BY <4>1, <4>3, <4>4, FlushedIs
      <4>6. SameRefs(M, R)
        <5> SUFFICES ASSUME NEW x \in Objects
                     PROVE  /\ M[x] \in {Free, Gone} => R[x] = M[x]
                            /\ M[x] \notin {Free, Gone} =>
                                 /\ R[x] \notin {Free, Gone} /\ R[x].refs = M[x].refs
                                 /\ x \notin Charts => R[x].owners = M[x].owners
                                 /\ x \in Databases => R[x].label = M[x].label
                                 /\ x \in Datasets => R[x].label \in {M[x].label, DatasetLabel(M, x)}
          BY DEF SameRefs
        <5>1. CASE x \notin Charts
          BY <4>1, <4>3, <4>5, <5>1
        <5>2. CASE x \in Charts
          <6>1. x \notin Databases \cup Datasets
            BY <5>2, MetaAssumption
          <6>2. W[x] \in {Free, Gone} <=> M[x] \in {Free, Gone}
            BY <4>1 DEF RowsIn
          <6>3. x \in RowsIn(M) => W[x].refs = M[x].refs /\ R[x].refs = W[x].refs
                                   /\ R[x] \notin {Free, Gone}
            BY <4>1, <4>5, <6>2 DEF SameRefs, RowsIn
          <6>4. M[x] \in {Free, Gone} => R[x] = M[x]
            <7>1. ASSUME M[x] \in {Free, Gone} PROVE W[x] = M[x]
              BY <2>11, <2>12, <7>1 DEF WithChartOwners, Found, RowsIn
            <7> QED BY <4>5, <6>2, <7>1 DEF SameRefs
          <6> QED BY <5>2, <6>1, <6>3, <6>4 DEF RowsIn
        <5> QED BY <5>1, <5>2
      <4> QED BY <4>5, <4>6
    <3>2. CASE o \notin Dashboards
      BY <2>4, <2>10, <2>11, <2>13, <3>2, FlushedIs
    <3> QED BY <3>1, <3>2
  <2>16. Done(r, R, perms \cup PermsOf(R, {o}), Idle, {}) \/ Undone(r)
    BY <2>14, CommitIs
  <2>17. CASE Undone(r)
    BY <1>1, <1>2, <2>17, UndoneIsFine
  <2>18. CASE Done(r, R, perms \cup PermsOf(R, {o}), Idle, {})
    <3>1. "rename" \in excuses \/ o \notin Datasets \/
            /\ \A b \in M[o].refs : NameOf(b, M[o].label)
            /\ \A n : <<n, o>> \in perms => n = M[o].label
      <4> SUFFICES ASSUME "rename" \notin excuses, o \in Datasets
                   PROVE  /\ \A b \in M[o].refs : NameOf(b, M[o].label)
                          /\ \A n : <<n, o>> \in perms => n = M[o].label
        OBVIOUS
      <4>1. M[o].refs = row.refs /\ M[o].label = row.label
        BY <2>3, <2>4, <2>6, <2>8
      <4>2. \A b \in row.refs : NameOf(b, row.label)
        BY <1>5, <2>4 DEF MetaInv, NamesAgree
      <4>3. \A n : <<n, o>> \in perms => n = row.label
        BY <1>5, <2>4 DEF MetaInv, NamesAgree
      <4> QED BY <4>1, <4>2, <4>3
    <3>2. /\ \A x \in Objects : x # o => M[x] = rows[x]
          /\ rows[o] # Gone /\ M[o] \notin {Free, Gone}
          /\ pending[r].op # "remove_permissions" /\ M[o].label = rows[o].label
      BY <1>1, <1>2, <1>5, <2>4, <2>6, <2>8, <2>10 DEF Found
    <3>3. \/ pending[r].stale \/ "race" \in excuses
          \/ /\ \A p \in M[o].refs \ Datasets : Found(p)
             /\ o \in Reports => M[o].refs \cap ReportTargets # {}
      BY <2>3, <2>6, <2>8
    <3>4. MetaInv'
      BY <2>10, <2>15, <2>18, <3>1, <3>2, <3>3, WriteKeeps
    <3>5. OwnersStay
      <4>1. rows' = R /\ pending'[r] = Idle
        BY <2>18 DEF Done
      <4>2. ASSUME NEW x \in Dashboards \cup Reports, Found(x), ~(rows[x].owners \subseteq R[x].owners)
            PROVE  x = o /\ q.owners # Unnamed
        <5>1. x \in Objects /\ x \notin Charts
          BY <4>2, KindsAre, MetaAssumption
        <5>2. M[x] \notin {Free, Gone}
          BY <2>8, <2>10, <4>2, <5>1 DEF Found
        <5>3. R[x].owners = M[x].owners
          BY <2>15, <5>1, <5>2 DEF SameRefs
        <5>4. x = o
          BY <2>8, <4>2, <5>1, <5>3
        <5> QED BY <2>3, <2>6, <2>8, <4>2, <5>3, <5>4
      <4> QED BY <1>1, <1>3, <4>1, <4>2 DEF OwnersStay
    <3> QED BY <3>4, <3>5
  <2> QED BY <2>16, <2>17, <2>18
<1> QED BY <1>4, <1>5

-----------------------------------------------------------------------------
(* Deletions *)

\* R is what rows become when those of S are deleted.
Removed(R, S) ==
  /\ R \in [Objects -> {Free, Gone} \cup RowTypes]
  /\ \A x \in Objects :
       /\ x \in S => R[x] = Gone
       /\ x \notin S /\ ~Found(x) => R[x] = rows[x]
       /\ x \notin S /\ Found(x) =>
            /\ R[x] \notin {Free, Gone}
            /\ R[x].label = rows[x].label /\ R[x].owners = rows[x].owners
            /\ R[x].refs \subseteq rows[x].refs
            /\ x \in Datasets => R[x].refs = rows[x].refs
            /\ x \in Charts => R[x].refs \cap S \cap Dashboards = {}
            /\ x \in Reports /\ rows[x].refs \cap S \cap ReportTargets = {} =>
                 R[x].refs = rows[x].refs

LEMMA UnlinkedRemoves ==
  ASSUME RowsOK(rows), NEW S \in SUBSET Objects, NEW U, U = Unlinked(WithoutRows(S), S)
  PROVE  Removed(U, S)
<1>1. PICK W : W = WithoutRows(S)
  OBVIOUS
<1>2. \A x \in Objects : W[x] = IF x \in S THEN Gone ELSE rows[x]
  BY <1>1 DEF WithoutRows
<1>3. PICK L : L = S \cap Dashboards
  OBVIOUS
<1>4. ASSUME NEW x \in Objects
      PROVE  U[x] = IF W[x] \in {Free, Gone} \/ x \notin Charts THEN W[x]
                    ELSE [W[x] EXCEPT !.refs = W[x].refs \ L]
  BY <1>1, <1>3 DEF Unlinked
<1>5. ASSUME NEW x \in Objects, x \notin S, Found(x)
      PROVE  /\ U[x] \in RowTypes /\ U[x] \notin {Free, Gone}
             /\ U[x].label = rows[x].label /\ U[x].owners = rows[x].owners
             /\ U[x].refs = IF x \in Charts THEN rows[x].refs \ L ELSE rows[x].refs
  <2>1. PICK row \in RowTypes : row = rows[x]
    BY <1>5 DEF RowsOK, Found
  <2>2. U[x] = IF x \notin Charts THEN row ELSE [row EXCEPT !.refs = row.refs \ L]
    BY <1>2, <1>4, <1>5, <2>1 DEF Found
  <2>3. PICK new : new = [row EXCEPT !.refs = row.refs \ L]
    OBVIOUS
  <2>4. /\ new \in RowTypes /\ new.label = row.label /\ new.owners = row.owners
        /\ new.refs = row.refs \ L
    BY <2>3 DEF RowTypes
  <2>5. U[x] \in RowTypes
    BY <2>2, <2>3, <2>4
  <2> QED BY <2>1, <2>2, <2>3, <2>4, <2>5, MetaAssumption
<1>6. \A x \in Objects : x \in S => U[x] = Gone
  BY <1>2, <1>4
<1>7. \A x \in Objects : x \notin S /\ ~Found(x) => U[x] = rows[x]
  BY <1>2, <1>4 DEF Found
<1>8. U \in [Objects -> {Free, Gone} \cup RowTypes]
  <2>1. \A x \in Objects : U[x] \in {Free, Gone} \cup RowTypes
    BY <1>5, <1>6, <1>7 DEF Found
  <2> QED BY <2>1 DEF Unlinked
<1>9. Datasets \cap Charts = {} /\ Reports \cap Charts = {}
  BY MetaAssumption
<1> QED BY <1>3, <1>5, <1>6, <1>7, <1>8, <1>9 DEF Removed

LEMMA NullifiedRemoves ==
  ASSUME RowsOK(rows), NEW S \in SUBSET Objects, NEW U, Removed(U, S),
         NEW N, N = Nullified(U, S)
  PROVE  Removed(N, S)
<1>1. PICK L : L = S \cap ReportTargets
  OBVIOUS
<1>2. ASSUME NEW x \in Objects
      PROVE  N[x] = IF U[x] \in {Free, Gone} \/ x \notin Reports THEN U[x]
                    ELSE [U[x] EXCEPT !.refs = U[x].refs \ L]
  BY <1>1 DEF Nullified
<1>3. ASSUME NEW x \in Objects, x \notin S, Found(x)
      PROVE  /\ N[x] \in RowTypes /\ N[x] \notin {Free, Gone}
             /\ N[x].label = rows[x].label /\ N[x].owners = rows[x].owners
             /\ N[x].refs = IF x \in Reports THEN U[x].refs \ L ELSE U[x].refs
  <2>1. PICK row \in RowTypes : row = U[x]
    BY <1>3 DEF Removed, Found
  <2>2. N[x] = IF x \notin Reports THEN row ELSE [row EXCEPT !.refs = row.refs \ L]
    BY <1>2, <1>3, <2>1 DEF Removed
  <2>3. PICK new : new = [row EXCEPT !.refs = row.refs \ L]
    OBVIOUS
  <2>4. /\ new \in RowTypes /\ new.label = row.label /\ new.owners = row.owners
        /\ new.refs = row.refs \ L
    BY <2>3 DEF RowTypes
  <2>5. N[x] \in RowTypes
    BY <2>2, <2>3, <2>4
  <2>6. row.label = rows[x].label /\ row.owners = rows[x].owners
    BY <1>3, <2>1 DEF Removed
  <2> QED BY <2>1, <2>2, <2>3, <2>4, <2>5, <2>6, MetaAssumption
<1>4. \A x \in Objects : x \in S => N[x] = Gone
  BY <1>2 DEF Removed
<1>5. \A x \in Objects : x \notin S /\ ~Found(x) => N[x] = rows[x]
  BY <1>2 DEF Removed, Found
<1>6. N \in [Objects -> {Free, Gone} \cup RowTypes]
  <2>1. \A x \in Objects : N[x] \in {Free, Gone} \cup RowTypes
    BY <1>3, <1>4, <1>5 DEF RowsOK, Found
  <2> QED BY <2>1 DEF Nullified
<1>7. Reports \cap (Datasets \cup Charts) = {}
  BY MetaAssumption
<1>8. ASSUME NEW x \in Objects, x \notin S, Found(x)
      PROVE  /\ N[x].refs \subseteq rows[x].refs
             /\ x \in Datasets => N[x].refs = rows[x].refs
             /\ x \in Charts => N[x].refs \cap S \cap Dashboards = {}
             /\ x \in Reports /\ rows[x].refs \cap S \cap ReportTargets = {} =>
                  N[x].refs = rows[x].refs
  <2>1. /\ U[x].refs \subseteq rows[x].refs
        /\ x \in Datasets => U[x].refs = rows[x].refs
        /\ x \in Charts => U[x].refs \cap S \cap Dashboards = {}
        /\ x \in Reports /\ rows[x].refs \cap S \cap ReportTargets = {} =>
             U[x].refs = rows[x].refs
    BY <1>8 DEF Removed
  <2> QED BY <1>1, <1>3, <1>7, <1>8, <2>1
<1> QED BY <1>3, <1>4, <1>5, <1>6, <1>8 DEF Removed

\* What is deletable leaves no reference behind.
LEMMA RemovedIsSound ==
  ASSUME MetaInv, NEW S \in SUBSET Objects, \A o \in S : rows[o] # Free, NEW R, Removed(R, S)
  PROVE  /\ RowsOK(R) /\ Grown(R) /\ LabelsStay(R) /\ RowsIn(R) = RowsIn(rows) \ S
         /\ "race" \in excuses \/ (\E o \in S : ~Deletable(o)) \/ (Resolves(R) /\ TargetsIn(R))
         /\ "rename" \in excuses \/ NamesIn(R, perms)
         /\ OwnersStay \/ rows' # R
<1>1. RowsOK(rows)
  BY DEF MetaInv, MetaTypes
<1>2. RowsIn(R) = RowsIn(rows) \ S
  BY <1>1 DEF Removed, RowsIn, Found
<1>3. Grown(R)
  BY MetaAssumption DEF Removed, Grown, Found
<1>4. ASSUME NEW o \in RowsIn(R)
      PROVE  /\ o \in Objects /\ o \notin S /\ Found(o) /\ o \in RowsIn(rows)
             /\ R[o].label = rows[o].label /\ R[o].owners = rows[o].owners
             /\ R[o].refs \subseteq rows[o].refs
             /\ o \in Datasets => R[o].refs = rows[o].refs
             /\ o \in Charts => R[o].refs \cap S \cap Dashboards = {}
             /\ o \in Reports /\ rows[o].refs \cap S \cap ReportTargets = {} =>
                  R[o].refs = rows[o].refs
  <2>1. o \in Objects /\ o \notin S /\ Found(o) /\ o \in RowsIn(rows)
    BY <1>2, <1>4 DEF RowsIn, Found
  <2> QED BY <2>1 DEF Removed
<1>5. ASSUME NEW o \in RowsIn(rows)
      PROVE  rows[o].refs \subseteq Objects /\ RefsFit(KindOf(o), rows[o].refs)
  BY <1>1 DEF RowsOK, RowsIn, RowTypes
<1>6. RowsOK(R)
  <2>1. ASSUME NEW o \in RowsIn(R)
        PROVE  /\ RefsFit(KindOf(o), R[o].refs) /\ \A p \in R[o].refs : R[p] # Free
               /\ o \in Databases \cup Datasets => R[o].label \in DbNames
    <3>1. RefsFit(KindOf(o), R[o].refs)
      BY <1>4, <1>5, KindsFacts DEF RefsFit
    <3>2. \A p \in R[o].refs : p \in Objects /\ rows[p] # Free
      BY <1>1, <1>4, <1>5 DEF RowsOK
    <3> QED BY <1>1, <1>3, <1>4, <3>1, <3>2 DEF RowsOK, Grown
  <2> QED BY <2>1 DEF RowsOK, Removed
<1>7. LabelsStay(R)
  BY <1>4 DEF LabelsStay
<1>8. ASSUME "race" \notin excuses, \A o \in S : Deletable(o)
      PROVE  Resolves(R) /\ TargetsIn(R)
  <2>1. Resolves(rows) /\ \A o \in Reports : Found(o) => rows[o].refs \cap ReportTargets # {}
    BY <1>8 DEF MetaInv, ReferencesResolve, ReportsHaveTarget
  <2>2. ASSUME NEW o \in Reports, o \in RowsIn(R), NEW p \in rows[o].refs
        PROVE  p \notin S
    <3>1. o \in ReportsOn(p)
      BY <1>4, <2>2 DEF ReportsOn, Referrers
    <3>2. p \in Databases \cup ReportTargets
      BY <1>4, <1>5, <2>2, KindsAre DEF RefsFit
    <3> QED BY <1>8, <3>1, <3>2 DEF Deletable
  <2>3. ASSUME NEW o \in RowsIn(R), NEW p \in R[o].refs \ Datasets PROVE p \in RowsIn(R)
    <3>1. p \in rows[o].refs \ Datasets /\ p \in Objects
      BY <1>4, <1>5, <2>3
    <3>2. p \in KeysIn(rows)[o]
      BY <1>4, <3>1 DEF KeysIn, Found
    <3>3. p \in RowsIn(rows)
      BY <1>4, <2>1, <3>1, <3>2 DEF Resolves, RowsIn
    <3>4. p \notin S
      <4>1. CASE o \in Databases \cup Dashboards
        BY <1>4, <1>5, <3>1, <4>1, KindsAre DEF RefsFit
      <4>2. CASE o \in Datasets
        <5>1. p \in Databases
          BY <1>4, <1>5, <3>1, <4>2, KindsAre DEF RefsFit
        <5>2. o \in DatasetsIn(p)
          BY <1>4, <3>1, <4>2 DEF DatasetsIn, Referrers
        <5> QED BY <1>8, <5>1, <5>2 DEF Deletable
      <4>3. CASE o \in Charts
        <5>1. p \in Dashboards
          BY <1>4, <1>5, <3>1, <4>3, KindsAre DEF RefsFit
        <5> QED BY <1>4, <2>3, <4>3, <5>1
      <4>4. CASE o \in Reports
        BY <2>2, <2>3, <3>1, <4>4
      <4> QED BY <1>4, <4>1, <4>2, <4>3, <4>4, KindsAre
    <3> QED BY <1>2, <3>3, <3>4
  <2>4. Resolves(R)
    BY <2>3 DEF Resolves, KeysIn, RowsIn
  <2>5. TargetsIn(R)
    BY <1>4, <2>1, <2>2 DEF TargetsIn
  <2> QED BY <2>4, <2>5
<1>9. ASSUME "rename" \notin excuses PROVE NamesIn(R, perms)
  <2> SUFFICES ASSUME NEW o \in Datasets, o \in RowsIn(R)
               PROVE  /\ \A b \in R[o].refs : b \in RowsIn(R) => R[b].label = R[o].label
                      /\ \A n : <<n, o>> \in perms => n = R[o].label
    BY DEF NamesIn
  <2>1. /\ \A b \in rows[o].refs : NameOf(b, rows[o].label)
        /\ \A n : <<n, o>> \in perms => n = rows[o].label
    BY <1>4, <1>9 DEF MetaInv, NamesAgree
  <2> QED BY <1>4, <2>1 DEF NameOf
<1>10. OwnersStay \/ rows' # R
  <2> SUFFICES ASSUME rows' = R, NEW o \in Dashboards \cup Reports, Found(o)'
               PROVE  rows'[o].owners = rows[o].owners
    BY DEF OwnersStay
  <2>1. o \in RowsIn(R)
    BY KindsAre DEF RowsIn, Found
  <2> QED BY <1>4, <2>1
<1> QED BY <1>2, <1>3, <1>6, <1>7, <1>8, <1>9, <1>10

\* The permission that a deletion looks up is the one the dataset has.
LEMMA DatasetNamed ==
  ASSUME MetaInv, NEW o \in Datasets, Found(o)
  PROVE  /\ \E b \in Databases : rows[o].refs = {b} /\ rows[b] # Free
         /\ DatasetLabel(rows, o) \in DbNames
         /\ "rename" \in excuses \/
              /\ DatasetLabel(rows, o) = rows[o].label
              /\ \A n : <<n, o>> \in perms => n = rows[o].label
              /\ \A b \in rows[o].refs : NameOf(b, rows[o].label)
<1>1. o \in RowsIn(rows) /\ RowsOK(rows)
  BY KindsAre DEF MetaInv, MetaTypes, RowsIn, Found
<1>2. PICK b \in Databases : rows[o].refs = {b}
  BY <1>1, KindsAre DEF RowsOK, RefsFit
<1>3. rows[b] # Free
  BY <1>1, <1>2 DEF RowsOK
<1>4. rows[o].label \in DbNames /\ (Found(b) => rows[b].label \in DbNames)
  BY <1>1, KindsAre DEF RowsOK, RowsIn, Found
<1>5. DatasetLabel(rows, o) = IF Found(b) THEN rows[b].label ELSE rows[o].label
  BY <1>2, DatasetLabelIs DEF Found
<1>6. "rename" \in excuses \/
        /\ \A n : <<n, o>> \in perms => n = rows[o].label
        /\ \A x \in rows[o].refs : NameOf(x, rows[o].label)
  BY DEF MetaInv, NamesAgree
<1>7. "rename" \in excuses \/ DatasetLabel(rows, o) = rows[o].label
  BY <1>2, <1>5, <1>6 DEF NameOf
<1> QED BY <1>2, <1>3, <1>4, <1>5, <1>6, <1>7

\* Of a deletion that was not overtaken every row is deletable.
LEMMA NotOvertaken ==
  ASSUME MetaInv, NEW r \in Handlers, pending[r].op \in {"delete", "bulk_delete"}
  PROVE  /\ pending[r].ids \in SUBSET Objects /\ \A o \in pending[r].ids : rows[o] # Free
         /\ pending[r].stale \/ \A o \in pending[r].ids : Deletable(o)
<1>1. pending[r] \in Requests /\ RequestOK(pending[r])
  BY DEF MetaInv, MetaTypes
<1>2. pending[r].ids \in SUBSET Objects
  BY <1>1 DEF Requests
<1> QED BY <1>1, <1>2 DEF MetaInv, SeenIsSo, StillValid, RequestOK

LEMMA CommitDeleteKeeps ==
  ASSUME MetaInv, NEW r \in Handlers, CommitDelete(r)
  PROVE  MetaInv' /\ OwnersStay
<1>1. pending[r].op = "delete"
  BY DEF CommitDelete
<1>2. PICK ids \in SUBSET Objects : ids = pending[r].ids
  BY <1>1, NotOvertaken
<1>3. PICK with : with = Cascaded(ids)
  OBVIOUS
<1>4. PICK S : S = ids \cup with
  OBVIOUS
<1>5. PICK more : more = IF with = {} THEN {} ELSE {"cascade"}
  OBVIOUS
<1>6. /\ S \in SUBSET Objects /\ \A o \in S : rows[o] # Free
      /\ pending[r].stale \/ (with = {} /\ S = ids /\ \A o \in S : Deletable(o))
  <2>1. /\ \A o \in ids : rows[o] # Free
        /\ pending[r].stale \/ \A o \in ids : Deletable(o)
    BY <1>1, <1>2, NotOvertaken
  <2>2. \A t \in with : t \in Objects /\ Found(t)
    BY <1>3, KindsAre DEF Cascaded
  <2>3. ASSUME NEW t \in with PROVE \E o \in ids : ~Deletable(o)
    <3>1. t \in Datasets /\ Found(t) /\ rows[t].refs \cap ids # {}
      BY <1>3 DEF Cascaded
    <3>2. PICK b \in Databases : rows[t].refs = {b}
      BY <3>1, DatasetNamed
    <3>3. b \in ids /\ t \in DatasetsIn(b)
      BY <3>1, <3>2 DEF DatasetsIn, Referrers
    <3> QED BY <3>3 DEF Deletable
  <2> QED BY <1>4, <2>1, <2>2, <2>3 DEF Found
<1>7. PICK R : R = Nullified(Unlinked(WithoutRows(S), S), S)
  OBVIOUS
<1>8. PICK P : P = perms \ PermissionsNamed(ids)
  OBVIOUS
<1>9. Done(r, R, P, Idle, more) \/ Undone(r)
  <2>1. Commit(r, TRUE, R, P, Idle, more)
    BY <1>2, <1>3, <1>4, <1>5, <1>7, <1>8 DEF CommitDelete
  <2> QED BY <2>1, CommitIs
<1>10. CASE Undone(r)
  BY <1>1, <1>10, UndoneIsFine
<1>11. CASE Done(r, R, P, Idle, more)
  <2>1. RowsOK(rows)
    BY DEF MetaInv, MetaTypes
  <2>2. Removed(R, S)
    BY <1>6, <1>7, <2>1, UnlinkedRemoves, NullifiedRemoves
  <2>3. /\ RowsOK(R) /\ Grown(R) /\ LabelsStay(R) /\ RowsIn(R) = RowsIn(rows) \ S
        /\ "race" \in excuses \/ (\E o \in S : ~Deletable(o)) \/ (Resolves(R) /\ TargetsIn(R))
        /\ "rename" \in excuses \/ NamesIn(R, perms)
        /\ OwnersStay \/ rows' # R
    BY <1>6, <2>2, RemovedIsSound
  <2>4. P \subseteq perms /\ perms \subseteq DbNames \X Datasets
    BY <1>8 DEF MetaInv, MetaTypes
  <2>5. ASSUME NEW p \in P PROVE p[2] \in Objects /\ rows[p[2]] # Free /\ R[p[2]] # Free
    <3>1. p[2] \in Objects /\ rows[p[2]] # Free
      BY <2>4, KindsAre DEF MetaInv, MetaTypes
    <3> QED BY <2>3, <3>1 DEF Grown
  <2>6. "rename" \in excuses \/ NamesIn(R, P)
    BY <2>3, <2>4 DEF NamesIn
  <2>7. ASSUME NEW p \in P, R[p[2]] = Gone, "rename" \notin excuses, "cascade" \notin more
        PROVE  rows[p[2]] = Gone
    <3> SUFFICES ASSUME rows[p[2]] # Gone PROVE FALSE
      OBVIOUS
    <3>1. Found(p[2]) /\ p[2] \in Datasets /\ p = <<p[1], p[2]>>
      BY <2>4, <2>5 DEF Found
    <3>2. p[2] \in ids
      BY <1>4, <1>5, <2>2, <2>5, <2>7, <3>1 DEF Removed
    <3>3. p = <<DatasetLabel(rows, p[2]), p[2]>>
      BY <2>4, <2>7, <3>1, DatasetNamed
    <3>4. p \in PermissionsNamed(ids)
      BY <3>1, <3>2, <3>3 DEF PermissionsNamed
    <3> QED BY <1>8, <3>4
  <2>8. RequestOK(Idle)'
    BY IdleIs DEF RequestOK
  <2>9. MetaInv'
    <3>1. P \subseteq DbNames \X Datasets /\ \A p \in P : R[p[2]] # Free
      BY <2>4, <2>5
    <3>2. pending[r].stale \/ "race" \in excuses \/ (Resolves(R) /\ TargetsIn(R))
      BY <1>6, <2>3
    <3>3. more \subseteq {"rename", "cascade"} /\ \A p \in P : p \in perms
      BY <1>5, <2>4
    <3>4. "rename" \in more \cup excuses \/ (LabelsStay(R) /\ NamesIn(R, P))
      BY <2>3, <2>6
    <3>5. \A p \in P : R[p[2]] = Gone =>
            \/ "rename" \in more \cup excuses \/ "cascade" \in more \/ rows[p[2]] = Gone
            \/ Idle.op = "remove_permissions" /\ p[2] \in Idle.ids
      BY <2>7
    <3>6. pending[r].op # "remove_permissions"
      BY <1>1
    <3> QED BY <1>11, <2>3, <2>8, <3>1, <3>2, <3>3, <3>4, <3>5, <3>6, IdleIs, DoneKeeps
  <2>10. OwnersStay
    BY <1>11, <2>3 DEF Done
  <2> QED BY <2>9, <2>10
<1> QED BY <1>9, <1>10, <1>11

LEMMA CommitBulkDeleteKeeps ==
  ASSUME MetaInv, NEW r \in Handlers, CommitBulkDelete(r)
  PROVE  MetaInv' /\ OwnersStay
<1>1. pending[r].op = "bulk_delete"
  BY DEF CommitBulkDelete
<1>2. PICK q \in Requests : q = pending[r]
  BY DEF MetaInv, MetaTypes
<1>3. RequestOK(q) /\ BulkOK(q) /\ RowsOK(rows) /\ q.op = "bulk_delete"
  BY <1>1, <1>2 DEF MetaInv, MetaTypes, RequestOK
<1>4. /\ q.ids \in SUBSET Objects /\ \A o \in q.ids : rows[o] # Free
      /\ q.stale \/ \A o \in q.ids : Deletable(o)
  BY <1>1, <1>2, NotOvertaken
<1>5. PICK S : S = {o \in q.ids : Found(o)}
  OBVIOUS
<1>6. PICK R : R = Unlinked(WithoutRows(q.ids), q.ids)
  OBVIOUS
<1>7. PICK P : P = perms \cup PermissionsNamed(S)
  OBVIOUS
<1>8. PICK bases : bases = BasesOf(S)
  OBVIOUS
<1>9. PICK next : next = IF S \cap Datasets = {} THEN Idle
                         ELSE [q EXCEPT !.op = "remove_permissions", !.ids = S,
                                        !.stale = FALSE, !.bases = bases]
  OBVIOUS
<1>10. Done(r, R, P, next, {}) \/ Undone(r)
  <2>1. Commit(r, TRUE, R, P, next, {})
    BY <1>2, <1>5, <1>6, <1>7, <1>8, <1>9 DEF CommitBulkDelete
  <2> QED BY <2>1, CommitIs
<1>11. CASE Undone(r)
  BY <1>1, <1>11, UndoneIsFine
<1>12. CASE Done(r, R, P, next, {})
  <2>1. Removed(R, q.ids)
    BY <1>3, <1>4, <1>6, UnlinkedRemoves
  <2>2. /\ RowsOK(R) /\ Grown(R) /\ LabelsStay(R) /\ RowsIn(R) = RowsIn(rows) \ q.ids
        /\ "race" \in excuses \/ (\E o \in q.ids : ~Deletable(o)) \/ (Resolves(R) /\ TargetsIn(R))
        /\ "rename" \in excuses \/ NamesIn(R, perms)
        /\ OwnersStay \/ rows' # R
    BY <1>4, <2>1, RemovedIsSound
  <2>3. ASSUME NEW p \in PermissionsNamed(S)
        PROVE  /\ p \in DbNames \X Datasets /\ p[2] \in S /\ p[2] \in Datasets
               /\ p[1] = DatasetLabel(rows, p[2])
    BY <1>5, <2>3, DatasetNamed DEF PermissionsNamed
  <2>4. P \subseteq DbNames \X Datasets
    BY <1>7, <2>3 DEF MetaInv, MetaTypes
  <2>5. ASSUME NEW p \in P PROVE p[2] \in Objects /\ rows[p[2]] # Free /\ R[p[2]] # Free
    <3>1. p[2] \in Objects /\ rows[p[2]] # Free
      BY <1>5, <1>7, <2>3, <2>4, KindsAre DEF MetaInv, MetaTypes, Found
    <3> QED BY <2>2, <3>1 DEF Grown
  <2>6. "rename" \in excuses \/ NamesIn(R, P)
    <3>1. ASSUME NEW o \in Datasets, o \in RowsIn(R), NEW n, <<n, o>> \in P
          PROVE  <<n, o>> \in perms
      BY <1>5, <1>7, <2>2, <2>3, <3>1
    <3> QED BY <2>2, <3>1 DEF NamesIn
  <2>7. \A p \in P : rows[p[2]] = Gone => p \in perms
    BY <1>5, <1>7, <2>3 DEF Found
  <2>8. /\ S \cap Datasets = {} \/ S \subseteq Datasets
        /\ S \subseteq q.ids
    <3>1. PICK K \in {Datasets, Charts, Dashboards, Reports} : q.ids \subseteq K
      BY <1>3 DEF BulkOK
    <3>2. K = Datasets \/ K \cap Datasets = {}
      BY MetaAssumption
    <3> QED BY <1>5, <3>1, <3>2
  <2>9. ASSUME NEW p \in P, R[p[2]] = Gone
        PROVE  rows[p[2]] = Gone \/ (next.op = "remove_permissions" /\ p[2] \in next.ids)
    <3> SUFFICES ASSUME rows[p[2]] # Gone
                 PROVE  next.op = "remove_permissions" /\ p[2] \in next.ids
      OBVIOUS
    <3>1. p[2] \in S /\ p[2] \in Datasets
      BY <1>5, <2>1, <2>4, <2>5, <2>9 DEF Removed, Found
    <3> QED BY <1>9, <3>1 DEF Requests
  <2>10. ASSUME S \subseteq Datasets, S # {}
         PROVE  /\ bases \in SUBSET (Datasets \X Databases)
                /\ {x[1] : x \in bases} = S
                /\ \A x \in bases : Found(x[1]) /\ x[1] \in S /\ rows[x[2]] # Free
                                      /\ x[2] \in rows[x[1]].refs
    <3>1. bases = {x \in S \X Databases : x[2] \in rows[x[1]].refs}
      BY <1>8 DEF BasesOf
    <3>2. \A o \in S : Found(o) /\ o \in Datasets
      BY <1>5, <2>10
    <3>3. ASSUME NEW o \in S PROVE \E x \in bases : o = x[1]
      <4>1. PICK b \in Databases : rows[o].refs = {b}
        BY <3>2, DatasetNamed
      <4>2. <<o, b>> \in bases
        BY <3>1, <4>1
      <4> QED BY <4>2
    <3>4. \A x \in bases : x[1] \in S /\ x[2] \in rows[x[1]].refs
      BY <3>1
    <3>5. ASSUME NEW x \in bases PROVE rows[x[2]] # Free
      <4>1. PICK b \in Databases : rows[x[1]].refs = {b} /\ rows[b] # Free
        BY <3>2, <3>4, DatasetNamed
      <4> QED BY <3>4, <4>1
    <3>6. bases \in SUBSET (Datasets \X Databases)
      BY <2>10, <3>1
    <3>7. {x[1] : x \in bases} = S
      BY <3>3, <3>4
    <3> QED BY <3>2, <3>4, <3>5, <3>6, <3>7
  <2>11. /\ next \in Requests /\ next.op \in {"idle", "remove_permissions"}
         /\ next = Idle \/ (/\ next.op = "remove_permissions" /\ next.ids = S /\ next.bases = bases
                            /\ next.refs = q.refs /\ S \subseteq Datasets /\ S # {})
    <3>1. CASE S \cap Datasets = {}
      BY <1>9, <3>1, IdleIs
    <3>2. CASE S \cap Datasets # {}
      <4>1. S \subseteq Datasets /\ S # {} /\ bases \in SUBSET (Datasets \X Databases)
            /\ S \in SUBSET Objects
        BY <1>4, <2>8, <2>10, <3>2
      <4>2. next \in Requests
        BY <1>9, <3>2, <4>1 DEF Requests, Ops
      <4>3. /\ next.op = "remove_permissions" /\ next.ids = S /\ next.bases = bases
            /\ next.refs = q.refs
        BY <1>9, <3>2 DEF Requests
      <4> QED BY <4>1, <4>2, <4>3
    <3> QED BY <3>1, <3>2
  <2>12. RequestOK(next)'
    <3>1. CASE next = Idle
      BY <3>1, IdleIs DEF RequestOK
    <3>2. CASE next # Idle
      <4>1. rows' = R
        BY <1>12 DEF Done
      <4>2. \A o \in q.refs \cup S : o \in Objects /\ R[o] # Free
        BY <1>3, <1>4, <2>2, <2>8 DEF RequestOK, Requests, Grown
      <4>3. \A o \in S : R[o] = Gone
        BY <1>4, <2>1, <2>8 DEF Removed
      <4>4. \A x \in bases : R[x[2]] # Free
        BY <2>2, <2>10, <2>11, <3>2, KindsAre DEF Grown
      <4>5. RemovalOK(next)'
        BY <2>10, <2>11, <3>2, <4>1, <4>3, <4>4 DEF RemovalOK
      <4> QED BY <2>11, <3>2, <4>1, <4>2, <4>5 DEF RequestOK
    <3> QED BY <3>1, <3>2
  <2>13. ASSUME "rename" \notin excuses, next.op # "idle", NEW x \in next.bases,
                NEW n \in DbNames, <<n, x[1]>> \in P, x[2] \in RowsIn(R)
         PROVE  R[x[2]].label = n
    <3>1. next # Idle /\ x \in bases
      BY <2>11, <2>13, IdleIs
    <3>2. Found(x[1]) /\ x[1] \in Datasets /\ x[2] \in Databases /\ x[2] \in rows[x[1]].refs
      BY <2>10, <2>11, <3>1
    <3>3. n = rows[x[1]].label /\ NameOf(x[2], rows[x[1]].label)
      BY <1>7, <2>3, <2>13, <3>2, DatasetNamed
    <3>4. Found(x[2])
      BY <2>2, <2>13 DEF RowsIn, Found
    <3> QED BY <2>2, <2>13, <3>2, <3>3, <3>4 DEF NameOf, LabelsStay
  <2>14. MetaInv'
    <3>1. \A p \in P : R[p[2]] # Free
      BY <2>5
    <3>2. pending[r].stale \/ "race" \in excuses \/ (Resolves(R) /\ TargetsIn(R))
      BY <1>2, <1>4, <2>2
    <3>3. "rename" \in excuses \/ (LabelsStay(R) /\ NamesIn(R, P))
      BY <2>2, <2>6
    <3>4. "rename" \in excuses \/ next.op = "idle" \/
            \A x \in next.bases, n \in DbNames :
              <<n, x[1]>> \in P /\ x[2] \in RowsIn(R) => R[x[2]].label = n
      BY <2>13
    <3> QED BY <1>1, <1>12, <2>2, <2>4, <2>7, <2>9, <2>11, <2>12, <3>1, <3>2, <3>3, <3>4, IdleIs,
           DoneKeeps
  <2>15. OwnersStay
    BY <1>12, <2>2 DEF Done
  <2> QED BY <2>14, <2>15
<1> QED BY <1>10, <1>11, <1>12

-----------------------------------------------------------------------------
(* The second commit of a bulk delete of datasets *)

\* What both of its outcomes leave alone.
LEMMA SettledKeeps ==
  ASSUME MetaInv, NEW r \in Handlers, pending[r].op = "remove_permissions",
         pending' = [pending EXCEPT ![r] = Idle], UNCHANGED <<rows, enforced, served>>,
         perms' \subseteq perms, excuses' \in {excuses, excuses \cup {"failure"}}
  PROVE  /\ MetaTypes' /\ SeenIsSo' /\ NamesAgree' /\ ReferencesResolve' /\ ReportsHaveTarget'
         /\ OwnersStay
<1>1. /\ pending' \in [Handlers -> Requests]
      /\ \A q \in Handlers : pending'[q] = IF q = r THEN Idle ELSE pending[q]
  BY IdleIs DEF MetaInv, MetaTypes
<1>2. MetaTypes'
  <2>1. Grown(rows')
    BY DEF Grown
  <2>2. ASSUME NEW q \in Handlers, NEW x, x = pending'[q], x # Idle PROVE RequestOK(x)'
    BY <1>1, <2>1, <2>2, RequestStays DEF MetaInv, MetaTypes
  <2>3. RequestOK(Idle)'
    BY IdleIs DEF RequestOK
  <2>4. \A q \in Handlers : RequestOK(pending[q])'
    BY <2>2, <2>3 DEF RequestOK, RemovalOK
  <2>5. \A q \in Handlers : pending'[q].op = "idle" => pending'[q] = Idle
    BY <1>1 DEF MetaInv, MetaTypes
  <2> QED BY <1>1, <2>4, <2>5 DEF MetaInv, MetaTypes, Excuses, RowsOK, RowsIn
<1>3. SeenIsSo'
  <2>1. StillValid(Idle)'
    BY IdleIs DEF StillValid
  <2> QED BY <1>1, <2>1 DEF MetaInv, SeenIsSo, StillValid, Deletable, Found, ReportsOn,
                            DatasetsIn, Referrers
<1>4. NamesAgree'
  BY <1>1, IdleIs DEF MetaInv, NamesAgree, NameOf, Found
<1>5. ReferencesResolve' /\ ReportsHaveTarget'
  BY DEF MetaInv, ReferencesResolve, ReportsHaveTarget, Resolves, KeysIn, Found
<1>6. OwnersStay
  BY DEF OwnersStay
<1> QED BY <1>2, <1>3, <1>4, <1>5, <1>6

LEMMA RemovePermissionsKeeps ==
  ASSUME MetaInv, NEW r \in Handlers, RemovePermissions(r)
  PROVE  MetaInv' /\ OwnersStay
<1>1. PICK q \in Requests : q = pending[r]
  BY DEF MetaInv, MetaTypes
<1>2. /\ q.op = "remove_permissions" /\ \A x \in q.bases : Found(x[2])
      /\ perms' = perms \ {<<rows[x[2]].label, x[1]>> : x \in q.bases}
      /\ pending' = [pending EXCEPT ![r] = Idle] /\ UNCHANGED <<rows, enforced, served, excuses>>
  BY <1>1 DEF RemovePermissions
<1>3. RemovalOK(q)
  BY <1>1, <1>2 DEF MetaInv, MetaTypes, RequestOK
<1>4. /\ MetaTypes' /\ SeenIsSo' /\ NamesAgree' /\ ReferencesResolve' /\ ReportsHaveTarget'
      /\ OwnersStay
  BY <1>1, <1>2, SettledKeeps
<1>5. PermissionsAreRemoved'
  <2> SUFFICES ASSUME excuses \cap {"rename", "failure", "cascade"} = {}, NEW p \in perms',
                      rows[p[2]] = Gone
               PROVE  \E h \in Handlers : pending'[h].op = "remove_permissions"
                                           /\ p[2] \in pending'[h].ids
    BY <1>2 DEF PermissionsAreRemoved
  <2>1. p \in perms
    BY <1>2
  <2>2. PICK h \in Handlers : pending[h].op = "remove_permissions" /\ p[2] \in pending[h].ids
    BY <2>1 DEF MetaInv, PermissionsAreRemoved
  <2>3. CASE h # r
    BY <1>2, <2>2, <2>3
  <2>4. CASE h = r
    <3>1. PICK x \in q.bases : x[1] = p[2]
      BY <1>1, <1>3, <2>2, <2>4 DEF RemovalOK
    <3>2. p = <<p[1], p[2]>> /\ p[1] \in DbNames
      BY <2>1 DEF MetaInv, MetaTypes
    <3>3. NameOf(x[2], p[1])
      BY <1>1, <1>2, <2>1, <3>1, <3>2 DEF MetaInv, NamesAgree
    <3>4. p = <<rows[x[2]].label, x[1]>>
      BY <1>2, <3>1, <3>2, <3>3 DEF NameOf
    <3> QED BY <1>2, <3>4
  <2> QED BY <2>3, <2>4
<1> QED BY <1>4, <1>5 DEF MetaInv

LEMMA PermissionsRemainKeeps ==
  ASSUME MetaInv, NEW r \in Handlers, PermissionsRemain(r)
  PROVE  MetaInv' /\ OwnersStay
<1>1. /\ pending[r].op = "remove_permissions" /\ pending' = [pending EXCEPT ![r] = Idle]
      /\ excuses' = excuses \cup {"failure"} /\ UNCHANGED <<rows, perms, enforced, served>>
  BY DEF PermissionsRemain
<1>2. /\ MetaTypes' /\ SeenIsSo' /\ NamesAgree' /\ ReferencesResolve' /\ ReportsHaveTarget'
      /\ OwnersStay
  BY <1>1, SettledKeeps
<1>3. PermissionsAreRemoved'
  BY <1>1 DEF PermissionsAreRemoved
<1> QED BY <1>2, <1>3 DEF MetaInv

-----------------------------------------------------------------------------
(* The theorems about the commands *)

LEMMA MetaStepKeeps == MetaInv /\ [MetaNext]_metaVars => MetaInv' /\ OwnersStay
<1> SUFFICES ASSUME MetaInv, [MetaNext]_metaVars PROVE MetaInv' /\ OwnersStay
  OBVIOUS
<1>1. CASE UNCHANGED metaVars
  <2>1. UNCHANGED <<rows, perms, enforced, pending, served, excuses>>
    BY <1>1 DEF metaVars
  <2>2. MetaTypes'
    BY <2>1 DEF MetaInv, MetaTypes, RowsOK, RowsIn, RequestOK, RemovalOK
  <2>3. SeenIsSo'
    BY <2>1 DEF MetaInv, SeenIsSo, StillValid, Deletable, Found, ReportsOn, DatasetsIn, Referrers
  <2>4. NamesAgree'
    BY <2>1 DEF MetaInv, NamesAgree, NameOf, Found
  <2>5. ReferencesResolve' /\ ReportsHaveTarget' /\ PermissionsAreRemoved'
    BY <2>1 DEF MetaInv, ReferencesResolve, ReportsHaveTarget, PermissionsAreRemoved, Resolves,
                KeysIn, Found
  <2>6. OwnersStay
    BY <2>1 DEF OwnersStay
  <2> QED BY <2>2, <2>3, <2>4, <2>5, <2>6 DEF MetaInv
<1>2. ASSUME NEW r \in Handlers, Validate(r) PROVE MetaInv' /\ OwnersStay
  BY <1>2, ValidateKeeps DEF OwnersStay
<1>3. ASSUME NEW r \in Handlers,
             \/ CommitCreate(r) \/ CommitUpdate(r) \/ CommitRename(r)
             \/ CommitDelete(r) \/ CommitBulkDelete(r)
             \/ RemovePermissions(r) \/ PermissionsRemain(r)
      PROVE  MetaInv' /\ OwnersStay
  BY <1>3, CommitCreateKeeps, CommitUpdateKeeps, CommitRenameKeeps, CommitDeleteKeeps,
     CommitBulkDeleteKeeps, RemovePermissionsKeeps, PermissionsRemainKeeps
<1> QED BY <1>1, <1>2, <1>3 DEF MetaNext

LEMMA MetaInvHolds == MetaSpec => []MetaInv
<1>1. MetaInv /\ [MetaNext]_metaVars => MetaInv'
  BY MetaStepKeeps
<1> QED BY <1>1, MetaInitHolds, PTL DEF MetaSpec

\* Rows keep to the types of their columns, and every request to what its command
\* validated, whatever requests run side by side.
THEOREM MetaTypeCorrect == MetaSpec => []MetaTypeOK
<1>1. MetaInv => MetaTypeOK
  <2> SUFFICES ASSUME MetaInv PROVE MetaTypeOK
    OBVIOUS
  <2>1. \A o \in Objects : Found(o) => rows[o] \in RowTypes
    BY DEF MetaInv, MetaTypes, RowsOK, Found
  <2>2. /\ perms \subseteq DbNames \X Datasets /\ enforced \in BOOLEAN
        /\ served \in 0..MaxRequests /\ excuses \subseteq Excuses
    BY DEF MetaInv, MetaTypes
  <2>3. \A r \in Handlers : pending[r] \in Requests /\ RequestOK(pending[r])
    BY DEF MetaInv, MetaTypes
  <2>4. \A r \in Handlers : pending[r] = Idle \/ pending[r].op \in Ops
    BY <2>3 DEF MetaInv, MetaTypes, Requests
  <2> QED BY <2>1, <2>2, <2>4 DEF MetaTypeOK, RowTypes
<1> QED BY <1>1, MetaInvHolds, PTL

\* A delete command that was not overtaken between its checks and its commit leaves no
\* reference to what it removed, no report without a chart or dashboard and no permission of
\* a deleted dataset, for any number of requests side by side and any tables; where foreign
\* keys are enforced every reference resolves even when it was overtaken.
THEOREM DeletionsAreClean == MetaSpec => []DeletionsLeaveNothing
<1>1. MetaInv => DeletionsLeaveNothing
  BY DEF MetaInv, DeletionsLeaveNothing
<1> QED BY <1>1, MetaInvHolds, PTL

\* Nobody loses a dashboard, an alert or a report but by a request that names its owners,
\* however the commits of other requests come between.
THEOREM OwnersStayOwners == MetaSpec => OwnersAreKept
<1> DEFINE Kept == \A o \in Dashboards \cup Reports :
                     Found(o) /\ Found(o)' /\ ~(rows[o].owners \subseteq rows'[o].owners) =>
                       \E r \in Handlers : pending[r].ids = {o} /\ pending[r].owners # Unnamed
                                            /\ pending'[r] = Idle
<1>1. MetaInv /\ [MetaNext]_metaVars => [Kept]_metaVars
  BY MetaStepKeeps DEF OwnersStay
<1>2. OwnersAreKept <=> [][Kept]_metaVars
  BY DEF OwnersAreKept
<1> HIDE DEF Kept
<1> QED BY <1>1, <1>2, MetaInvHolds, PTL DEF MetaSpec

-----------------------------------------------------------------------------
(* Implicit tags *)

TagTypes == {None, "type", "owner", "favorited_by", "custom"}

\* Whatever was ever favorited was once saved, and keeps its creator.
TagsSound ==
  /\ objects \subseteq Object /\ heard \subseteq Object
  /\ owners \in [Object -> SUBSET TagUsers] /\ creator \in [Object -> TagUsers \cup {NoOne}]
  /\ \A o \in objects : creator[o] # NoOne
  /\ favstars \subseteq TagUsers \X Object /\ \A f \in favstars : creator[f[2]] # NoOne
  /\ tags \in [TagName -> TagTypes] /\ \A u \in TagUsers : tags[Owner(u)] \in {None, "owner"}
  /\ tagged \subseteq TagName \X Object
  /\ \A t \in tagged : tags[t[1]] # None
  /\ byHand \subseteq TagUsers \X Object
  /\ syncing \in 0..3

\* A user's tag is on an object when it is theirs, and not on one that is yet to come.
TagRight(u, o) ==
  /\ creator[o] = NoOne => <<Owner(u), o>> \notin tagged
  /\ o \in objects \cap heard =>
       /\ u \in owners[o] => <<Owner(u), o>> \in tagged
       /\ <<Owner(u), o>> \in tagged => u \in owners[o] \/ (syncing > 1 /\ u = creator[o])

OwnersFound == \A o \in Object, u \in TagUsers : <<u, o>> \in byHand \/ TagRight(u, o)

TagsInv == TagsSound /\ OwnersFound

\* The names of the four kinds of tags are apart.
LEMMA NamesApart ==
  /\ \A u \in TagUsers : Owner(u) \in TagName /\ FavoritedBy(u) \in TagName
  /\ \A t \in Types : TypeTag(t) \in TagName
  /\ \A u, w \in TagUsers : Owner(u) = Owner(w) => u = w
  /\ \A u, w \in TagUsers : Owner(u) # FavoritedBy(w)
  /\ \A u \in TagUsers, t \in Types : Owner(u) # TypeTag(t)
  /\ \A n \in TagName : TypeOf(n) \in TagTypes \ {None}
  /\ \A n \in TagName : TypeOf(n) = "owner" => n[2] \in TagUsers /\ n = Owner(n[2])
  /\ \A u \in TagUsers : TypeOf(Owner(u)) = "owner"
  /\ \A o \in Object : o[1] \in Types
BY DEF TagName, Owner, FavoritedBy, TypeTag, Object, TypeOf, TagTypes, None

LEMMA TagsInitHolds == TagsInit => TagsInv
<1> SUFFICES ASSUME TagsInit PROVE TagsInv
  OBVIOUS
<1>1. PICK u \in TagUsers : creator = [o \in Object |-> IF o \in objects THEN u ELSE NoOne]
  BY DEF TagsInit
<1>2. /\ objects \subseteq Object /\ heard = {} /\ favstars = {} /\ tagged = {}
      /\ byHand = {} /\ syncing = 0
      /\ owners = [o \in Object |-> {creator[o]} \ {NoOne}]
      /\ tags = [n \in TagName |-> None]
  BY DEF TagsInit, Object, Types
<1>3. creator \in [Object -> TagUsers \cup {NoOne}] /\ \A o \in objects : creator[o] # NoOne
  BY <1>1, <1>2, TagsAssumption
<1>4. owners \in [Object -> SUBSET TagUsers]
  BY <1>2, <1>3
<1>5. tags \in [TagName -> TagTypes] /\ \A w \in TagUsers : tags[Owner(w)] = None
  BY <1>2, NamesApart DEF TagTypes
<1>6. TagsSound
  BY <1>2, <1>3, <1>4, <1>5 DEF TagsSound
<1> QED BY <1>2, <1>6 DEF TagsInv, OwnersFound, TagRight

\* Tags that a listener or a statement of sync_tags makes.
LEMMA TagsMade ==
  ASSUME TagsInv, NEW names \in SUBSET TagName, NEW type \in TagTypes, type # None,
         \A u \in TagUsers : Owner(u) \in names => type = "owner",
         NEW made, made \in {get_tags(names, type), Inserted(names, type)}
  PROVE  /\ made \in [TagName -> TagTypes] /\ \A u \in TagUsers : made[Owner(u)] \in {None, "owner"}
         /\ \A n \in names : made[n] # None
         /\ \A n \in TagName : tags[n] # None => made[n] # None
BY NamesApart DEF TagsInv, TagsSound, get_tags, Inserted

\* A user's tag that is as before is as right as before.
LEMMA OthersFound ==
  ASSUME TagsInv, NEW o \in Object, NEW u \in TagUsers,
         syncing' \in Int, syncing > 1 => syncing' > 1,
         creator'[o] = creator[o], owners'[o] = owners[o],
         o \in objects' \cap heard' => o \in objects \cap heard,
         <<Owner(u), o>> \in tagged' <=> <<Owner(u), o>> \in tagged,
         <<u, o>> \in byHand => <<u, o>> \in byHand'
  PROVE  <<u, o>> \in byHand' \/ TagRight(u, o)'
BY DEF TagsInv, OwnersFound, TagRight

LEMMA InsertKeeps ==
  ASSUME TagsInv, NEW o \in Object, NEW w \in TagUsers, NEW given \in SUBSET TagUsers,
         Insert(o, w, given)
  PROVE  TagsInv'
<1>1. PICK ids \in SUBSET TagUsers : ids = get_owners_ids(o, w, given)
  BY DEF get_owners_ids
<1>2. PICK names : names = {Owner(u) : u \in ids}
  OBVIOUS
<1>3. PICK mine : mine = TypeTag(o[1])
  OBVIOUS
<1>4. PICK made : made = get_tags(names, "owner")
  OBVIOUS
<1>5. /\ creator[o] = NoOne
      /\ objects' = objects \cup {o} /\ heard' = heard \cup {o}
      /\ creator' = [creator EXCEPT ![o] = w] /\ owners' = [owners EXCEPT ![o] = ids]
      /\ tags' = [made EXCEPT ![mine] = "type"]
      /\ tagged' = tagged \cup {<<n, o>> : n \in names \cup {mine}}
      /\ UNCHANGED <<favstars, syncing, byHand>>
  BY <1>1, <1>2, <1>3, <1>4 DEF Insert
<1>6. /\ names \in SUBSET TagName /\ mine \in TagName
      /\ \A u \in TagUsers : Owner(u) # mine
      /\ \A u \in TagUsers : Owner(u) \in names <=> u \in ids
  <2>1. o[1] \in Types
    BY NamesApart
  <2>2. mine \in TagName /\ \A u \in TagUsers : Owner(u) # mine
    BY <1>3, <2>1, NamesApart
  <2>3. /\ names \in SUBSET TagName
        /\ \A u \in TagUsers : Owner(u) \in names <=> u \in ids
    BY <1>1, <1>2, NamesApart
  <2> QED BY <2>2, <2>3
<1>7. /\ made \in [TagName -> TagTypes] /\ \A u \in TagUsers : made[Owner(u)] \in {None, "owner"}
      /\ \A n \in names : made[n] # None
      /\ \A n \in TagName : tags[n] # None => made[n] # None
  BY <1>4, <1>6, TagsMade DEF TagTypes, None
<1>8. w # NoOne /\ creator'[o] = w
  BY <1>5, TagsAssumption DEF TagsInv, TagsSound
<1>9. \A x \in Object : creator[x] # NoOne => x # o /\ creator'[x] = creator[x]
  BY <1>5 DEF TagsInv, TagsSound
<1>10. TagsSound'
  <2>1. tags' \in [TagName -> TagTypes] /\ \A u \in TagUsers : tags'[Owner(u)] \in {None, "owner"}
    BY <1>5, <1>6, <1>7, NamesApart DEF TagTypes
  <2>2. \A n \in TagName : tags[n] # None \/ n \in names \cup {mine} => tags'[n] # None
    BY <1>5, <1>6, <1>7 DEF None
  <2>3. tagged' \subseteq TagName \X Object
    BY <1>5, <1>6 DEF TagsInv, TagsSound
  <2>4. \A t \in tagged' : tags'[t[1]] # None
    BY <1>5, <1>6, <2>2 DEF TagsInv, TagsSound
  <2>5. /\ creator' \in [Object -> TagUsers \cup {NoOne}]
        /\ owners' \in [Object -> SUBSET TagUsers]
    BY <1>1, <1>5 DEF TagsInv, TagsSound
  <2>6. \A x \in objects' : creator'[x] # NoOne
    BY <1>5, <1>8, <1>9 DEF TagsInv, TagsSound
  <2>7. favstars' \subseteq TagUsers \X Object /\ \A f \in favstars' : creator'[f[2]] # NoOne
    BY <1>5, <1>9 DEF TagsInv, TagsSound
  <2> QED BY <1>5, <2>1, <2>3, <2>4, <2>5, <2>6, <2>7 DEF TagsInv, TagsSound
<1>11. OwnersFound'
  <2> SUFFICES ASSUME NEW x \in Object, NEW u \in TagUsers
               PROVE  <<u, x>> \in byHand' \/ TagRight(u, x)'
    BY Zenon DEF OwnersFound
  <2>1. CASE x = o
    <3>1. owners'[o] = ids
      BY <1>5 DEF TagsInv, TagsSound
    <3>2. <<u, o>> \in byHand \/ <<Owner(u), o>> \notin tagged
      BY <1>5 DEF TagsInv, OwnersFound, TagRight
    <3>3. <<Owner(u), o>> \in tagged' <=> <<Owner(u), o>> \in tagged \/ u \in ids
      BY <1>5, <1>6
    <3> QED BY <1>5, <1>8, <2>1, <3>1, <3>2, <3>3 DEF TagRight
  <2>2. CASE x # o
    <3>1. owners'[x] = owners[x] /\ creator'[x] = creator[x]
      BY <1>5, <2>2 DEF TagsInv, TagsSound
    <3>2. <<Owner(u), x>> \in tagged' <=> <<Owner(u), x>> \in tagged
      BY <1>5, <2>2
    <3>3. syncing' \in Int /\ (syncing > 1 => syncing' > 1)
      BY <1>5 DEF TagsInv, TagsSound
    <3> QED BY <1>5, <2>2, <3>1, <3>2, <3>3, OthersFound
  <2> QED BY <2>1, <2>2
<1> QED BY <1>10, <1>11 DEF TagsInv

LEMMA UpdateKeeps ==
  ASSUME TagsInv, NEW o \in Object, NEW given \in SUBSET TagUsers, Update(o, given)
  PROVE  TagsInv'
<1>1. o \in objects /\ creator[o] \in TagUsers
  BY DEF Update, TagsInv, TagsSound
<1>2. PICK ids \in SUBSET TagUsers : ids = get_owners_ids(o, creator[o], given)
  BY <1>1 DEF get_owners_ids
<1>3. PICK names : names = {Owner(u) : u \in ids}
  OBVIOUS
<1>4. PICK gone : gone = OwnerTagsOf(o)
  OBVIOUS
<1>5. /\ heard' = heard \cup {o} /\ owners' = [owners EXCEPT ![o] = ids]
      /\ byHand' = {b \in byHand : b[2] # o}
      /\ tags' = get_tags(names, "owner")
      /\ tagged' = (tagged \ gone) \cup {<<n, o>> : n \in names}
      /\ UNCHANGED <<objects, creator, favstars, syncing>>
  BY <1>2, <1>3, <1>4 DEF Update
<1>6. /\ names \in SUBSET TagName
      /\ \A u \in TagUsers : Owner(u) \in names <=> u \in ids
  BY <1>2, <1>3, NamesApart
<1>7. /\ tags' \in [TagName -> TagTypes] /\ \A u \in TagUsers : tags'[Owner(u)] \in {None, "owner"}
      /\ \A n \in names : tags'[n] # None
      /\ \A n \in TagName : tags[n] # None => tags'[n] # None
  BY <1>5, <1>6, TagsMade DEF TagTypes, None
<1>8. TagsSound'
  <2>1. tagged' \subseteq TagName \X Object
    BY <1>5, <1>6 DEF TagsInv, TagsSound
  <2>2. \A t \in tagged' : tags'[t[1]] # None
    BY <1>5, <1>6, <1>7 DEF TagsInv, TagsSound
  <2>3. owners' \in [Object -> SUBSET TagUsers]
    BY <1>2, <1>5 DEF TagsInv, TagsSound
  <2> QED BY <1>5, <1>7, <2>1, <2>2, <2>3 DEF TagsInv, TagsSound
<1>9. ASSUME NEW u \in TagUsers, <<Owner(u), o>> \in tagged PROVE <<Owner(u), o>> \in gone
  BY <1>4, <1>9 DEF OwnerTagsOf, TagsInv, TagsSound
<1>10. OwnersFound'
  <2> SUFFICES ASSUME NEW x \in Object, NEW u \in TagUsers
               PROVE  <<u, x>> \in byHand' \/ TagRight(u, x)'
    BY Zenon DEF OwnersFound
  <2>1. CASE x = o
    <3>1. owners'[o] = ids
      BY <1>5 DEF TagsInv, TagsSound
    <3>2. <<Owner(u), o>> \in tagged' <=> u \in ids
      BY <1>5, <1>6, <1>9
    <3>3. creator'[o] # NoOne
      BY <1>1, <1>5, TagsAssumption
    <3> QED BY <2>1, <3>1, <3>2, <3>3 DEF TagRight
  <2>2. CASE x # o
    <3>1. owners'[x] = owners[x]
      BY <1>5, <2>2 DEF TagsInv, TagsSound
    <3>2. <<Owner(u), x>> \in tagged' <=> <<Owner(u), x>> \in tagged
      BY <1>4, <1>5, <2>2 DEF OwnerTagsOf
    <3>3. syncing' \in Int /\ (syncing > 1 => syncing' > 1)
      BY <1>5 DEF TagsInv, TagsSound
    <3>4. <<u, x>> \in byHand => <<u, x>> \in byHand'
      BY <1>5, <2>2
    <3> QED BY <1>5, <2>2, <3>1, <3>2, <3>3, <3>4, OthersFound
  <2> QED BY <2>1, <2>2
<1> QED BY <1>8, <1>10 DEF TagsInv

\* Steps that take whole objects away, and those that change tags of other names or by hand.
LEMMA OwnersUntouched ==
  ASSUME TagsInv, UNCHANGED <<owners, creator, heard>>, objects' \subseteq objects,
         syncing' \in 0..3, syncing' >= syncing,
         tags' \in [TagName -> TagTypes], \A u \in TagUsers : tags'[Owner(u)] \in {None, "owner"},
         \A n \in TagName : tags[n] # None => tags'[n] # None,
         tagged' \subseteq TagName \X Object,
         \A t \in tagged' \ tagged : tags'[t[1]] # None,
         byHand \subseteq byHand', byHand' \subseteq TagUsers \X Object,
         \A o \in Object, u \in TagUsers :
           \/ <<u, o>> \in byHand'
           \/ <<Owner(u), o>> \in tagged' <=> <<Owner(u), o>> \in tagged
           \/ creator[o] # NoOne /\ o \notin objects',
         favstars' \subseteq TagUsers \X Object, \A f \in favstars' : creator[f[2]] # NoOne
  PROVE  TagsInv'
<1>1. \A t \in tagged' : tags'[t[1]] # None
  BY DEF TagsInv, TagsSound
<1>2. TagsSound'
  BY <1>1 DEF TagsInv, TagsSound
<1>3. OwnersFound'
  <2> SUFFICES ASSUME NEW x \in Object, NEW u \in TagUsers
               PROVE  <<u, x>> \in byHand' \/ TagRight(u, x)'
    BY Zenon DEF OwnersFound
  <2>1. CASE <<Owner(u), x>> \in tagged' <=> <<Owner(u), x>> \in tagged
    <3>1. syncing' \in Int /\ (syncing > 1 => syncing' > 1)
      BY DEF TagsInv, TagsSound
    <3> QED BY <2>1, <3>1, OthersFound
  <2>2. CASE creator[x] # NoOne /\ x \notin objects'
    BY <2>2 DEF TagRight
  <2> QED BY <2>1, <2>2
<1> QED BY <1>2, <1>3 DEF TagsInv

LEMMA DeletionsKeep ==
  ASSUME TagsInv, NEW o \in Object, Delete(o) \/ bulk_delete(o)
  PROVE  TagsInv'
<1>1. /\ UNCHANGED <<owners, creator, heard, tags, syncing, favstars, byHand>>
      /\ o \in objects /\ objects' = objects \ {o} /\ tagged' \subseteq tagged
      /\ \A t \in tagged \ tagged' : t[2] = o
  BY DEF Delete, bulk_delete, OwnerTagsOf
<1>2. ASSUME NEW x \in Object, NEW u \in TagUsers
      PROVE  \/ <<Owner(u), x>> \in tagged' <=> <<Owner(u), x>> \in tagged
             \/ creator[x] # NoOne /\ x \notin objects'
  BY <1>1 DEF TagsInv, TagsSound
<1>3. /\ syncing' \in 0..3 /\ syncing' >= syncing
      /\ tags' \in [TagName -> TagTypes] /\ \A u \in TagUsers : tags'[Owner(u)] \in {None, "owner"}
      /\ \A n \in TagName : tags[n] # None => tags'[n] # None
      /\ tagged' \subseteq TagName \X Object /\ byHand' \subseteq TagUsers \X Object
      /\ favstars' \subseteq TagUsers \X Object /\ \A f \in favstars' : creator[f[2]] # NoOne
  BY <1>1 DEF TagsInv, TagsSound
<1> QED BY <1>1, <1>2, <1>3, OwnersUntouched

LEMMA FavoritesKeep ==
  ASSUME TagsInv, NEW o \in Object, NEW w \in TagUsers, favstar_select(w, o) \/ favstar_unselect(w, o)
  PROVE  TagsInv'
<1>1. UNCHANGED <<objects, owners, creator, heard, syncing, byHand>>
  BY DEF favstar_select, favstar_unselect
<1>2. syncing' \in 0..3 /\ syncing' >= syncing /\ byHand' \subseteq TagUsers \X Object
  BY <1>1 DEF TagsInv, TagsSound
<1>3. PICK star : star = FavoritedBy(w)
  OBVIOUS
<1>4. star \in TagName /\ \A u \in TagUsers : Owner(u) # star
  BY <1>3, NamesApart
<1>5. CASE favstar_select(w, o)
  <2>1. /\ o \in objects /\ favstars' = favstars \cup {<<w, o>>}
        /\ tags' = get_tags({star}, "favorited_by") /\ tagged' = tagged \cup {<<star, o>>}
    BY <1>3, <1>5 DEF favstar_select
  <2>2. /\ tags' \in [TagName -> TagTypes] /\ \A u \in TagUsers : tags'[Owner(u)] \in {None, "owner"}
        /\ tags'[star] # None
        /\ \A n \in TagName : tags[n] # None => tags'[n] # None
    BY <1>4, <2>1, TagsMade DEF TagTypes, None
  <2>3. creator[o] # NoOne
    BY <2>1 DEF TagsInv, TagsSound
  <2>4. favstars' \subseteq TagUsers \X Object /\ \A f \in favstars' : creator[f[2]] # NoOne
    BY <2>1, <2>3 DEF TagsInv, TagsSound
  <2>5. /\ tagged' \subseteq TagName \X Object
        /\ \A t \in tagged' \ tagged : tags'[t[1]] # None
    BY <1>4, <2>1, <2>2 DEF TagsInv, TagsSound
  <2>6. \A x \in Object, u \in TagUsers : <<Owner(u), x>> \in tagged' <=> <<Owner(u), x>> \in tagged
    BY <1>4, <2>1
  <2> QED BY <1>1, <1>2, <2>2, <2>4, <2>5, <2>6, OwnersUntouched
<1>6. CASE favstar_unselect(w, o)
  <2>1. /\ tags' = tags /\ favstars' \subseteq favstars /\ tagged' \subseteq tagged
        /\ \A t \in tagged \ tagged' : t[1] = star
    BY <1>3, <1>6 DEF favstar_unselect
  <2>2. \A x \in Object, u \in TagUsers : <<Owner(u), x>> \in tagged' <=> <<Owner(u), x>> \in tagged
    BY <1>4, <2>1
  <2>3. /\ tags' \in [TagName -> TagTypes] /\ \A u \in TagUsers : tags'[Owner(u)] \in {None, "owner"}
        /\ \A n \in TagName : tags[n] # None => tags'[n] # None
        /\ tagged' \subseteq TagName \X Object
        /\ favstars' \subseteq TagUsers \X Object /\ \A f \in favstars' : creator[f[2]] # NoOne
    BY <2>1 DEF TagsInv, TagsSound
  <2> QED BY <1>1, <1>2, <2>1, <2>2, <2>3, OwnersUntouched
<1> QED BY <1>5, <1>6

LEMMA OwnTagsKeep ==
  ASSUME TagsInv, NEW o \in Object, NEW n \in TagName, post(o, n) \/ delete(o, n)
  PROVE  TagsInv'
<1>1. UNCHANGED <<objects, owners, creator, heard, syncing, favstars>>
  BY DEF post, delete
<1>2. /\ syncing' \in 0..3 /\ syncing' >= syncing
      /\ favstars' \subseteq TagUsers \X Object /\ \A f \in favstars' : creator[f[2]] # NoOne
  BY <1>1 DEF TagsInv, TagsSound
<1>3. byHand' = IF TypeOf(n) = "owner" THEN byHand \cup {<<n[2], o>>} ELSE byHand
  BY DEF post, delete, TouchedByHand
<1>4. /\ byHand \subseteq byHand' /\ byHand' \subseteq TagUsers \X Object
      /\ \A u \in TagUsers : Owner(u) = n => <<u, o>> \in byHand'
  BY <1>3, NamesApart DEF TagsInv, TagsSound
<1>5. ASSUME \A t \in (TagName \X Object) \ {<<n, o>>} : t \in tagged' <=> t \in tagged,
             NEW x \in Object, NEW u \in TagUsers
      PROVE  \/ <<u, x>> \in byHand'
             \/ <<Owner(u), x>> \in tagged' <=> <<Owner(u), x>> \in tagged
  <2>1. CASE Owner(u) = n /\ x = o
    BY <1>4, <2>1
  <2>2. CASE ~(Owner(u) = n /\ x = o)
    <3>1. <<Owner(u), x>> \in (TagName \X Object) \ {<<n, o>>}
      BY <2>2, NamesApart
    <3> QED BY <1>5, <3>1
  <2> QED BY <2>1, <2>2
<1>6. CASE post(o, n)
  <2>1. tags' = get_tags({n}, TypeOf(n)) /\ tagged' = tagged \cup {<<n, o>>}
    BY <1>6 DEF post
  <2>2. PICK type \in TagTypes : type = TypeOf(n) /\ type # None
    BY NamesApart
  <2>3. /\ tags' \in [TagName -> TagTypes] /\ tags'[n] # None
        /\ \A u \in TagUsers : tags'[Owner(u)] \in {None, "owner"}
        /\ \A m \in TagName : tags[m] # None => tags'[m] # None
    <3>1. PICK names : names = {n}
      OBVIOUS
    <3>2. names \in SUBSET TagName /\ \A u \in TagUsers : Owner(u) \in names => type = "owner"
      BY <2>2, <3>1, NamesApart
    <3>3. tags' = get_tags(names, type)
      BY <2>1, <2>2, <3>1
    <3> QED BY <2>2, <3>1, <3>2, <3>3, TagsMade
  <2>4. /\ tagged' \subseteq TagName \X Object
        /\ \A t \in tagged' \ tagged : tags'[t[1]] # None
    BY <2>1, <2>3 DEF TagsInv, TagsSound
  <2>5. \A t \in (TagName \X Object) \ {<<n, o>>} : t \in tagged' <=> t \in tagged
    BY <2>1
  <2> QED BY <1>1, <1>2, <1>4, <1>5, <2>3, <2>4, <2>5, OwnersUntouched
<1>7. CASE delete(o, n)
  <2>1. tags' = tags /\ tagged' = tagged \ {<<n, o>>}
    BY <1>7 DEF delete
  <2>2. /\ tags' \in [TagName -> TagTypes] /\ \A u \in TagUsers : tags'[Owner(u)] \in {None, "owner"}
        /\ \A m \in TagName : tags[m] # None => tags'[m] # None
        /\ tagged' \subseteq TagName \X Object
    BY <2>1 DEF TagsInv, TagsSound
  <2>3. \A t \in (TagName \X Object) \ {<<n, o>>} : t \in tagged' <=> t \in tagged
    BY <2>1
  <2> QED BY <1>1, <1>2, <1>4, <1>5, <2>1, <2>2, <2>3, OwnersUntouched
<1> QED BY <1>6, <1>7

LEMMA AddTypesKeeps ==
  ASSUME TagsInv, add_types
  PROVE  TagsInv'
<1>1. PICK names : names = {TypeTag(t) : t \in Types}
  OBVIOUS
<1>2. /\ UNCHANGED <<objects, owners, creator, heard, favstars, byHand>> /\ syncing = 0 /\ syncing' = 1
      /\ tags' = Inserted(names, "type")
      /\ tagged' = tagged \cup {<<TypeTag(o[1]), o>> : o \in objects}
  BY <1>1 DEF add_types
<1>3. names \in SUBSET TagName /\ \A u \in TagUsers : Owner(u) \notin names
  BY <1>1, NamesApart
<1>4. /\ tags' \in [TagName -> TagTypes] /\ \A u \in TagUsers : tags'[Owner(u)] \in {None, "owner"}
      /\ \A n \in names : tags'[n] # None
      /\ \A n \in TagName : tags[n] # None => tags'[n] # None
  BY <1>2, <1>3, TagsMade DEF TagTypes, None
<1>5. \A o \in objects : o \in Object /\ TypeTag(o[1]) \in names
  BY <1>1, NamesApart DEF TagsInv, TagsSound
<1>6. /\ tagged' \subseteq TagName \X Object
      /\ \A t \in tagged' \ tagged : tags'[t[1]] # None
      /\ \A t \in tagged' \ tagged : t[1] \in names
  BY <1>2, <1>3, <1>4, <1>5 DEF TagsInv, TagsSound
<1>7. \A x \in Object, u \in TagUsers : <<Owner(u), x>> \in tagged' <=> <<Owner(u), x>> \in tagged
  BY <1>2, <1>3, <1>6
<1>8. /\ syncing' \in 0..3 /\ syncing' >= syncing /\ byHand' \subseteq TagUsers \X Object
      /\ favstars' \subseteq TagUsers \X Object /\ \A f \in favstars' : creator[f[2]] # NoOne
  BY <1>2 DEF TagsInv, TagsSound
<1> QED BY <1>2, <1>4, <1>6, <1>7, <1>8, OwnersUntouched

LEMMA AddFavoritesKeeps ==
  ASSUME TagsInv, add_favorites
  PROVE  TagsInv'
<1>1. PICK names : names = {FavoritedBy(u) : u \in TagUsers}
  OBVIOUS
<1>2. PICK liked : liked = {x \in favstars : x[2][1] = "dashboard"}
  OBVIOUS
<1>3. /\ UNCHANGED <<objects, owners, creator, heard, favstars, byHand>> /\ syncing = 2 /\ syncing' = 3
      /\ tags' = Inserted(names, "type")
      /\ tagged' = tagged \cup {<<FavoritedBy(f[1]), f[2]>> : f \in liked}
  BY <1>1, <1>2 DEF add_favorites
<1>4. names \in SUBSET TagName /\ \A u \in TagUsers : Owner(u) \notin names
  BY <1>1, NamesApart
<1>5. /\ tags' \in [TagName -> TagTypes] /\ \A u \in TagUsers : tags'[Owner(u)] \in {None, "owner"}
      /\ \A n \in names : tags'[n] # None
      /\ \A n \in TagName : tags[n] # None => tags'[n] # None
  BY <1>3, <1>4, TagsMade DEF TagTypes, None
<1>6. \A f \in liked : f[2] \in Object /\ FavoritedBy(f[1]) \in names
  BY <1>1, <1>2 DEF TagsInv, TagsSound
<1>7. /\ tagged' \subseteq TagName \X Object
      /\ \A t \in tagged' \ tagged : tags'[t[1]] # None
      /\ \A t \in tagged' \ tagged : t[1] \in names
  BY <1>3, <1>4, <1>5, <1>6 DEF TagsInv, TagsSound
<1>8. \A x \in Object, u \in TagUsers : <<Owner(u), x>> \in tagged' <=> <<Owner(u), x>> \in tagged
  BY <1>3, <1>4, <1>7
<1>9. /\ syncing' \in 0..3 /\ syncing' >= syncing /\ byHand' \subseteq TagUsers \X Object
      /\ favstars' \subseteq TagUsers \X Object /\ \A f \in favstars' : creator[f[2]] # NoOne
  BY <1>3 DEF TagsInv, TagsSound
<1> QED BY <1>3, <1>5, <1>7, <1>8, <1>9, OwnersUntouched

LEMMA AddOwnersKeeps ==
  ASSUME TagsInv, add_owners
  PROVE  TagsInv'
<1>1. PICK names : names = {Owner(u) : u \in TagUsers}
  OBVIOUS
<1>2. /\ UNCHANGED <<objects, owners, creator, heard, favstars, byHand>> /\ syncing = 1 /\ syncing' = 2
      /\ tags' = Inserted(names, "owner")
      /\ tagged' = tagged \cup {<<Owner(creator[o]), o>> : o \in objects}
  BY <1>1 DEF add_owners
<1>3. names \in SUBSET TagName
  BY <1>1, NamesApart
<1>4. /\ tags' \in [TagName -> TagTypes] /\ \A u \in TagUsers : tags'[Owner(u)] \in {None, "owner"}
      /\ \A n \in names : tags'[n] # None
      /\ \A n \in TagName : tags[n] # None => tags'[n] # None
  BY <1>2, <1>3, TagsMade DEF TagTypes, None
<1>5. \A o \in objects : /\ o \in Object /\ creator[o] # NoOne /\ creator[o] \in TagUsers
                         /\ Owner(creator[o]) \in names
  BY <1>1 DEF TagsInv, TagsSound
<1>6. /\ tagged' \subseteq TagName \X Object
      /\ \A t \in tagged' : tags'[t[1]] # None
  BY <1>2, <1>3, <1>4, <1>5 DEF TagsInv, TagsSound
<1>7. TagsSound'
  BY <1>2, <1>4, <1>6 DEF TagsInv, TagsSound
<1>8. OwnersFound'
  <2> SUFFICES ASSUME NEW o \in Object, NEW u \in TagUsers
               PROVE  <<u, o>> \in byHand' \/ TagRight(u, o)'
    BY Zenon DEF OwnersFound
  <2>1. <<u, o>> \in byHand \/ TagRight(u, o)
    BY DEF TagsInv, OwnersFound
  <2>2. <<Owner(u), o>> \in tagged => <<Owner(u), o>> \in tagged'
    BY <1>2
  <2>3. <<Owner(u), o>> \in tagged' =>
          <<Owner(u), o>> \in tagged \/ (o \in objects /\ Owner(u) = Owner(creator[o]))
    BY <1>2
  <2>4. o \in objects /\ Owner(u) = Owner(creator[o]) => u = creator[o] /\ creator[o] # NoOne
    BY <1>5, NamesApart
  <2> QED BY <1>2, <2>1, <2>2, <2>3, <2>4 DEF TagRight
<1> QED BY <1>7, <1>8 DEF TagsInv

LEMMA TagsInvHolds == TagsSpec => []TagsInv
<1>1. TagsInv /\ [TagsNext]_tagVars => TagsInv'
  <2> SUFFICES ASSUME TagsInv, [TagsNext]_tagVars PROVE TagsInv'
    OBVIOUS
  <2>1. CASE UNCHANGED tagVars
    BY <2>1 DEF tagVars, TagsInv, TagsSound, OwnersFound, TagRight
  <2>2. ASSUME NEW o \in Object, NEW u \in TagUsers, NEW given \in SUBSET TagUsers,
               Insert(o, u, given)
        PROVE  TagsInv'
    BY <2>2, InsertKeeps
  <2>3. ASSUME NEW o \in Object, NEW given \in SUBSET TagUsers, Update(o, given) PROVE TagsInv'
    BY <2>3, UpdateKeeps
  <2>4. ASSUME NEW o \in Object, Delete(o) \/ bulk_delete(o) PROVE TagsInv'
    BY <2>4, DeletionsKeep
  <2>5. ASSUME NEW o \in Object, NEW u \in TagUsers, favstar_select(u, o) \/ favstar_unselect(u, o)
        PROVE  TagsInv'
    BY <2>5, FavoritesKeep
  <2>6. ASSUME NEW o \in Object, NEW n \in TagName, post(o, n) \/ delete(o, n) PROVE TagsInv'
    BY <2>6, OwnTagsKeep
  <2>7. CASE add_types \/ add_owners \/ add_favorites
    BY <2>7, AddTypesKeeps, AddOwnersKeeps, AddFavoritesKeeps
  <2> QED BY <2>1, <2>2, <2>3, <2>4, <2>5, <2>6, <2>7, TagsAssumption DEF TagsNext
<1> QED BY <1>1, TagsInitHolds, PTL DEF TagsSpec

\* No object has a tag that is not there, whatever was deleted, tagged or synchronized.
THEOREM TagTypeCorrect == TagsSpec => []TagsTypeOK
<1>1. TagsInv => TagsTypeOK
  BY DEF TagsInv, TagsSound, TagsTypeOK, TagTypes
<1> QED BY <1>1, TagsInvHolds, PTL

\* Every user finds by `owner:<user>` the objects saved with the listeners on that are theirs,
\* and no others but those they created, through any number of saves, deletions, favorites and
\* tags added or removed by hand, also when sync_tags runs between them, unless the user's own
\* tag is one of these and the object was not updated since.
THEOREM OwnersFind == TagsSpec => []OwnersFindTheirObjects
<1>1. TagsInv => OwnersFindTheirObjects
  BY DEF TagsInv, TagsSound, OwnersFound, TagRight, OwnersFindTheirObjects
<1> QED BY <1>1, TagsInvHolds, PTL

-------------------------------------------------------------------------------
(***************************************************************************)
(* Bundles, for any sites and rows, any files and any number of steps. The *)
(* import of the files of one kind is a fold, and so a recursive function  *)
(* on the sets of files that were imported so far; RecursionTheorems says  *)
(* that it exists. A stage is such a fold: its parameters p are the kind,  *)
(* the state it starts from and whether rows are overwritten. What a stage *)
(* does is shown of the import of no file and of one more; a set of files  *)
(* of which it did not hold would have a least one.                        *)
(***************************************************************************)
Ready(p, file) ==
  CASE p.kind = "Database" -> TRUE
    [] p.kind = "Dashboard" -> RefersToImported(file, p.start.ids)
    [] OTHER -> file.parent \in DOMAIN p.start.ids

ParentOf(p, file) == IF p.kind \in {"Database", "Dashboard"} THEN 0 ELSE p.start.ids[file.parent]

Content(p, file) == IF p.kind = "Dashboard" THEN update_id_refs(file, p.start.ids) ELSE file

ImportStep(p, file, now) ==
  IF Ready(p, file) THEN import_file(now, Content(p, file), ParentOf(p, file), p.overwrite)
  ELSE IF p.kind = "Dashboard" THEN [now EXCEPT !.ok = FALSE] ELSE now

StageBody(p, f, s) ==
  IF s = {} THEN p.start
  ELSE LET x == CHOOSE x \in s : TRUE IN ImportStep(p, x, f[s \ {x}])

Stages == INSTANCE RecursionTheorems WITH Def <- StageBody

IsStage(p, files, f) == f = [s \in SUBSET files |-> StageBody(p, f, s)]

LEMMA LeastOfFiles ==
  ASSUME NEW S, IsFiniteSet(S), NEW B \in SUBSET SUBSET S, B # {}
  PROVE  \E T \in B : \A U \in B : U \subseteq T => U = T
BY Stages!LeastSubset DEF IsFiniteSet, Stages!IsFiniteSet

LEMMA StagesExist ==
  ASSUME NEW p, NEW files, IsFiniteSet(files)
  PROVE  \E f : IsStage(p, files, f)
<1> DEFINE m == [s \in SUBSET files |-> Cardinality(s)]
<1>1. m \in [SUBSET files -> Nat]
  BY FS_Subset, FS_CardinalityType
<1>2. ASSUME NEW f, NEW g, NEW s \in SUBSET files,
             \A r \in SUBSET files : m[r] < m[s] => f[r] = g[r]
      PROVE  StageBody(p, f, s) = StageBody(p, g, s)
  <2>1. CASE s = {}
    BY <2>1 DEF StageBody
  <2>2. CASE s # {}
    <3> DEFINE x == CHOOSE x \in s : TRUE
    <3>1. x \in s
      BY <2>2
    <3>2. IsFiniteSet(s)
      BY FS_Subset
    <3>3. m[s \ {x}] < m[s]
      <4>1. Cardinality(s \ {x}) = Cardinality(s) - 1 /\ Cardinality(s) \in Nat
        BY <3>1, <3>2, FS_RemoveElement, FS_CardinalityType
      <4> QED BY <4>1
    <3>4. f[s \ {x}] = g[s \ {x}]
      BY <1>2, <3>3
    <3> QED BY <3>4 DEF StageBody
  <2> QED BY <2>1, <2>2
<1>3. Stages!ReadsSmaller(p, SUBSET files, m)
  <2> HIDE DEF m
  <2> QED BY <1>2 DEF Stages!ReadsSmaller
<1> HIDE DEF m
<1> QED BY <1>1, <1>3, Stages!RecursionIsDefined DEF IsStage

\* The three folds of the import are stages.
Params(kind, start, overwrite) == [kind |-> kind, start |-> start, overwrite |-> overwrite]

LEMMA DatabasesAreAStage ==
  ASSUME NEW start, NEW overwrite, NEW files, IsFiniteSet(files)
  PROVE  \E f : /\ IsStage(Params("Database", start, overwrite), files, f)
                /\ import_databases(start, files, overwrite) = f[files]
<1> DEFINE p == Params("Database", start, overwrite)
           f == CHOOSE f : IsStage(p, files, f)
<1>1. IsStage(p, files, f)
  BY StagesExist
<1>2. import_databases(start, files, overwrite) = f[files]
  BY DEF import_databases, FoldSet, MapThenFoldSet, IsStage, StageBody, ImportStep, Ready, Content,
         ParentOf, Params
<1> QED BY <1>1, <1>2

LEMMA DatasetsAreAStage ==
  ASSUME NEW start, NEW overwrite, NEW files, IsFiniteSet(files)
  PROVE  \E f : /\ IsStage(Params("Dataset", start, overwrite), files, f)
                /\ import_children(start, files, overwrite) = f[files]
<1> DEFINE p == Params("Dataset", start, overwrite)
           f == CHOOSE f : IsStage(p, files, f)
<1>1. IsStage(p, files, f)
  BY StagesExist
<1>2. import_children(start, files, overwrite) = f[files]
  BY DEF import_children, FoldSet, MapThenFoldSet, IsStage, StageBody, ImportStep, Ready, Content,
         ParentOf, Params
<1> QED BY <1>1, <1>2

LEMMA ChartsAreAStage ==
  ASSUME NEW start, NEW overwrite, NEW files, IsFiniteSet(files)
  PROVE  \E f : /\ IsStage(Params("Chart", start, overwrite), files, f)
                /\ import_children(start, files, overwrite) = f[files]
<1> DEFINE p == Params("Chart", start, overwrite)
           f == CHOOSE f : IsStage(p, files, f)
<1>1. IsStage(p, files, f)
  BY StagesExist
<1>2. import_children(start, files, overwrite) = f[files]
  BY DEF import_children, FoldSet, MapThenFoldSet, IsStage, StageBody, ImportStep, Ready, Content,
         ParentOf, Params
<1> QED BY <1>1, <1>2

LEMMA DashboardsAreAStage ==
  ASSUME NEW start, NEW overwrite, IsFiniteSet(Files("Dashboard"))
  PROVE  \E f : /\ IsStage(Params("Dashboard", start, overwrite), Files("Dashboard"), f)
                /\ import_dashboards(start, overwrite) = f[Files("Dashboard")]
<1> DEFINE p == Params("Dashboard", start, overwrite)
           files == Files("Dashboard")
           f == CHOOSE f : IsStage(p, files, f)
<1>1. IsStage(p, files, f)
  BY StagesExist
<1>2. import_dashboards(start, overwrite) = f[files]
  BY DEF import_dashboards, FoldSet, MapThenFoldSet, IsStage, StageBody, ImportStep, Ready, Content,
         ParentOf, Params
<1> QED BY <1>1, <1>2

-------------------------------------------------------------------------------
(* The import of one file *)

IsState(now) == now = [rows |-> now.rows, next |-> now.next, ids |-> now.ids, ok |-> now.ok]

\* The row that has the file's uuid is left as it is ...
LeavesRow(now, c, overwrite, n) ==
  /\ ~Overwrites(c, overwrite)
  /\ n.rows = now.rows /\ n.next = now.next
  /\ \E i \in WithUuid(now.rows, c) : n.ids = Assign(now.ids, c.uuid, i)

\* ... or a row, the only one that the file matches or a new one, is what the file says.
StoresRow(now, c, parent, overwrite, n, i, r) ==
  /\ WithUuid(now.rows, c) = {} \/ Overwrites(c, overwrite)
  /\ WithUuid(now.rows, c) \subseteq {i} /\ Matches(now.rows, c, parent) \subseteq {i}
  /\ \/ i \in Matches(now.rows, c, parent) /\ n.next = now.next
     \/ i = now.next /\ n.next = now.next + 1
  /\ DOMAIN r = RowFields /\ r.parent = parent
  /\ \A field \in RowFields \ {"parent", "columns"} : r[field] = c[field]
  /\ n.rows = Assign(now.rows, i, r) /\ n.ids = Assign(now.ids, c.uuid, i)

LEMMA RowsAreFinite ==
  ASSUME NEW table, NEW next, SoundRows(table, next)
  PROVE  IsFiniteSet(DOMAIN table)
<1>1. DOMAIN table \subseteq 1..(next - 1) /\ next \in Nat
  BY DEF SoundRows
<1>2. IsFiniteSet(1..(next - 1))
  BY <1>1, FS_Interval
<1> QED BY <1>1, <1>2, FS_Subset

LEMMA AtMostOne ==
  ASSUME NEW S, IsFiniteSet(S), Cardinality(S) <= 1, NEW x \in S
  PROVE  S = {x}
<1>1. Cardinality(S) \in Nat
  BY FS_CardinalityType
<1>2. Cardinality(S \ {x}) = Cardinality(S) - 1 /\ IsFiniteSet(S \ {x})
  BY FS_RemoveElement
<1>3. Cardinality(S \ {x}) \in Nat
  BY <1>2, FS_CardinalityType
<1>4. Cardinality(S \ {x}) = 0
  BY <1>1, <1>2, <1>3
<1>5. S \ {x} = {}
  BY <1>2, <1>4, FS_EmptySet
<1> QED BY <1>5

LEMMA ImportFile ==
  ASSUME NEW now, IsState(now), SoundRows(now.rows, now.next), NEW c, DOMAIN c = RowFields,
         NEW parent, NEW overwrite, import_file(now, c, parent, overwrite).ok
  PROVE  LET n == import_file(now, c, parent, overwrite) IN
         /\ now.ok /\ IsState(n)
         /\ \/ LeavesRow(now, c, overwrite, n)
            \/ \E i, r : StoresRow(now, c, parent, overwrite, n, i, r)
<1> DEFINE n == import_file(now, c, parent, overwrite)
           existing == WithUuid(now.rows, c)
           found == Matches(now.rows, c, parent)
           target == IF found = {} THEN now.next ELSE CHOOSE i \in found : TRUE
           stored == [c EXCEPT !.parent = parent,
                               !.columns = ColumnsAfter(now.rows, target, c, overwrite)]
<1>1. CASE existing # {} /\ ~Overwrites(c, overwrite)
  <2> DEFINE i == CHOOSE i \in existing : TRUE
  <2>1. i \in existing
    BY <1>1
  <2>2. n = [now EXCEPT !.ids = Assign(@, c.uuid, i)]
    BY <1>1 DEF import_file
  <2> HIDE DEF i, n, existing
  <2>3. /\ n.rows = now.rows /\ n.next = now.next /\ n.ok = now.ok /\ IsState(n)
        /\ n.ids = Assign(now.ids, c.uuid, i)
    BY <2>2 DEF IsState
  <2>4. LeavesRow(now, c, overwrite, n)
    BY <1>1, <2>1, <2>3 DEF LeavesRow, existing
  <2> QED BY <2>3, <2>4 DEF n
<1>2. CASE ~(existing # {} /\ ~Overwrites(c, overwrite))
  <2>1. Cardinality(found) <= 1 /\ existing \subseteq found
    <3> SUFFICES ASSUME ~(Cardinality(found) <= 1 /\ existing \subseteq found) PROVE FALSE
      OBVIOUS
    <3>1. n = [now EXCEPT !.ok = FALSE]
      BY <1>2 DEF import_file
    <3>2. ~n.ok
      <4> HIDE DEF n
      <4> QED BY <3>1 DEF IsState
    <3> QED BY <3>2
  <2>2. n = [now EXCEPT !.rows = Assign(@, target, stored),
                        !.next = IF found = {} THEN @ + 1 ELSE @,
                        !.ids = Assign(@, c.uuid, target)]
    BY <1>2, <2>1 DEF import_file
  <2>3. /\ found \subseteq {target}
        /\ found = {} => target = now.next
        /\ found # {} => target \in found
    <3>1. IsFiniteSet(found)
      BY RowsAreFinite, FS_Subset DEF Matches
    <3>2. ASSUME NEW i \in found PROVE found = {i}
      <4> HIDE DEF found
      <4> QED BY <2>1, <3>1, AtMostOne
    <3> HIDE DEF found
    <3> QED BY <3>2
  <2>4. /\ DOMAIN stored = RowFields /\ stored.parent = parent
        /\ \A field \in RowFields \ {"parent", "columns"} : stored[field] = c[field]
    BY DEF RowFields
  <2> HIDE DEF n, target, stored, existing, found
  <2>5. /\ n.rows = Assign(now.rows, target, stored) /\ n.ids = Assign(now.ids, c.uuid, target)
        /\ n.next = IF found = {} THEN now.next + 1 ELSE now.next
        /\ n.ok = now.ok /\ IsState(n)
    BY <2>2 DEF IsState
  <2>6. StoresRow(now, c, parent, overwrite, n, target, stored)
    BY <1>2, <2>1, <2>3, <2>4, <2>5 DEF StoresRow, existing, found
  <2> QED BY <2>5, <2>6 DEF n
<1> QED BY <1>1, <1>2

-------------------------------------------------------------------------------
(* A stage *)

SlotsFit(r) ==
  \A slot \in r.slots :
    DOMAIN slot = {"uuid", "id"} /\ slot.uuid \in UuidsOf("Chart") \cup {NoUuid}

\* What is known of the files of a stage, and of the state that it starts from.
FilesFit(p, files) ==
  /\ p.kind \in BundleKinds
  /\ \A f \in files :
       /\ DOMAIN f = RowFields /\ f.kind = p.kind /\ f.uuid \in UuidsOf(p.kind) /\ SlotsFit(f)
       /\ p.kind = "Chart" => f.name = Nameless
  /\ \A f, g \in files : f.uuid = g.uuid => f = g

StartFits(p, files) ==
  /\ IsState(p.start) /\ SoundRows(p.start.rows, p.start.next)
  /\ \A f \in files : Ready(p, f) =>
       LET parent == ParentOf(p, f)
           table == p.start.rows
       IN /\ p.kind = "Dataset" => parent \in DOMAIN table /\ table[parent].kind = "Database"
          /\ p.kind = "Chart" => parent \in DOMAIN table /\ table[parent].kind = "Dataset"

\* Of the files with one parent no two have the same name.
FilesApart(p, files) ==
  \A f, g \in files :
    /\ Ready(p, f) /\ Ready(p, g) /\ ParentOf(p, f) = ParentOf(p, g)
    /\ f.name = g.name /\ f.name # Nameless
    => f = g

\* A file fits a row that import_from_dict finds for it, and a row is its copy.
Fits(p, f, r) ==
  /\ r.kind = f.kind /\ r.parent = ParentOf(p, f)
  /\ r.uuid = f.uuid \/ (f.name # Nameless /\ r.name = f.name)

IsCopy(p, f, r) ==
  /\ r.parent = ParentOf(p, f)
  /\ \A field \in RowFields \ {"parent", "columns"} : r[field] = Content(p, f)[field]

\* Rows are added and none is removed; those that are there stay of their kind.
RowsKept(p, now) ==
  /\ p.start.next <= now.next /\ DOMAIN p.start.rows \subseteq DOMAIN now.rows
  /\ \A j \in DOMAIN p.start.rows : now.rows[j].kind = p.start.rows[j].kind
  /\ \A j \in DOMAIN now.rows \ DOMAIN p.start.rows : j >= p.start.next

\* Who changed a row fitted it, and may overwrite it if it had the row's uuid ...
Touched(p, s, now) ==
  \A j \in DOMAIN p.start.rows :
    \/ now.rows[j] = p.start.rows[j]
    \/ \E f \in s : /\ Ready(p, f) /\ Fits(p, f, p.start.rows[j])
                    /\ f.uuid = p.start.rows[j].uuid => Overwrites(f, p.overwrite)

\* ... and every row that is not as it was is a copy of a file.
Copied(p, s, now) ==
  \A j \in DOMAIN now.rows :
    \/ j \in DOMAIN p.start.rows /\ now.rows[j] = p.start.rows[j]
    \/ \E f \in s : Ready(p, f) /\ IsCopy(p, f, now.rows[j])

\* The uuids of the files that were imported lead to rows of their kind ...
Traced(p, s, now) ==
  /\ \A f \in s : Ready(p, f) =>
       /\ f.uuid \in DOMAIN now.ids /\ now.ids[f.uuid] \in DOMAIN now.rows
       /\ now.rows[now.ids[f.uuid]].kind = p.kind
  /\ \A u \in DOMAIN now.ids :
       u \in DOMAIN p.start.ids \/ \E f \in s : Ready(p, f) /\ u = f.uuid
  /\ \A u \in DOMAIN p.start.ids :
       /\ u \in DOMAIN now.ids
       /\ (\A f \in s : u # f.uuid) => now.ids[u] = p.start.ids[u]

\* ... that are theirs, or were there with that uuid and are not to be overwritten.
Landed(p, s, now) ==
  \A f \in s : Ready(p, f) =>
    LET j == now.ids[f.uuid] IN
    \/ /\ j \in DOMAIN p.start.rows /\ p.start.rows[j].uuid = f.uuid
       /\ ~Overwrites(f, p.overwrite)
    \/ /\ IsCopy(p, f, now.rows[j])
       /\ j \in DOMAIN p.start.rows => Fits(p, f, p.start.rows[j])

StageSound(p, files, s, now) ==
  /\ p.start.ok /\ IsState(now) /\ SoundRows(now.rows, now.next)
  /\ RowsKept(p, now) /\ Touched(p, s, now) /\ Copied(p, s, now) /\ Traced(p, s, now)
  /\ p.kind = "Dashboard" => \A f \in s : Ready(p, f)
  /\ FilesApart(p, files) => Landed(p, s, now)

LEMMA ContentIs ==
  ASSUME NEW p, NEW files, FilesFit(p, files), NEW f \in files
  PROVE  LET c == Content(p, f) IN
         /\ DOMAIN c = RowFields /\ SlotsFit(c)
         /\ c.kind = f.kind /\ c.uuid = f.uuid /\ c.name = f.name /\ c.title = f.title
         /\ p.kind # "Dashboard" => c = f
<1>1. DOMAIN f = RowFields /\ SlotsFit(f)
  BY DEF FilesFit
<1>2. CASE p.kind # "Dashboard"
  BY <1>1, <1>2 DEF Content
<1>3. CASE p.kind = "Dashboard"
  <2> DEFINE ids == p.start.ids
             c == update_id_refs(f, ids)
  <2>1. Content(p, f) = c
    BY <1>3 DEF Content
  <2>2. /\ DOMAIN c = RowFields /\ c.kind = f.kind /\ c.uuid = f.uuid /\ c.name = f.name
        /\ c.title = f.title /\ c.slots = {fixed_slot(slot, ids) : slot \in f.slots}
    BY <1>1 DEF update_id_refs, RowFields
  <2>3. SlotsFit(c)
    <3>1. ASSUME NEW slot \in f.slots
          PROVE  /\ DOMAIN fixed_slot(slot, ids) = {"uuid", "id"}
                 /\ fixed_slot(slot, ids).uuid \in UuidsOf("Chart") \cup {NoUuid}
      <4>1. DOMAIN slot = {"uuid", "id"} /\ slot.uuid \in UuidsOf("Chart") \cup {NoUuid}
        BY <1>1, <3>1 DEF SlotsFit
      <4> QED BY <4>1 DEF fixed_slot
    <3> HIDE DEF c, ids
    <3> QED BY <2>2, <3>1 DEF SlotsFit
  <2> QED BY <1>3, <2>1, <2>2, <2>3
<1> QED BY <1>2, <1>3

LEMMA PutIs ==
  ASSUME NEW x, NEW y, NEW f
  PROVE  /\ DOMAIN Assign(f, x, y) = DOMAIN f \cup {x} /\ Assign(f, x, y)[x] = y
         /\ \A z \in DOMAIN f : z # x => Assign(f, x, y)[z] = f[z]
BY DEF Assign

LEMMA StoredIsSound ==
  ASSUME NEW table, NEW next, SoundRows(table, next), NEW i, NEW r, NEW after,
         \/ i \in DOMAIN table /\ table[i].kind = r.kind /\ after = next
         \/ i = next /\ after = next + 1,
         DOMAIN r = RowFields, r.kind \in BundleKinds, r.uuid \in UuidsOf(r.kind), SlotsFit(r),
         r.kind \in {"Database", "Dashboard"} => r.parent = 0,
         r.kind = "Dataset" => r.parent \in DOMAIN table /\ table[r.parent].kind = "Database",
         r.kind = "Chart" =>
           r.name = Nameless /\ r.parent \in DOMAIN table /\ table[r.parent].kind = "Dataset",
         \A j \in DOMAIN table :
           \/ table[j].uuid = r.uuid
           \/ /\ table[j].kind = r.kind /\ table[j].parent = r.parent
              /\ table[j].name = r.name /\ r.name # Nameless
           => j = i
  PROVE  SoundRows(Assign(table, i, r), after)
<1> DEFINE all == Assign(table, i, r)
<1>1. /\ DOMAIN all = DOMAIN table \cup {i} /\ all[i] = r
      /\ \A j \in DOMAIN table : j # i => all[j] = table[j]
  BY DEF Assign
<1>2. /\ next \in Nat \ {0} /\ after \in Nat \ {0} /\ next <= after
      /\ DOMAIN table \subseteq 1..(next - 1) /\ i \in 1..(after - 1)
      /\ i = next => after = next + 1
  BY DEF SoundRows
<1> HIDE DEF all
<1>3. DOMAIN all \subseteq 1..(after - 1)
  BY <1>1, <1>2
<1>4. \A j \in DOMAIN table : all[j].kind = table[j].kind
  BY <1>1, <1>2
<1>5. SoundRow(all, after, i)
  <2>1. r.parent # 0 \/ r.kind \in {"Database", "Dashboard"}
    BY <1>2 DEF BundleKinds
  <2>2. r.kind = "Dataset" => r.parent \in DOMAIN all /\ all[r.parent].kind = "Database"
    BY <1>1, <1>4
  <2>3. r.kind = "Chart" =>
          r.parent \in DOMAIN all /\ all[r.parent].kind = "Dataset" /\ r.parent \in 1..(after - 1)
    BY <1>1, <1>3, <1>4
  <2> QED BY <1>1, <2>1, <2>2, <2>3 DEF SoundRow, SlotsFit
<1>6. ASSUME NEW j \in DOMAIN table, j # i PROVE SoundRow(all, after, j)
  <2>1. SoundRow(table, next, j) /\ all[j] = table[j]
    BY <1>1, <1>6 DEF SoundRows
  <2> DEFINE q == table[j]
  <2>2. q.kind = "Dataset" =>
          q.parent \in DOMAIN all /\ q.parent # 0 /\ all[q.parent].kind = "Database"
    BY <1>1, <1>4, <2>1 DEF SoundRow
  <2>3. q.kind = "Chart" =>
          /\ q.name = Nameless /\ q.parent \in 1..(after - 1)
          /\ q.parent \in DOMAIN all => all[q.parent].kind = "Dataset"
    <3>1. SUFFICES ASSUME q.kind = "Chart"
                   PROVE  /\ q.name = Nameless /\ q.parent \in 1..(after - 1)
                          /\ q.parent \in DOMAIN all => all[q.parent].kind = "Dataset"
      OBVIOUS
    <3>2. /\ q.name = Nameless /\ q.parent \in 1..(next - 1)
          /\ q.parent \in DOMAIN table => table[q.parent].kind = "Dataset"
      BY <2>1, <3>1 DEF SoundRow
    <3>3. q.parent # next
      BY <1>2, <3>2
    <3>4. q.parent \in DOMAIN all => q.parent \in DOMAIN table
      BY <1>1, <3>3
    <3> QED BY <1>2, <1>4, <3>2, <3>4
  <2> QED BY <2>1, <2>2, <2>3 DEF SoundRow
<1>7. ASSUME NEW j \in DOMAIN all, NEW k \in DOMAIN all,
             \/ all[j].uuid = all[k].uuid
             \/ /\ all[j].kind = all[k].kind /\ all[j].parent = all[k].parent
                /\ all[j].name = all[k].name /\ all[j].name # Nameless
      PROVE  j = k
  <2>1. CASE j = i \/ k = i
    BY <1>1, <1>7, <2>1
  <2>2. CASE j # i /\ k # i
    BY <1>1, <1>7, <2>2 DEF SoundRows
  <2> QED BY <2>1, <2>2
<1>8. \A j \in DOMAIN all : SoundRow(all, after, j)
  BY <1>1, <1>5, <1>6
<1> QED BY <1>2, <1>3, <1>7, <1>8 DEF SoundRows, all

LEMMA StepKeepsState ==
  ASSUME NEW p, NEW x, NEW now, IsState(now)
  PROVE  IsState(ImportStep(p, x, now)) /\ (ImportStep(p, x, now).ok => now.ok)
<1>1. ASSUME NEW c, NEW parent
      PROVE  LET n == import_file(now, c, parent, p.overwrite) IN IsState(n) /\ (n.ok => now.ok)
  <2> DEFINE n == import_file(now, c, parent, p.overwrite)
  <2>1. \/ \E ids : n = [now EXCEPT !.ids = ids]
        \/ \E table, next, ids : n = [now EXCEPT !.rows = table, !.next = next, !.ids = ids]
        \/ n = [now EXCEPT !.ok = FALSE]
    BY DEF import_file
  <2> HIDE DEF n
  <2>2. IsState(n) /\ (n.ok => now.ok)
    BY <2>1 DEF IsState
  <2> QED BY <2>2 DEF n
<1>2. CASE Ready(p, x)
  BY <1>1, <1>2 DEF ImportStep
<1>3. CASE ~Ready(p, x)
  BY <1>3 DEF ImportStep, IsState
<1> QED BY <1>2, <1>3

\* A row that was copied from a file is found for no other.
LEMMA CopiesAreApart ==
  ASSUME NEW p, NEW files, FilesFit(p, files), NEW g \in files, NEW x \in files, g # x,
         Ready(p, g), Ready(p, x), NEW table, NEW i \in DOMAIN table, IsCopy(p, g, table[i])
  PROVE  /\ table[i].uuid # x.uuid
         /\ FilesApart(p, files) => i \notin Matches(table, Content(p, x), ParentOf(p, x))
<1>1. table[i].uuid = g.uuid /\ table[i].name = g.name /\ table[i].parent = ParentOf(p, g)
  BY ContentIs DEF IsCopy, RowFields
<1>2. table[i].uuid # x.uuid
  BY <1>1 DEF FilesFit
<1>3. Content(p, x).uuid = x.uuid /\ Content(p, x).name = x.name
  BY ContentIs
<1> QED BY <1>1, <1>2, <1>3 DEF Matches, FilesApart

LEMMA StageLeaves ==
  ASSUME NEW p, NEW files, FilesFit(p, files), NEW s \in SUBSET files, NEW x \in files \ s,
         NEW now, StageSound(p, files, s, now), Ready(p, x),
         NEW n, IsState(n), LeavesRow(now, Content(p, x), p.overwrite, n)
  PROVE  StageSound(p, files, s \cup {x}, n)
<1> DEFINE c == Content(p, x)
<1>1. c.kind = p.kind /\ c.kind = x.kind /\ c.uuid = x.uuid
  BY ContentIs DEF FilesFit
<1>2. n.rows = now.rows /\ n.next = now.next
  BY DEF LeavesRow
<1>3. PICK i \in DOMAIN now.rows :
        /\ now.rows[i].kind = p.kind /\ now.rows[i].uuid = x.uuid
        /\ n.ids = Assign(now.ids, x.uuid, i)
  BY <1>1 DEF LeavesRow, WithUuid
<1>4. /\ DOMAIN n.ids = DOMAIN now.ids \cup {x.uuid} /\ n.ids[x.uuid] = i
      /\ \A u \in DOMAIN now.ids : u # x.uuid => n.ids[u] = now.ids[u]
  BY <1>3 DEF Assign
<1>5. \A f \in s : f.uuid # x.uuid
  BY DEF FilesFit
<1>6. RowsKept(p, n) /\ Touched(p, s \cup {x}, n) /\ Copied(p, s \cup {x}, n)
  BY <1>2 DEF StageSound, RowsKept, Touched, Copied
<1>7. Traced(p, s \cup {x}, n)
  <2>1. Traced(p, s, now)
    BY DEF StageSound
  <2>2. ASSUME NEW f \in s \cup {x}, Ready(p, f)
        PROVE  /\ f.uuid \in DOMAIN n.ids /\ n.ids[f.uuid] \in DOMAIN n.rows
               /\ n.rows[n.ids[f.uuid]].kind = p.kind
    BY <1>2, <1>3, <1>4, <1>5, <2>1, <2>2 DEF Traced
  <2>3. ASSUME NEW u \in DOMAIN n.ids
        PROVE  u \in DOMAIN p.start.ids \/ \E f \in s \cup {x} : Ready(p, f) /\ u = f.uuid
    BY <1>4, <2>1 DEF Traced
  <2>4. ASSUME NEW u \in DOMAIN p.start.ids
        PROVE  /\ u \in DOMAIN n.ids
               /\ (\A f \in s \cup {x} : u # f.uuid) => n.ids[u] = p.start.ids[u]
    BY <1>4, <2>1 DEF Traced
  <2> QED BY <2>2, <2>3, <2>4 DEF Traced
<1>8. ASSUME FilesApart(p, files) PROVE Landed(p, s \cup {x}, n)
  <2>1. Landed(p, s, now) /\ Copied(p, s, now) /\ Traced(p, s, now)
    BY <1>8 DEF StageSound
  <2>2. ~Overwrites(x, p.overwrite)
    BY <1>1 DEF LeavesRow, Overwrites
  <2>3. i \in DOMAIN p.start.rows /\ p.start.rows[i].uuid = x.uuid
    BY <1>3, <2>1, CopiesAreApart DEF Copied
  <2>4. ASSUME NEW f \in s, Ready(p, f) PROVE n.ids[f.uuid] = now.ids[f.uuid]
    BY <1>4, <1>5, <2>1, <2>4 DEF Traced
  <2> QED BY <1>2, <1>4, <2>1, <2>2, <2>3, <2>4 DEF Landed
<1> QED BY <1>2, <1>6, <1>7, <1>8 DEF StageSound

LEMMA StageStores ==
  ASSUME NEW p, NEW files, FilesFit(p, files), StartFits(p, files),
         NEW s \in SUBSET files, NEW x \in files \ s,
         NEW now, StageSound(p, files, s, now), Ready(p, x), NEW n, IsState(n),
         NEW i, NEW r, StoresRow(now, Content(p, x), ParentOf(p, x), p.overwrite, n, i, r)
  PROVE  StageSound(p, files, s \cup {x}, n)
<1> DEFINE c == Content(p, x)
           parent == ParentOf(p, x)
           found == Matches(now.rows, c, parent)
<1>1. /\ c.kind = p.kind /\ c.kind = x.kind /\ c.uuid = x.uuid /\ c.name = x.name
      /\ p.kind \in BundleKinds /\ x.uuid \in UuidsOf(p.kind) /\ SlotsFit(c)
      /\ p.kind = "Chart" => c.name = Nameless
  BY ContentIs DEF FilesFit
<1>2. /\ r.kind = c.kind /\ r.uuid = c.uuid /\ r.name = c.name /\ r.slots = c.slots
      /\ r.parent = parent /\ DOMAIN r = RowFields
  BY DEF StoresRow, RowFields
<1>3. IsCopy(p, x, r)
  BY DEF StoresRow, IsCopy
<1>4. /\ DOMAIN n.rows = DOMAIN now.rows \cup {i} /\ n.rows[i] = r
      /\ \A j \in DOMAIN now.rows : j # i => n.rows[j] = now.rows[j]
      /\ DOMAIN n.ids = DOMAIN now.ids \cup {x.uuid} /\ n.ids[x.uuid] = i
      /\ \A u \in DOMAIN now.ids : u # x.uuid => n.ids[u] = now.ids[u]
  BY <1>1 DEF StoresRow, Assign
<1>5. \/ i \in found /\ n.next = now.next
      \/ i = now.next /\ n.next = now.next + 1
  BY DEF StoresRow
<1>6. SoundRows(now.rows, now.next) /\ SoundRows(p.start.rows, p.start.next)
      /\ RowsKept(p, now) /\ Touched(p, s, now) /\ Copied(p, s, now) /\ Traced(p, s, now)
  BY DEF StageSound, StartFits
<1>7. /\ now.next \in Nat /\ p.start.next \in Nat /\ p.start.next <= now.next
      /\ \A j \in DOMAIN now.rows : j \in Nat /\ j < now.next
      /\ \A j \in DOMAIN p.start.rows : j \in DOMAIN now.rows /\ j < p.start.next
  <2>1. /\ now.next \in Nat /\ p.start.next \in Nat /\ p.start.next <= now.next
        /\ DOMAIN p.start.rows \subseteq DOMAIN now.rows
        /\ DOMAIN now.rows \subseteq 1..(now.next - 1)
        /\ DOMAIN p.start.rows \subseteq 1..(p.start.next - 1)
    BY <1>6 DEF SoundRows, RowsKept
  <2> QED BY <2>1
<1>8. \A j \in found :
        /\ j \in DOMAIN now.rows /\ now.rows[j].kind = x.kind /\ now.rows[j].parent = parent
        /\ now.rows[j].uuid = x.uuid \/ (x.name # Nameless /\ now.rows[j].name = x.name)
  BY <1>1 DEF Matches
<1>9. i \in DOMAIN now.rows => i \in found
  BY <1>5, <1>7
<1>10. \A f \in s : f.uuid # x.uuid
  BY DEF FilesFit
<1> HIDE DEF found, c, parent
<1>11. SoundRows(n.rows, n.next)
  <2>1. \/ i \in DOMAIN now.rows /\ now.rows[i].kind = r.kind /\ n.next = now.next
        \/ i = now.next /\ n.next = now.next + 1
    BY <1>1, <1>2, <1>5, <1>8
  <2>2. r.kind \in BundleKinds /\ r.uuid \in UuidsOf(r.kind) /\ SlotsFit(r)
    BY <1>1, <1>2 DEF SlotsFit
  <2>3. /\ r.kind \in {"Database", "Dashboard"} => r.parent = 0
        /\ r.kind = "Dataset" => r.parent \in DOMAIN now.rows /\ now.rows[r.parent].kind = "Database"
        /\ r.kind = "Chart" =>
             r.name = Nameless /\ r.parent \in DOMAIN now.rows /\ now.rows[r.parent].kind = "Dataset"
    <3>1. r.kind \in {"Database", "Dashboard"} => r.parent = 0
      BY <1>1, <1>2 DEF ParentOf, parent
    <3>2. /\ p.kind = "Dataset" =>
               parent \in DOMAIN p.start.rows /\ p.start.rows[parent].kind = "Database"
          /\ p.kind = "Chart" =>
               parent \in DOMAIN p.start.rows /\ p.start.rows[parent].kind = "Dataset"
      BY DEF StartFits, parent
    <3>3. \A j \in DOMAIN p.start.rows :
            j \in DOMAIN now.rows /\ now.rows[j].kind = p.start.rows[j].kind
      BY <1>6 DEF RowsKept
    <3> QED BY <1>1, <1>2, <3>1, <3>2, <3>3
  <2>4. ASSUME NEW j \in DOMAIN now.rows,
               \/ now.rows[j].uuid = r.uuid
               \/ /\ now.rows[j].kind = r.kind /\ now.rows[j].parent = r.parent
                  /\ now.rows[j].name = r.name /\ r.name # Nameless
        PROVE  j = i
    <3>1. CASE now.rows[j].uuid = r.uuid
      <4>1. now.rows[j].kind \in BundleKinds /\ now.rows[j].uuid \in UuidsOf(now.rows[j].kind)
        BY <1>6 DEF SoundRows, SoundRow
      <4>2. now.rows[j].kind = r.kind
        BY <2>2, <3>1, <4>1, TransferAssumption
      <4>3. j \in WithUuid(now.rows, c)
        BY <1>2, <3>1, <4>2 DEF WithUuid
      <4> QED BY <4>3 DEF StoresRow, c
    <3>2. CASE now.rows[j].uuid # r.uuid
      <4>1. j \in found
        BY <1>1, <1>2, <2>4, <3>2 DEF Matches, found
      <4> QED BY <4>1 DEF StoresRow, c, found, parent
    <3> QED BY <3>1, <3>2
  <2>5. SoundRows(Assign(now.rows, i, r), n.next)
    BY <1>2, <1>6, <2>1, <2>2, <2>3, <2>4, StoredIsSound
  <2> QED BY <2>5 DEF StoresRow
<1>12. RowsKept(p, n)
  <2>1. p.start.next <= n.next /\ DOMAIN p.start.rows \subseteq DOMAIN n.rows
    BY <1>4, <1>5, <1>7
  <2>2. ASSUME NEW j \in DOMAIN p.start.rows PROVE n.rows[j].kind = p.start.rows[j].kind
    <3>1. j \in DOMAIN now.rows /\ now.rows[j].kind = p.start.rows[j].kind
      BY <1>6 DEF RowsKept
    <3>2. j = i => now.rows[j].kind = r.kind
      BY <1>1, <1>2, <1>8, <1>9, <3>1
    <3> QED BY <1>4, <3>1, <3>2
  <2>3. ASSUME NEW j \in DOMAIN n.rows \ DOMAIN p.start.rows PROVE j >= p.start.next
    <3>1. CASE j \in DOMAIN now.rows
      BY <1>6, <3>1 DEF RowsKept
    <3>2. CASE j \notin DOMAIN now.rows
      BY <1>4, <1>5, <1>7, <1>8, <3>2
    <3> QED BY <3>1, <3>2
  <2> QED BY <2>1, <2>2, <2>3 DEF RowsKept
<1>13. Touched(p, s \cup {x}, n)
  <2>1. SUFFICES ASSUME NEW j \in DOMAIN p.start.rows
                 PROVE  \/ n.rows[j] = p.start.rows[j]
                        \/ \E f \in s \cup {x} :
                             /\ Ready(p, f) /\ Fits(p, f, p.start.rows[j])
                             /\ f.uuid = p.start.rows[j].uuid => Overwrites(f, p.overwrite)
    BY DEF Touched
  <2>2. CASE j # i
    BY <1>4, <1>6, <1>7, <2>2 DEF Touched
  <2>3. CASE j = i /\ now.rows[j] # p.start.rows[j]
    BY <1>6, <2>3 DEF Touched
  <2>4. CASE j = i /\ now.rows[j] = p.start.rows[j]
    <3>1. Fits(p, x, p.start.rows[j])
      BY <1>7, <1>8, <1>9, <2>4 DEF Fits, parent
    <3>2. ASSUME x.uuid = p.start.rows[j].uuid PROVE Overwrites(x, p.overwrite)
      <4>1. j \in WithUuid(now.rows, c)
        BY <1>1, <1>7, <2>4, <3>1, <3>2 DEF WithUuid, Fits
      <4>2. Overwrites(c, p.overwrite)
        BY <4>1 DEF StoresRow, c
      <4> QED BY <1>1, <4>2 DEF Overwrites
    <3> QED BY <3>1, <3>2
  <2> QED BY <2>2, <2>3, <2>4
<1>14. Copied(p, s \cup {x}, n)
  BY <1>3, <1>4, <1>6 DEF Copied
<1>15. Traced(p, s \cup {x}, n)
  <2>1. Traced(p, s, now)
    BY <1>6
  <2>2. ASSUME NEW f \in s \cup {x}, Ready(p, f)
        PROVE  /\ f.uuid \in DOMAIN n.ids /\ n.ids[f.uuid] \in DOMAIN n.rows
               /\ n.rows[n.ids[f.uuid]].kind = p.kind
    <3>1. CASE f = x
      BY <1>1, <1>2, <1>4, <3>1
    <3>2. CASE f # x
      <4>1. /\ f.uuid \in DOMAIN now.ids /\ now.ids[f.uuid] \in DOMAIN now.rows
            /\ now.rows[now.ids[f.uuid]].kind = p.kind /\ f.uuid # x.uuid
        BY <1>10, <2>1, <2>2, <3>2 DEF Traced
      <4> QED BY <1>1, <1>2, <1>4, <4>1
    <3> QED BY <3>1, <3>2
  <2>3. ASSUME NEW u \in DOMAIN n.ids
        PROVE  u \in DOMAIN p.start.ids \/ \E f \in s \cup {x} : Ready(p, f) /\ u = f.uuid
    BY <1>4, <2>1 DEF Traced
  <2>4. ASSUME NEW u \in DOMAIN p.start.ids
        PROVE  /\ u \in DOMAIN n.ids
               /\ (\A f \in s \cup {x} : u # f.uuid) => n.ids[u] = p.start.ids[u]
    BY <1>4, <2>1 DEF Traced
  <2> QED BY <2>2, <2>3, <2>4 DEF Traced
<1>16. ASSUME FilesApart(p, files) PROVE Landed(p, s \cup {x}, n)
  <2>1. Landed(p, s, now)
    BY <1>16 DEF StageSound
  <2>2. ASSUME NEW g \in s, Ready(p, g), i \in DOMAIN now.rows PROVE ~IsCopy(p, g, now.rows[i])
    BY <1>9, <1>16, <2>2, CopiesAreApart DEF found, c, parent
  <2>3. i \in DOMAIN p.start.rows => Fits(p, x, p.start.rows[i])
    <3>1. SUFFICES ASSUME i \in DOMAIN p.start.rows PROVE Fits(p, x, p.start.rows[i])
      OBVIOUS
    <3>2. i \in found /\ now.rows[i] = p.start.rows[i]
      BY <1>6, <1>7, <1>9, <2>2, <3>1 DEF Copied
    <3> QED BY <1>8, <3>2 DEF Fits, parent
  <2>4. ASSUME NEW f \in s, Ready(p, f)
        PROVE  LET j == n.ids[f.uuid] IN
               \/ /\ j \in DOMAIN p.start.rows /\ p.start.rows[j].uuid = f.uuid
                  /\ ~Overwrites(f, p.overwrite)
               \/ /\ IsCopy(p, f, n.rows[j])
                  /\ j \in DOMAIN p.start.rows => Fits(p, f, p.start.rows[j])
    <3> DEFINE j == now.ids[f.uuid]
    <3>1. n.ids[f.uuid] = j /\ j \in DOMAIN now.rows
      BY <1>4, <1>6, <1>10, <2>4 DEF Traced
    <3>2. \/ /\ j \in DOMAIN p.start.rows /\ p.start.rows[j].uuid = f.uuid
             /\ ~Overwrites(f, p.overwrite)
          \/ /\ IsCopy(p, f, now.rows[j])
             /\ j \in DOMAIN p.start.rows => Fits(p, f, p.start.rows[j])
      BY <2>1, <2>4 DEF Landed
    <3> HIDE DEF j
    <3>3. IsCopy(p, f, now.rows[j]) => n.rows[j] = now.rows[j]
      BY <1>4, <2>2, <2>4, <3>1
    <3> QED BY <3>1, <3>2, <3>3
  <2>5. n.ids[x.uuid] = i /\ IsCopy(p, x, n.rows[i])
    BY <1>3, <1>4
  <2> QED BY <2>3, <2>4, <2>5 DEF Landed
<1> QED BY <1>11, <1>12, <1>13, <1>14, <1>15, <1>16 DEF StageSound

LEMMA StageStep ==
  ASSUME NEW p, NEW files, FilesFit(p, files), StartFits(p, files),
         NEW s \in SUBSET files, NEW x \in files \ s, NEW now, StageSound(p, files, s, now),
         ImportStep(p, x, now).ok
  PROVE  StageSound(p, files, s \cup {x}, ImportStep(p, x, now))
<1> DEFINE n == ImportStep(p, x, now)
<1>1. IsState(now) /\ SoundRows(now.rows, now.next) /\ IsState(n)
  BY StepKeepsState DEF StageSound
<1>2. CASE ~Ready(p, x)
  <2>1. p.kind # "Dashboard" /\ n = now
    BY <1>1, <1>2 DEF ImportStep, IsState
  <2>2. Touched(p, s \cup {x}, now) /\ Copied(p, s \cup {x}, now)
    BY DEF StageSound, Touched, Copied
  <2>3. Traced(p, s \cup {x}, now)
    BY <1>2 DEF StageSound, Traced
  <2>4. FilesApart(p, files) => Landed(p, s \cup {x}, now)
    BY <1>2 DEF StageSound, Landed
  <2> QED BY <2>1, <2>2, <2>3, <2>4 DEF StageSound
<1>3. CASE Ready(p, x)
  <2>1. n = import_file(now, Content(p, x), ParentOf(p, x), p.overwrite)
    BY <1>3 DEF ImportStep
  <2>2. DOMAIN Content(p, x) = RowFields
    BY ContentIs
  <2>3. \/ LeavesRow(now, Content(p, x), p.overwrite, n)
        \/ \E i, r : StoresRow(now, Content(p, x), ParentOf(p, x), p.overwrite, n, i, r)
    BY <1>1, <2>1, <2>2, ImportFile
  <2> HIDE DEF n
  <2> QED BY <1>1, <1>3, <2>3, StageLeaves, StageStores DEF n
<1> QED BY <1>2, <1>3

\* What holds of the import of no file and of one more holds of all.
LEMMA StageIsSound ==
  ASSUME NEW p, NEW files, IsFiniteSet(files), FilesFit(p, files), StartFits(p, files),
         NEW f, IsStage(p, files, f), f[files].ok
  PROVE  StageSound(p, files, files, f[files])
<1> DEFINE Good(T) == IsState(f[T]) /\ (f[T].ok => StageSound(p, files, T, f[T]))
           bad == {T \in SUBSET files : ~Good(T)}
<1>1. SUFFICES bad = {}
  BY DEF bad
<1>2. SUFFICES ASSUME bad # {} PROVE FALSE
  OBVIOUS
<1>3. PICK T \in bad : \A U \in bad : U \subseteq T => U = T
  <2> HIDE DEF Good
  <2>1. bad \in SUBSET SUBSET files
    OBVIOUS
  <2> HIDE DEF bad
  <2> QED BY <1>2, <2>1, LeastOfFiles
<1>4. CASE T = {}
  <2>1. f[T] = p.start
    BY <1>4 DEF IsStage, StageBody
  <2>2. p.start.ok => StageSound(p, files, {}, p.start)
    <3>1. p.start.next <= p.start.next
      BY DEF StartFits, SoundRows
    <3>2. /\ RowsKept(p, p.start) /\ Touched(p, {}, p.start) /\ Copied(p, {}, p.start)
          /\ Landed(p, {}, p.start)
      BY <3>1 DEF RowsKept, Touched, Copied, Landed
    <3>3. Traced(p, {}, p.start)
      BY DEF Traced
    <3> QED BY <3>2, <3>3 DEF StartFits, StageSound
  <2> QED BY <1>4, <2>1, <2>2 DEF StartFits
<1>5. CASE T # {}
  <2> DEFINE x == CHOOSE x \in T : TRUE
             U == T \ {x}
  <2>1. x \in T /\ U \in SUBSET files /\ T = U \cup {x} /\ x \in files \ U
    BY <1>5
  <2>2. f[T] = ImportStep(p, x, f[U])
    BY <1>5 DEF IsStage, StageBody
  <2> HIDE DEF x, Good
  <2>3. Good(U)
    BY <1>3, <2>1
  <2> HIDE DEF U
  <2> USE DEF Good
  <2>4. IsState(f[T]) /\ (f[T].ok => f[U].ok)
    BY <2>2, <2>3, StepKeepsState
  <2>5. f[T].ok => StageSound(p, files, T, f[T])
    BY <2>1, <2>2, <2>3, <2>4, StageStep
  <2> QED BY <2>4, <2>5
<1> QED BY <1>4, <1>5

-------------------------------------------------------------------------------
(* The bundle *)

\* What is known of the files of a bundle: their uuids are unique, their databases and
\* dashboards have names of their own, and what a file needs comes along.
FilesOK(files) ==
  /\ IsFiniteSet(files)
  /\ \A f \in files :
       /\ DOMAIN f = RowFields /\ f.kind \in BundleKinds /\ f.uuid \in UuidsOf(f.kind) /\ SlotsFit(f)
       /\ f.kind = "Chart" =>
            /\ f.name = Nameless
            /\ f.parent = NoUuid \/ \E t \in files : t.kind = "Dataset" /\ t.uuid = f.parent
       /\ f.kind = "Dataset" => \E b \in files : b.kind = "Database" /\ b.uuid = f.parent
  /\ \A f, g \in files :
       /\ f.uuid = g.uuid => f = g
       /\ /\ f.kind = g.kind /\ f.kind \in {"Database", "Dashboard"}
          /\ f.name = g.name /\ f.name # Nameless
          => f = g

BundleOK ==
  /\ bundle.kind \in BundleKinds /\ FilesOK(bundle.files)
  /\ bundle.kind # "Dashboard" => Files("Dashboard") = {}

-------------------------------------------------------------------------------
(* The stages of an import *)

LEMMA StageKeepsState ==
  ASSUME NEW p, NEW files, IsFiniteSet(files), NEW f, IsStage(p, files, f), IsState(p.start)
  PROVE  IsState(f[files]) /\ (f[files].ok => p.start.ok)
<1> DEFINE Good(T) == IsState(f[T]) /\ (f[T].ok => p.start.ok)
           bad == {T \in SUBSET files : ~Good(T)}
<1>1. SUFFICES ASSUME bad # {} PROVE FALSE
  BY DEF bad
<1>2. PICK T \in bad : \A U \in bad : U \subseteq T => U = T
  <2> HIDE DEF Good
  <2>1. bad \in SUBSET SUBSET files
    OBVIOUS
  <2> HIDE DEF bad
  <2> QED BY <1>1, <2>1, LeastOfFiles
<1>3. CASE T = {}
  BY <1>3 DEF IsStage, StageBody
<1>4. CASE T # {}
  <2> DEFINE x == CHOOSE x \in T : TRUE
             U == T \ {x}
  <2>1. x \in T /\ U \in SUBSET files
    BY <1>4
  <2>2. f[T] = ImportStep(p, x, f[U])
    BY <1>4 DEF IsStage, StageBody
  <2> HIDE DEF x, Good
  <2>3. Good(U)
    BY <1>2, <2>1
  <2> HIDE DEF U
  <2> USE DEF Good
  <2> QED BY <2>2, <2>3, StepKeepsState
<1> QED BY <1>3, <1>4

\* Rows of other kinds are neither changed nor added.
LEMMA OtherKindsStay ==
  ASSUME NEW p, NEW files, FilesFit(p, files), NEW now, StageSound(p, files, files, now), NEW j,
         \/ j \in DOMAIN now.rows /\ now.rows[j].kind # p.kind
         \/ j \in DOMAIN p.start.rows /\ p.start.rows[j].kind # p.kind
  PROVE  j \in DOMAIN p.start.rows /\ j \in DOMAIN now.rows /\ now.rows[j] = p.start.rows[j]
<1>1. RowsKept(p, now) /\ Copied(p, files, now)
  BY DEF StageSound
<1>2. j \in DOMAIN now.rows /\ now.rows[j].kind # p.kind
  BY <1>1 DEF RowsKept
<1>3. ASSUME NEW f \in files, IsCopy(p, f, now.rows[j]) PROVE FALSE
  <2>1. now.rows[j].kind = p.kind
    BY <1>3, ContentIs DEF IsCopy, RowFields, FilesFit
  <2> QED BY <1>2, <2>1
<1> QED BY <1>1, <1>2, <1>3 DEF Copied

Start(s) ==
  [rows |-> sites[s].rows, next |-> sites[s].next, ids |-> [u \in {} |-> 0], ok |-> TRUE]

\* The state after each of the four kinds.
GoesThrough(s, overwrite, A, B, C, D) ==
  /\ StageSound(Params("Database", Start(s), overwrite), DatabasesNeeded, DatabasesNeeded, A)
  /\ StageSound(Params("Dataset", A, overwrite), Files("Dataset"), Files("Dataset"), B)
  /\ StageSound(Params("Chart", B, overwrite), Files("Chart"), Files("Chart"), C)
  /\ StageSound(Params("Dashboard", C, overwrite), Files("Dashboard"), Files("Dashboard"), D)

LEMMA FilesFitStages ==
  ASSUME BundleOK, NEW start, NEW overwrite
  PROVE  /\ FilesFit(Params("Database", start, overwrite), DatabasesNeeded)
         /\ \A kind \in BundleKinds : FilesFit(Params(kind, start, overwrite), Files(kind))
         /\ IsFiniteSet(DatabasesNeeded) /\ \A kind \in BundleKinds : IsFiniteSet(Files(kind))
         /\ DatabasesNeeded \subseteq Files("Database")
<1>1. DatabasesNeeded \subseteq Files("Database") /\ Files("Database") \subseteq bundle.files
  BY DEF DatabasesNeeded, Files
<1>2. \A kind \in BundleKinds : FilesFit(Params(kind, start, overwrite), Files(kind))
  BY DEF FilesFit, Params, BundleOK, FilesOK, Files
<1>3. FilesFit(Params("Database", start, overwrite), DatabasesNeeded)
  <2>1. FilesFit(Params("Database", start, overwrite), Files("Database"))
    BY <1>2 DEF BundleKinds
  <2> QED BY <1>1, <2>1 DEF FilesFit
<1>4. IsFiniteSet(bundle.files)
  BY DEF BundleOK, FilesOK
<1>5. \A kind \in BundleKinds : IsFiniteSet(Files(kind))
  BY <1>4, FS_Subset DEF Files
<1>6. IsFiniteSet(DatabasesNeeded)
  BY <1>1, <1>4, FS_Subset
<1> QED BY <1>1, <1>2, <1>3, <1>5, <1>6

\* The uuids that are known after the databases and the datasets are those of files.
LEMMA KnownDatabases ==
  ASSUME NEW s, NEW overwrite, NEW A,
         StageSound(Params("Database", Start(s), overwrite), DatabasesNeeded, DatabasesNeeded, A),
         NEW u \in DOMAIN A.ids
  PROVE  /\ \E b \in DatabasesNeeded : b.uuid = u
         /\ A.ids[u] \in DOMAIN A.rows /\ A.rows[A.ids[u]].kind = "Database"
<1> DEFINE p == Params("Database", Start(s), overwrite)
<1>1. DOMAIN p.start.ids = {} /\ p.kind = "Database"
  BY DEF Params, Start
<1> HIDE DEF p
<1>2. Traced(p, DatabasesNeeded, A)
  BY DEF StageSound, p
<1> QED BY <1>1, <1>2 DEF Traced, Ready

LEMMA KnownDatasets ==
  ASSUME BundleOK, NEW s, NEW overwrite, NEW A, NEW B,
         StageSound(Params("Database", Start(s), overwrite), DatabasesNeeded, DatabasesNeeded, A),
         StageSound(Params("Dataset", A, overwrite), Files("Dataset"), Files("Dataset"), B),
         NEW u \in DOMAIN B.ids
  PROVE  \/ \E b \in Files("Database") : b.uuid = u
         \/ /\ \E t \in Files("Dataset") : t.uuid = u
            /\ B.ids[u] \in DOMAIN B.rows /\ B.rows[B.ids[u]].kind = "Dataset"
<1>1. \/ u \in DOMAIN A.ids
      \/ /\ \E t \in Files("Dataset") : t.uuid = u
         /\ B.ids[u] \in DOMAIN B.rows /\ B.rows[B.ids[u]].kind = "Dataset"
  BY DEF StageSound, Traced, Params
<1> QED BY <1>1, KnownDatabases, FilesFitStages

\* What a chart's file names as its dataset, if it is known, is one.
LEMMA DatasetIsOne ==
  ASSUME BundleOK, NEW table, NEW ids, NEW c \in Files("Chart"), c.parent \in DOMAIN ids,
         \A u \in DOMAIN ids :
           \/ \E b \in Files("Database") : b.uuid = u
           \/ /\ \E t \in Files("Dataset") : t.uuid = u
              /\ ids[u] \in DOMAIN table /\ table[ids[u]].kind = "Dataset"
  PROVE  ids[c.parent] \in DOMAIN table /\ table[ids[c.parent]].kind = "Dataset"
<1>1. ASSUME NEW f \in bundle.files PROVE f.uuid \in UuidsOf(f.kind) /\ f.kind \in BundleKinds
  BY DEF BundleOK, FilesOK
<1>2. c.parent # NoUuid
  BY <1>1, TransferAssumption DEF Files
<1>3. PICK t \in bundle.files : t.kind = "Dataset" /\ t.uuid = c.parent
  BY <1>2 DEF BundleOK, FilesOK, Files
<1>4. ~\E b \in Files("Database") : b.uuid = c.parent
  BY <1>3 DEF BundleOK, FilesOK, Files
<1> QED BY <1>4

LEMMA ImportGoesThrough ==
  ASSUME TransferTypeOK, BundleOK, NEW s \in Sites, NEW overwrite,
         import_dashboards(import_supplies(s, overwrite), overwrite).ok
  PROVE  \E A, B : GoesThrough(s, overwrite, A, B, import_supplies(s, overwrite),
                               import_dashboards(import_supplies(s, overwrite), overwrite))
<1> DEFINE C == import_supplies(s, overwrite)
           D == import_dashboards(C, overwrite)
           A == import_databases(Start(s), DatabasesNeeded, overwrite)
           B == import_children(A, Files("Dataset"), overwrite)
           pA == Params("Database", Start(s), overwrite)
           pB == Params("Dataset", A, overwrite)
           pC == Params("Chart", B, overwrite)
           pD == Params("Dashboard", C, overwrite)
<1>1. C = import_children(B, Files("Chart"), overwrite)
  BY DEF import_supplies, Start
<1>2. PICK fA : IsStage(pA, DatabasesNeeded, fA) /\ A = fA[DatabasesNeeded]
  BY DatabasesAreAStage, FilesFitStages
<1> HIDE DEF A
<1>3. PICK fB : IsStage(pB, Files("Dataset"), fB) /\ B = fB[Files("Dataset")]
  BY DatasetsAreAStage, FilesFitStages DEF BundleKinds
<1> HIDE DEF B
<1>4. PICK fC : IsStage(pC, Files("Chart"), fC) /\ C = fC[Files("Chart")]
  BY <1>1, ChartsAreAStage, FilesFitStages DEF BundleKinds
<1> HIDE DEF C
<1>5. PICK fD : IsStage(pD, Files("Dashboard"), fD) /\ D = fD[Files("Dashboard")]
  BY DashboardsAreAStage, FilesFitStages DEF BundleKinds
<1>6. D.ok
  BY DEF C
<1> HIDE DEF D, pA, pB, pC, pD
<1>7. /\ pA.start = Start(s) /\ pB.start = A /\ pC.start = B /\ pD.start = C
      /\ pA.kind = "Database" /\ pB.kind = "Dataset" /\ pC.kind = "Chart" /\ pD.kind = "Dashboard"
  BY DEF pA, pB, pC, pD, Params
<1>8. /\ FilesFit(pA, DatabasesNeeded) /\ FilesFit(pB, Files("Dataset"))
      /\ FilesFit(pC, Files("Chart")) /\ FilesFit(pD, Files("Dashboard"))
      /\ IsFiniteSet(DatabasesNeeded) /\ IsFiniteSet(Files("Dataset"))
      /\ IsFiniteSet(Files("Chart")) /\ IsFiniteSet(Files("Dashboard"))
  BY FilesFitStages DEF BundleKinds, pA, pB, pC, pD
<1>9. IsState(Start(s)) /\ SoundRows(Start(s).rows, Start(s).next)
  BY DEF IsState, Start, TransferTypeOK, SoundSite
<1>10. IsState(A) /\ IsState(B) /\ IsState(C)
  <2>1. IsState(A)
    <3>1. IsState(pA.start)
      BY <1>7, <1>9
    <3> QED BY <1>2, <1>8, <3>1, StageKeepsState
  <2>2. IsState(B)
    BY <1>3, <1>7, <1>8, <2>1, StageKeepsState
  <2>3. IsState(C)
    BY <1>4, <1>7, <1>8, <2>2, StageKeepsState
  <2> QED BY <2>1, <2>2, <2>3
<1>11. A.ok /\ B.ok /\ C.ok
  <2>1. C.ok
    BY <1>5, <1>6, <1>7, <1>8, <1>10, StageKeepsState
  <2>2. B.ok
    BY <1>4, <1>7, <1>8, <1>10, <2>1, StageKeepsState
  <2>3. A.ok
    BY <1>3, <1>7, <1>8, <1>10, <2>2, StageKeepsState
  <2> QED BY <2>1, <2>2, <2>3
<1>12. StageSound(pA, DatabasesNeeded, DatabasesNeeded, A)
  <2>1. StartFits(pA, DatabasesNeeded)
    BY <1>7, <1>9 DEF StartFits
  <2> QED BY <1>2, <1>8, <1>11, <2>1, StageIsSound
<1>13. StageSound(pB, Files("Dataset"), Files("Dataset"), B)
  <2>1. ASSUME NEW f \in Files("Dataset"), Ready(pB, f)
        PROVE  ParentOf(pB, f) \in DOMAIN A.rows /\ A.rows[ParentOf(pB, f)].kind = "Database"
    <3>1. f.parent \in DOMAIN A.ids /\ ParentOf(pB, f) = A.ids[f.parent]
      BY <1>7, <2>1 DEF Ready, ParentOf
    <3>2. \A u \in DOMAIN A.ids : A.ids[u] \in DOMAIN A.rows /\ A.rows[A.ids[u]].kind = "Database"
      BY <1>12, KnownDatabases DEF pA
    <3> QED BY <3>1, <3>2
  <2>2. StartFits(pB, Files("Dataset"))
    BY <1>7, <1>10, <1>12, <2>1 DEF StartFits, StageSound
  <2> QED BY <1>3, <1>8, <1>11, <2>2, StageIsSound
<1>14. StageSound(pC, Files("Chart"), Files("Chart"), C)
  <2>1. ASSUME NEW f \in Files("Chart"), Ready(pC, f)
        PROVE  ParentOf(pC, f) \in DOMAIN B.rows /\ B.rows[ParentOf(pC, f)].kind = "Dataset"
    <3>1. f.parent \in DOMAIN B.ids /\ ParentOf(pC, f) = B.ids[f.parent]
      BY <1>7, <2>1 DEF Ready, ParentOf
    <3>2. \A u \in DOMAIN B.ids :
            \/ \E b \in Files("Database") : b.uuid = u
            \/ /\ \E t \in Files("Dataset") : t.uuid = u
               /\ B.ids[u] \in DOMAIN B.rows /\ B.rows[B.ids[u]].kind = "Dataset"
      BY <1>12, <1>13, KnownDatasets DEF pA, pB
    <3>3. B.ids[f.parent] \in DOMAIN B.rows /\ B.rows[B.ids[f.parent]].kind = "Dataset"
      BY <2>1, <3>1, <3>2, DatasetIsOne
    <3> QED BY <3>1, <3>3
  <2>2. StartFits(pC, Files("Chart"))
    BY <1>7, <1>10, <1>13, <2>1 DEF StartFits, StageSound
  <2> QED BY <1>4, <1>8, <1>11, <2>2, StageIsSound
<1>15. StageSound(pD, Files("Dashboard"), Files("Dashboard"), D)
  <2>1. StartFits(pD, Files("Dashboard"))
    BY <1>7, <1>10, <1>14 DEF StartFits, StageSound
  <2> QED BY <1>5, <1>6, <1>8, <2>1, StageIsSound
<1>16. GoesThrough(s, overwrite, A, B, C, D)
  BY <1>12, <1>13, <1>14, <1>15 DEF GoesThrough, pA, pB, pC, pD
<1> QED BY <1>16 DEF C, D

-------------------------------------------------------------------------------
(* What an import makes of the rows *)

LEMMA RowsGrow ==
  ASSUME BundleOK, NEW s, NEW overwrite, NEW A, NEW B, NEW C, NEW D,
         GoesThrough(s, overwrite, A, B, C, D), NEW i \in DOMAIN sites[s].rows
  PROVE  LET r == sites[s].rows[i] IN
         /\ i \in DOMAIN A.rows /\ i \in DOMAIN B.rows /\ i \in DOMAIN C.rows /\ i \in DOMAIN D.rows
         /\ A.rows[i].kind = r.kind /\ B.rows[i].kind = r.kind
         /\ C.rows[i].kind = r.kind /\ D.rows[i].kind = r.kind
<1>1. i \in DOMAIN A.rows /\ A.rows[i].kind = sites[s].rows[i].kind
  BY DEF GoesThrough, StageSound, RowsKept, Params, Start
<1>2. i \in DOMAIN B.rows /\ B.rows[i].kind = A.rows[i].kind
  BY <1>1 DEF GoesThrough, StageSound, RowsKept, Params
<1>3. i \in DOMAIN C.rows /\ C.rows[i].kind = B.rows[i].kind
  BY <1>2 DEF GoesThrough, StageSound, RowsKept, Params
<1>4. i \in DOMAIN D.rows /\ D.rows[i].kind = C.rows[i].kind
  BY <1>3 DEF GoesThrough, StageSound, RowsKept, Params
<1> QED BY <1>1, <1>2, <1>3, <1>4

\* A stage leaves the rows of the other kinds.
LEMMA OthersStay ==
  ASSUME BundleOK, NEW kind \in BundleKinds, NEW start, NEW overwrite, NEW files, NEW now,
         \/ files = Files(kind)
         \/ kind = "Database" /\ files = DatabasesNeeded,
         StageSound(Params(kind, start, overwrite), files, files, now), NEW j,
         \/ j \in DOMAIN now.rows /\ now.rows[j].kind # kind
         \/ j \in DOMAIN start.rows /\ start.rows[j].kind # kind
  PROVE  j \in DOMAIN start.rows /\ j \in DOMAIN now.rows /\ now.rows[j] = start.rows[j]
<1> DEFINE p == Params(kind, start, overwrite)
<1>1. p.kind = kind /\ p.start = start /\ FilesFit(p, files)
  BY FilesFitStages DEF Params
<1>2. StageSound(p, files, files, now)
  OBVIOUS
<1> HIDE DEF p
<1> QED BY <1>1, <1>2, OtherKindsStay

LEMMA ChangesAreSpokenFor ==
  ASSUME TransferTypeOK, BundleOK, NEW s \in Sites, NEW overwrite,
         NEW A, NEW B, NEW C, NEW D, GoesThrough(s, overwrite, A, B, C, D),
         NEW i \in DOMAIN sites[s].rows
  PROVE  LET table == sites[s].rows IN
         \/ D.rows[i] = table[i]
         \/ \E f \in bundle.files :
              /\ SpeaksFor(f, table[i], table)
              /\ f.uuid = table[i].uuid => Overwrites(f, overwrite)
<1> DEFINE table == sites[s].rows
           r == table[i]
           pA == Params("Database", Start(s), overwrite)
           pB == Params("Dataset", A, overwrite)
           pC == Params("Chart", B, overwrite)
           pD == Params("Dashboard", C, overwrite)
<1>1. /\ i \in DOMAIN A.rows /\ i \in DOMAIN B.rows /\ i \in DOMAIN C.rows /\ i \in DOMAIN D.rows
      /\ A.rows[i].kind = r.kind /\ B.rows[i].kind = r.kind
      /\ C.rows[i].kind = r.kind /\ D.rows[i].kind = r.kind
  BY RowsGrow
<1>2. /\ StageSound(pA, DatabasesNeeded, DatabasesNeeded, A)
      /\ StageSound(pB, Files("Dataset"), Files("Dataset"), B)
      /\ StageSound(pC, Files("Chart"), Files("Chart"), C)
      /\ StageSound(pD, Files("Dashboard"), Files("Dashboard"), D)
  BY DEF GoesThrough
<1>3. r.kind # "Database" => A.rows[i] = r
  BY <1>1, <1>2, OthersStay DEF BundleKinds, Start
<1>4. r.kind # "Dataset" => B.rows[i] = A.rows[i]
  BY <1>1, <1>2, OthersStay DEF BundleKinds
<1>5. r.kind # "Chart" => C.rows[i] = B.rows[i]
  BY <1>1, <1>2, OthersStay DEF BundleKinds
<1>6. r.kind # "Dashboard" => D.rows[i] = C.rows[i]
  BY <1>1, <1>2, OthersStay DEF BundleKinds
<1>7. /\ pA.start = Start(s) /\ pB.start = A /\ pC.start = B /\ pD.start = C
      /\ pA.overwrite = overwrite /\ pB.overwrite = overwrite /\ pC.overwrite = overwrite
      /\ pD.overwrite = overwrite /\ Start(s).rows = table
      /\ pA.kind = "Database" /\ pB.kind = "Dataset" /\ pC.kind = "Chart" /\ pD.kind = "Dashboard"
  BY DEF Params, Start
<1>8. DatabasesNeeded \subseteq bundle.files /\ \A kind : Files(kind) \subseteq bundle.files
  BY FilesFitStages DEF Files
<1>9. ASSUME NEW p, NEW f, Fits(p, f, r) PROVE SharesKey(f, r)
  BY <1>9 DEF Fits, SharesKey
<1>10. /\ Touched(pA, DatabasesNeeded, A) /\ Touched(pB, Files("Dataset"), B)
       /\ Touched(pC, Files("Chart"), C) /\ Touched(pD, Files("Dashboard"), D)
  BY <1>2 DEF StageSound
<1> HIDE DEF pA, pB, pC, pD
<1>11. SoundRow(table, sites[s].next, i)
  BY DEF TransferTypeOK, SoundSite, SoundRows
<1>12. CASE r.kind = "Database" \/ r.kind = "Dashboard"
  <2>1. r.parent = 0
    BY <1>11, <1>12 DEF SoundRow
  <2>2. \/ D.rows[i] = r
        \/ \E f \in bundle.files :
             SharesKey(f, r) /\ (f.uuid = r.uuid => Overwrites(f, overwrite))
    <3>1. CASE r.kind = "Database"
      BY <1>4, <1>5, <1>6, <1>7, <1>8, <1>9, <1>10, <3>1 DEF Touched
    <3>2. CASE r.kind = "Dashboard"
      BY <1>1, <1>3, <1>4, <1>5, <1>7, <1>8, <1>9, <1>10, <3>2 DEF Touched
    <3> QED BY <1>12, <3>1, <3>2
  <2> QED BY <2>1, <2>2 DEF SpeaksFor
<1>13. CASE r.kind = "Chart"
  <2>1. \/ D.rows[i] = r
        \/ \E f \in Files("Chart") :
             SharesKey(f, r) /\ (f.uuid = r.uuid => Overwrites(f, overwrite))
    BY <1>1, <1>3, <1>4, <1>6, <1>7, <1>9, <1>10, <1>13 DEF Touched
  <2>2. ASSUME NEW f \in Files("Chart"), SharesKey(f, r) PROVE f.uuid = r.uuid
    BY <2>2 DEF SharesKey, Files, BundleOK, FilesOK
  <2> QED BY <1>8, <2>1, <2>2 DEF SpeaksFor
<1>14. CASE r.kind = "Dataset"
  <2>1. SUFFICES ASSUME D.rows[i] # r
                 PROVE  \E f \in bundle.files :
                          SpeaksFor(f, r, table) /\ (f.uuid = r.uuid => Overwrites(f, overwrite))
    OBVIOUS
  <2>2. PICK f \in Files("Dataset") :
          Ready(pB, f) /\ Fits(pB, f, r) /\ (f.uuid = r.uuid => Overwrites(f, overwrite))
    BY <1>1, <1>3, <1>5, <1>6, <1>7, <1>10, <1>14, <2>1 DEF Touched
  <2>3. f.parent \in DOMAIN A.ids /\ r.parent = A.ids[f.parent]
    BY <1>7, <2>2 DEF Ready, Fits, ParentOf
  <2>4. PICK b \in DatabasesNeeded : b.uuid = f.parent
    BY <1>2, <2>3, KnownDatabases DEF pA
  <2>5. FilesApart(pA, DatabasesNeeded)
    <3>1. \A g \in DatabasesNeeded : g \in bundle.files /\ g.kind = "Database"
      BY FilesFitStages DEF Files
    <3> QED BY <3>1 DEF FilesApart, BundleOK, FilesOK
  <2>6. Landed(pA, DatabasesNeeded, A) /\ Ready(pA, b)
    BY <1>2, <1>7, <2>5 DEF StageSound, Ready
  <2>7. r.parent \in DOMAIN table /\ table[r.parent].kind = "Database" /\ b.kind = "Database"
    BY <1>11, <1>14, FilesFitStages DEF SoundRow, Files
  <2>8. table[r.parent].uuid = b.uuid \/ Fits(pA, b, table[r.parent])
    BY <1>7, <2>3, <2>4, <2>6, <2>7 DEF Landed
  <2>9. SharesKey(b, table[r.parent])
    BY <2>7, <2>8 DEF SharesKey, Fits
  <2>10. SpeaksFor(f, r, table)
    BY <1>8, <1>9, <2>2, <2>4, <2>9 DEF SpeaksFor
  <2> QED BY <1>8, <2>2, <2>10
<1> QED BY <1>11, <1>12, <1>13, <1>14 DEF SoundRow, BundleKinds

\* The uuids that are known of charts lead to these.
LEMMA ChartsAreKnown ==
  ASSUME BundleOK, NEW s, NEW overwrite, NEW A, NEW B, NEW C, NEW D,
         GoesThrough(s, overwrite, A, B, C, D),
         NEW u \in DOMAIN C.ids, u \in UuidsOf("Chart") \cup {NoUuid}
  PROVE  /\ \E c \in Files("Chart") : c.uuid = u /\ c.parent \in DOMAIN B.ids
         /\ C.ids[u] \in DOMAIN C.rows /\ C.rows[C.ids[u]].kind = "Chart"
         /\ C.ids[u] \in DOMAIN D.rows /\ D.rows[C.ids[u]] = C.rows[C.ids[u]]
<1> DEFINE p == Params("Chart", B, overwrite)
<1>1. u \notin DOMAIN B.ids
  <2>1. ASSUME NEW f \in bundle.files, f.kind = "Database" \/ f.kind = "Dataset" PROVE f.uuid # u
    BY <2>1, TransferAssumption DEF BundleOK, FilesOK, BundleKinds
  <2>2. \A v \in DOMAIN B.ids : \E f \in bundle.files :
          (f.kind = "Database" \/ f.kind = "Dataset") /\ f.uuid = v
    BY KnownDatasets DEF GoesThrough, Files
  <2> QED BY <2>1, <2>2
<1>2. Traced(p, Files("Chart"), C) /\ p.start = B /\ p.kind = "Chart"
  BY DEF GoesThrough, StageSound, Params
<1> HIDE DEF p
<1>3. PICK c \in Files("Chart") : Ready(p, c) /\ c.uuid = u
  BY <1>1, <1>2 DEF Traced
<1>4. C.ids[u] \in DOMAIN C.rows /\ C.rows[C.ids[u]].kind = "Chart"
  BY <1>2, <1>3 DEF Traced
<1>5. C.ids[u] \in DOMAIN D.rows /\ D.rows[C.ids[u]] = C.rows[C.ids[u]]
  BY <1>4, OthersStay DEF GoesThrough, BundleKinds
<1> QED BY <1>2, <1>3, <1>4, <1>5 DEF Ready

\* Files of charts only match by uuid: where they lead is a row with theirs.
LEMMA ChartsHaveTheirUuids ==
  ASSUME BundleOK, NEW s, NEW overwrite, NEW A, NEW B, NEW C, NEW D,
         GoesThrough(s, overwrite, A, B, C, D), NEW c \in Files("Chart"), c.parent \in DOMAIN B.ids
  PROVE  c.uuid \in DOMAIN C.ids /\ C.rows[C.ids[c.uuid]].uuid = c.uuid
<1> DEFINE p == Params("Chart", B, overwrite)
           j == C.ids[c.uuid]
<1>1. p.start = B /\ p.kind = "Chart" /\ p.overwrite = overwrite
  BY DEF Params
<1>2. StageSound(p, Files("Chart"), Files("Chart"), C) /\ FilesFit(p, Files("Chart"))
  BY FilesFitStages DEF GoesThrough, BundleKinds
<1> HIDE DEF p
<1>3. Ready(p, c)
  BY <1>1 DEF Ready
<1>4. \A f \in Files("Chart") : f.name = Nameless
  BY <1>1, <1>2 DEF FilesFit
<1>5. FilesApart(p, Files("Chart"))
  BY <1>4 DEF FilesApart
<1>6. Traced(p, Files("Chart"), C) /\ Landed(p, Files("Chart"), C) /\ Touched(p, Files("Chart"), C)
  BY <1>2, <1>5 DEF StageSound
<1>7. c.uuid \in DOMAIN C.ids
  BY <1>3, <1>6 DEF Traced
<1>8. \/ j \in DOMAIN B.rows /\ B.rows[j].uuid = c.uuid /\ ~Overwrites(c, overwrite)
      \/ IsCopy(p, c, C.rows[j])
  BY <1>1, <1>3, <1>6 DEF Landed
<1>9. CASE j \in DOMAIN B.rows /\ B.rows[j].uuid = c.uuid /\ ~Overwrites(c, overwrite)
  <2>1. ASSUME NEW f \in Files("Chart"), Fits(p, f, B.rows[j]),
               f.uuid = B.rows[j].uuid => Overwrites(f, overwrite)
        PROVE  FALSE
    <3>1. f.uuid = c.uuid
      BY <1>4, <1>9, <2>1 DEF Fits
    <3>2. f = c
      BY <1>2, <2>1, <3>1 DEF FilesFit
    <3> QED BY <1>9, <2>1, <3>2
  <2>2. C.rows[j] = B.rows[j]
    BY <1>1, <1>6, <1>9, <2>1 DEF Touched
  <2> QED BY <1>7, <1>9, <2>2
<1>10. CASE IsCopy(p, c, C.rows[j])
  <2>1. C.rows[j].uuid = c.uuid
    BY <1>2, <1>10, ContentIs DEF IsCopy, RowFields
  <2> QED BY <1>7, <2>1
<1> QED BY <1>8, <1>9, <1>10

\* What every dashboard's file leads to is a dashboard.
LEMMA DashboardsAreKnown ==
  ASSUME BundleOK, NEW s, NEW overwrite, NEW A, NEW B, NEW C, NEW D,
         GoesThrough(s, overwrite, A, B, C, D), NEW f \in Files("Dashboard")
  PROVE  /\ RefersToImported(f, C.ids)
         /\ D.ids[f.uuid] \in DOMAIN D.rows /\ D.rows[D.ids[f.uuid]].kind = "Dashboard"
<1> DEFINE p == Params("Dashboard", C, overwrite)
<1>1. p.start = C /\ p.kind = "Dashboard"
  BY DEF Params
<1>2. StageSound(p, Files("Dashboard"), Files("Dashboard"), D)
  BY DEF GoesThrough
<1> HIDE DEF p
<1>3. Ready(p, f)
  BY <1>1, <1>2 DEF StageSound
<1>4. Traced(p, Files("Dashboard"), D)
  BY <1>2 DEF StageSound
<1> QED BY <1>1, <1>3, <1>4 DEF Ready, Traced

-------------------------------------------------------------------------------
(* An imported dashboard *)

\* The layout of a dashboard whose charts are all known, with their ids.
LEMMA RestoredLayout ==
  ASSUME NEW f, DOMAIN f = RowFields, SlotsFit(f), NEW ids, SlotUuids(f.slots) \subseteq DOMAIN ids,
         RefersToImported(f, ids)
  PROVE  LET c == update_id_refs(f, ids) IN
         /\ SlotUuids(c.slots) = SlotUuids(f.slots)
         /\ \A x \in c.slots : x.uuid \in SlotUuids(f.slots) /\ x.id = ids[x.uuid]
         /\ (\A u, v \in SlotUuids(f.slots) : ids[u] = ids[v] => u = v) /\ IdsAreClear(f.slots) =>
              /\ UuidsIn(c.slots, c.kept) = UuidsIn(f.slots, f.kept)
              /\ UuidsIn(c.slots, c.scoped) = UuidsIn(f.slots, f.scoped)
<1> DEFINE c == update_id_refs(f, ids)
           new == id_map(f, ids)
<1>1. /\ c.slots = {fixed_slot(x, ids) : x \in f.slots}
      /\ c.kept = {new[old] : old \in f.kept} /\ c.scoped = {new[old] : old \in f.scoped}
  BY DEF update_id_refs, RowFields
<1>2. ASSUME NEW x \in f.slots
      PROVE  /\ x.uuid \in SlotUuids(f.slots) /\ x.uuid \in DOMAIN ids
             /\ fixed_slot(x, ids).uuid = x.uuid /\ fixed_slot(x, ids).id = ids[x.uuid]
  <2>1. DOMAIN x = {"uuid", "id"}
    BY DEF SlotsFit
  <2>2. x.uuid \in SlotUuids(f.slots) /\ x.uuid \in DOMAIN ids
    BY DEF SlotUuids
  <2>3. fixed_slot(x, ids) = [x EXCEPT !.id = ids[x.uuid]]
    BY <2>1, <2>2 DEF fixed_slot
  <2> QED BY <2>1, <2>2, <2>3
<1>3. \A old \in f.kept \cup f.scoped :
        \E y \in f.slots : y.id = old /\ new[old] = ids[y.uuid]
  <2>1. SUFFICES ASSUME NEW old \in f.kept \cup f.scoped
                 PROVE  \E y \in f.slots : y.id = old /\ new[old] = ids[y.uuid]
    OBVIOUS
  <2>2. old \in DOMAIN new
    BY DEF RefersToImported
  <2>3. \E y \in f.slots : y.id = old /\ y.uuid \in DOMAIN ids
    BY <2>2 DEF id_map
  <2>4. new[old] = ids[(CHOOSE y \in f.slots : y.id = old /\ y.uuid \in DOMAIN ids).uuid]
    BY <2>2 DEF id_map
  <2> QED BY <2>3, <2>4
<1> HIDE DEF c, new
<1>4. SlotUuids(c.slots) = SlotUuids(f.slots)
  BY <1>1, <1>2 DEF SlotUuids
<1>5. \A x \in c.slots : \E y \in f.slots : x.uuid = y.uuid /\ x.id = ids[y.uuid]
  BY <1>1, <1>2
<1>6. \A y \in f.slots : \E x \in c.slots : x.uuid = y.uuid /\ x.id = ids[y.uuid]
  BY <1>1, <1>2
<1>7. ASSUME \A u, v \in SlotUuids(f.slots) : ids[u] = ids[v] => u = v, IdsAreClear(f.slots),
             NEW old, old \subseteq f.kept \cup f.scoped, NEW kept, kept = {new[o] : o \in old}
      PROVE  UuidsIn(c.slots, kept) = UuidsIn(f.slots, old)
  <2>1. ASSUME NEW x \in c.slots, x.id \in kept
        PROVE  \E y \in f.slots : y.id \in old /\ y.uuid = x.uuid
    <3>1. PICK o \in old : x.id = new[o]
      BY <1>7, <2>1
    <3>2. PICK y \in f.slots : y.id = o /\ new[o] = ids[y.uuid]
      BY <1>3, <1>7
    <3>3. PICK z \in f.slots : x.uuid = z.uuid /\ x.id = ids[z.uuid]
      BY <1>5
    <3>4. z.uuid = y.uuid
      BY <1>2, <1>7, <3>1, <3>2, <3>3
    <3> QED BY <3>2, <3>3, <3>4
  <2>2. ASSUME NEW y \in f.slots, y.id \in old
        PROVE  \E x \in c.slots : x.id \in kept /\ x.uuid = y.uuid
    <3>1. PICK z \in f.slots : z.id = y.id /\ new[y.id] = ids[z.uuid]
      BY <1>3, <1>7, <2>2
    <3>2. z.uuid = y.uuid
      BY <1>7, <3>1 DEF IdsAreClear
    <3>3. PICK x \in c.slots : x.uuid = y.uuid /\ x.id = ids[y.uuid]
      BY <1>6
    <3> QED BY <1>7, <2>2, <3>1, <3>2, <3>3
  <2> QED BY <2>1, <2>2 DEF UuidsIn
<1>8. ASSUME \A u, v \in SlotUuids(f.slots) : ids[u] = ids[v] => u = v, IdsAreClear(f.slots)
      PROVE  /\ UuidsIn(c.slots, c.kept) = UuidsIn(f.slots, f.kept)
             /\ UuidsIn(c.slots, c.scoped) = UuidsIn(f.slots, f.scoped)
  BY <1>1, <1>7, <1>8
<1>9. \A x \in c.slots : x.uuid \in SlotUuids(f.slots) /\ x.id = ids[x.uuid]
  BY <1>2, <1>5
<1> QED BY <1>4, <1>8, <1>9 DEF c

\* When the charts of a dashboard's file came along, so did what they need.
LEMMA AllCameAlong ==
  ASSUME BundleOK, NEW s, NEW overwrite, NEW A, NEW B, NEW C, NEW D,
         GoesThrough(s, overwrite, A, B, C, D), \A c \in Files("Chart") : c.parent # NoUuid,
         NEW f \in Files("Dashboard"), SlotUuids(f.slots) \subseteq {c.uuid : c \in Files("Chart")},
         NEW u \in SlotUuids(f.slots)
  PROVE  u \in DOMAIN C.ids /\ C.rows[C.ids[u]].uuid = u
<1>1. bundle.kind = "Dashboard"
  BY DEF BundleOK
<1>2. PICK c \in Files("Chart") : c.uuid = u
  OBVIOUS
<1>3. PICK t \in Files("Dataset") : t.uuid = c.parent
  BY DEF BundleOK, FilesOK, Files
<1>4. PICK b \in Files("Database") : b.uuid = t.parent
  BY DEF BundleOK, FilesOK, Files
<1>5. t \in DatasetsNeeded
  BY <1>1, <1>2, <1>3 DEF DatasetsNeeded
<1>6. b \in DatabasesNeeded
  BY <1>1, <1>4, <1>5 DEF DatabasesNeeded
<1>7. t.parent \in DOMAIN A.ids
  <2> DEFINE p == Params("Database", Start(s), overwrite)
  <2>1. Traced(p, DatabasesNeeded, A) /\ p.kind = "Database"
    BY DEF GoesThrough, StageSound, Params
  <2> HIDE DEF p
  <2> QED BY <1>4, <1>6, <2>1 DEF Traced, Ready
<1>8. c.parent \in DOMAIN B.ids
  <2> DEFINE p == Params("Dataset", A, overwrite)
  <2>1. Traced(p, Files("Dataset"), B) /\ p.kind = "Dataset" /\ p.start = A
    BY DEF GoesThrough, StageSound, Params
  <2> HIDE DEF p
  <2>2. Ready(p, t)
    BY <1>7, <2>1 DEF Ready
  <2> QED BY <1>3, <2>1, <2>2 DEF Traced
<1> QED BY <1>2, <1>8, ChartsHaveTheirUuids

\* A dashboard's file leads to a row that is its copy.
LEMMA DashboardIsCopied ==
  ASSUME BundleOK, NEW s, NEW overwrite, NEW A, NEW B, NEW C, NEW D,
         GoesThrough(s, overwrite, A, B, C, D), Valid(s, overwrite), NEW f \in Files("Dashboard")
  PROVE  LET d == D.ids[f.uuid] IN
         /\ d \in WithUuid(D.rows, f)
         /\ \A field \in {"slots", "kept", "scoped"} :
              D.rows[d][field] = update_id_refs(f, C.ids)[field]
<1> DEFINE p == Params("Dashboard", C, overwrite)
           files == Files("Dashboard")
           d == D.ids[f.uuid]
<1>1. p.start = C /\ p.kind = "Dashboard" /\ p.overwrite = overwrite
  BY DEF Params
<1>2. StageSound(p, files, files, D) /\ FilesFit(p, files)
  BY FilesFitStages DEF GoesThrough, BundleKinds
<1>3. StageSound(Params("Chart", B, overwrite), Files("Chart"), Files("Chart"), C)
      /\ StageSound(Params("Dataset", A, overwrite), Files("Dataset"), Files("Dataset"), B)
      /\ StageSound(Params("Database", Start(s), overwrite), DatabasesNeeded, DatabasesNeeded, A)
  BY DEF GoesThrough
<1> HIDE DEF p
<1>4. FilesApart(p, files)
  BY DEF FilesApart, BundleOK, FilesOK, Files
<1>5. Ready(p, f) /\ Landed(p, files, D)
  BY <1>1, <1>2, <1>4 DEF StageSound
<1>6. d \in DOMAIN D.rows /\ D.rows[d].kind = "Dashboard"
  BY DashboardsAreKnown
<1>7. ~(d \in DOMAIN C.rows /\ C.rows[d].uuid = f.uuid /\ ~Overwrites(f, overwrite))
  <2>1. SUFFICES ASSUME d \in DOMAIN C.rows, C.rows[d].uuid = f.uuid, ~Overwrites(f, overwrite)
                 PROVE  FALSE
    OBVIOUS
  <2>2. C.rows[d].kind = "Dashboard"
    BY <1>1, <1>2, <1>6, <2>1 DEF StageSound, RowsKept
  <2> HIDE DEF d
  <2>3. d \in DOMAIN B.rows /\ C.rows[d] = B.rows[d]
    BY <1>3, <2>1, <2>2, OthersStay DEF BundleKinds
  <2>4. d \in DOMAIN A.rows /\ B.rows[d] = A.rows[d]
    BY <1>3, <2>2, <2>3, OthersStay DEF BundleKinds
  <2>5. d \in DOMAIN sites[s].rows /\ A.rows[d] = sites[s].rows[d]
    BY <1>3, <2>2, <2>3, <2>4, OthersStay DEF BundleKinds, Start
  <2>6. d \in WithUuid(sites[s].rows, f) /\ bundle.kind = f.kind /\ f.kind = "Dashboard"
    BY <2>1, <2>2, <2>3, <2>4, <2>5 DEF WithUuid, Files, BundleOK
  <2>7. ~overwrite
    BY <2>1, <2>6 DEF Overwrites
  <2> QED BY <2>6, <2>7 DEF Valid, Files
<1>8. IsCopy(p, f, D.rows[d])
  BY <1>1, <1>5, <1>7 DEF Landed
<1>9. D.rows[d].uuid = f.uuid
  BY <1>2, <1>8, ContentIs DEF IsCopy, RowFields
<1>10. f.kind = "Dashboard"
  BY DEF Files
<1>11. Content(p, f) = update_id_refs(f, C.ids)
  BY <1>1 DEF Content
<1>12. \A field \in {"slots", "kept", "scoped"} :
         D.rows[d][field] = update_id_refs(f, C.ids)[field]
  BY <1>8, <1>11 DEF IsCopy, RowFields
<1> QED BY <1>6, <1>9, <1>10, <1>12 DEF WithUuid

-------------------------------------------------------------------------------
(* The steps *)

LEMMA ImportFollows ==
  ASSUME TransferTypeOK, BundleOK, NEW s \in Sites, NEW overwrite \in BOOLEAN,
         ImportCommand(s, overwrite)
  PROVE  TransferTypeOK' /\ ImportFollowsBundle'
<1> DEFINE C == import_supplies(s, overwrite)
           D == import_dashboards(C, overwrite)
           before == sites[s]
           after == sites'[s]
           boards == Files("Dashboard")
<1>1. /\ Valid(s, overwrite) /\ D.ok /\ bundle' = bundle
      /\ last' = [done |-> TRUE, site |-> s, overwrite |-> overwrite, before |-> before]
  BY DEF ImportCommand
<1>2. PICK linked \in [boards -> SUBSET DOMAIN C.ids] :
        /\ \A d \in boards : linked[d] \in Linked(d, C.ids)
        /\ sites' = [sites EXCEPT ![s] =
             [rows |-> D.rows, next |-> D.next,
              links |-> @.links \cup UNION {{<<D.ids[d.uuid], C.ids[u]>> : u \in linked[d]} :
                                            d \in boards}]]
  BY DEF ImportCommand
<1>3. PICK A, B : GoesThrough(s, overwrite, A, B, C, D)
  BY <1>1, ImportGoesThrough
<1> HIDE DEF C, D
<1> DEFINE new == UNION {{<<D.ids[d.uuid], C.ids[u]>> : u \in linked[d]} : d \in boards}
<1>4. /\ DOMAIN sites = Sites /\ DOMAIN sites' = Sites /\ \A q \in Sites : SoundSite(sites[q])
      /\ after = [rows |-> D.rows, next |-> D.next, links |-> before.links \cup new]
      /\ \A q \in Sites : q # s => sites'[q] = sites[q]
  BY <1>2 DEF TransferTypeOK
<1>5. /\ after.rows = D.rows /\ after.next = D.next /\ after.links = before.links \cup new
      /\ DOMAIN after = {"rows", "links", "next"}
  BY <1>4
<1>6. \A l \in new : \E d \in boards : \E u \in linked[d] : l = <<D.ids[d.uuid], C.ids[u]>>
  OBVIOUS
<1>7. \A d \in boards : \A u \in linked[d] : <<D.ids[d.uuid], C.ids[u]>> \in new
  OBVIOUS
<1>8. ASSUME NEW d \in boards
      PROVE  /\ DOMAIN d = RowFields /\ SlotsFit(d) /\ d.kind = "Dashboard"
             /\ linked[d] \subseteq SlotUuids(d.slots) \cap DOMAIN C.ids
             /\ SlotUuids(d.slots) \subseteq UuidsOf("Chart") \cup {NoUuid}
  <2>1. DOMAIN d = RowFields /\ SlotsFit(d) /\ d.kind = "Dashboard"
    BY DEF BundleOK, FilesOK, Files
  <2>2. linked[d] \subseteq SlotUuids(d.slots) \cap DOMAIN C.ids
    BY <1>2 DEF Linked
  <2>3. SlotUuids(d.slots) \subseteq UuidsOf("Chart") \cup {NoUuid}
    BY <2>1 DEF SlotUuids, SlotsFit
  <2> QED BY <2>1, <2>2, <2>3
<1> HIDE DEF new, boards
<1>9. ASSUME NEW d \in boards, NEW u \in SlotUuids(d.slots), u \in DOMAIN C.ids
      PROVE  /\ C.ids[u] \in DOMAIN D.rows /\ D.rows[C.ids[u]].kind = "Chart"
             /\ D.rows[C.ids[u]] = C.rows[C.ids[u]]
  <2>1. u \in UuidsOf("Chart") \cup {NoUuid}
    BY <1>8
  <2> QED BY <1>3, <1>9, <2>1, ChartsAreKnown
<1>10. SoundSite(after)
  <2>1. SoundRows(D.rows, D.next)
    BY <1>3 DEF GoesThrough, StageSound
  <2>2. ASSUME NEW l \in before.links
        PROVE  /\ l = <<l[1], l[2]>> /\ {l[1], l[2]} \subseteq DOMAIN D.rows
               /\ D.rows[l[1]].kind = "Dashboard" /\ D.rows[l[2]].kind = "Chart"
    <3>1. /\ l = <<l[1], l[2]>> /\ {l[1], l[2]} \subseteq DOMAIN before.rows
          /\ before.rows[l[1]].kind = "Dashboard" /\ before.rows[l[2]].kind = "Chart"
      BY <1>4 DEF SoundSite
    <3>2. \A i \in DOMAIN before.rows : i \in DOMAIN D.rows /\ D.rows[i].kind = before.rows[i].kind
      BY <1>3, RowsGrow
    <3> HIDE DEF before
    <3> QED BY <3>1, <3>2
  <2>3. ASSUME NEW l \in new
        PROVE  /\ l = <<l[1], l[2]>> /\ {l[1], l[2]} \subseteq DOMAIN D.rows
               /\ D.rows[l[1]].kind = "Dashboard" /\ D.rows[l[2]].kind = "Chart"
    <3>1. PICK d \in boards : \E u \in linked[d] : l = <<D.ids[d.uuid], C.ids[u]>>
      BY <1>6
    <3>2. PICK u \in linked[d] : l = <<D.ids[d.uuid], C.ids[u]>>
      BY <3>1
    <3>3. D.ids[d.uuid] \in DOMAIN D.rows /\ D.rows[D.ids[d.uuid]].kind = "Dashboard"
      BY <1>3, DashboardsAreKnown DEF boards
    <3>4. C.ids[u] \in DOMAIN D.rows /\ D.rows[C.ids[u]].kind = "Chart"
      BY <1>8, <1>9
    <3> QED BY <3>2, <3>3, <3>4
  <2>4. \A l \in after.links : l \in before.links \/ l \in new
    BY <1>5
  <2> HIDE DEF after, before
  <2> QED BY <1>5, <2>1, <2>2, <2>3, <2>4 DEF SoundSite
<1>11. TransferTypeOK'
  <2>1. ASSUME NEW q \in Sites PROVE SoundSite(sites'[q])
    BY <1>4, <1>10
  <2> QED BY <1>4, <2>1 DEF TransferTypeOK
<1>12. ImportKeepsTheRest'
  <2>1. before.links \subseteq after.links
    BY <1>5
  <2>2. ASSUME NEW i \in DOMAIN before.rows
        PROVE  /\ i \in DOMAIN after.rows
               /\ \/ after.rows[i] = before.rows[i]
                  \/ \E f \in bundle.files :
                       /\ SpeaksFor(f, before.rows[i], before.rows)
                       /\ f.uuid = before.rows[i].uuid => Overwrites(f, overwrite)
    BY <1>3, <1>5, RowsGrow, ChangesAreSpokenFor
  <2> HIDE DEF before, after
  <2>3. last'.done /\ last'.before = before /\ sites'[last'.site] = after /\ last'.overwrite = overwrite
    BY <1>1 DEF after
  <2> QED BY <1>1, <2>1, <2>2, <2>3 DEF ImportKeepsTheRest, SpeaksFor, SharesKey, Overwrites
<1>13. ASSUME NEW f \in boards, SlotUuids(f.slots) \subseteq {c.uuid : c \in Files("Chart")}
       PROVE  \E d \in WithUuid(D.rows, f) :
                 /\ SlotUuids(D.rows[d].slots) = SlotUuids(f.slots)
                 /\ \A slot \in D.rows[d].slots :
                      /\ slot.id \in DOMAIN D.rows /\ D.rows[slot.id].kind = "Chart"
                      /\ <<d, slot.id>> \in after.links
                      /\ D.rows[slot.id].uuid = slot.uuid
                 /\ IdsAreClear(f.slots) =>
                      /\ UuidsIn(D.rows[d].slots, D.rows[d].kept) = UuidsIn(f.slots, f.kept)
                      /\ UuidsIn(D.rows[d].slots, D.rows[d].scoped) = UuidsIn(f.slots, f.scoped)
  <2> DEFINE d == D.ids[f.uuid]
             c == update_id_refs(f, C.ids)
  <2>1. \A x \in Files("Chart") : x.parent # NoUuid
    BY <1>1 DEF Valid
  <2>2. \A u \in SlotUuids(f.slots) : u \in DOMAIN C.ids /\ C.rows[C.ids[u]].uuid = u
    BY <1>3, <1>13, <2>1, AllCameAlong DEF boards
  <2>3. /\ d \in WithUuid(D.rows, f) /\ D.rows[d].slots = c.slots
        /\ D.rows[d].kept = c.kept /\ D.rows[d].scoped = c.scoped
    BY <1>1, <1>3, DashboardIsCopied DEF boards
  <2>4. SlotUuids(f.slots) \subseteq DOMAIN C.ids
    BY <2>2
  <2>5. RefersToImported(f, C.ids)
    BY <1>3, DashboardsAreKnown DEF boards
  <2>6. \A u, v \in SlotUuids(f.slots) : C.ids[u] = C.ids[v] => u = v
    BY <2>2
  <2>7. /\ SlotUuids(c.slots) = SlotUuids(f.slots)
        /\ \A x \in c.slots : x.uuid \in SlotUuids(f.slots) /\ x.id = C.ids[x.uuid]
        /\ IdsAreClear(f.slots) =>
             /\ UuidsIn(c.slots, c.kept) = UuidsIn(f.slots, f.kept)
             /\ UuidsIn(c.slots, c.scoped) = UuidsIn(f.slots, f.scoped)
    BY <1>8, <2>4, <2>5, <2>6, RestoredLayout
  <2>8. linked[f] = SlotUuids(f.slots)
    BY <1>2, <2>4 DEF Linked
  <2> HIDE DEF c
  <2>9. ASSUME NEW slot \in c.slots
        PROVE  /\ slot.id \in DOMAIN D.rows /\ D.rows[slot.id].kind = "Chart"
               /\ <<d, slot.id>> \in after.links /\ D.rows[slot.id].uuid = slot.uuid
    <3>1. slot.uuid \in SlotUuids(f.slots) /\ slot.id = C.ids[slot.uuid]
      BY <2>7
    <3>2. /\ C.ids[slot.uuid] \in DOMAIN D.rows /\ D.rows[C.ids[slot.uuid]].kind = "Chart"
          /\ D.rows[C.ids[slot.uuid]] = C.rows[C.ids[slot.uuid]]
      BY <1>9, <2>2, <3>1
    <3>3. <<d, C.ids[slot.uuid]>> \in new
      BY <1>7, <2>8, <3>1
    <3> QED BY <1>5, <2>2, <3>1, <3>2, <3>3
  <2> QED BY <2>3, <2>7, <2>9
<1>14. ImportRestores'
  <2> HIDE DEF after, before
  <2>1. last'.done /\ last'.site = s /\ sites'[s] = after
    BY <1>1 DEF after
  <2>2. Files("Dashboard")' = boards /\ Files("Chart")' = Files("Chart")
    BY <1>1 DEF Files, boards
  <2>3. SUFFICES ASSUME NEW f \in boards,
                        SlotUuids(f.slots) \subseteq {c.uuid : c \in Files("Chart")}
                 PROVE  \E d \in WithUuid(D.rows, f) :
                          /\ SlotUuids(D.rows[d].slots) = SlotUuids(f.slots)
                          /\ \A slot \in D.rows[d].slots :
                               /\ slot.id \in ChartsOf(last.site, d)'
                               /\ D.rows[slot.id].uuid = slot.uuid
                          /\ IdsAreClear(f.slots) =>
                               /\ UuidsIn(D.rows[d].slots, D.rows[d].kept) = UuidsIn(f.slots, f.kept)
                               /\ UuidsIn(D.rows[d].slots, D.rows[d].scoped) = UuidsIn(f.slots, f.scoped)
    BY <1>5, <2>1, <2>2 DEF ImportRestores
  <2>4. PICK d \in WithUuid(D.rows, f) :
                 /\ SlotUuids(D.rows[d].slots) = SlotUuids(f.slots)
                 /\ \A slot \in D.rows[d].slots :
                      /\ slot.id \in DOMAIN D.rows /\ D.rows[slot.id].kind = "Chart"
                      /\ <<d, slot.id>> \in after.links
                      /\ D.rows[slot.id].uuid = slot.uuid
                 /\ IdsAreClear(f.slots) =>
                      /\ UuidsIn(D.rows[d].slots, D.rows[d].kept) = UuidsIn(f.slots, f.kept)
                      /\ UuidsIn(D.rows[d].slots, D.rows[d].scoped) = UuidsIn(f.slots, f.scoped)
    BY <1>13, <2>3
  <2>5. \A i : /\ i \in DOMAIN D.rows /\ D.rows[i].kind = "Chart" /\ <<d, i>> \in after.links
               => i \in ChartsOf(last.site, d)'
    BY <1>5, <2>1 DEF ChartsOf, Ids
  <2> QED BY <2>4, <2>5
<1> QED BY <1>11, <1>12, <1>14 DEF ImportFollowsBundle

\* The rows that are left when one is deleted are as sound, if it was no database's.
LEMMA FewerRows ==
  ASSUME NEW table, NEW next, SoundRows(table, next), NEW i \in DOMAIN table,
         table[i].kind # "Database"
  PROVE  SoundRows(RowsWithout(table, i), next)
<1> DEFINE left == RowsWithout(table, i)
<1>1. DOMAIN left = DOMAIN table \ {i} /\ \A j \in DOMAIN left : left[j] = table[j]
  BY DEF RowsWithout
<1> HIDE DEF left
<1>2. ASSUME NEW j \in DOMAIN left PROVE SoundRow(left, next, j)
  <2>1. SoundRow(table, next, j) /\ left[j] = table[j]
    BY <1>1 DEF SoundRows
  <2>2. table[j].kind = "Dataset" =>
          /\ table[j].parent \in DOMAIN left /\ table[j].parent # 0
          /\ left[table[j].parent].kind = "Database"
    BY <1>1, <2>1 DEF SoundRow
  <2>3. table[j].kind = "Chart" =>
          /\ table[j].name = Nameless /\ table[j].parent \in 1..(next - 1)
          /\ table[j].parent \in DOMAIN left => left[table[j].parent].kind = "Dataset"
    BY <1>1, <2>1 DEF SoundRow
  <2> QED BY <2>1, <2>2, <2>3 DEF SoundRow
<1>3. /\ next \in Nat \ {0} /\ DOMAIN left \subseteq 1..(next - 1)
      /\ \A j, k \in DOMAIN left :
           /\ left[j].uuid = left[k].uuid => j = k
           /\ /\ left[j].kind = left[k].kind /\ left[j].parent = left[k].parent
              /\ left[j].name = left[k].name /\ left[j].name # Nameless
              => j = k
  BY <1>1 DEF SoundRows
<1> QED BY <1>2, <1>3 DEF SoundRows, left

LEMMA ChangeIsSound ==
  ASSUME TransferTypeOK, NEW s \in Sites, NEW site, SoundSite(site), Changed(s, site)
  PROVE  TransferTypeOK' /\ ImportFollowsBundle'
<1>1. TransferTypeOK'
  BY DEF TransferTypeOK, Changed
<1>2. ImportFollowsBundle'
  BY DEF Changed, ImportFollowsBundle, ImportRestores, ImportKeepsTheRest
<1> QED BY <1>1, <1>2

LEMMA DeletesAreSound ==
  ASSUME TransferTypeOK, NEW s \in Sites
  PROVE  /\ \A c \in Ids(s, "Chart") : DeleteChart(s, c) => TransferTypeOK' /\ ImportFollowsBundle'
         /\ \A t \in Ids(s, "Dataset") :
              DeleteDataset(s, t) => TransferTypeOK' /\ ImportFollowsBundle'
<1> DEFINE table == sites[s].rows
<1>1. /\ SoundSite(sites[s]) /\ SoundRows(table, sites[s].next)
      /\ DOMAIN sites[s] = {"rows", "links", "next"}
  BY DEF TransferTypeOK, SoundSite
<1>2. ASSUME NEW c \in Ids(s, "Chart"), DeleteChart(s, c)
      PROVE  TransferTypeOK' /\ ImportFollowsBundle'
  <2> DEFINE site == [sites[s] EXCEPT !.rows = RowsWithout(@, c), !.links = {l \in @ : l[2] # c}]
  <2>1. /\ DOMAIN site = {"rows", "links", "next"} /\ site.rows = RowsWithout(table, c)
        /\ site.next = sites[s].next /\ site.links = {l \in sites[s].links : l[2] # c}
    BY <1>1
  <2>2. c \in DOMAIN table /\ table[c].kind = "Chart"
    BY DEF Ids
  <2>3. Changed(s, site)
    BY <1>2 DEF DeleteChart
  <2> HIDE DEF site
  <2>4. SoundRows(site.rows, site.next)
    BY <1>1, <2>1, <2>2, FewerRows
  <2>5. DOMAIN site.rows = DOMAIN table \ {c} /\ \A j \in DOMAIN site.rows : site.rows[j] = table[j]
    BY <2>1 DEF RowsWithout
  <2>6. ASSUME NEW l \in site.links
        PROVE  /\ l = <<l[1], l[2]>> /\ {l[1], l[2]} \subseteq DOMAIN site.rows
               /\ site.rows[l[1]].kind = "Dashboard" /\ site.rows[l[2]].kind = "Chart"
    <3>1. /\ l = <<l[1], l[2]>> /\ {l[1], l[2]} \subseteq DOMAIN table /\ l[2] # c
          /\ table[l[1]].kind = "Dashboard" /\ table[l[2]].kind = "Chart"
      BY <1>1, <2>1 DEF SoundSite
    <3>2. l[1] # c
      BY <2>2, <3>1
    <3> HIDE DEF table
    <3> QED BY <2>5, <3>1, <3>2
  <2>7. SoundSite(site)
    BY <2>1, <2>4, <2>6 DEF SoundSite
  <2> QED BY <2>3, <2>7, ChangeIsSound
<1>3. ASSUME NEW t \in Ids(s, "Dataset"), DeleteDataset(s, t)
      PROVE  TransferTypeOK' /\ ImportFollowsBundle'
  <2> DEFINE site == [sites[s] EXCEPT !.rows = RowsWithout(@, t)]
  <2>1. /\ DOMAIN site = {"rows", "links", "next"} /\ site.rows = RowsWithout(table, t)
        /\ site.next = sites[s].next /\ site.links = sites[s].links
    BY <1>1
  <2>2. t \in DOMAIN table /\ table[t].kind = "Dataset"
    BY DEF Ids
  <2>3. Changed(s, site)
    BY <1>3 DEF DeleteDataset
  <2> HIDE DEF site
  <2>4. SoundRows(site.rows, site.next)
    BY <1>1, <2>1, <2>2, FewerRows
  <2>5. DOMAIN site.rows = DOMAIN table \ {t} /\ \A j \in DOMAIN site.rows : site.rows[j] = table[j]
    BY <2>1 DEF RowsWithout
  <2>6. ASSUME NEW l \in site.links
        PROVE  /\ l = <<l[1], l[2]>> /\ {l[1], l[2]} \subseteq DOMAIN site.rows
               /\ site.rows[l[1]].kind = "Dashboard" /\ site.rows[l[2]].kind = "Chart"
    <3>1. /\ l = <<l[1], l[2]>> /\ {l[1], l[2]} \subseteq DOMAIN table
          /\ table[l[1]].kind = "Dashboard" /\ table[l[2]].kind = "Chart"
      BY <1>1, <2>1 DEF SoundSite
    <3>2. l[1] # t /\ l[2] # t
      BY <2>2, <3>1
    <3> HIDE DEF table
    <3> QED BY <2>5, <3>1, <3>2
  <2>7. SoundSite(site)
    BY <2>1, <2>4, <2>6 DEF SoundSite
  <2> QED BY <2>3, <2>7, ChangeIsSound
<1> QED BY <1>2, <1>3

LEMMA SaveIsSound ==
  ASSUME TransferTypeOK, NEW s \in Sites, NEW d \in Ids(s, "Dashboard"), NEW shown,
         SaveDashboard(s, d, shown)
  PROVE  TransferTypeOK' /\ ImportFollowsBundle'
<1> DEFINE table == sites[s].rows
           charts == shown \cap Ids(s, "Chart")
           layout == {[uuid |-> IF c \in charts THEN table[c].uuid ELSE NoUuid, id |-> c] :
                        c \in shown}
           site == [sites[s] EXCEPT !.links = {l \in @ : l[1] # d} \cup ({d} \X charts),
                                    !.rows[d].slots = layout, !.rows[d].scoped = @ \cap shown]
<1>1. /\ SoundSite(sites[s]) /\ SoundRows(table, sites[s].next)
      /\ DOMAIN sites[s] = {"rows", "links", "next"}
  BY DEF TransferTypeOK, SoundSite
<1>2. d \in DOMAIN table /\ table[d].kind = "Dashboard" /\ DOMAIN table[d] = RowFields
  BY <1>1 DEF Ids, SoundRows, SoundRow
<1>3. Changed(s, site)
  BY DEF SaveDashboard
<1>4. \A c \in charts : c \in DOMAIN table /\ table[c].kind = "Chart" /\ table[c].uuid \in UuidsOf("Chart")
  BY <1>1 DEF Ids, SoundRows, SoundRow
<1>5. \A slot \in layout :
        DOMAIN slot = {"uuid", "id"} /\ slot.uuid \in UuidsOf("Chart") \cup {NoUuid}
  BY <1>4
<1> DEFINE r == [table[d] EXCEPT !.slots = layout, !.scoped = @ \cap shown]
<1>6. /\ DOMAIN r = RowFields /\ r.kind = table[d].kind /\ r.uuid = table[d].uuid
      /\ r.name = table[d].name /\ r.parent = table[d].parent /\ r.slots = layout
  BY <1>2 DEF RowFields
<1>7. /\ DOMAIN site = {"rows", "links", "next"} /\ site.next = sites[s].next
      /\ site.links = {l \in sites[s].links : l[1] # d} \cup ({d} \X charts)
      /\ site.rows = [table EXCEPT ![d] = r]
  BY <1>1, <1>2 DEF RowFields
<1> HIDE DEF r, layout, site, charts
<1>8. /\ DOMAIN site.rows = DOMAIN table /\ site.rows[d] = r
      /\ \A j \in DOMAIN table : j # d => site.rows[j] = table[j]
  BY <1>2, <1>7
<1>9. \A j \in DOMAIN table :
        /\ site.rows[j].kind = table[j].kind /\ site.rows[j].uuid = table[j].uuid
        /\ site.rows[j].name = table[j].name /\ site.rows[j].parent = table[j].parent
        /\ DOMAIN site.rows[j] = DOMAIN table[j]
  BY <1>2, <1>6, <1>8
<1>10. SoundRows(site.rows, site.next)
  <2>1. ASSUME NEW j \in DOMAIN table PROVE SoundRow(site.rows, site.next, j)
    <3>1. SoundRow(table, sites[s].next, j)
      BY <1>1 DEF SoundRows
    <3>2. \A slot \in site.rows[j].slots :
            DOMAIN slot = {"uuid", "id"} /\ slot.uuid \in UuidsOf("Chart") \cup {NoUuid}
      BY <1>5, <1>6, <1>8, <3>1 DEF SoundRow
    <3> DEFINE q == site.rows[j]
    <3>3. q.kind = "Dataset" =>
            /\ q.parent \in DOMAIN site.rows /\ q.parent # 0
            /\ site.rows[q.parent].kind = "Database"
      BY <1>8, <1>9, <3>1 DEF SoundRow
    <3>4. q.kind = "Chart" =>
            /\ q.name = Nameless /\ q.parent \in 1..(site.next - 1)
            /\ q.parent \in DOMAIN site.rows => site.rows[q.parent].kind = "Dataset"
      BY <1>7, <1>8, <1>9, <3>1 DEF SoundRow
    <3>5. /\ DOMAIN q = RowFields /\ q.kind \in BundleKinds /\ q.uuid \in UuidsOf(q.kind)
          /\ q.kind \in {"Database", "Dashboard"} => q.parent = 0
      BY <1>9, <3>1 DEF SoundRow
    <3> QED BY <3>2, <3>3, <3>4, <3>5 DEF SoundRow
  <2>2. /\ site.next \in Nat \ {0} /\ DOMAIN site.rows \subseteq 1..(site.next - 1)
        /\ \A j, k \in DOMAIN site.rows :
             /\ site.rows[j].uuid = site.rows[k].uuid => j = k
             /\ /\ site.rows[j].kind = site.rows[k].kind /\ site.rows[j].parent = site.rows[k].parent
                /\ site.rows[j].name = site.rows[k].name /\ site.rows[j].name # Nameless
                => j = k
    BY <1>1, <1>7, <1>8, <1>9 DEF SoundRows
  <2> QED BY <1>8, <2>1, <2>2 DEF SoundRows
<1>11. ASSUME NEW l \in site.links
       PROVE  /\ l = <<l[1], l[2]>> /\ {l[1], l[2]} \subseteq DOMAIN site.rows
              /\ site.rows[l[1]].kind = "Dashboard" /\ site.rows[l[2]].kind = "Chart"
  <2>1. /\ l = <<l[1], l[2]>> /\ {l[1], l[2]} \subseteq DOMAIN table
        /\ table[l[1]].kind = "Dashboard" /\ table[l[2]].kind = "Chart"
    <3>1. CASE l \in sites[s].links
      BY <1>1, <3>1 DEF SoundSite
    <3>2. CASE l \in {d} \X charts
      BY <1>2, <1>4, <3>2
    <3> QED BY <1>7, <3>1, <3>2
  <2> QED BY <1>8, <1>9, <2>1
<1>12. SoundSite(site)
  BY <1>7, <1>10, <1>11 DEF SoundSite
<1> QED BY <1>3, <1>12, ChangeIsSound

-------------------------------------------------------------------------------
(* Export *)

\* The file of a row, that of a dashboard with the charts appended.
RowFile(s, i) ==
  IF sites[s].rows[i].kind = "Dashboard"
  THEN [FileOf(s, i) EXCEPT !.slots = @ \cup append_charts(s, i)] ELSE FileOf(s, i)

\* Rows that are exported together with what they need.
Closed(s, E) ==
  LET table == sites[s].rows IN
  /\ E \subseteq DOMAIN table
  /\ \A i \in E : /\ table[i].kind = "Dataset" => table[i].parent \in E
                  /\ table[i].kind = "Chart" /\ table[i].parent \in DOMAIN table => table[i].parent \in E

LEMMA RowFileIs ==
  ASSUME NEW s, SoundSite(sites[s]), NEW i \in DOMAIN sites[s].rows
  PROVE  LET table == sites[s].rows
             r == table[i]
             f == RowFile(s, i)
         IN /\ DOMAIN f = RowFields /\ f.kind = r.kind /\ f.uuid = r.uuid /\ f.name = r.name
            /\ f.parent = IF r.parent \in DOMAIN table THEN table[r.parent].uuid ELSE NoUuid
            /\ SlotsFit(f)
<1> DEFINE table == sites[s].rows
           r == table[i]
           f == RowFile(s, i)
           parent == IF r.parent \in DOMAIN table THEN table[r.parent].uuid ELSE NoUuid
<1>1. /\ DOMAIN r = RowFields /\ r.kind \in BundleKinds
      /\ \A slot \in r.slots :
           DOMAIN slot = {"uuid", "id"} /\ slot.uuid \in UuidsOf("Chart") \cup {NoUuid}
  BY DEF SoundSite, SoundRows, SoundRow
<1>2. FileOf(s, i) = [r EXCEPT !.parent = parent]
  BY DEF FileOf
<1>3. CASE r.kind # "Dashboard"
  <2>1. f = [r EXCEPT !.parent = parent]
    BY <1>2, <1>3 DEF RowFile
  <2> HIDE DEF f, parent
  <2>2. /\ DOMAIN f = RowFields /\ f.kind = r.kind /\ f.uuid = r.uuid /\ f.name = r.name
        /\ f.parent = parent /\ f.slots = r.slots
    BY <1>1, <2>1 DEF RowFields
  <2> QED BY <1>1, <2>2 DEF SlotsFit, f, parent
<1>4. CASE r.kind = "Dashboard"
  <2> DEFINE more == append_charts(s, i)
  <2>1. f = [[r EXCEPT !.parent = parent] EXCEPT !.slots = @ \cup more]
    BY <1>2, <1>4 DEF RowFile
  <2>2. \A slot \in more :
          DOMAIN slot = {"uuid", "id"} /\ slot.uuid \in UuidsOf("Chart") \cup {NoUuid}
    <3>1. \A c \in ChartsOf(s, i) : table[c].uuid \in UuidsOf("Chart")
      BY DEF ChartsOf, Ids, SoundSite, SoundRows, SoundRow
    <3> QED BY <3>1 DEF append_charts
  <2> HIDE DEF f, parent, more
  <2>3. /\ DOMAIN f = RowFields /\ f.kind = r.kind /\ f.uuid = r.uuid /\ f.name = r.name
        /\ f.parent = parent /\ f.slots = r.slots \cup more
    BY <1>1, <2>1 DEF RowFields
  <2> QED BY <1>1, <2>2, <2>3 DEF SlotsFit, f, parent
<1> QED BY <1>3, <1>4

\* What is exported are the files of such rows.
LEMMA ExportedDatasets ==
  ASSUME NEW s, SoundSite(sites[s]), NEW chosen \in SUBSET Ids(s, "Dataset")
  PROVE  \E E : /\ Closed(s, E) /\ ExportDatasets(s, chosen) = {RowFile(s, i) : i \in E}
                /\ chosen \subseteq E
                /\ \A i \in E : i \in chosen \/ sites[s].rows[i].kind = "Database"
                /\ \A i \in E : sites[s].rows[i].kind \in {"Dataset", "Database"}
<1> DEFINE table == sites[s].rows
           above == {table[i].parent : i \in chosen}
           E == chosen \cup above
<1>1. \A i \in chosen : i \in DOMAIN table /\ table[i].kind = "Dataset"
  BY DEF Ids
<1>2. \A i \in chosen : table[i].parent \in DOMAIN table /\ table[table[i].parent].kind = "Database"
  BY <1>1 DEF SoundSite, SoundRows, SoundRow
<1>3. \A i \in above : i \in DOMAIN table /\ table[i].kind = "Database"
  BY <1>2
<1>4. \A i \in chosen : table[i].parent \in above
  OBVIOUS
<1>5. ExportDatasets(s, chosen) = {FileOf(s, i) : i \in chosen} \cup {FileOf(s, i) : i \in above}
  BY DEF ExportDatasets, ExportDatabases
<1> HIDE DEF above, table
<1>6. \A i \in E : RowFile(s, i) = FileOf(s, i)
  BY <1>1, <1>3 DEF RowFile, table
<1>7. ExportDatasets(s, chosen) = {RowFile(s, i) : i \in E}
  BY <1>5, <1>6
<1>8. Closed(s, E)
  BY <1>1, <1>3, <1>4 DEF Closed, table
<1>9. \A i \in E : /\ i \in chosen \/ table[i].kind = "Database"
                   /\ table[i].kind \in {"Dataset", "Database"}
  BY <1>1, <1>3
<1> HIDE DEF E
<1>10. chosen \subseteq E
  BY DEF E
<1> QED BY <1>7, <1>8, <1>9, <1>10 DEF table

LEMMA ExportedCharts ==
  ASSUME NEW s, SoundSite(sites[s]), NEW chosen \in SUBSET Ids(s, "Chart")
  PROVE  \E E : /\ Closed(s, E) /\ ExportCharts(s, chosen) = {RowFile(s, i) : i \in E}
                /\ \A i \in E : sites[s].rows[i].kind # "Dashboard"
<1> DEFINE table == sites[s].rows
           above == {table[i].parent : i \in chosen} \cap Ids(s, "Dataset")
<1>1. \A i \in chosen : i \in DOMAIN table /\ table[i].kind = "Chart"
  BY DEF Ids
<1>2. \A i \in chosen : table[i].parent \in DOMAIN table => table[i].parent \in above
  BY <1>1 DEF SoundSite, SoundRows, SoundRow, Ids
<1>3. /\ above \in SUBSET Ids(s, "Dataset")
      /\ ExportCharts(s, chosen) = {FileOf(s, i) : i \in chosen} \cup ExportDatasets(s, above)
  BY DEF ExportCharts
<1> HIDE DEF above
<1>4. PICK D : /\ Closed(s, D) /\ ExportDatasets(s, above) = {RowFile(s, i) : i \in D}
               /\ above \subseteq D /\ \A i \in D : table[i].kind \in {"Dataset", "Database"}
  BY <1>3, ExportedDatasets
<1> HIDE DEF table
<1>5. \A i \in chosen : RowFile(s, i) = FileOf(s, i)
  BY <1>1 DEF RowFile, table
<1>6. ExportCharts(s, chosen) = {RowFile(s, i) : i \in chosen \cup D}
  BY <1>4, <1>5, <1>3
<1>7. Closed(s, chosen \cup D)
  BY <1>1, <1>2, <1>4 DEF Closed, table
<1>8. \A i \in chosen \cup D : table[i].kind # "Dashboard"
  BY <1>1, <1>4
<1> QED BY <1>6, <1>7, <1>8 DEF table

LEMMA Exported ==
  ASSUME NEW s, SoundSite(sites[s]), NEW kind \in BundleKinds, NEW chosen \in SUBSET Ids(s, kind)
  PROVE  \E E : /\ Closed(s, E) /\ _export(s, kind, chosen) = {RowFile(s, i) : i \in E}
                /\ kind # "Dashboard" => \A i \in E : sites[s].rows[i].kind # "Dashboard"
<1> DEFINE table == sites[s].rows
<1>1. \A i \in chosen : i \in DOMAIN table /\ table[i].kind = kind
  BY DEF Ids
<1>2. CASE kind = "Database"
  <2> DEFINE sets == DatasetsOf(s, chosen)
  <2>1. sets \in SUBSET Ids(s, "Dataset")
    BY DEF DatasetsOf
  <2>2. _export(s, kind, chosen) = {FileOf(s, i) : i \in chosen} \cup ExportDatasets(s, sets)
    BY <1>2 DEF _export, ExportDatabases
  <2> HIDE DEF sets
  <2>3. PICK D : /\ Closed(s, D) /\ ExportDatasets(s, sets) = {RowFile(s, i) : i \in D}
                 /\ \A i \in D : table[i].kind \in {"Dataset", "Database"}
    BY <2>1, ExportedDatasets
  <2> HIDE DEF table
  <2>4. \A i \in chosen : RowFile(s, i) = FileOf(s, i)
    BY <1>1, <1>2 DEF RowFile, table
  <2>5. _export(s, kind, chosen) = {RowFile(s, i) : i \in chosen \cup D}
    BY <2>2, <2>3, <2>4
  <2>6. Closed(s, chosen \cup D)
    BY <1>1, <1>2, <2>3 DEF Closed, table
  <2>7. \A i \in chosen \cup D : table[i].kind # "Dashboard"
    BY <1>1, <1>2, <2>3
  <2> QED BY <2>5, <2>6, <2>7 DEF table
<1>3. CASE kind = "Dataset"
  <2>1. _export(s, kind, chosen) = ExportDatasets(s, chosen)
    BY <1>3 DEF _export
  <2>2. PICK D : /\ Closed(s, D) /\ ExportDatasets(s, chosen) = {RowFile(s, i) : i \in D}
                 /\ \A i \in D : table[i].kind \in {"Dataset", "Database"}
    BY <1>3, ExportedDatasets
  <2> HIDE DEF table
  <2>3. \A i \in D : table[i].kind # "Dashboard"
    BY <2>2
  <2> QED BY <2>1, <2>2, <2>3 DEF table
<1>4. CASE kind = "Chart"
  <2>1. _export(s, kind, chosen) = ExportCharts(s, chosen)
    BY <1>4 DEF _export
  <2> QED BY <1>4, <2>1, ExportedCharts
<1>5. CASE kind = "Dashboard"
  <2> DEFINE charts == UNION {ChartsOf(s, d) : d \in chosen}
  <2>1. charts \in SUBSET Ids(s, "Chart")
    BY DEF ChartsOf
  <2>2. _export(s, kind, chosen) =
          {[FileOf(s, d) EXCEPT !.slots = @ \cup append_charts(s, d)] : d \in chosen}
            \cup ExportCharts(s, charts)
    BY <1>5 DEF _export, ExportDashboards
  <2> HIDE DEF charts
  <2>3. PICK D : Closed(s, D) /\ ExportCharts(s, charts) = {RowFile(s, i) : i \in D}
    BY <2>1, ExportedCharts
  <2> HIDE DEF table
  <2>4. \A d \in chosen :
          RowFile(s, d) = [FileOf(s, d) EXCEPT !.slots = @ \cup append_charts(s, d)]
    BY <1>1, <1>5 DEF RowFile, table
  <2>5. _export(s, kind, chosen) = {RowFile(s, i) : i \in chosen \cup D}
    BY <2>2, <2>3, <2>4
  <2>6. Closed(s, chosen \cup D)
    BY <1>1, <1>5, <2>3 DEF Closed, table
  <2> QED BY <1>5, <2>5, <2>6
<1> QED BY <1>2, <1>3, <1>4, <1>5 DEF BundleKinds

LEMMA ExportIsSound ==
  ASSUME TransferTypeOK, NEW s \in Sites, NEW kind \in BundleKinds,
         NEW chosen \in SUBSET Ids(s, kind), ExportCommand(s, kind, chosen)
  PROVE  BundleOK'
<1> DEFINE table == sites[s].rows
           next == sites[s].next
           files == bundle'.files
<1>1. SoundSite(sites[s]) /\ SoundRows(table, next)
  BY DEF TransferTypeOK, SoundSite
<1>2. PICK E : /\ Closed(s, E) /\ _export(s, kind, chosen) = {RowFile(s, i) : i \in E}
               /\ kind # "Dashboard" => \A i \in E : table[i].kind # "Dashboard"
  BY <1>1, Exported
<1>3. PICK kept : bundle' = [kind |-> kind,
                             files |-> {f \in _export(s, kind, chosen) :
                                          \/ f.kind # "Dashboard"
                                          \/ \E d \in kept : table[d].uuid = f.uuid}]
  BY DEF ExportCommand
<1>4. bundle'.kind = kind
  BY <1>3
<1>5. ASSUME NEW f \in files PROVE \E i \in E : f = RowFile(s, i)
  BY <1>2, <1>3
<1>6. ASSUME NEW i \in E, RowFile(s, i).kind # "Dashboard" PROVE RowFile(s, i) \in files
  BY <1>2, <1>3, <1>6
<1>7. ASSUME NEW i \in E
      PROVE  LET r == table[i]
                 f == RowFile(s, i)
             IN /\ DOMAIN f = RowFields /\ f.kind = r.kind /\ f.uuid = r.uuid /\ f.name = r.name
                /\ f.parent = IF r.parent \in DOMAIN table THEN table[r.parent].uuid ELSE NoUuid
                /\ SlotsFit(f) /\ i \in DOMAIN table
  BY <1>1, <1>2, RowFileIs DEF Closed
<1>8. IsFiniteSet(files)
  <2>1. IsFiniteSet(E)
    BY <1>1, <1>2, RowsAreFinite, FS_Subset DEF Closed
  <2> DEFINE h == [i \in E |-> RowFile(s, i)]
  <2>2. h \in Surjection(E, {RowFile(s, i) : i \in E})
    BY DEF Surjection
  <2>3. IsFiniteSet({RowFile(s, i) : i \in E})
    BY <2>1, <2>2, FS_Surjection
  <2>4. files \subseteq {RowFile(s, i) : i \in E}
    BY <1>5
  <2> QED BY <2>3, <2>4, FS_Subset
<1> HIDE DEF files, table, next
<1>9. ASSUME NEW i \in E PROVE SoundRow(table, next, i)
  BY <1>1, <1>7 DEF SoundRows
<1>10. ASSUME NEW i \in E, table[i].kind = "Dataset"
       PROVE  \E b \in files : b.kind = "Database" /\ b.uuid = RowFile(s, i).parent
  <2>1. table[i].parent \in DOMAIN table /\ table[table[i].parent].kind = "Database"
    BY <1>9, <1>10 DEF SoundRow
  <2>2. table[i].parent \in E
    BY <1>2, <1>10 DEF Closed, table
  <2> QED BY <1>6, <1>7, <2>1, <2>2
<1>11. ASSUME NEW i \in E, table[i].kind = "Chart"
       PROVE  \/ RowFile(s, i).parent = NoUuid
              \/ \E t \in files : t.kind = "Dataset" /\ t.uuid = RowFile(s, i).parent
  <2>1. CASE table[i].parent \notin DOMAIN table
    BY <1>7, <2>1
  <2>2. CASE table[i].parent \in DOMAIN table
    <3>1. table[table[i].parent].kind = "Dataset"
      BY <1>9, <1>11, <2>2 DEF SoundRow
    <3>2. table[i].parent \in E
      BY <1>2, <1>11, <2>2 DEF Closed, table
    <3> QED BY <1>6, <1>7, <2>2, <3>1, <3>2
  <2> QED BY <2>1, <2>2
<1>12. ASSUME NEW f \in files
       PROVE  /\ DOMAIN f = RowFields /\ f.kind \in BundleKinds /\ f.uuid \in UuidsOf(f.kind)
              /\ SlotsFit(f)
              /\ f.kind = "Chart" =>
                   /\ f.name = Nameless
                   /\ f.parent = NoUuid \/ \E t \in files : t.kind = "Dataset" /\ t.uuid = f.parent
              /\ f.kind = "Dataset" => \E b \in files : b.kind = "Database" /\ b.uuid = f.parent
  <2>1. PICK i \in E : f = RowFile(s, i)
    BY <1>5
  <2>2. /\ table[i].kind \in BundleKinds /\ table[i].uuid \in UuidsOf(table[i].kind)
        /\ table[i].kind = "Chart" => table[i].name = Nameless
    BY <1>9 DEF SoundRow
  <2> QED BY <1>7, <1>10, <1>11, <2>1, <2>2
<1>13. ASSUME NEW f \in files, NEW g \in files,
              \/ f.uuid = g.uuid
              \/ /\ f.kind = g.kind /\ f.kind \in {"Database", "Dashboard"}
                 /\ f.name = g.name /\ f.name # Nameless
       PROVE  f = g
  <2>1. PICK i \in E : f = RowFile(s, i)
    BY <1>5
  <2>2. PICK j \in E : g = RowFile(s, j)
    BY <1>5
  <2>3. table[i].kind \in {"Database", "Dashboard"} => table[i].parent = 0
    BY <1>9 DEF SoundRow
  <2>4. table[j].kind \in {"Database", "Dashboard"} => table[j].parent = 0
    BY <1>9 DEF SoundRow
  <2>5. i = j
    BY <1>1, <1>7, <1>13, <2>1, <2>2, <2>3, <2>4 DEF SoundRows
  <2> QED BY <2>1, <2>2, <2>5
<1>14. ASSUME kind # "Dashboard" PROVE Files("Dashboard")' = {}
  <2>1. \A f \in files : f.kind # "Dashboard"
    BY <1>2, <1>5, <1>7, <1>14
  <2> QED BY <2>1 DEF Files, files
<1>15. FilesOK(files)
  BY <1>8, <1>12, <1>13 DEF FilesOK
<1> QED BY <1>4, <1>14, <1>15 DEF BundleOK, FilesOK, SlotsFit, files

-------------------------------------------------------------------------------
(* Theorems *)

TransferInv == TransferTypeOK /\ BundleOK /\ ImportFollowsBundle

LEMMA TransferInvHolds == TransferSpec => []TransferInv
<1>1. TransferInit => TransferInv
  <2> SUFFICES ASSUME TransferInit PROVE TransferInv
    OBVIOUS
  <2>1. TransferTypeOK
    BY TransferAssumption DEF TransferInit, TransferTypeOK
  <2>2. BundleOK
    BY FS_EmptySet DEF TransferInit, BundleOK, FilesOK, Files, BundleKinds
  <2>3. ImportFollowsBundle
    BY DEF TransferInit, ImportFollowsBundle, ImportRestores, ImportKeepsTheRest
  <2> QED BY <2>1, <2>2, <2>3 DEF TransferInv
<1>2. TransferInv /\ [TransferNext]_transferVars => TransferInv'
  <2> SUFFICES ASSUME TransferInv, [TransferNext]_transferVars PROVE TransferInv'
    OBVIOUS
  <2>1. TransferTypeOK /\ BundleOK /\ ImportFollowsBundle
    BY DEF TransferInv
  <2>2. bundle' = bundle => BundleOK'
    BY <2>1 DEF BundleOK, Files
  <2>3. ASSUME NEW s \in Sites, NEW kind \in BundleKinds, NEW chosen \in SUBSET Ids(s, kind),
               ExportCommand(s, kind, chosen)
        PROVE  TransferInv'
    <3>1. BundleOK'
      BY <2>1, <2>3, ExportIsSound
    <3>2. sites' = sites /\ last' = [done |-> FALSE]
      BY <2>3 DEF ExportCommand
    <3>3. TransferTypeOK'
      BY <2>1, <3>2 DEF TransferTypeOK
    <3>4. ImportFollowsBundle'
      BY <3>2 DEF ImportFollowsBundle, ImportRestores, ImportKeepsTheRest
    <3> QED BY <3>1, <3>3, <3>4 DEF TransferInv
  <2>4. ASSUME NEW s \in Sites, NEW overwrite \in BOOLEAN, ImportCommand(s, overwrite)
        PROVE  TransferInv'
    <3>1. bundle' = bundle
      BY <2>4 DEF ImportCommand
    <3> QED BY <2>1, <2>2, <2>4, <3>1, ImportFollows DEF TransferInv
  <2>5. ASSUME NEW s \in Sites, NEW c \in Ids(s, "Chart"), DeleteChart(s, c)
        PROVE  TransferInv'
    <3>1. bundle' = bundle
      BY <2>5 DEF DeleteChart, Changed
    <3> QED BY <2>1, <2>2, <2>5, <3>1, DeletesAreSound DEF TransferInv
  <2>6. ASSUME NEW s \in Sites, NEW t \in Ids(s, "Dataset"), DeleteDataset(s, t)
        PROVE  TransferInv'
    <3>1. bundle' = bundle
      BY <2>6 DEF DeleteDataset, Changed
    <3> QED BY <2>1, <2>2, <2>6, <3>1, DeletesAreSound DEF TransferInv
  <2>7. ASSUME NEW s \in Sites, NEW d \in Ids(s, "Dashboard"), NEW shown, SaveDashboard(s, d, shown)
        PROVE  TransferInv'
    <3>1. bundle' = bundle
      BY <2>7 DEF SaveDashboard, Changed
    <3> QED BY <2>1, <2>2, <2>7, <3>1, SaveIsSound DEF TransferInv
  <2>8. CASE UNCHANGED transferVars
    <3>1. sites' = sites /\ bundle' = bundle /\ last' = last
      BY <2>8 DEF transferVars
    <3>2. TransferTypeOK'
      BY <2>1, <3>1 DEF TransferTypeOK
    <3>3. ImportFollowsBundle'
      BY <2>1, <3>1 DEF ImportFollowsBundle, ImportRestores, ImportKeepsTheRest, Files, ChartsOf,
         Ids, SpeaksFor, Overwrites
    <3> QED BY <2>2, <3>1, <3>2, <3>3 DEF TransferInv
  <2> QED BY <2>3, <2>4, <2>5, <2>6, <2>7, <2>8 DEF TransferNext, kSubset
<1> QED BY <1>1, <1>2, PTL DEF TransferSpec

\* What the constraints of a site's database say of its rows, and what the code relies
\* on without one, holds through every export, import, deletion and save.
THEOREM TransferTypeCorrect == TransferSpec => []TransferTypeOK
<1>1. TransferInv => TransferTypeOK
  BY DEF TransferInv
<1> QED BY <1>1, TransferInvHolds, PTL

\* An import does what its bundle says, whatever the sites store and however many files
\* there are: a dashboard whose charts came along shows them under their new ids, and
\* nothing is removed or changed but what a file of the bundle speaks for.
THEOREM ImportDoesAsTold == TransferSpec => []ImportFollowsBundle
<1>1. TransferInv => ImportFollowsBundle
  BY DEF TransferInv
<1> QED BY <1>1, TransferInvHolds, PTL

=============================================================================
