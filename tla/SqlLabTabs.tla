------------------------------ MODULE SqlLabTabs ------------------------------
(***************************************************************************)
(* The tabs of SQL Lab with SQLLAB_BACKEND_PERSISTENCE: their way from the *)
(* browser's local storage to the server, and back to a page that loads    *)
(* them one by one (SqlLab/actions/sqlLab.js, its reducers, and            *)
(* views/sql_lab.py).                                                      *)
(*                                                                         *)
(* A page shows the tabs of the server, of which only the active one comes *)
(* with its text while the others get a placeholder until they are         *)
(* switched to, and those still in local storage, which it sends to the    *)
(* server.  Each request is handled, and its answer taken, at some later   *)
(* time; requests fail, answers are lost, pages are reloaded, and the user *)
(* closes tabs here and in other browsers.                                 *)
(*                                                                         *)
(* A tab is told from its copies by `of`: an id in local storage, or the   *)
(* number of a tab that was added.  A text is the tab it was written in.   *)
(***************************************************************************)
EXTENDS Naturals, FiniteSets, Sequences, SequencesExt

CONSTANTS Locals,       \* ids of tabs in local storage
          WithTable,    \* those that have a table open
          Starts,       \* what is in local storage when the flag is turned on, and how
                        \* many of the faults and additions below are forgone
          Placeholder,  \* the text of a tab whose text is not loaded
          MaxAdded,     \* bound: tabs added
          MaxTabStates, \* bound: rows of the table of tabs
          MaxLoads,     \* bound: the page is loaded
          MaxActs,      \* bound: what users do
          MaxFaults     \* bound: requests that fail and answers that are lost

\* The ids of local storage are not numbers, as those of the server are.
ASSUME TabsAssumption ==
  /\ IsFiniteSet(Locals) /\ Locals \cap Nat = {} /\ WithTable \subseteq Locals
  /\ {MaxAdded, MaxTabStates, MaxLoads, MaxActs, MaxFaults} \subseteq Nat
  /\ Starts \subseteq [tabs : SUBSET Locals, faults : Nat, added : 0..MaxAdded]

VARIABLES storage,   \* local storage: tabs, those whose table is there, and history
          tab_state, \* the rows of tabs and table_schema on the server
          sqlLab,    \* queryEditors and tabHistory of the page
          calls,     \* requests under way
          born,      \* (history) the text that each tab began with
          closed,    \* (history) tabs that a user closed
          adrift,    \* (history) tabs shown only because no tab was active
          dropped,   \* (history) tabs whose table the server did not take
          count      \* loads, acts, faults and added tabs so far

tabsVars == <<storage, tab_state, sqlLab, calls, born, closed, adrift, dropped, count>>
pasts == <<born, closed, adrift, dropped>>

Tabs == Locals \cup 1..MaxAdded
Ids == Locals \cup 1..MaxTabStates

Editor(id, of, sql, loaded) == [id |-> id, of |-> of, sql |-> sql, loaded |-> loaded]

Call(kind, id, of, sql) ==
  [kind |-> kind, id |-> id, of |-> of, sql |-> sql, status |-> "sent", heard |-> TRUE]

Owned(id) == id \in DOMAIN tab_state /\ tab_state[id].there
Rows == {t \in DOMAIN tab_state : tab_state[t].there}

TabsTypeOK ==
  /\ storage.queryEditors \subseteq Locals /\ storage.tables \subseteq WithTable
  /\ Len(tab_state) <= MaxTabStates
  /\ sqlLab.queryEditors \subseteq
       [id : Ids, of : Tabs, sql : Tabs \cup {Placeholder}, loaded : BOOLEAN]
  /\ \A d, e \in sqlLab.queryEditors : d.id = e.id => d = e
  \* What is active is there.
  /\ ToSet(sqlLab.tabHistory) \subseteq {e.id : e \in sqlLab.queryEditors}
  /\ closed \cup adrift \cup dropped \subseteq Tabs

--------------------------------------------------------------------------------
(***************************************************************************)
(* Loading the page                                                        *)
(***************************************************************************)
\* _get_sqllab_tabs: the first active tab, or any other.
active_tab == LET active == {t \in Rows : tab_state[t].active}
              IN  IF active = {} THEN Rows ELSE active

TabsOf(active) ==
  {Editor(t, tab_state[t].of, IF t = active THEN tab_state[t].sql ELSE Placeholder, t = active) :
     t \in Rows}
  \cup {Editor(l, l, l, TRUE) : l \in storage.queryEditors}

NoStorage == [queryEditors |-> {}, tables |-> {}, tabHistory |-> <<>>]

\* What is in local storage is removed once it has no tabs.
getInitialState(active) ==
  /\ sqlLab' = [queryEditors |-> TabsOf(active),
              tabHistory |-> (IF active = 0 THEN <<>> ELSE <<active>>)
                               \o (IF storage.queryEditors = {} THEN <<>> ELSE storage.tabHistory)]
  /\ storage' = IF storage.queryEditors = {} THEN NoStorage ELSE storage

\* The requests of the page that is left are handled, but nobody hears.
Unheard == {[c EXCEPT !.heard = FALSE] : c \in {d \in calls : d.status = "sent"}}

\* componentDidMount: tabs in local storage are sent, and where there is no tab
\* one is added.
componentDidMount ==
  {Call("migrate", l, l, l) : l \in storage.queryEditors}
  \cup (IF sqlLab'.queryEditors = {} /\ count.added < MaxAdded
        THEN {Call("add", 0, count.added + 1, count.added + 1)} ELSE {})

Load ==
  /\ count.loads < MaxLoads
  /\ \E active \in IF Rows = {} THEN {0} ELSE active_tab : getInitialState(active)
  /\ calls' = Unheard \cup componentDidMount
  /\ count' = [count EXCEPT !.loads = @ + 1,
                            !.added = IF \E c \in componentDidMount : c.kind = "add"
                                      THEN @ + 1 ELSE @]
  /\ UNCHANGED <<tab_state, pasts>>
--------------------------------------------------------------------------------
(***************************************************************************)
(* The server                                                              *)
(***************************************************************************)
Answer(c, status, id, sql) ==
  calls' = (calls \ {c}) \cup
             (IF c.heard THEN {[c EXCEPT !.status = status, !.id = id, !.sql = sql]} ELSE {})
Replies(c, status) == Answer(c, status, c.id, c.sql)

\* TabStateView.post; `id` of the answer is the new row's, which migration keeps
\* beside the tab's old one (`of`).
post_tab(c) ==
  /\ c.kind \in {"migrate", "add"} /\ Len(tab_state) < MaxTabStates
  /\ tab_state' = Append([t \in DOMAIN tab_state |-> [tab_state[t] EXCEPT !.active = FALSE]],
                         [of |-> c.of, sql |-> c.sql, active |-> TRUE, table |-> FALSE,
                          there |-> TRUE])
  /\ Answer(c, "ok", Len(tab_state'), c.sql)

\* Requests for a tab the server does not have: its id is no number, or there is no
\* row, whose owner is then not the user (only activate looks whether there is one) and
\* to which no table refers.
Refused(c) ==
  /\ c.kind \notin {"migrate", "add"} /\ ~Owned(c.id)
  /\ Replies(c, IF c.kind = "activate" \/ c.id \in Locals THEN "404" ELSE "403")
  /\ UNCHANGED tab_state

delete(c) ==
  /\ c.kind = "delete" /\ Owned(c.id)
  /\ tab_state' = [tab_state EXCEPT ![c.id].there = FALSE, ![c.id].active = FALSE,
                                    ![c.id].table = FALSE]
  /\ Replies(c, "ok")

get(c) ==
  /\ c.kind = "get" /\ Owned(c.id)
  /\ Answer(c, "ok", c.id, tab_state[c.id].sql)
  /\ UNCHANGED tab_state

activate(c) ==
  /\ c.kind = "activate" /\ Owned(c.id)
  /\ tab_state' = [t \in DOMAIN tab_state |-> [tab_state[t] EXCEPT !.active = t = c.id]]
  /\ Replies(c, "ok")

put(c) ==
  /\ c.kind = "put" /\ Owned(c.id)
  /\ tab_state' = [tab_state EXCEPT ![c.id].sql = c.sql]
  /\ Replies(c, "ok")

\* TableSchemaView.post
post_table(c) ==
  /\ c.kind = "table" /\ Owned(c.id)
  /\ tab_state' = [tab_state EXCEPT ![c.id].table = TRUE]
  /\ Replies(c, "ok")

Handle(c) ==
  /\ c.status = "sent"
  /\ \/ post_tab(c) \/ Refused(c) \/ delete(c) \/ get(c) \/ activate(c) \/ put(c) \/ post_table(c)
  /\ UNCHANGED <<storage, sqlLab, pasts, count>>

Fault == count.faults < MaxFaults /\ count' = [count EXCEPT !.faults = @ + 1]

Fail(c) ==
  /\ Fault /\ c.status = "sent"
  /\ Replies(c, "failed")
  /\ dropped' = IF c.kind = "table" THEN dropped \cup {c.of} ELSE dropped
  /\ UNCHANGED <<storage, tab_state, sqlLab, born, closed, adrift>>

LoseAnswer(c) ==
  /\ Fault /\ c.status = "ok"
  /\ Replies(c, "failed")
  /\ UNCHANGED <<storage, tab_state, sqlLab, pasts>>
--------------------------------------------------------------------------------
(***************************************************************************)
(* Answers                                                                 *)
(***************************************************************************)
WithoutEditor(editors, id) == {e \in editors : e.id # id}
Sends(c, more) == calls' = (calls \ {c}) \cup more

\* What a filter of the history leaves: the elements that are in ids, in their order.
Only(history, ids) ==
  LET at == {i \in DOMAIN history : history[i] \in ids}
      Rank(i) == Cardinality({j \in at : j <= i})
  IN  [k \in 1..Cardinality(at) |-> history[CHOOSE i \in at : Rank(i) = k]]

\* MIGRATE_QUERY_EDITOR and MIGRATE_TAB_HISTORY, then the tab's table.
Migrated(c) ==
  LET WithoutOld(history) == Only(history, Ids \ {c.of})
  IN  /\ c.kind = "migrate" /\ c.status = "ok"
      /\ storage' = [storage EXCEPT !.queryEditors = @ \ {c.of}, !.tabHistory = WithoutOld(@)]
      /\ sqlLab' = [queryEditors |-> WithoutEditor(sqlLab.queryEditors, c.of)
                                     \cup {Editor(c.id, c.of, c.sql, TRUE)},
                  tabHistory |-> Append(WithoutOld(sqlLab.tabHistory), c.id)]
      /\ Sends(c, IF c.of \in storage.tables THEN {Call("table", c.id, c.of, c.sql)} ELSE {})

\* MIGRATE_TABLE
MigratedTable(c) ==
  /\ c.kind = "table" /\ c.status = "ok"
  /\ storage' = [storage EXCEPT !.tables = @ \ {c.of}]
  /\ Sends(c, {}) /\ UNCHANGED sqlLab

\* ADD_QUERY_EDITOR
Added(c) ==
  /\ c.kind = "add" /\ c.status = "ok"
  /\ sqlLab' = [queryEditors |-> sqlLab.queryEditors \cup {Editor(c.id, c.of, c.sql, FALSE)},
              tabHistory |-> Append(sqlLab.tabHistory, c.id)]
  /\ Sends(c, {}) /\ UNCHANGED storage

\* REMOVE_QUERY_EDITOR, and the same for a tab that turns out not to exist.
Removed(c) ==
  LET rest == WithoutEditor(sqlLab.queryEditors, c.id)
  IN  /\ \/ c.kind = "delete" /\ c.status = "ok"
         \/ c.kind \in {"activate", "get"} /\ c.status = "404"
      /\ sqlLab' = [queryEditors |-> rest,
                    tabHistory |-> Only(sqlLab.tabHistory, {e.id : e \in rest})]
      /\ Sends(c, {}) /\ UNCHANGED storage

AlteredEditor(id, sql, loaded) ==
  [sqlLab EXCEPT !.queryEditors =
     {IF e.id = id THEN [e EXCEPT !.sql = sql, !.loaded = loaded \/ @] ELSE e : e \in @}]

\* LOAD_QUERY_EDITOR, then the tab is activated.
EditorLoaded(c) ==
  /\ c.kind = "get" /\ c.status = "ok"
  /\ sqlLab' = AlteredEditor(c.id, c.sql, TRUE)
  /\ Sends(c, {Call("activate", c.id, c.of, c.sql)}) /\ UNCHANGED storage

\* SET_ACTIVE_QUERY_EDITOR
Activated(c) ==
  /\ c.kind = "activate" /\ c.status = "ok"
  /\ sqlLab' = IF (\E e \in sqlLab.queryEditors : e.id = c.id)
                /\ (sqlLab.tabHistory = <<>> \/ Last(sqlLab.tabHistory) # c.id)
             THEN [sqlLab EXCEPT !.tabHistory = Append(@, c.id)] ELSE sqlLab
  /\ Sends(c, {}) /\ UNCHANGED storage

\* QUERY_EDITOR_SET_SQL
SqlSet(c) ==
  /\ c.kind = "put" /\ c.status = "ok"
  /\ sqlLab' = AlteredEditor(c.id, c.sql, FALSE)
  /\ Sends(c, {}) /\ UNCHANGED storage

\* A toast tells, and nothing else happens.
Told(c) ==
  /\ \/ c.status \in {"failed", "403"}
     \/ c.status = "404" /\ c.kind \notin {"activate", "get"}
  /\ Sends(c, {}) /\ UNCHANGED <<sqlLab, storage>>

Hear(c) ==
  /\ \/ Migrated(c) \/ MigratedTable(c) \/ Added(c) \/ Removed(c)
     \/ EditorLoaded(c) \/ Activated(c) \/ SqlSet(c) \/ Told(c)
  /\ UNCHANGED <<tab_state, pasts, count>>
--------------------------------------------------------------------------------
(***************************************************************************)
(* What users do                                                           *)
(***************************************************************************)
Act == count.acts < MaxActs /\ count' = [count EXCEPT !.acts = @ + 1]

Ask(kind, e) == calls' = calls \cup {Call(kind, e.id, e.of, e.sql)}

\* Mutant of switchQueryEditor: the tab is activated without being loaded.
switch_at_once(e) == Ask("activate", e)

switchQueryEditor(e) == Ask(IF e.loaded THEN "activate" ELSE "get", e)

\* handleSelect
Select(e) ==
  /\ Act /\ (sqlLab.tabHistory # <<>> => e.id # Last(sqlLab.tabHistory))
  /\ switchQueryEditor(e)
  /\ UNCHANGED <<storage, tab_state, sqlLab, pasts>>

\* removeQueryEditor
Close(e) ==
  /\ Act /\ Ask("delete", e)
  /\ closed' = IF e.id \in Locals THEN closed ELSE closed \cup {e.of}
  /\ UNCHANGED <<storage, tab_state, sqlLab, born, adrift, dropped>>

\* The same user in another browser.
CloseElsewhere(t) ==
  /\ Act
  /\ tab_state' = [tab_state EXCEPT ![t].there = FALSE, ![t].active = FALSE, ![t].table = FALSE]
  /\ closed' = closed \cup {tab_state[t].of}
  /\ UNCHANGED <<storage, sqlLab, calls, born, adrift, dropped>>

\* The tab that is shown is the last of the history; without one the component of
\* the tabs shows some.
Shown == {e \in sqlLab.queryEditors : sqlLab.tabHistory # <<>> => e.id = Last(sqlLab.tabHistory)}

\* Leaving the text (onBlur, or two seconds after a change) stores it.
queryEditorSetSql(e) ==
  /\ Act /\ Ask("put", e)
  /\ adrift' = IF sqlLab.tabHistory = <<>> THEN adrift \cup {e.of} ELSE adrift
  /\ UNCHANGED <<storage, tab_state, sqlLab, born, closed, dropped>>

\* newQueryEditor
addQueryEditor(sql) ==
  LET new == count.added + 1
  IN  /\ count.added < MaxAdded /\ count.acts < MaxActs
      /\ count' = [count EXCEPT !.acts = @ + 1, !.added = new]
      /\ born' = [born EXCEPT ![new] = sql]
      /\ calls' = calls \cup {Call("add", 0, new, sql)}
      /\ UNCHANGED <<storage, tab_state, sqlLab, closed, adrift, dropped>>

\* duplicateQueryEditor, whose copy is named after the tab that is active.
cloneQueryToNewTab(e) == sqlLab.tabHistory # <<>> /\ addQueryEditor(e.sql)

Use ==
  \/ \E e \in sqlLab.queryEditors : Select(e) \/ Close(e) \/ cloneQueryToNewTab(e)
  \/ \E t \in Rows : CloseElsewhere(t)
  \/ \E e \in Shown : queryEditorSetSql(e)
  \/ addQueryEditor(count.added + 1)
--------------------------------------------------------------------------------
TabsInit ==
  /\ \E start \in Starts :
       /\ storage = [queryEditors |-> start.tabs, tables |-> start.tabs \cap WithTable,
                      tabHistory |-> SetToSeq(start.tabs)]
       /\ born = [o \in start.tabs \cup 1..MaxAdded |-> o]
       /\ count = [loads |-> 0, acts |-> 0, faults |-> start.faults, added |-> start.added]
  /\ tab_state = <<>> /\ sqlLab = [queryEditors |-> {}, tabHistory |-> <<>>]
  /\ calls = {} /\ closed = {} /\ adrift = {} /\ dropped = {}

TabsNext ==
  \/ Load \/ Use
  \/ \E c \in calls : Handle(c) \/ Fail(c) \/ LoseAnswer(c) \/ Hear(c)

TabsSpec == TabsInit /\ [][TabsNext]_tabsVars
--------------------------------------------------------------------------------
(***************************************************************************)
(* Properties                                                              *)
(***************************************************************************)
\* A tab that no user closed is in local storage or on the server, whatever is
\* lost on the way from the one to the other and whenever the page is reloaded.
EditorsAreKept ==
  \A o \in (Locals \cap DOMAIN born) \cup {e.of : e \in sqlLab.queryEditors} :
    \/ o \in closed \cup storage.queryEditors
    \/ \E t \in Rows : tab_state[t].of = o

\* getInitialState.js:96 "actual state will be loaded on tab switch": the server's
\* text of a tab is that of the tab, and not the placeholder that a page showed for
\* it.  (Where the last active tab of the page was closed nothing is switched to: the
\* placeholder of a tab that was not loaded is shown, and stored over the text.)
TextsAreTheirs == \A t \in Rows : tab_state[t].sql = born[tab_state[t].of]
                                  \/ tab_state[t].of \in adrift

\* The table of a tab goes where the tab goes.  ("Superset will retry later", at
\* sqlLab.js:434, is not so when the table's own request fails: its tab has left the
\* local storage, and tables are sent with their tabs only.)
TablesAreKept ==
  \A o \in WithTable \cap DOMAIN born :
    \/ o \in closed \cup dropped \/ o \in storage.queryEditors \cap storage.tables
    \/ \E t \in Rows : tab_state[t].of = o /\ tab_state[t].table
    \/ \E c \in calls : c.kind = "table" /\ c.of = o /\ c.status = "sent"

\* Tabs are kept, with their text and their table, on the way from local storage to the
\* server and from there to a page.
TabsAreKept == EditorsAreKept /\ TextsAreTheirs /\ TablesAreKept
================================================================================
