----------------------------- MODULE FilterScopes -----------------------------
(***************************************************************************)
(* Which charts the fields of a dashboard's filter boxes apply to, and the *)
(* dialog in which that is chosen                                          *)
(* (superset-frontend/src/dashboard/components/filterscope).               *)
(*                                                                         *)
(* A scope is stored as containers, the root or tabs of the layout, and as *)
(* charts below these that are immune.  The dialog shows the charts as a   *)
(* tree of check boxes, with the root and the tabs as the only branches;   *)
(* what is checked is turned into a scope when the dialog is saved, and a  *)
(* scope into what is checked when it opens.  One field is edited at a     *)
(* time, or all those that are ticked in a list.                           *)
(*                                                                         *)
(* The order of a container's children decides nothing here, so they are   *)
(* sets.  Left out: the search box, which narrows the tree that is shown,  *)
(* and which branches are expanded.                                        *)
(***************************************************************************)
EXTENDS Integers

CONSTANTS
  NTabs,        \* tabs of the layout
  TreeCharts,   \* charts of the dashboard
  FilterBoxes,  \* those of them that are filter boxes
  Columns       \* the columns that a filter box filters by

ASSUME ScopesAssumption == NTabs \in Nat /\ FilterBoxes \subseteq TreeCharts

VARIABLES
  parent,               \* the nearest tab, or the root, above a tab or chart
  scopes,               \* the scope of each field
  showing,              \* whether the dialog is open
  activeFilterField,    \* the field that is edited alone, or NoField
  checkedFilterFields,  \* the fields ticked in the list
  checked,              \* the charts checked for each field
  shown,                \* checked leaves of the tree on display
  wanted                \* history: the charts that the user left checked

dialog == <<activeFilterField, checkedFilterFields, checked, shown>>
scopeVars == <<parent, scopes, showing, dialog, wanted>>

\* A field is a filter box and a column.
Field == FilterBoxes \X Columns
NoField == <<>>
Own(f) == {f[1]}

Root == 0
Tab == 1..NTabs
Container == {Root} \cup Tab
Layouts ==
  {p \in [Tab \cup TreeCharts -> Container] : \A t \in Tab : p[t] < t}

-------------------------------------------------------------------------------
(* From a scope to charts *)

TabsIn(n) == {t \in Tab : parent[t] = n}
ChartsIn(n) == {c \in TreeCharts : parent[c] = n}

ChartsBelow[n \in Container] ==
  ChartsIn(n) \cup UNION {ChartsBelow[t] : t \in TabsIn(n)}

Scope == [scope : SUBSET Container, immune : SUBSET TreeCharts]
DASHBOARD_FILTER_SCOPE_GLOBAL == [scope |-> {Root}, immune |-> {}]

getChartIdsInFilterScope(s) ==
  (UNION {ChartsBelow[n] : n \in s.scope}) \ s.immune

\* The charts that a field filters, its own filter box left out.
Filtered(f) == getChartIdsInFilterScope(scopes[f]) \ Own(f)

-------------------------------------------------------------------------------
(* From checked charts to a scope *)

\* Charts two levels below, whose tab and whose tab's tab are out of scope.
getImmuneChartIdsFromTabsNotInScope(tabs, tabsInScope) ==
  UNION {ChartsIn(t) : t \in (UNION {TabsIn(u) : u \in tabs \ tabsInScope}) \ tabsInScope}

\* (mutant) A scope of the whole container forgets what its tabs leave out.
aggregate_tabs_only(n, tabScopes) ==
  [scope |-> {n},
   immune |-> getImmuneChartIdsFromTabsNotInScope(TabsIn(n),
                UNION {tabScopes[t].scope : t \in TabsIn(n)})]

\* The scopes of a container's tabs aggregated to the container ...
aggregate(n, tabScopes) ==
  [scope |-> {n},
   immune |-> getImmuneChartIdsFromTabsNotInScope(TabsIn(n),
                UNION {tabScopes[t].scope : t \in TabsIn(n)})
              \cup UNION {tabScopes[t].immune : t \in TabsIn(n)}]

\* ... or listed.
getTabChildrenScope(n, tabScopes, immuneChartSiblings) ==
  LET inScope == {t \in TabsIn(n) : tabScopes[t].scope # {}}
  IN IF ChartsIn(n) = {} /\ \A t \in TabsIn(n) : tabScopes[t].scope = {t}
     THEN aggregate(n, tabScopes)
     ELSE [scope |-> UNION {tabScopes[t].scope : t \in inScope},
           immune |-> IF inScope # {} THEN UNION {tabScopes[t].immune : t \in inScope}
                      ELSE (UNION {tabScopes[t].immune : t \in TabsIn(n)})
                             \cup immuneChartSiblings]

getFilterScopeFromNodesTree(f, checkedChartIds) ==
  LET chartsImmune(n) == ChartsIn(n) \ (checkedChartIds \cup Own(f))
      traverse[n \in Container] ==
        LET tabScopes == [t \in TabsIn(n) |-> traverse[t]]
            whole == aggregate(n, tabScopes)
        IN IF ChartsIn(n) \cap checkedChartIds # {}
           THEN [whole EXCEPT !.immune = @ \cup chartsImmune(n)]
           ELSE IF TabsIn(n) # {}
           THEN getTabChildrenScope(n, tabScopes, chartsImmune(n))
           ELSE [scope |-> {}, immune |-> chartsImmune(n)]
  IN traverse[Root]

-------------------------------------------------------------------------------
(* The dialog *)

EditingList(active, ticked) == IF active # NoField THEN {active} ELSE ticked

\* A tree of charts, each with one leaf for every field that is edited.
buildFilterScopeTreeEntry(active, ticked) ==
  {leaf \in TreeCharts \X EditingList(active, ticked) : leaf[1] \in checked[leaf[2]]}

ScopesInit ==
  /\ parent \in Layouts
  /\ scopes = [f \in Field |-> DASHBOARD_FILTER_SCOPE_GLOBAL]
  /\ showing = FALSE
  /\ activeFilterField = NoField /\ checkedFilterFields = {}
  /\ checked = [f \in Field |-> {}] /\ shown = {}
  /\ wanted = [f \in Field |-> Filtered(f)]

\* The constructor; the field of the first filter box is edited first.
OpenSelector(f) ==
  /\ ~showing
  /\ showing' = TRUE
  /\ checked' = [g \in Field |-> Filtered(g)]
  /\ activeFilterField' = f /\ checkedFilterFields' = {}
  /\ shown' = Filtered(f) \X {f}
  /\ UNCHANGED <<parent, scopes, wanted>>

\* A click on a field edits it alone; a second click, all that are ticked.
onChangeFilterField(f) ==
  /\ showing
  /\ activeFilterField' = IF f = activeFilterField THEN NoField ELSE f
  /\ shown' = buildFilterScopeTreeEntry(activeFilterField', checkedFilterFields)
  /\ UNCHANGED <<parent, scopes, showing, checkedFilterFields, checked, wanted>>

onCheckFilterField(f) ==
  /\ showing
  /\ activeFilterField' = NoField
  /\ checkedFilterFields' = IF f \in checkedFilterFields
                            THEN checkedFilterFields \ {f} ELSE checkedFilterFields \cup {f}
  /\ shown' = buildFilterScopeTreeEntry(NoField, checkedFilterFields')
  /\ UNCHANGED <<parent, scopes, showing, checked, wanted>>

\* The filter box itself is never checked for its own fields.
getRevertedFilterScope(leaves, filterFields) ==
  [f \in Field |-> IF f \in filterFields
                   THEN {c \in TreeCharts : <<c, f>> \in leaves} \ Own(f)
                   ELSE checked[f]]

\* The box of a chart, or that of a branch with all leaves below it (the tree of
\* check boxes is a library's).
onCheckFilterScope(under, on) ==
  LET fields == EditingList(activeFilterField, checkedFilterFields)
  IN /\ showing /\ fields # {}
     /\ shown' = IF on THEN shown \cup (under \X fields) ELSE shown \ (under \X fields)
     /\ checked' = getRevertedFilterScope(shown', fields)
     /\ wanted' = [f \in Field |->
                     IF f \notin fields THEN wanted[f]
                     ELSE IF on THEN wanted[f] \cup (under \ Own(f)) ELSE wanted[f] \ under]
     /\ UNCHANGED <<parent, scopes, showing, activeFilterField, checkedFilterFields>>

\* What the dialog leaves behind when it closes.
Closed ==
  /\ showing /\ showing' = FALSE
  /\ activeFilterField' = NoField /\ checkedFilterFields' = {}
  /\ checked' = [f \in Field |-> {}] /\ shown' = {}
  /\ UNCHANGED parent

onSave ==
  /\ Closed
  /\ scopes' = [f \in Field |-> getFilterScopeFromNodesTree(f, checked[f])]
  /\ UNCHANGED wanted

onClose ==
  /\ Closed
  /\ UNCHANGED scopes
  /\ wanted' = [f \in Field |-> Filtered(f)]

ScopesNext ==
  \/ \E f \in Field : OpenSelector(f) \/ onChangeFilterField(f) \/ onCheckFilterField(f)
  \/ \E c \in TreeCharts, on \in BOOLEAN : onCheckFilterScope({c}, on)
  \/ \E n \in Container, on \in BOOLEAN : onCheckFilterScope(ChartsBelow[n], on)
  \/ onSave \/ onClose

ScopesSpec == ScopesInit /\ [][ScopesNext]_scopeVars

-------------------------------------------------------------------------------
(* Properties *)

ScopesTypeOK ==
  /\ parent \in Layouts /\ scopes \in [Field -> Scope] /\ showing \in BOOLEAN
  /\ activeFilterField \in Field \cup {NoField}
  /\ checkedFilterFields \subseteq Field
  /\ checked \in [Field -> SUBSET TreeCharts] /\ wanted \in [Field -> SUBSET TreeCharts]
  /\ shown \subseteq TreeCharts \X Field

\* Once the dialog is closed every field filters the charts that were checked for
\* it, edited alone or with others, and those it had filtered if it was not edited;
\* a chart that is left unchecked becomes immune, "all charts from tabChildren that
\* is not in scope" (getFilterScopeFromNodesTree.js:59).
AppliesAsChecked == ~showing => \A f \in Field : Filtered(f) = wanted[f]

\* Layouts in which, below a container that holds charts, a tab with charts holds
\* no tabs and tabs are nested no more than twice.
FewTabsBesideCharts ==
  \A t \in Tab : ChartsIn(parent[t]) # {} =>
    /\ ChartsIn(t) # {} => TabsIn(t) = {}
    /\ \A s \in TabsIn(t) : TabsIn(s) = {}

\* What is checked in the dialog survives saving and opening it again, in those
\* layouts (getFilterScopeFromNodesTree and getChartIdsInFilterScope are inverse).
ScopesAreAsChecked == FewTabsBesideCharts => AppliesAsChecked
===============================================================================
