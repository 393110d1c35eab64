----------------------------- MODULE MCDashboards -----------------------------
(***************************************************************************)
(* Small instances, for TLC, of the pages in which users edit something    *)
(* and of which nothing is said but what they may never lose or mislead    *)
(* about: of a dashboard, the tree of its layout, the saves and their undo,*)
(* and the scopes of filters; of SQL Lab, the tabs.  They share no state,  *)
(* so that each is explored by itself: `part` says which one runs, and the *)
(* others rest in a first state.                                           *)
(***************************************************************************)
EXTENDS DashboardLayout, DashboardEditing, FilterScopes, SqlLabTabs, TLC

CONSTANTS c1, c2, c3,                     \* charts in the scopes of filters
          old1, old2                      \* tabs of SQL Lab in local storage

VARIABLE part

\* Layouts to start from: an empty grid, rows and a column, a grid with tabs, and
\* tabs of the top level with tabs inside.
Layout(components) == [i \in 0..Len(components) - 1 |-> components[i + 1]]
EmptyLayout == Layout(<<Component("ROOT", <<1>>), Component("GRID", <<>>)>>)

MCLayouts ==
  {EmptyLayout,
   Layout(<<Component("ROOT", <<1>>), Component("GRID", <<2, 6>>),
            Component("ROW", <<3, 4>>), Component("CHART", <<>>),
            Component("COLUMN", <<5>>), Component("CHART", <<>>),
            Component("ROW", <<7>>), Component("CHART", <<>>)>>),
   Layout(<<Component("ROOT", <<1>>), Component("GRID", <<2, 5>>),
            Component("TABS", <<3, 4>>), Component("TAB", <<7>>), Component("TAB", <<>>),
            Component("ROW", <<6>>), Component("CHART", <<>>), Component("HEADER", <<>>)>>),
   Layout(<<Component("ROOT", <<2>>), Component("GRID", <<>>),
            Component("TABS", <<3, 4>>), Component("TAB", <<5>>), Component("TAB", <<8>>),
            Component("TABS", <<6, 7>>), Component("TAB", <<>>), Component("TAB", <<>>),
            Component("ROW", <<9>>), Component("CHART", <<>>)>>)}

\* Two filter boxes and a chart: in a tab of the top level and the tab inside it;
\* beside a tab whose charts are in the tab inside it; and beside and in two tabs.
Nested == 1 :> 0 @@ 2 :> 1
MCScopeLayouts ==
  {Nested @@ c1 :> 1 @@ c2 :> 1 @@ c3 :> 2, Nested @@ c1 :> 0 @@ c2 :> 0 @@ c3 :> 2,
   1 :> 0 @@ 2 :> 0 @@ c1 :> 0 @@ c2 :> 1 @@ c3 :> 2}

\* A tab in local storage, with every bound below; or two, without faults and additions.
MCStarts == {[tabs |-> {old1}, faults |-> 0, added |-> 0],
             [tabs |-> {old1, old2}, faults |-> 1, added |-> 1]}

DashboardsInit ==
  /\ part \in {"layout", "editing", "scopes", "tabs"}
  /\ LayoutInit /\ (part # "layout" => layout = EmptyLayout)
  /\ EditingInit
  /\ parent \in MCScopeLayouts /\ (part # "scopes" => parent[c1] = 1)
  /\ ScopesInit
  /\ TabsInit /\ (part # "tabs" => storage.queryEditors = {old1})

LayoutStep == /\ part = "layout" /\ LayoutNext
              /\ UNCHANGED <<part, editingVars, scopeVars, tabsVars>>
EditingStep == /\ part = "editing" /\ EditingNext
               /\ UNCHANGED <<part, layoutVars, scopeVars, tabsVars>>
ScopesStep == /\ part = "scopes" /\ ScopesNext
              /\ UNCHANGED <<part, layoutVars, editingVars, tabsVars>>
TabsStep == /\ part = "tabs" /\ TabsNext
            /\ UNCHANGED <<part, layoutVars, editingVars, scopeVars>>

DashboardsNext == LayoutStep \/ EditingStep \/ ScopesStep \/ TabsStep

DashboardsSpec ==
  DashboardsInit
    /\ [][DashboardsNext]_<<part, layoutVars, editingVars, scopeVars, tabsVars>>

\* The part that runs keeps its types; the others do not change.
DashboardsTypeOK ==
  /\ part = "layout" => LayoutTypeOK
  /\ part = "editing" => EditingTypeOK
  /\ part = "scopes" => ScopesTypeOK
  /\ part = "tabs" => TabsTypeOK
===============================================================================
