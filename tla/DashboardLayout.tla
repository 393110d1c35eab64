---------------------------- MODULE DashboardLayout ----------------------------
(***************************************************************************)
(* The layout of a dashboard that is being edited: a tree of components,   *)
(* kept as a flat map from ids to components with the ids of their         *)
(* children (superset-frontend/src/dashboard, reducers/dashboardLayout.js).*)
(*                                                                         *)
(* A component is dragged from the palette or from its parent and dropped  *)
(* on a target.  getDropPosition decides whether it lands in the target or *)
(* beside it, handleDrop computes the index, handleComponentDrop picks the *)
(* reducer's action and removes a source that it left empty.               *)
(*                                                                         *)
(* Left out: names, sizes and colours (a drop for which there is no space  *)
(* changes nothing), and the lists `parents`.  MARKDOWN is treated as      *)
(* CHART is, and DIVIDER nearly as HEADER.  Positions count from 1.        *)
(***************************************************************************)
EXTENDS Integers, FiniteSetsExt, Sequences, SequencesExt

CONSTANTS
    InitialLayouts, \* layouts that the page is loaded with
    NewTypes,       \* what the palette offers
    MaxComponents,  \* bound: components besides the root and the grid
    MaxEdits,       \* bound: edits
    Careful         \* nobody makes one of the drops that Refusable names

VARIABLES
    layout,         \* dashboardLayout.present
    edits           \* how many edits were made

layoutVars == <<layout, edits>>

DASHBOARD_ROOT_ID == 0
DASHBOARD_GRID_ID == 1
ComponentIds == 0..(MaxComponents + 1)
NoParent == -1

ComponentTypes ==
    {"ROOT", "GRID", "TABS", "TAB", "ROW", "COLUMN", "CHART", "HEADER"}

Component(type, children) == [type |-> type, children |-> children]
ChildIds(L, i) == ToSet(L[i].children)

ASSUME LayoutAssumption ==
    /\ NewTypes \subseteq {"TABS", "ROW", "COLUMN", "CHART", "HEADER"}
    /\ {MaxComponents, MaxEdits} \subseteq Nat
    /\ Careful \in BOOLEAN

LayoutTypeOK ==
    /\ edits \in 0..MaxEdits
    /\ {DASHBOARD_ROOT_ID, DASHBOARD_GRID_ID} \subseteq DOMAIN layout
    /\ DOMAIN layout \subseteq ComponentIds
    /\ \A i \in DOMAIN layout : /\ layout[i].type \in ComponentTypes
                                /\ ChildIds(layout, i) \subseteq ComponentIds

-----------------------------------------------------------------------------
(* What is where *)

\* For a type of parent, the children it takes and the greatest depth at which
\* it takes them.
parentMaxDepthLookup ==
    [ROOT   |-> [TABS |-> 0, GRID |-> 0],
     GRID   |-> [CHART |-> 1, COLUMN |-> 1, HEADER |-> 1, ROW |-> 1, TABS |-> 1],
     ROW    |-> [CHART |-> 4, COLUMN |-> 4],
     TABS   |-> [TAB |-> 2],
     TAB    |-> [CHART |-> 2, COLUMN |-> 2, HEADER |-> 2, ROW |-> 2, TABS |-> 2],
     COLUMN |-> [CHART |-> 5, HEADER |-> 5, ROW |-> 3]]

isValidChild(parentType, parentDepth, childType) ==
    /\ parentType \in DOMAIN parentMaxDepthLookup
    /\ childType \in DOMAIN parentMaxDepthLookup[parentType]
    /\ parentDepth <= parentMaxDepthLookup[parentType][childType]

\* The depth that a rendered component hands to its children: tabs do not add
\* to it, and the content of a top-level tab is rendered as a grid is.
ChildDepth(type, depth) ==
    IF type = "TABS" \/ (type = "TAB" /\ depth # 1) THEN depth ELSE depth + 1

\* The components that are rendered for component i: it, its children and so
\* on, each with its parent and its depth.
Subtree(L, i, depth) ==
    LET Children(p) == {[id |-> c, parent |-> p.id,
                         depth |-> ChildDepth(L[p.id].type, p.depth)] :
                            c \in ChildIds(L, p.id)}
        level[n \in 0..MaxComponents] ==
            IF n = 0 THEN {[id |-> i, parent |-> NoParent, depth |-> depth]}
            ELSE UNION {Children(p) : p \in level[n - 1]}
        within[n \in 0..MaxComponents] ==
            IF n = MaxComponents \/ level[n] = {} THEN level[n]
            ELSE level[n] \cup within[n + 1]
    IN  within[0]

Descendants(L, i) == {r.id : r \in {q \in Subtree(L, i, 0) : q.parent # NoParent}}
OnPage(L) == Subtree(L, DASHBOARD_ROOT_ID, 0)

rootChildId(L) == Head(L[DASHBOARD_ROOT_ID].children)
HasTopLevelTabs(L) == rootChildId(L) # DASHBOARD_GRID_ID

Parents(L, i) == {p \in DOMAIN L : i \in ChildIds(L, p)}
findParentId(L, i) == CHOOSE p \in Parents(L, i) : TRUE
PositionIn(L, p, i) == SelectInSeq(L[p].children, LAMBDA c : c = i)

\* Two ids that shortid would generate: any that are free.
FreshIds(L) ==
    LET free == ComponentIds \ DOMAIN L
    IN  <<Min(free), Min(free \ {Min(free)})>>
HasFreshIds(L) == Cardinality(ComponentIds \ DOMAIN L) >= 3

With(L, i, component) ==
    [j \in DOMAIN L \cup {i} |-> IF j = i THEN component ELSE L[j]]
Without(L, ids) == [j \in DOMAIN L \ ids |-> L[j]]

-----------------------------------------------------------------------------
(* The reducer *)

shouldWrapChildInRow(parentType, childType) ==
    parentType \in {"GRID", "TAB"} /\ childType \in {"CHART", "COLUMN"}

\* The child at this index of p is put into a new row, if its type needs one.
WrapInRow(L, childType, p, index) ==
    LET row == FreshIds(L)[1]
    IN  IF shouldWrapChildInRow(L[p].type, childType)
        THEN With([L EXCEPT ![p].children[index] = row],
                  row, Component("ROW", <<L[p].children[index]>>))
        ELSE L

\* splice, which appends where the index is beyond the end.
Splice(list, index, child) ==
    InsertAt(list, Min({index, Len(list) + 1}), child)

\* (mutant) The source keeps the child that moves to another list.
reorder_copies(L, source, destination, child) ==
    [L EXCEPT ![destination.id].children = Splice(@, destination.index, child)]

reorderItem(L, source, destination, child) ==
    LET taken == [L EXCEPT ![source.id].children = RemoveAt(@, source.index)]
    IN  [taken EXCEPT ![destination.id].children = Splice(@, destination.index, child)]

MOVE_COMPONENT(L, drag, destination) ==
    WrapInRow(reorderItem(L, drag.source, destination, drag.id), drag.type,
              destination.id, destination.index)

CREATE_COMPONENT(L, type, destination) ==
    LET new == FreshIds(L)
        made == IF type = "TABS"
                THEN With(With(L, new[2], Component("TAB", <<>>)),
                          new[1], Component("TABS", <<new[2]>>))
                ELSE With(L, new[1], Component(type, <<>>))
        put == [made EXCEPT ![destination.id].children =
                                Splice(@, destination.index, new[1])]
    IN  WrapInRow(put, type, destination.id, destination.index)

\* A component goes with everything below it; a row that this leaves empty
\* goes too.
DELETE_COMPONENT(L, id, parentId) ==
    LET delete(M, i, p) == Without([M EXCEPT ![p].children = RemoveFirst(@, i)],
                                   {i} \cup Descendants(M, i))
        gone == delete(L, id, parentId)
    IN  IF L[parentId].type = "ROW" /\ gone[parentId].children = <<>>
        THEN delete(gone, parentId, findParentId(gone, parentId))
        ELSE gone

\* What the root held moves into the first tab of the tabs dropped on it; the
\* grid stays, empty and without a parent.
CREATE_TOP_LEVEL_TABS(L, drag) ==
    LET top == rootChildId(L)
        new == FreshIds(L)
        tabs == IF drag.new THEN new[1] ELSE drag.id
        tab == IF drag.new THEN new[2] ELSE Head(L[drag.id].children)
        made == IF drag.new
                THEN With(With(L, new[2], Component("TAB", <<>>)),
                          new[1], Component("TABS", <<new[2]>>))
                ELSE L
    IN  [made EXCEPT
           ![DASHBOARD_ROOT_ID].children = <<tabs>>,
           ![tab].children = @ \o RemoveFirst(L[top].children, tabs),
           ![top].children = <<>>]

\* (mutant) Only the content of the first tab returns to the grid.
first_tab_only(L) == L[Head(L[rootChildId(L)].children)].children

ContentOfTabs(L) ==
    FlattenSeq([k \in DOMAIN L[rootChildId(L)].children |->
                   L[L[rootChildId(L)].children[k]].children])

DELETE_TOP_LEVEL_TABS(L) ==
    Without([L EXCEPT ![DASHBOARD_ROOT_ID].children = <<DASHBOARD_GRID_ID>>,
                      ![DASHBOARD_GRID_ID].children = ContentOfTabs(L)],
            {rootChildId(L)} \cup ChildIds(L, rootChildId(L)))

-----------------------------------------------------------------------------
(* Drag and drop *)

\* What can be dragged: a rendered component by its handle (neither the grid
\* nor the top-level tabs have one), or a new one.
DragItems(L) ==
    {[new |-> FALSE, id |-> r.id, type |-> L[r.id].type,
      source |-> [id |-> r.parent, index |-> PositionIn(L, r.parent, r.id)]] :
        r \in {q \in OnPage(L) : q.parent \notin {NoParent, DASHBOARD_ROOT_ID}}}
    \cup
    {[new |-> TRUE, id |-> NoParent, type |-> t,
      source |-> [id |-> NoParent, index |-> 0]] : t \in NewTypes}

\* Where it can be dropped: on a component, or on the empty area above or below
\* the content of the grid or of a top-level tab, a target without a parent.
DropTargets(L) ==
    LET rendered == OnPage(L)
    IN  {r \in rendered : L[r.id].type # "GRID"}
        \cup {[id |-> r.id, parent |-> NoParent, depth |-> r.depth] :
                r \in {q \in rendered : L[q.id].type \in {"GRID", "TAB"} /\ q.depth = 1}}

\* Whether the component lands in the target or beside it.  When both are
\* possible the position of the mouse decides.
getDropPosition(L, drag, target) ==
    LET type == L[target.id].type
        parentType == L[target.parent].type
        parentDepth == target.depth - (IF parentType \in {"TAB", "TABS"} THEN 0 ELSE 1)
    IN  IF \/ drag.id = target.id
           \/ drag.type = "TABS" /\ type = "TAB" /\ target.depth = 2
        THEN {}
        ELSE {how \in {"child", "sibling"} :
                IF how = "child" THEN isValidChild(type, target.depth, drag.type)
                ELSE /\ target.parent # NoParent
                     /\ isValidChild(parentType, parentDepth, drag.type)}

\* (mutant) The index is not corrected for a component of the same list.
sibling_uncorrected(L, drag, target, after) ==
    PositionIn(L, target.parent, target.id) + (IF after THEN 1 ELSE 0)

\* The index beside the target, once the dragged component has left a smaller
\* index of the same list.
SiblingIndex(L, drag, target, after) ==
    LET index == PositionIn(L, target.parent, target.id)
    IN  index - (IF drag.source.id = target.parent /\ drag.source.index < index
                 THEN 1 ELSE 0)
              + (IF after THEN 1 ELSE 0)

\* The end of the list of children, or its beginning when dropped on the area
\* above the content of a grid or of a tab.
ChildIndex(L, target, after) ==
    IF ~after /\ L[target.id].type \in {"GRID", "TAB"} THEN 1
    ELSE Len(L[target.id].children) + 1

handleDrop(L, drag, target, how, after) ==
    IF how = "child"
    THEN [id |-> target.id, index |-> ChildIndex(L, target, after)]
    ELSE [id |-> target.parent, index |-> SiblingIndex(L, drag, target, after)]

RemoveEmptySource(L, drag) ==
    IF /\ L[drag.source.id].type \in {"TABS", "ROW"}
       /\ L[drag.source.id].children = <<>>
    THEN DELETE_COMPONENT(L, drag.source.id, findParentId(L, drag.source.id))
    ELSE L

handleComponentDrop(L, drag, destination) ==
    IF destination.id = DASHBOARD_ROOT_ID
    THEN LET M == IF ~drag.new /\ L[drag.id].children = <<>> THEN L \* TypeError
                  ELSE CREATE_TOP_LEVEL_TABS(L, drag)
         IN  IF drag.new THEN M ELSE RemoveEmptySource(M, drag)
    ELSE IF drag.new
    THEN CREATE_COMPONENT(L, drag.type, destination)
    ELSE IF \/ destination = drag.source
            \/ /\ drag.source.id = rootChildId(L) /\ HasTopLevelTabs(L)
               /\ L[destination.id].type = "TABS" /\ destination.id # rootChildId(L)
    THEN L
    ELSE RemoveEmptySource(MOVE_COMPONENT(L, drag, destination), drag)

\* Drops that break the layout and that the code does not refuse: into the
\* component itself; of tabs on the header above top-level tabs, whose property
\* disableDragdrop nothing reads; of tabs beside a component of a nested tab,
\* for only the tab itself refuses them.
Refusable(L, drag, destination) ==
    \/ ~drag.new /\ destination.id \in Descendants(L, drag.id)
    \/ destination.id = DASHBOARD_ROOT_ID /\ HasTopLevelTabs(L)
    \/ /\ drag.type = "TABS" /\ L[destination.id].type = "TAB"
       /\ destination.id \notin ChildIds(L, rootChildId(L))

-----------------------------------------------------------------------------
(***************************************************************************)
(* The layouts that a page is loaded with: those that this page may have   *)
(* saved.  Each component but the topmost has one parent, of a type that   *)
(* takes it, and there is no circle; tabs are in the grid, below the root  *)
(* or in one of the tabs that are; and an id is free, for MaxComponents is *)
(* a bound of the model.                                                   *)
(***************************************************************************)
Topmost(L) ==
    {DASHBOARD_ROOT_ID} \cup (IF HasTopLevelTabs(L) THEN {DASHBOARD_GRID_ID} ELSE {})

Fits(parentType, childType) ==
    isValidChild(parentType, 0, childType) /\ ~shouldWrapChildInRow(parentType, childType)

IsComponentMap(L) ==
    /\ L \in [DOMAIN L -> [type : ComponentTypes, children : Seq(ComponentIds)]]
    /\ {DASHBOARD_ROOT_ID, DASHBOARD_GRID_ID} \subseteq DOMAIN L
    /\ DOMAIN L \subseteq ComponentIds
    /\ \A i \in DOMAIN L : ChildIds(L, i) \subseteq DOMAIN L /\ IsInjective(L[i].children)

\* Among components that are not topmost there is always one whose parent is not
\* among them.
IsForest(L, topmost) ==
    /\ \A i, j \in DOMAIN L : ChildIds(L, i) \cap ChildIds(L, j) # {} => i = j
    /\ \A i \in topmost : Parents(L, i) = {}
    /\ \A S \in SUBSET (DOMAIN L \ topmost) :
         S # {} => \E i \in S : Parents(L, i) \ S # {}

TopIsRoot(L) ==
    /\ L[DASHBOARD_ROOT_ID].type = "ROOT" /\ Len(L[DASHBOARD_ROOT_ID].children) = 1
    /\ L[DASHBOARD_GRID_ID].type = "GRID"
    /\ HasTopLevelTabs(L) =>
         L[rootChildId(L)].type = "TABS" /\ L[DASHBOARD_GRID_ID].children = <<>>

ChildrenFit(L) ==
    \A i \in DOMAIN L : \A c \in ChildIds(L, i) :
        /\ Fits(L[i].type, L[c].type)
        /\ (L[i].type = "TAB" /\ L[c].type = "TABS") =>
              HasTopLevelTabs(L) /\ i \in ChildIds(L, rootChildId(L))

MayBeSaved(L) ==
    IsComponentMap(L) /\ TopIsRoot(L) /\ IsForest(L, Topmost(L)) /\ ChildrenFit(L)

ASSUME SavedLayouts ==
    \A L \in InitialLayouts : MayBeSaved(L) /\ DOMAIN L # ComponentIds

LayoutInit == layout \in InitialLayouts /\ edits = 0

Edit == edits < MaxEdits /\ HasFreshIds(layout) /\ edits' = edits + 1

Drop(drag, target, how, after) ==
    LET destination == handleDrop(layout, drag, target, how, after)
    IN  /\ Edit
        /\ Careful => ~Refusable(layout, drag, destination)
        /\ layout' = handleComponentDrop(layout, drag, destination)

Drops(L) ==
    LET targets == DropTargets(L)
    IN  UNION {{[drag |-> d, target |-> t, how |-> h, after |-> a] :
                   h \in getDropPosition(L, d, t), a \in BOOLEAN} :
               d \in DragItems(L), t \in targets}

\* The "+" of tabs.
AddTab(i) ==
    /\ Edit
    /\ layout[i].type = "TABS"
    /\ layout' = CREATE_COMPONENT(layout, "TAB",
                     [id |-> i, index |-> Len(layout[i].children) + 1])

DeleteComponent(r) ==
    /\ Edit
    /\ r.parent \notin {NoParent, DASHBOARD_ROOT_ID}
    /\ layout' = DELETE_COMPONENT(layout, r.id, r.parent)

\* "Collapse tab content".
DeleteTopLevelTabs ==
    /\ Edit
    /\ HasTopLevelTabs(layout)
    /\ layout' = DELETE_TOP_LEVEL_TABS(layout)

\* findFirstParentContainerId: the grid, or the first of the top-level tabs.
FirstParentContainers(L) ==
    IF ~HasTopLevelTabs(L) THEN {DASHBOARD_GRID_ID}
    ELSE LET tabs == L[rootChildId(L)].children
         IN  IF tabs = <<>> THEN {} ELSE {Head(tabs)}

\* The page is loaded with a chart that the saved layout does not have: it is
\* put in a row of its own at the end of the first container.  (Without a
\* container the page fails to load.)
hydrateDashboard ==
    /\ Edit
    /\ \E p \in FirstParentContainers(layout) :
         LET new == FreshIds(layout)
         IN  layout' = With(With([layout EXCEPT ![p].children = Append(@, new[1])],
                                 new[1], Component("ROW", <<new[2]>>)),
                            new[2], Component("CHART", <<>>))

LayoutNext ==
    \/ hydrateDashboard
    \/ \E d \in Drops(layout) : Drop(d.drag, d.target, d.how, d.after)
    \/ \E r \in OnPage(layout) : AddTab(r.id) \/ DeleteComponent(r)
    \/ DeleteTopLevelTabs

LayoutSpec == LayoutInit /\ [][LayoutNext]_layoutVars

-----------------------------------------------------------------------------
(***************************************************************************)
(* The flat map is a tree: each component that it holds is rendered below  *)
(* the root in one place, and each child exists.  Only the grid may be out *)
(* of it, empty, while there are top-level tabs.  (A component that is not *)
(* rendered cannot be reached by the user any more, and is saved for ever.)*)
(***************************************************************************)
LayoutIsTree ==
    /\ \A i \in DOMAIN layout : ChildIds(layout, i) \subseteq DOMAIN layout
    /\ \A i \in DOMAIN layout :
         /\ IsInjective(layout[i].children)
         /\ Cardinality({r \in OnPage(layout) : r.id = i}) =
              IF i = DASHBOARD_GRID_ID /\ HasTopLevelTabs(layout) THEN 0 ELSE 1
    /\ HasTopLevelTabs(layout) => layout[DASHBOARD_GRID_ID].children = <<>>

(***************************************************************************)
(* Whatever the moves, every component sits in a parent that may hold it,  *)
(* and a chart or a column sits in a row, wrapped where it was dropped on a*)
(* grid or a tab.                                                          *)
(***************************************************************************)
ChildrenAreValid ==
    \A r \in OnPage(layout) : r.parent # NoParent =>
        Fits(layout[r.parent].type, layout[r.id].type)

\* Drops, deletions and the unwrapping of tabs leave a layout that is both, after
\* any sequence of them and from each kind of layout.
LayoutIsValid == LayoutIsTree /\ ChildrenAreValid

(***************************************************************************)
(* A component dropped beside another lands next to it, before or after,   *)
(* itself or in the row that wraps it: handleDrop's index, computed before *)
(* the component left its place, is right after.                           *)
(***************************************************************************)
LandsBesideTarget ==
    HasFreshIds(layout) =>
    \A d \in Drops(layout) :
      (/\ d.how = "sibling" /\ ~d.drag.new /\ d.target.parent # DASHBOARD_ROOT_ID
       /\ ~Refusable(layout, d.drag, [id |-> d.target.parent])) =>
      LET L == handleComponentDrop(layout, d.drag,
                   handleDrop(layout, d.drag, d.target, d.how, d.after))
          Holds(i) == i = d.drag.id \/ L[i].children = <<d.drag.id>>
      IN  (L # layout /\ d.target.id \in DOMAIN L) =>
          \E k \in DOMAIN L[d.target.parent].children :
            /\ L[d.target.parent].children[k] = d.target.id
            /\ LET n == IF d.after THEN k + 1 ELSE k - 1
               IN  n \in DOMAIN L[d.target.parent].children
                   /\ Holds(L[d.target.parent].children[n])

\* What an edit leaves behind is a layout that can be shown, with the component where
\* the user dropped it.
EditsAreSound == LayoutIsValid /\ LandsBesideTarget

(***************************************************************************)
(* Only a deletion removes a chart: a drop, although it may remove the row *)
(* or the tabs that it leaves empty, and the collapse of the top-level tabs*)
(* keep every chart that was there.                                        *)
(***************************************************************************)
OnlyDeletionsRemoveCharts ==
    [][\A r \in {c \in OnPage(layout) : layout[c.id].type = "CHART"} :
         \/ \E q \in OnPage(layout)' : q.id = r.id
         \/ \E d \in OnPage(layout) : DeleteComponent(d)]_layoutVars
=============================================================================
