----------------------------- MODULE ChartQueries -----------------------------
(***************************************************************************)
(* The queries of the charts of a dashboard in the browser: filters that   *)
(* trigger them, tabs that hold them back, refreshes, and answers in any   *)
(* order (superset-frontend/src/chart, dashboard/components/Dashboard.jsx).*)
(*                                                                         *)
(* A page runs one handler at a time, and React renders before the next:   *)
(* what a change of the state triggers and what the rendered charts then   *)
(* request is one step with it.  Left out: what a query returns, the       *)
(* rendering of the answer, the explore page, and own states of charts,    *)
(* which trigger as filters do.                                            *)
(***************************************************************************)
EXTENDS Integers, FiniteSets

CONSTANTS
    Charts,
    Annotated,    \* charts of the legacy API with an annotation layer
    Filters,
    Values,       \* what can be selected in a filter
    Scopes,       \* scopes that a filter can be given: sets of charts
    Tabs,         \* what the tabs show: sets of charts
    MaxActions    \* bound: what the user and the refresh timer do

ASSUME ChartQueriesAssumption ==
    /\ Annotated \subseteq Charts
    /\ Scopes \cup Tabs \subseteq SUBSET Charts
    /\ MaxActions \in Nat

VARIABLES
    activeFilters,   \* for each filter its value and its scope
    appliedFilters,  \* those for which Dashboard last triggered queries
    editMode,
    visible,         \* charts in the open tabs
    charts,          \* the state of each chart
    missed,          \* charts whose last query missed a filter (see below)
    actions          \* how often the user or the timer acted

chartVars ==
    <<activeFilters, appliedFilters, editMode, visible, charts, missed, actions>>

\* A filter without a value is none of the active ones.
NoValue == "no value"
NoForm == {<<"none", "none">>}
Forms == (SUBSET (Filters \X Values)) \cup {NoForm}


ChartTypeOK ==
    /\ activeFilters \in [Filters -> [value : Values \cup {NoValue}, scope : Scopes]]
    /\ appliedFilters \in [Filters -> [value : Values \cup {NoValue}, scope : Scopes]]
    /\ editMode \in BOOLEAN /\ visible \in Tabs /\ missed \subseteq Charts
    /\ actions \in 0..MaxActions
    /\ \A c \in Charts :
         /\ charts[c].triggerQuery \in BOOLEAN
         /\ charts[c].chartStatus \in {"loading", "updated"}
         /\ charts[c].latestQueryFormData \in Forms
         /\ charts[c].flying \subseteq 1..charts[c].started
         /\ {charts[c].annotationQuery, charts[c].annotationData,
             charts[c].queriesResponse} \subseteq 0..charts[c].started

\* The form data of a chart: the filters that apply to it.
FormData(c, filters) ==
    {<<f, filters[f].value>> :
        f \in {g \in Filters : filters[g].value # NoValue /\ c \in filters[g].scope}}

-----------------------------------------------------------------------------
(* Queries of one chart: its requests are numbered, from 1 to started; the answer
   that it shows and its annotations have the number of their request. *)

\* exploreJSON: nothing aborts a request that is on its way; runAnnotationQuery
\* does, in the reducer of ANNOTATION_QUERY_STARTED.
exploreJSON(c, chart, formData) ==
    LET id == chart.started + 1
    IN  [chart EXCEPT
           !.chartStatus = "loading", !.triggerQuery = FALSE,
           !.latestQueryFormData = formData, !.started = id,
           !.flying = @ \cup {id},
           !.annotationQuery = IF c \in Annotated THEN id ELSE 0]

\* (mutant) A chart that is loading runs no query.
skips_when_loading(states, filters, shown) ==
    [c \in Charts |->
        IF c \in shown /\ states[c].triggerQuery /\ states[c].chartStatus # "loading"
        THEN exploreJSON(c, states[c], FormData(c, filters))
        ELSE states[c]]

\* A chart that is rendered while its triggerQuery is set runs its query.
Rendered(states, filters, shown) ==
    [c \in Charts |->
        IF c \in shown /\ states[c].triggerQuery
        THEN exploreJSON(c, states[c], FormData(c, filters))
        ELSE states[c]]

TriggerQuery(states, ids) ==
    [c \in Charts |->
        IF c \in ids
        THEN [states[c] EXCEPT !.triggerQuery = TRUE, !.chartStatus = "loading"]
        ELSE states[c]]

\* The charts that a filter applies to: none without a value.
AppliesTo(filter) == IF filter.value = NoValue THEN {} ELSE filter.scope

\* (mutant) A filter that changes its scope refreshes the charts it applies to,
\* and not those it applied to.
new_scope_only(applied, active) ==
    UNION {IF active[f] = applied[f] THEN {}
           ELSE IF active[f].value = NoValue THEN AppliesTo(applied[f])
           ELSE AppliesTo(active[f]) : f \in Filters}

\* applyFilters: the charts that a filter which was removed, added or changed
\* applied to or applies to.
AffectedCharts(applied, active) ==
    UNION {IF active[f] = applied[f] THEN {}
           ELSE AppliesTo(applied[f]) \cup AppliesTo(active[f]) : f \in Filters}

\* A chart has missed filters if it queried without those that are active, and
\* catches up when it queries with them.
Missing(before, after, filters, applied) ==
    {c \in Charts :
        IF after[c].started = before[c].started THEN c \in missed
        ELSE \/ after[c].latestQueryFormData # FormData(c, filters)
             \/ FormData(c, applied) # FormData(c, filters)}

-----------------------------------------------------------------------------
ChartInit ==
    /\ activeFilters \in [Filters -> [value : Values \cup {NoValue}, scope : Scopes]]
    /\ appliedFilters = activeFilters
    /\ editMode = FALSE
    /\ visible \in Tabs
    /\ charts = Rendered(
         [c \in Charts |->
            [triggerQuery |-> TRUE, chartStatus |-> "loading", started |-> 0,
             latestQueryFormData |-> NoForm, flying |-> {}, queriesResponse |-> 0,
             annotationQuery |-> 0, annotationData |-> 0]],
         activeFilters, visible)
    /\ missed = {}
    /\ actions = 0

Act == actions < MaxActions /\ actions' = actions + 1

\* What follows a change of the page: Dashboard.applyCharts, and the rendering.
Update ==
    LET states == IF editMode' THEN charts
                  ELSE TriggerQuery(charts, AffectedCharts(appliedFilters, activeFilters'))
    IN  /\ appliedFilters' = IF editMode' THEN appliedFilters ELSE activeFilters'
        /\ charts' = Rendered(states, activeFilters', visible')
        /\ missed' = Missing(charts, charts', activeFilters', appliedFilters')

\* A filter gets a value, loses it or applies to other charts.
changeFilter(f, value, scope) ==
    /\ Act
    /\ activeFilters' = [activeFilters EXCEPT ![f] = [value |-> value, scope |-> scope]]
    /\ UNCHANGED <<editMode, visible>>
    /\ Update

toggleEditMode ==
    /\ Act
    /\ editMode' = ~editMode
    /\ UNCHANGED <<activeFilters, visible>>
    /\ Update

OpenTab(shown) ==
    /\ Act
    /\ visible' = shown
    /\ UNCHANGED <<activeFilters, editMode>>
    /\ Update

\* From the menu of the chart or of the dashboard, or by the timer: the query is
\* the last one again, also for a chart that is not visible.
refreshChart(c) ==
    /\ Act
    /\ charts[c].latestQueryFormData # NoForm
    /\ charts' = [charts EXCEPT ![c] =
                     exploreJSON(c, charts[c], charts[c].latestQueryFormData)]
    /\ missed' = Missing(charts, charts', activeFilters, appliedFilters)
    /\ UNCHANGED <<activeFilters, appliedFilters, editMode, visible>>

\* chartUpdateSucceeded or chartUpdateFailed: an error or a timeout is an answer.
ChartUpdated(c, id) ==
    /\ charts' = [charts EXCEPT ![c].flying = @ \ {id},
                                ![c].queriesResponse = id,
                                ![c].chartStatus = "updated"]
    /\ UNCHANGED <<activeFilters, appliedFilters, editMode, visible, missed, actions>>

\* (mutant) A request for annotations that a newer one replaced is answered.
any_annotation(c) ==
    IF charts[c].annotationQuery = 0 THEN {} ELSE 1..charts[c].started

\* The request for annotations that was not aborted.
AnnotationRequests(c) == {charts[c].annotationQuery} \ {0}

AnnotationQuerySuccess(c) ==
    \E id \in AnnotationRequests(c) :
      /\ charts' = [charts EXCEPT ![c].annotationData = id, ![c].annotationQuery = 0]
      /\ UNCHANGED <<activeFilters, appliedFilters, editMode, visible, missed, actions>>

AnnotationQueryFailed(c) ==
    /\ AnnotationRequests(c) # {}
    /\ charts' = [charts EXCEPT ![c].annotationData = 0, ![c].annotationQuery = 0]
    /\ UNCHANGED <<activeFilters, appliedFilters, editMode, visible, missed, actions>>

Answered(c) == \E id \in charts[c].flying : ChartUpdated(c, id)

ChartNext ==
    \/ \E f \in Filters, value \in Values \cup {NoValue}, scope \in Scopes :
         changeFilter(f, value, scope)
    \/ toggleEditMode
    \/ \E shown \in Tabs : OpenTab(shown)
    \/ \E c \in Charts :
         \/ refreshChart(c)
         \/ Answered(c) \/ AnnotationQuerySuccess(c) \/ AnnotationQueryFailed(c)

ChartSpec == ChartInit /\ [][ChartNext]_chartVars

\* The server answers, or the client's timeout does.
ChartFairness == \A c \in Charts : WF_chartVars(Answered(c))

-----------------------------------------------------------------------------
(***************************************************************************)
(* Outside of edit mode, the last query of each chart that has no query    *)
(* pending was made with the filters as they are, whatever filters, scopes *)
(* and tabs changed since.  Two kinds of charts miss some: one that is     *)
(* refreshed while its query is held back, for the refresh takes the       *)
(* trigger with it; and one that queries, in edit mode, with filters that  *)
(* are changed back before edit mode is left.                              *)
(***************************************************************************)
FiltersTakeEffect ==
    ~editMode => \A c \in Charts \ missed :
        ~charts[c].triggerQuery =>
            charts[c].latestQueryFormData = FormData(c, activeFilters)

(***************************************************************************)
(* Annotations never go back to those of an older request, although the    *)
(* data of the chart do: the older request is aborted.                     *)
(***************************************************************************)
AnnotationsNeverGoBack ==
    [][\A c \in Charts : charts'[c].annotationData = 0
          \/ charts'[c].annotationData >= charts[c].annotationData]_chartVars

(***************************************************************************)
(* A chart in an open tab does not load for ever: no order of triggers,    *)
(* refreshes and answers leaves it loading without a request on its way.   *)
(***************************************************************************)
LoadingEnds ==
    \A c \in Charts :
        (c \in visible /\ charts[c].chartStatus = "loading")
            ~> (c \notin visible \/ charts[c].chartStatus # "loading")
=============================================================================
