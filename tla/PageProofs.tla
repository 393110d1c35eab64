------------------------------ MODULE PageProofs ------------------------------
(***************************************************************************)
(* Proofs about the pages of the front end: that charts show the filters   *)
(* as they are and never annotations of an older request (ChartQueries),   *)
(* that the flag of unsaved changes tells of every change                  *)
(* (DashboardEditing), that a tab that polls for the events of its queries *)
(* skips none (AsyncEvents), and that filters apply to the charts that     *)
(* were checked for them (FilterScopes); for any charts, filters, scopes,  *)
(* editors, jobs and tabs.                                                 *)
(***************************************************************************)
EXTENDS AsyncEvents, ChartQueries, DashboardEditing, FilterScopes, FiniteSetTheorems,
        TLAPS

-------------------------------------------------------------------------------
(* Charts: types *)

FilterState == [Filters -> [value : Values \cup {NoValue}, scope : Scopes]]

ChartState ==
  [triggerQuery : BOOLEAN, chartStatus : {"loading", "updated"}, started : Nat,
   latestQueryFormData : Forms, flying : SUBSET Nat, queriesResponse : Nat,
   annotationQuery : Nat, annotationData : Nat]

\* What a chart shows and waits for was asked for by a request of its own.
OwnRequests(s) ==
  /\ s.flying \subseteq 1..s.started
  /\ s.annotationQuery <= s.started /\ s.annotationData <= s.started
  /\ s.queriesResponse <= s.started

\* A request for annotations that was not aborted is newer than those shown.
AnnotationsAhead(s) == s.annotationQuery # 0 => s.annotationData <= s.annotationQuery

Sound(s) == s \in ChartState /\ OwnRequests(s) /\ AnnotationsAhead(s)

ChartTypes ==
  /\ activeFilters \in FilterState /\ appliedFilters \in FilterState
  /\ editMode \in BOOLEAN /\ visible \in Tabs /\ missed \subseteq Charts
  /\ actions \in 0..MaxActions
  /\ DOMAIN charts = Charts
  /\ \A c \in Charts : Sound(charts[c])

\* A chart that has no query pending made its last one with the filters applied.
QueriedAsApplied ==
  /\ ~editMode => appliedFilters = activeFilters
  /\ \A c \in Charts \ missed :
       ~charts[c].triggerQuery =>
         charts[c].latestQueryFormData = FormData(c, appliedFilters)

ChartInv == ChartTypes /\ QueriedAsApplied

LEMMA FormsAreForms ==
  ASSUME NEW c \in Charts, NEW filters \in FilterState
  PROVE  FormData(c, filters) \in Forms
<1>1. ASSUME NEW x \in FormData(c, filters)
      PROVE  x \in Filters \X Values
  BY <1>1 DEF FormData, FilterState
<1> QED BY <1>1 DEF Forms

\* A query that starts: the request is a new one.
LEMMA ExploreIsSound ==
  ASSUME NEW c, NEW s, Sound(s), NEW form \in Forms
  PROVE  /\ Sound(exploreJSON(c, s, form))
         /\ exploreJSON(c, s, form).started = s.started + 1
         /\ exploreJSON(c, s, form).latestQueryFormData = form
         /\ exploreJSON(c, s, form).annotationData = s.annotationData
<1> DEFINE id == s.started + 1
           r == exploreJSON(c, s, form)
<1>1. s \in ChartState /\ s.started \in Nat /\ id \in Nat /\ s.flying \subseteq 1..s.started
  BY DEF Sound, ChartState, OwnRequests
<1>2. /\ r.started = id /\ r.latestQueryFormData = form /\ r.flying = s.flying \cup {id}
      /\ r.annotationQuery = (IF c \in Annotated THEN id ELSE 0)
      /\ r.annotationData = s.annotationData /\ r.queriesResponse = s.queriesResponse
  BY <1>1 DEF exploreJSON, ChartState
<1>3. s.flying \cup {id} \subseteq 1..id /\ s.flying \cup {id} \in SUBSET Nat
  BY <1>1
<1>4. r \in ChartState
  BY <1>1, <1>3 DEF exploreJSON, ChartState
<1>5. s.annotationData \in Nat /\ s.annotationData <= id /\ s.queriesResponse \in Nat
      /\ s.queriesResponse <= id
  BY <1>1 DEF Sound, ChartState, OwnRequests
<1>6. OwnRequests(r) /\ AnnotationsAhead(r)
  BY <1>1, <1>2, <1>3, <1>5 DEF OwnRequests, AnnotationsAhead
<1> QED BY <1>2, <1>4, <1>6 DEF Sound

\* What rendering makes of the charts' states.
LEMMA RenderedIs ==
  ASSUME NEW states, NEW filters \in FilterState, NEW onTop,
         \A c \in Charts : Sound(states[c])
  PROVE  /\ DOMAIN Rendered(states, filters, onTop) = Charts
         /\ \A c \in Charts :
              LET r == Rendered(states, filters, onTop)[c]
              IN  /\ Sound(r) /\ r.annotationData = states[c].annotationData
                  /\ \/ r = states[c] /\ (r.triggerQuery => c \notin onTop)
                     \/ /\ r.started = states[c].started + 1
                        /\ r.latestQueryFormData = FormData(c, filters)
<1>1. ASSUME NEW c \in Charts
      PROVE  LET r == Rendered(states, filters, onTop)[c]
             IN  /\ Sound(r) /\ r.annotationData = states[c].annotationData
                 /\ \/ r = states[c] /\ (r.triggerQuery => c \notin onTop)
                    \/ /\ r.started = states[c].started + 1
                       /\ r.latestQueryFormData = FormData(c, filters)
  <2>1. Sound(states[c]) /\ FormData(c, filters) \in Forms
    BY FormsAreForms
  <2>2. CASE c \in onTop /\ states[c].triggerQuery
    <3>1. Rendered(states, filters, onTop)[c]
            = exploreJSON(c, states[c], FormData(c, filters))
      BY <2>2 DEF Rendered
    <3> QED BY <2>1, <3>1, ExploreIsSound
  <2>3. CASE ~(c \in onTop /\ states[c].triggerQuery)
    <3>1. Rendered(states, filters, onTop)[c] = states[c]
      BY <2>3 DEF Rendered
    <3> QED BY <2>1, <2>3, <3>1
  <2> QED BY <2>2, <2>3
<1>2. DOMAIN Rendered(states, filters, onTop) = Charts
  BY DEF Rendered
<1> QED BY <1>1, <1>2

LEMMA TriggeredIs ==
  ASSUME NEW states, NEW ids, \A c \in Charts : Sound(states[c])
  PROVE  \A c \in Charts :
           LET r == TriggerQuery(states, ids)[c]
           IN  /\ Sound(r) /\ r.started = states[c].started
               /\ r.annotationData = states[c].annotationData
               /\ r.latestQueryFormData = states[c].latestQueryFormData
               /\ (c \in ids => r.triggerQuery)
               /\ (c \notin ids => r = states[c])
<1> SUFFICES ASSUME NEW c \in Charts
             PROVE  LET r == TriggerQuery(states, ids)[c]
                    IN  /\ Sound(r) /\ r.started = states[c].started
                        /\ r.annotationData = states[c].annotationData
                        /\ r.latestQueryFormData = states[c].latestQueryFormData
                        /\ (c \in ids => r.triggerQuery)
                        /\ (c \notin ids => r = states[c])
  OBVIOUS
<1> DEFINE s == states[c]
           t == [s EXCEPT !.triggerQuery = TRUE, !.chartStatus = "loading"]
<1>1. Sound(s)
  OBVIOUS
<1>2. s \in ChartState
  BY <1>1 DEF Sound
<1>3. /\ t.started = s.started /\ t.annotationData = s.annotationData
      /\ t.latestQueryFormData = s.latestQueryFormData /\ t.flying = s.flying
      /\ t.annotationQuery = s.annotationQuery /\ t.queriesResponse = s.queriesResponse
      /\ t.triggerQuery
  BY <1>2 DEF ChartState
<1>4. t \in ChartState
  BY <1>2 DEF ChartState
<1>5. Sound(t)
  BY <1>1, <1>3, <1>4 DEF Sound, OwnRequests, AnnotationsAhead
<1>6. TriggerQuery(states, ids)[c] = IF c \in ids THEN t ELSE s
  BY DEF TriggerQuery
<1> QED BY <1>1, <1>3, <1>5, <1>6

-------------------------------------------------------------------------------
(* Charts: filters *)

\* applyFilters triggers every chart whose form data a change of the filters changes.
LEMMA OnlyAffectedChange ==
  ASSUME NEW applied \in FilterState, NEW active \in FilterState, NEW c \in Charts,
         c \notin AffectedCharts(applied, active)
  PROVE  FormData(c, applied) = FormData(c, active)
<1>1. ASSUME NEW f \in Filters
      PROVE  /\ (applied[f].value # NoValue /\ c \in applied[f].scope)
                  <=> (active[f].value # NoValue /\ c \in active[f].scope)
             /\ (active[f].value # NoValue /\ c \in active[f].scope)
                  => applied[f].value = active[f].value
  <2>1. CASE active[f] = applied[f]
    BY <2>1
  <2>2. CASE active[f] # applied[f]
    <3>1. c \notin AppliesTo(applied[f]) \cup AppliesTo(active[f])
      BY <2>2 DEF AffectedCharts
    <3> QED BY <3>1 DEF AppliesTo
  <2> QED BY <2>1, <2>2
<1>2. {g \in Filters : applied[g].value # NoValue /\ c \in applied[g].scope}
        = {g \in Filters : active[g].value # NoValue /\ c \in active[g].scope}
  BY <1>1
<1>3. ASSUME NEW x
      PROVE  x \in FormData(c, applied) <=> x \in FormData(c, active)
  BY <1>1, <1>2 DEF FormData
<1> QED BY <1>3

\* A change of the page, with what it triggers and renders.
LEMMA UpdateKeeps ==
  ASSUME ChartInv, Update, activeFilters' \in FilterState, editMode' \in BOOLEAN,
         visible' \in Tabs, actions' \in 0..MaxActions
  PROVE  ChartInv' /\ \A c \in Charts : charts'[c].annotationData = charts[c].annotationData
<1> DEFINE triggered == IF editMode' THEN charts
             ELSE TriggerQuery(charts, AffectedCharts(appliedFilters, activeFilters'))
<1>1. PICK states : states = triggered
  OBVIOUS
<1>2. PICK filters : filters = activeFilters'
  OBVIOUS
<1>3. /\ appliedFilters' = IF editMode' THEN appliedFilters ELSE filters
      /\ charts' = Rendered(states, filters, visible')
      /\ missed' = Missing(charts, charts', filters, appliedFilters')
  BY <1>1, <1>2 DEF Update
<1>4. /\ \A c \in Charts : Sound(charts[c])
      /\ filters \in FilterState /\ appliedFilters \in FilterState
  BY <1>2 DEF ChartInv, ChartTypes
<1>5. \A c \in Charts :
        /\ Sound(states[c]) /\ states[c].started = charts[c].started
        /\ states[c].annotationData = charts[c].annotationData
        /\ states[c].latestQueryFormData = charts[c].latestQueryFormData
        /\ \/ states[c] = charts[c]
              /\ (editMode' \/ c \notin AffectedCharts(appliedFilters, filters))
           \/ ~editMode' /\ states[c].triggerQuery
  <2>1. CASE editMode'
    BY <1>1, <1>4, <2>1
  <2>2. CASE ~editMode'
    <3>1. states = TriggerQuery(charts, AffectedCharts(appliedFilters, filters))
      BY <1>1, <1>2, <2>2
    <3> QED BY <1>4, <2>2, <3>1, TriggeredIs
  <2> QED BY <2>1, <2>2
<1>6. /\ DOMAIN charts' = Charts
      /\ \A c \in Charts :
           /\ Sound(charts'[c]) /\ charts'[c].annotationData = states[c].annotationData
           /\ \/ charts'[c] = states[c]
              \/ /\ charts'[c].started = states[c].started + 1
                 /\ charts'[c].latestQueryFormData = FormData(c, filters)
  BY <1>3, <1>4, <1>5, RenderedIs
<1>7. appliedFilters' \in FilterState /\ missed' \subseteq Charts
  BY <1>3, <1>4 DEF Missing
<1>8. ChartTypes'
  BY <1>6, <1>7 DEF ChartTypes
<1>9. ~editMode' => appliedFilters' = activeFilters'
  BY <1>2, <1>3
<1>10. ASSUME NEW c \in Charts, c \notin missed', ~charts'[c].triggerQuery
       PROVE  charts'[c].latestQueryFormData = FormData(c, appliedFilters')
  <2>1. charts[c].started \in Nat /\ states[c].started = charts[c].started
    BY <1>4, <1>5 DEF Sound, ChartState
  <2>2. CASE charts'[c] = states[c]
    <3>1. c \notin missed
      BY <1>3, <1>10, <2>1, <2>2 DEF Missing
    <3>2. /\ states[c] = charts[c]
          /\ editMode' \/ c \notin AffectedCharts(appliedFilters, filters)
      BY <1>5, <1>10, <2>2
    <3>3. charts[c].latestQueryFormData = FormData(c, appliedFilters)
      BY <1>10, <2>2, <3>1, <3>2 DEF ChartInv, QueriedAsApplied
    <3>4. FormData(c, appliedFilters) = FormData(c, appliedFilters')
      <4>1. CASE editMode'
        BY <1>3, <4>1
      <4>2. CASE ~editMode'
        BY <1>3, <1>4, <3>2, <4>2, OnlyAffectedChange
      <4> QED BY <4>1, <4>2
    <3> QED BY <2>2, <3>2, <3>3, <3>4
  <2>3. CASE charts'[c].started = states[c].started + 1
             /\ charts'[c].latestQueryFormData = FormData(c, filters)
    <3>1. charts'[c].started # charts[c].started
      BY <2>1, <2>3
    <3>2. FormData(c, appliedFilters') = FormData(c, filters)
      BY <1>3, <1>10, <3>1 DEF Missing
    <3> QED BY <2>3, <3>2
  <2> QED BY <1>6, <2>2, <2>3
<1> QED BY <1>5, <1>6, <1>8, <1>9, <1>10 DEF ChartInv, QueriedAsApplied

-------------------------------------------------------------------------------
(* Charts: the theorems *)

LEMMA ChartInitSound == ASSUME ChartInit PROVE ChartInv
<1> DEFINE fresh == [triggerQuery |-> TRUE, chartStatus |-> "loading", started |-> 0,
                     latestQueryFormData |-> NoForm, flying |-> {}, queriesResponse |-> 0,
                     annotationQuery |-> 0, annotationData |-> 0]
           states == [c \in Charts |-> fresh]
<1>1. NoForm \in Forms
  BY DEF Forms
<1>2. fresh \in ChartState
  BY <1>1 DEF ChartState
<1>3. Sound(fresh)
  BY <1>2 DEF Sound, OwnRequests, AnnotationsAhead
<1>4. \A c \in Charts : Sound(states[c]) /\ states[c] = fresh
  BY <1>3
<1>5. activeFilters \in FilterState /\ appliedFilters = activeFilters
  BY DEF ChartInit, FilterState
<1>6. charts = Rendered(states, activeFilters, visible)
  BY DEF ChartInit
<1> HIDE DEF states
<1>7. /\ DOMAIN charts = Charts
      /\ \A c \in Charts :
           /\ Sound(charts[c])
           /\ \/ charts[c] = states[c]
              \/ charts[c].latestQueryFormData = FormData(c, activeFilters)
  BY <1>4, <1>5, <1>6, RenderedIs
<1>8. ChartTypes
  <2>1. editMode = FALSE /\ visible \in Tabs /\ missed = {} /\ actions = 0
    BY DEF ChartInit
  <2>2. actions \in 0..MaxActions
    BY <2>1, ChartQueriesAssumption
  <2> QED BY <1>5, <1>7, <2>1, <2>2 DEF ChartTypes
<1>9. QueriedAsApplied
  <2>1. \A c \in Charts : states[c].triggerQuery
    BY <1>4
  <2> QED BY <1>5, <1>7, <2>1 DEF QueriedAsApplied
<1> QED BY <1>8, <1>9 DEF ChartInv

\* What a step makes of the annotations that a chart shows.
Forward(c) ==
  charts'[c].annotationData = 0 \/ charts'[c].annotationData >= charts[c].annotationData

LEMMA UpdateForward ==
  ASSUME ChartInv, Update, activeFilters' \in FilterState, editMode' \in BOOLEAN,
         visible' \in Tabs, actions' \in 0..MaxActions
  PROVE  ChartInv' /\ \A c \in Charts : Forward(c)
<1>1. ChartInv' /\ \A c \in Charts : charts'[c].annotationData = charts[c].annotationData
  BY UpdateKeeps
<1>2. \A c \in Charts : charts[c].annotationData \in Nat
  BY DEF ChartInv, ChartTypes, Sound, ChartState
<1> QED BY <1>1, <1>2 DEF Forward

\* An answer changes one chart, and neither its query nor its trigger.
LEMMA AnswerKeeps ==
  ASSUME ChartInv, NEW c \in Charts, NEW s, Sound(s),
         charts' = [charts EXCEPT ![c] = s],
         s.triggerQuery = charts[c].triggerQuery,
         s.latestQueryFormData = charts[c].latestQueryFormData,
         UNCHANGED <<activeFilters, appliedFilters, editMode, visible, missed, actions>>
  PROVE  ChartInv'
<1>1. DOMAIN charts = Charts /\ \A d \in Charts : Sound(charts[d])
  BY DEF ChartInv, ChartTypes
<1>2. DOMAIN charts' = Charts /\ \A d \in Charts : charts'[d] = IF d = c THEN s ELSE charts[d]
  BY <1>1
<1>3. ChartTypes'
  BY <1>1, <1>2 DEF ChartInv, ChartTypes
<1>4. QueriedAsApplied'
  BY <1>2 DEF ChartInv, QueriedAsApplied
<1> QED BY <1>3, <1>4 DEF ChartInv

LEMMA RefreshKeeps ==
  ASSUME ChartInv, NEW c \in Charts, refreshChart(c)
  PROVE  ChartInv' /\ \A d \in Charts : Forward(d)
<1>1. PICK s : s = exploreJSON(c, charts[c], charts[c].latestQueryFormData)
  OBVIOUS
<1>2. DOMAIN charts = Charts /\ \A d \in Charts : Sound(charts[d])
  BY DEF ChartInv, ChartTypes
<1>3. charts[c].latestQueryFormData \in Forms /\ charts[c].started \in Nat
      /\ \A d \in Charts : charts[d].annotationData \in Nat
  BY <1>2 DEF Sound, ChartState
<1>4. /\ Sound(s) /\ s.started = charts[c].started + 1
      /\ s.latestQueryFormData = charts[c].latestQueryFormData
      /\ s.annotationData = charts[c].annotationData
  BY <1>1, <1>2, <1>3, ExploreIsSound
<1>5. /\ charts' = [charts EXCEPT ![c] = s]
      /\ missed' = Missing(charts, charts', activeFilters, appliedFilters)
      /\ UNCHANGED <<activeFilters, appliedFilters, editMode, visible>>
      /\ actions < MaxActions /\ actions' = actions + 1
  BY <1>1 DEF refreshChart, Act
<1>6. DOMAIN charts' = Charts /\ \A d \in Charts : charts'[d] = IF d = c THEN s ELSE charts[d]
  BY <1>2, <1>5
<1>7. ChartTypes'
  <2>1. missed' \subseteq Charts
    BY <1>5 DEF Missing
  <2>2. actions' \in 0..MaxActions
    BY <1>5, ChartQueriesAssumption DEF ChartInv, ChartTypes
  <2> QED BY <1>2, <1>4, <1>5, <1>6, <2>1, <2>2 DEF ChartInv, ChartTypes
<1>8. QueriedAsApplied'
  <2>1. ASSUME NEW d \in Charts, d \notin missed', ~charts'[d].triggerQuery
        PROVE  charts'[d].latestQueryFormData = FormData(d, appliedFilters)
    <3>1. CASE d = c
      <4>1. charts'[d].started # charts[d].started
        BY <1>3, <1>4, <1>6, <3>1
      <4>2. /\ charts'[d].latestQueryFormData = FormData(d, activeFilters)
            /\ FormData(d, appliedFilters) = FormData(d, activeFilters)
        BY <1>5, <2>1, <4>1 DEF Missing
      <4> QED BY <4>2
    <3>2. CASE d # c
      <4>1. charts'[d] = charts[d]
        BY <1>6, <3>2
      <4>2. d \notin missed
        BY <1>5, <2>1, <4>1 DEF Missing
      <4> QED BY <2>1, <4>1, <4>2 DEF ChartInv, QueriedAsApplied
    <3> QED BY <3>1, <3>2
  <2> QED BY <1>5, <2>1 DEF ChartInv, QueriedAsApplied
<1>9. \A d \in Charts : Forward(d)
  BY <1>3, <1>4, <1>6 DEF Forward
<1> QED BY <1>7, <1>8, <1>9 DEF ChartInv

LEMMA ChartUpdatedKeeps ==
  ASSUME ChartInv, NEW c \in Charts, Answered(c)
  PROVE  ChartInv' /\ \A d \in Charts : Forward(d)
<1>1. PICK id \in charts[c].flying : ChartUpdated(c, id)
  BY DEF Answered
<1>2. PICK s : s = [charts[c] EXCEPT !.flying = @ \ {id}, !.queriesResponse = id,
                                     !.chartStatus = "updated"]
  OBVIOUS
<1>3. DOMAIN charts = Charts /\ \A d \in Charts : Sound(charts[d])
  BY DEF ChartInv, ChartTypes
<1>4. charts[c] \in ChartState /\ id \in 1..charts[c].started /\ charts[c].started \in Nat
  BY <1>1, <1>3 DEF Sound, OwnRequests, ChartState
<1>5. /\ s.flying = charts[c].flying \ {id} /\ s.queriesResponse = id
      /\ s.started = charts[c].started /\ s.triggerQuery = charts[c].triggerQuery
      /\ s.latestQueryFormData = charts[c].latestQueryFormData
      /\ s.annotationQuery = charts[c].annotationQuery
      /\ s.annotationData = charts[c].annotationData
  BY <1>2, <1>4 DEF ChartState
<1>6. s \in ChartState
  <2>1. id \in Nat /\ charts[c].flying \ {id} \in SUBSET Nat
    BY <1>4 DEF ChartState
  <2> QED BY <1>2, <1>4, <2>1 DEF ChartState
<1>7. Sound(s)
  BY <1>3, <1>4, <1>5, <1>6 DEF Sound, OwnRequests, AnnotationsAhead
<1>8. /\ charts' = [charts EXCEPT ![c] = s]
      /\ UNCHANGED <<activeFilters, appliedFilters, editMode, visible, missed, actions>>
  BY <1>1, <1>2, <1>3 DEF ChartUpdated
<1>9. ChartInv'
  BY <1>5, <1>7, <1>8, AnswerKeeps
<1>10. \A d \in Charts : charts'[d].annotationData = charts[d].annotationData
  BY <1>3, <1>5, <1>8
<1>11. \A d \in Charts : charts[d].annotationData \in Nat
  BY <1>3 DEF Sound, ChartState
<1> QED BY <1>9, <1>10, <1>11 DEF Forward

\* An answer to the request for annotations: what it shows is newer, or nothing.
LEMMA AnnotationsKeep ==
  ASSUME ChartInv, NEW c \in Charts, NEW onTop \in {0, charts[c].annotationQuery},
         charts[c].annotationQuery # 0,
         charts' = [charts EXCEPT ![c].annotationData = onTop, ![c].annotationQuery = 0],
         UNCHANGED <<activeFilters, appliedFilters, editMode, visible, missed, actions>>
  PROVE  ChartInv' /\ \A d \in Charts : Forward(d)
<1>2. PICK s : s = [charts[c] EXCEPT !.annotationData = onTop, !.annotationQuery = 0]
  OBVIOUS
<1>3. DOMAIN charts = Charts /\ \A d \in Charts : Sound(charts[d])
  BY DEF ChartInv, ChartTypes
<1>4. charts[c] \in ChartState /\ charts[c].started \in Nat /\ charts[c].annotationQuery \in Nat
      /\ charts[c].annotationQuery <= charts[c].started /\ onTop \in Nat
      /\ charts[c].annotationData <= charts[c].annotationQuery
  BY <1>3 DEF Sound, OwnRequests, ChartState, AnnotationsAhead
<1>5. /\ s.flying = charts[c].flying /\ s.queriesResponse = charts[c].queriesResponse
      /\ s.started = charts[c].started /\ s.triggerQuery = charts[c].triggerQuery
      /\ s.latestQueryFormData = charts[c].latestQueryFormData
      /\ s.annotationQuery = 0 /\ s.annotationData = onTop
  BY <1>2, <1>4 DEF ChartState
<1>6. s \in ChartState
  BY <1>2, <1>4 DEF ChartState
<1>7. Sound(s)
  BY <1>3, <1>4, <1>5, <1>6 DEF Sound, OwnRequests, AnnotationsAhead
<1>8. charts' = [charts EXCEPT ![c] = s]
  BY <1>2, <1>3
<1>9. ChartInv'
  BY <1>5, <1>7, <1>8, AnswerKeeps
<1>10. \A d \in Charts : charts[d].annotationData \in Nat
  BY <1>3 DEF Sound, ChartState
<1>11. \A d \in Charts : Forward(d)
  BY <1>3, <1>4, <1>5, <1>8, <1>10 DEF Forward
<1> QED BY <1>9, <1>11

LEMMA ChartStepKeeps ==
  ASSUME ChartInv, [ChartNext]_chartVars
  PROVE  ChartInv' /\ \A c \in Charts : Forward(c)
<1>0. /\ activeFilters \in FilterState /\ editMode \in BOOLEAN /\ visible \in Tabs
      /\ actions \in 0..MaxActions
  BY DEF ChartInv, ChartTypes
<1>1. ASSUME Act
      PROVE  actions' \in 0..MaxActions
  BY <1>0, <1>1, ChartQueriesAssumption DEF Act
<1>2. ASSUME NEW f \in Filters, NEW value \in Values \cup {NoValue}, NEW scope \in Scopes,
             changeFilter(f, value, scope)
      PROVE  ChartInv' /\ \A c \in Charts : Forward(c)
  <2>1. activeFilters' \in FilterState
    <3>1. [value |-> value, scope |-> scope] \in [value : Values \cup {NoValue}, scope : Scopes]
      OBVIOUS
    <3> QED BY <1>0, <1>2, <3>1 DEF changeFilter, FilterState
  <2> QED BY <1>0, <1>1, <1>2, <2>1, UpdateForward DEF changeFilter
<1>3. CASE toggleEditMode
  BY <1>0, <1>1, <1>3, UpdateForward DEF toggleEditMode
<1>4. ASSUME NEW onTop \in Tabs, OpenTab(onTop)
      PROVE  ChartInv' /\ \A c \in Charts : Forward(c)
  BY <1>0, <1>1, <1>4, UpdateForward DEF OpenTab
<1>5. ASSUME NEW c \in Charts, AnnotationQuerySuccess(c)
      PROVE  ChartInv' /\ \A d \in Charts : Forward(d)
  <2>1. PICK id \in AnnotationRequests(c) :
          /\ charts' = [charts EXCEPT ![c].annotationData = id, ![c].annotationQuery = 0]
          /\ UNCHANGED <<activeFilters, appliedFilters, editMode, visible, missed, actions>>
    BY <1>5 DEF AnnotationQuerySuccess
  <2>2. id = charts[c].annotationQuery /\ id # 0
    BY DEF AnnotationRequests
  <2> QED BY <2>1, <2>2, AnnotationsKeep
<1>6. ASSUME NEW c \in Charts, AnnotationQueryFailed(c)
      PROVE  ChartInv' /\ \A d \in Charts : Forward(d)
  BY <1>6, AnnotationsKeep DEF AnnotationQueryFailed, AnnotationRequests
<1>7. CASE UNCHANGED chartVars
  <2>1. ChartInv'
    BY <1>7 DEF chartVars, ChartInv, ChartTypes, QueriedAsApplied, FormData, Sound, OwnRequests,
                AnnotationsAhead
  <2>2. \A c \in Charts : charts[c].annotationData \in Nat
    BY DEF ChartInv, ChartTypes, Sound, ChartState
  <2> QED BY <1>7, <2>1, <2>2 DEF chartVars, Forward
<1> QED
  BY <1>2, <1>3, <1>4, <1>5, <1>6, <1>7, RefreshKeeps, ChartUpdatedKeeps DEF ChartNext

(***************************************************************************)
(* For any charts, filters, values, scopes and tabs the state of the page  *)
(* keeps its type: what a chart shows answers a request of its own.        *)
(***************************************************************************)
THEOREM ChartTypeCorrect == ChartSpec => []ChartTypeOK
<1>1. ChartInit => ChartInv
  BY ChartInitSound
<1>2. ChartInv /\ [ChartNext]_chartVars => ChartInv'
  BY ChartStepKeeps
<1>3. ChartInv => ChartTypeOK
  <2> SUFFICES ASSUME ChartInv, NEW c \in Charts
               PROVE  /\ charts[c].triggerQuery \in BOOLEAN
                      /\ charts[c].chartStatus \in {"loading", "updated"}
                      /\ charts[c].latestQueryFormData \in Forms
                      /\ charts[c].flying \subseteq 1..charts[c].started
                      /\ {charts[c].annotationQuery, charts[c].annotationData,
                          charts[c].queriesResponse} \subseteq 0..charts[c].started
    BY DEF ChartInv, ChartTypes, ChartTypeOK, FilterState
  <2>1. charts[c] \in ChartState /\ OwnRequests(charts[c])
    BY DEF ChartInv, ChartTypes, Sound
  <2> QED BY <2>1 DEF ChartState, OwnRequests
<1> QED BY <1>1, <1>2, <1>3, PTL DEF ChartSpec

(***************************************************************************)
(* For any charts, filters and tabs: outside of edit mode the last query   *)
(* of a chart that has none pending was made with the filters as they are  *)
(* (Dashboard.applyFilters, Chart.componentDidUpdate).                     *)
(***************************************************************************)
THEOREM FiltersAlwaysTakeEffect == ChartSpec => []FiltersTakeEffect
<1>1. ChartInit => ChartInv
  BY ChartInitSound
<1>2. ChartInv /\ [ChartNext]_chartVars => ChartInv'
  BY ChartStepKeeps
<1>3. ChartInv => FiltersTakeEffect
  BY DEF ChartInv, QueriedAsApplied, FiltersTakeEffect
<1> QED BY <1>1, <1>2, <1>3, PTL DEF ChartSpec

(***************************************************************************)
(* For any charts, and whatever order answers arrive in, the annotations   *)
(* of a chart are never replaced by those of an older request              *)
(* (runAnnotationQuery, ANNOTATION_QUERY_STARTED).                         *)
(***************************************************************************)
THEOREM AnnotationsGoForward == ChartSpec => AnnotationsNeverGoBack
<1>1. ChartInit => ChartInv
  BY ChartInitSound
<1>2. ChartInv /\ [ChartNext]_chartVars => ChartInv'
  BY ChartStepKeeps
<1>3. ChartInv /\ [ChartNext]_chartVars =>
        [\A c \in Charts : charts'[c].annotationData = 0
            \/ charts'[c].annotationData >= charts[c].annotationData]_chartVars
  BY ChartStepKeeps DEF Forward
<1> QED BY <1>1, <1>2, <1>3, PTL DEF ChartSpec, AnnotationsNeverGoBack

-------------------------------------------------------------------------------
(* Editing: pages *)

PageState ==
  [present : Contents, latest : Contents \cup {Unrecorded}, past : Seq(Contents),
   future : Seq(Contents), hasUnsavedChanges : BOOLEAN, maxUndoHistoryExceeded : BOOLEAN,
   updatedColorScheme : BOOLEAN, stateTime : 0..Seconds, infoTime : 0..Seconds,
   saved : 0..MaxLayouts, seen : Nat]

\* The history is within its limit, ends in the layout that is shown, and has been
\* noticed to be too long when it is.
HistoryFits(p) ==
  /\ Len(p.past) + Len(p.future) <= UNDO_LIMIT + 1
  /\ p.latest = Unrecorded => p.past = <<>> /\ p.future = <<>>
  /\ p.latest # Unrecorded => p.latest.layout = p.present.layout
  /\ Len(p.past) > UNDO_LIMIT => p.maxUndoHistoryExceeded

\* The layout that undoing everything leads to.
Oldest(p) == IF p.past = <<>> THEN p.present ELSE p.past[1]

\* Undoing everything leads to what was saved, unless entries were dropped; and with
\* the flag off nothing is left to undo.
LeadsBack(p) ==
  /\ ~p.maxUndoHistoryExceeded => Oldest(p).layout = p.saved
  /\ ~p.hasUnsavedChanges => p.past = <<>> /\ p.present.layout = p.saved

PageSound(p) == p \in PageState /\ HistoryFits(p)

Requests ==
  {NoRequest}
    \cup [at : {"save", "checked", "saved"}, content : Contents, time : 0..Seconds]
    \cup [at : {"put", "changed"}, title : 0..MaxLayouts]

EditingTypes ==
  /\ clock \in 1..Seconds /\ drawn \in 0..MaxLayouts /\ unsure \subseteq Editors
  /\ dash \in [content : Contents, version : Nat, changed_on : 0..Seconds]
  /\ page \in [Editors -> PageState] /\ request \in [Editors -> Requests]
  /\ \A e \in Editors : HistoryFits(page[e])

EditingInv == EditingTypes /\ \A e \in Editors \ unsure : LeadsBack(page[e])

LEMMA ContentsAre ==
  ASSUME NEW l \in 0..MaxLayouts, NEW t \in 0..MaxLayouts
  PROVE  /\ Content(l, t) \in Contents /\ Content(l, t) # Unrecorded
         /\ Content(l, t).layout = l /\ Content(l, t).title = t
BY EditingAssumption DEF Content, Contents, Unrecorded

LEMMA NotUnrecorded ==
  ASSUME NEW c \in Contents
  PROVE  c # Unrecorded /\ c.layout \in 0..MaxLayouts /\ c.title \in 0..MaxLayouts
BY EditingAssumption DEF Contents, Unrecorded

LEMMA LoadedIsSound ==
  ASSUME NEW row \in [content : Contents, version : Nat, changed_on : 0..Seconds]
  PROVE  PageSound(Loaded(row)) /\ LeadsBack(Loaded(row))
<1> DEFINE p == Loaded(row)
<1>1. /\ p.past = <<>> /\ p.future = <<>> /\ p.present = row.content /\ p.latest = row.content
      /\ p.saved = row.content.layout /\ ~p.maxUndoHistoryExceeded /\ ~p.hasUnsavedChanges
  BY DEF Loaded
<1>2. row.content \in Contents /\ row.content.layout \in 0..MaxLayouts
      /\ row.content # Unrecorded /\ NaN \in 0..Seconds
  BY NotUnrecorded, EditingAssumption DEF NaN
<1>3. p \in PageState
  <2>1. row.version \in Nat /\ <<>> \in Seq(Contents)
    OBVIOUS
  <2> QED BY <1>2, <2>1 DEF Loaded, PageState
<1>4. HistoryFits(p)
  BY <1>1, <1>2, EditingAssumption DEF HistoryFits
<1>5. LeadsBack(p)
  BY <1>1 DEF LeadsBack, Oldest
<1> QED BY <1>3, <1>4, <1>5 DEF PageSound

\* A page that is rendered: only the flag of a long history may have changed.
LEMMA RerenderedIs ==
  ASSUME NEW p \in PageState
  PROVE  LET q == Rerendered(p)
         IN  /\ q \in PageState
             /\ q.present = p.present /\ q.latest = p.latest /\ q.past = p.past
             /\ q.future = p.future /\ q.hasUnsavedChanges = p.hasUnsavedChanges
             /\ q.saved = p.saved
             /\ q.maxUndoHistoryExceeded
                  = (p.maxUndoHistoryExceeded \/ Len(p.past) > UNDO_LIMIT)
BY DEF Rerendered, PageState

\* What has a history that fits, but for the notice of its length, fits when rendered.
LEMMA RerenderedIsSound ==
  ASSUME NEW p \in PageState,
         Len(p.past) + Len(p.future) <= UNDO_LIMIT + 1,
         p.latest = Unrecorded => p.past = <<>> /\ p.future = <<>>,
         p.latest # Unrecorded => p.latest.layout = p.present.layout
  PROVE  /\ PageSound(Rerendered(p))
         /\ LeadsBack(p) => LeadsBack(Rerendered(p))
<1>1. PICK q : q = Rerendered(p)
  OBVIOUS
<1>2. /\ q \in PageState
      /\ q.present = p.present /\ q.latest = p.latest /\ q.past = p.past
      /\ q.future = p.future /\ q.hasUnsavedChanges = p.hasUnsavedChanges
      /\ q.saved = p.saved
      /\ q.maxUndoHistoryExceeded = (p.maxUndoHistoryExceeded \/ Len(p.past) > UNDO_LIMIT)
  BY <1>1, RerenderedIs
<1>3. HistoryFits(q)
  BY <1>2 DEF HistoryFits
<1>4. LeadsBack(p) => LeadsBack(q)
  BY <1>2 DEF LeadsBack, Oldest
<1> QED BY <1>1, <1>2, <1>3, <1>4 DEF PageSound

LEMMA HistoryHasLength ==
  ASSUME NEW p, PageSound(p)
  PROVE  /\ Len(p.past) \in Nat /\ Len(p.future) \in Nat /\ UNDO_LIMIT \in Nat
         /\ Len(p.past) + Len(p.future) <= UNDO_LIMIT + 1
         /\ Len(p.past) <= UNDO_LIMIT + 1
<1>1. Len(p.past) \in Nat /\ Len(p.future) \in Nat /\ UNDO_LIMIT \in Nat
  BY EditingAssumption DEF PageSound, PageState
<1>2. Len(p.past) + Len(p.future) <= UNDO_LIMIT + 1
  BY DEF PageSound, HistoryFits
<1>3. \A a, b, u \in Nat : a + b <= u + 1 => a <= u + 1
  OBVIOUS
<1> QED BY <1>1, <1>2, <1>3

\* An edit: the history drops its oldest entry only when its length was noticed before.
LEMMA EditIsSound ==
  ASSUME NEW p, PageSound(p), NEW l \in 0..MaxLayouts
  PROVE  LET q == Rerendered([insert(p, Content(l, p.present.title))
                                EXCEPT !.hasUnsavedChanges = TRUE])
         IN  /\ PageSound(q)
             /\ LeadsBack(p) /\ p.latest # Unrecorded => LeadsBack(q)
<1> DEFINE kept == IF Len(p.past) + 1 >= limit THEN Tail(p.past) ELSE p.past
           content == Content(l, p.present.title)
           past == IF p.latest = Unrecorded THEN kept ELSE Append(kept, p.latest)
           r == [insert(p, content) EXCEPT !.hasUnsavedChanges = TRUE]
<1>1. p \in PageState /\ HistoryFits(p) /\ p.past \in Seq(Contents) /\ UNDO_LIMIT \in Nat
  BY EditingAssumption DEF PageSound, PageState
<1>2. content \in Contents /\ content # Unrecorded
  <2>1. p.present.title \in 0..MaxLayouts
    BY <1>1, NotUnrecorded DEF PageState
  <2> QED BY <2>1, ContentsAre
<1>3. /\ kept \in Seq(Contents) /\ Len(kept) <= UNDO_LIMIT
      /\ Len(p.past) <= UNDO_LIMIT => kept = p.past
  <2>1. Len(p.past) \in Nat /\ Len(p.past) <= UNDO_LIMIT + 1
    BY HistoryHasLength
  <2>2. CASE Len(p.past) + 1 >= limit
    <3>1. p.past # <<>> /\ Len(p.past) = UNDO_LIMIT + 1 /\ kept = Tail(p.past)
      BY <1>1, <2>1, <2>2 DEF limit
    <3>2. Tail(p.past) \in Seq(Contents) /\ Len(Tail(p.past)) = Len(p.past) - 1
      BY <1>1, <3>1
    <3>3. \A a, u \in Nat : a = u + 1 => a - 1 <= u /\ ~(a <= u)
      OBVIOUS
    <3>4. Len(p.past) - 1 <= UNDO_LIMIT /\ ~(Len(p.past) <= UNDO_LIMIT)
      BY <1>1, <2>1, <3>1, <3>3
    <3> HIDE DEF kept
    <3> QED BY <3>1, <3>2, <3>4
  <2>3. CASE ~(Len(p.past) + 1 >= limit)
    <3>1. Len(p.past) <= UNDO_LIMIT
      BY <1>1, <2>1, <2>3 DEF limit
    <3> QED BY <1>1, <2>3, <3>1
  <2> QED BY <2>2, <2>3
<1>4. /\ past \in Seq(Contents) /\ Len(past) <= UNDO_LIMIT + 1
      /\ p.latest # Unrecorded => past = Append(kept, p.latest) /\ past # <<>>
  <2>1. CASE p.latest = Unrecorded
    BY <1>1, <1>3, <2>1
  <2>2. CASE p.latest # Unrecorded
    <3>1. p.latest \in Contents
      BY <1>1, <2>2 DEF PageState
    <3>2. past = Append(kept, p.latest)
      BY <2>2
    <3> QED BY <1>1, <1>3, <2>2, <3>1, <3>2
  <2> QED BY <2>1, <2>2
<1>5. /\ r.past = past /\ r.future = <<>> /\ r.present = content /\ r.latest = content
      /\ r.hasUnsavedChanges /\ r.saved = p.saved
      /\ r.maxUndoHistoryExceeded = p.maxUndoHistoryExceeded
  BY <1>1 DEF insert, PageState
<1>6. r \in PageState
  <2>1. <<>> \in Seq(Contents)
    OBVIOUS
  <2>2. insert(p, content) = [p EXCEPT !.past = past, !.present = content,
                                       !.latest = content, !.future = <<>>]
    BY DEF insert
  <2> HIDE DEF past, content
  <2> QED BY <1>1, <1>2, <1>4, <2>1, <2>2 DEF PageState
<1>7. PageSound(Rerendered(r)) /\ (LeadsBack(r) => LeadsBack(Rerendered(r)))
  <2>1. Len(r.past) + Len(r.future) <= UNDO_LIMIT + 1
    <3>1. Len(r.future) = 0
      BY <1>5
    <3>2. Len(past) \in Nat /\ Len(past) <= UNDO_LIMIT + 1
      BY <1>4
    <3> HIDE DEF past, r
    <3> QED BY <1>1, <1>5, <3>1, <3>2
  <2> QED BY <1>2, <1>5, <1>6, <2>1, RerenderedIsSound
<1>8. ASSUME LeadsBack(p), p.latest # Unrecorded
      PROVE  LeadsBack(r)
  <2>1. ASSUME ~p.maxUndoHistoryExceeded
        PROVE  past[1].layout = p.saved
    <3>1. Len(p.past) <= UNDO_LIMIT
      <4>1. Len(p.past) \in Nat
        BY <1>1
      <4> QED BY <1>1, <2>1, <4>1 DEF HistoryFits
    <3>2. kept = p.past /\ past = Append(p.past, p.latest) /\ p.latest \in Contents
      BY <1>1, <1>3, <1>4, <1>8, <3>1 DEF PageState
    <3>3. CASE p.past = <<>>
      <4>1. past[1] = p.latest
        BY <3>2, <3>3
      <4>2. p.present.layout = p.saved /\ p.latest.layout = p.present.layout
        BY <1>1, <1>8, <2>1, <3>3 DEF LeadsBack, Oldest, HistoryFits
      <4> QED BY <4>1, <4>2
    <3>4. CASE p.past # <<>>
      <4>1. past[1] = p.past[1]
        BY <1>1, <3>2, <3>4
      <4> QED BY <1>8, <2>1, <3>4, <4>1 DEF LeadsBack, Oldest
    <3> QED BY <3>3, <3>4
  <2> HIDE DEF past
  <2> QED BY <1>4, <1>5, <1>8, <2>1 DEF LeadsBack, Oldest
<1> QED BY <1>7, <1>8

\* What undo makes of a page with a history (undoLayoutAction).
Undone(p) ==
  [p EXCEPT !.past = SubSeq(@, 1, Len(p.past) - 1), !.future = <<p.latest>> \o @,
            !.present = p.past[Len(p.past)], !.latest = p.past[Len(p.past)]]
Forgets(p, back) == back.past = <<>> /\ ~p.maxUndoHistoryExceeded /\ ~p.updatedColorScheme
AfterUndo(p) ==
  Rerendered([Undone(p) EXCEPT !.hasUnsavedChanges = @ /\ ~Forgets(p, Undone(p))])

\* Undo: with a history it does not mislead the flag.
LEMMA UndoIsSound ==
  ASSUME NEW p, PageSound(p), p.past # <<>>
  PROVE  PageSound(AfterUndo(p)) /\ (LeadsBack(p) => LeadsBack(AfterUndo(p)))
<1>0. PICK back : back = Undone(p)
  OBVIOUS
<1> DEFINE n == Len(p.past)
           forget == Forgets(p, back)
           r == [back EXCEPT !.hasUnsavedChanges = @ /\ ~forget]
<1>1. p \in PageState /\ HistoryFits(p) /\ p.past \in Seq(Contents)
      /\ p.future \in Seq(Contents) /\ UNDO_LIMIT \in Nat
  BY EditingAssumption DEF PageSound, PageState
<1>2. n \in Nat \ {0} /\ p.past[n] \in Contents /\ p.past[n] # Unrecorded
      /\ p.latest \in Contents
  <2>1. n \in Nat \ {0} /\ p.past[n] \in Contents
    BY <1>1
  <2> QED BY <1>1, <2>1, NotUnrecorded DEF PageState, HistoryFits
<1>3. PICK past : past = SubSeq(p.past, 1, n - 1)
  OBVIOUS
<1>4. PICK future : future = <<p.latest>> \o p.future
  OBVIOUS
<1>5. past \in Seq(Contents) /\ Len(past) = n - 1 /\ \A i \in 1..(n - 1) : past[i] = p.past[i]
  BY <1>1, <1>2, <1>3
<1>6. future \in Seq(Contents) /\ Len(future) = Len(p.future) + 1
  BY <1>1, <1>2, <1>4
<1>7. back = [p EXCEPT !.past = past, !.future = future,
                       !.present = p.past[n], !.latest = p.past[n]]
  BY <1>0, <1>1, <1>3, <1>4 DEF PageState, Undone
<1>8. /\ back.past = past /\ back.future = future /\ back.present = p.past[n]
      /\ back.latest = p.past[n] /\ back.saved = p.saved
      /\ back.hasUnsavedChanges = p.hasUnsavedChanges
      /\ back.maxUndoHistoryExceeded = p.maxUndoHistoryExceeded
  BY <1>1, <1>7 DEF PageState
<1>9. back \in PageState
  BY <1>1, <1>2, <1>5, <1>6, <1>7 DEF PageState
<1>10. /\ r \in PageState
       /\ r.past = past /\ r.future = future /\ r.present = p.past[n] /\ r.latest = p.past[n]
       /\ r.saved = p.saved /\ r.maxUndoHistoryExceeded = p.maxUndoHistoryExceeded
       /\ r.hasUnsavedChanges = (p.hasUnsavedChanges /\ ~forget)
  BY <1>8, <1>9 DEF PageState
<1>11. PageSound(Rerendered(r)) /\ (LeadsBack(r) => LeadsBack(Rerendered(r)))
  <2>1. Len(r.past) + Len(r.future) <= UNDO_LIMIT + 1
    <3>1. \A a, b, u \in Nat : a + b <= u + 1 => (a - 1) + (b + 1) <= u + 1
      OBVIOUS
    <3>2. n + Len(p.future) <= UNDO_LIMIT + 1 /\ Len(p.future) \in Nat
      BY HistoryHasLength
    <3>3. (n - 1) + (Len(p.future) + 1) <= UNDO_LIMIT + 1
      BY <1>1, <1>2, <3>1, <3>2
    <3> QED BY <1>5, <1>6, <1>10, <3>3
  <2> QED BY <1>2, <1>10, <2>1, RerenderedIsSound
<1>12. ASSUME LeadsBack(p)
       PROVE  LeadsBack(r)
  <2>1. p.hasUnsavedChanges
    BY <1>12 DEF LeadsBack
  <2>2. ASSUME ~p.maxUndoHistoryExceeded
        PROVE  Oldest(r).layout = p.saved
    <3>1. p.past[1].layout = p.saved
      BY <1>12, <2>2 DEF LeadsBack, Oldest
    <3>2. CASE past = <<>>
      <4>1. n = 1
        BY <1>2, <1>5, <3>2
      <4> QED BY <1>10, <3>1, <3>2, <4>1 DEF Oldest
    <3>3. CASE past # <<>>
      <4>0. \A s \in Seq(Contents) : s # <<>> => Len(s) # 0 /\ Len(s) \in Nat
        OBVIOUS
      <4>1. Len(past) # 0 /\ Len(past) \in Nat
        BY <1>5, <3>3, <4>0
      <4>2. \A m \in Nat \ {0} : m - 1 # 0 => 1 \in 1..(m - 1)
        OBVIOUS
      <4>3. 1 \in 1..(n - 1)
        BY <1>2, <1>5, <4>1, <4>2
      <4> QED BY <1>5, <1>10, <3>1, <3>3, <4>3 DEF Oldest
    <3> QED BY <3>2, <3>3
  <2>3. ASSUME ~r.hasUnsavedChanges
        PROVE  r.past = <<>> /\ r.present.layout = r.saved
    <3>1. forget
      BY <1>10, <2>1, <2>3
    <3>2. r.past = <<>> /\ ~p.maxUndoHistoryExceeded
      BY <1>8, <1>10, <3>1 DEF Forgets
    <3> QED BY <1>10, <2>2, <3>2 DEF Oldest
  <2> QED BY <1>10, <2>2, <2>3 DEF LeadsBack
<1>13. AfterUndo(p) = Rerendered(r)
  BY <1>0 DEF AfterUndo
<1> QED BY <1>11, <1>12, <1>13

LEMMA RedoIsSound ==
  ASSUME NEW p, PageSound(p), p.future # <<>>
  PROVE  LET again == [p EXCEPT !.past = Append(@, p.latest),
                                !.present = Head(p.future), !.latest = Head(p.future),
                                !.future = Tail(@)]
             q == Rerendered([again EXCEPT !.hasUnsavedChanges = TRUE])
         IN  PageSound(q) /\ (LeadsBack(p) => LeadsBack(q))
<1> DEFINE again == [p EXCEPT !.past = Append(@, p.latest),
                              !.present = Head(p.future), !.latest = Head(p.future),
                              !.future = Tail(@)]
           r == [again EXCEPT !.hasUnsavedChanges = TRUE]
<1>1. p \in PageState /\ HistoryFits(p) /\ p.past \in Seq(Contents)
      /\ p.future \in Seq(Contents) /\ UNDO_LIMIT \in Nat
  BY EditingAssumption DEF PageSound, PageState
<1>2. p.latest \in Contents /\ p.latest.layout = p.present.layout
  BY <1>1 DEF PageState, HistoryFits
<1>3. PICK past : past = Append(p.past, p.latest)
  OBVIOUS
<1>4. PICK future : future = Tail(p.future)
  OBVIOUS
<1>5. PICK next : next = Head(p.future)
  OBVIOUS
<1>6. /\ past \in Seq(Contents) /\ Len(past) = Len(p.past) + 1 /\ past # <<>>
      /\ past[1] = IF p.past = <<>> THEN p.latest ELSE p.past[1]
  BY <1>1, <1>2, <1>3
<1>7. future \in Seq(Contents) /\ Len(future) = Len(p.future) - 1
  BY <1>1, <1>4
<1>8. next \in Contents /\ next # Unrecorded
  <2>1. next \in Contents
    BY <1>1, <1>5
  <2> QED BY <2>1, NotUnrecorded
<1>9. r = [p EXCEPT !.past = past, !.future = future, !.present = next, !.latest = next,
                    !.hasUnsavedChanges = TRUE]
  BY <1>1, <1>3, <1>4, <1>5 DEF PageState
<1> HIDE DEF again, r
<1>10. /\ r.past = past /\ r.future = future /\ r.present = next /\ r.latest = next
       /\ r.saved = p.saved /\ r.maxUndoHistoryExceeded = p.maxUndoHistoryExceeded
       /\ r.hasUnsavedChanges
  BY <1>1, <1>9 DEF PageState
<1>11. r \in PageState
  BY <1>1, <1>6, <1>7, <1>8, <1>9 DEF PageState
<1>12. PageSound(Rerendered(r)) /\ (LeadsBack(r) => LeadsBack(Rerendered(r)))
  <2>1. Len(r.past) + Len(r.future) <= UNDO_LIMIT + 1
    <3>1. \A a, b, u \in Nat : a + b <= u + 1 => (a + 1) + (b - 1) <= u + 1
      OBVIOUS
    <3>2. (Len(p.past) + 1) + (Len(p.future) - 1) <= UNDO_LIMIT + 1
      BY <3>1, HistoryHasLength
    <3> QED BY <1>6, <1>7, <1>10, <3>2
  <2> QED BY <1>8, <1>10, <1>11, <2>1, RerenderedIsSound
<1>13. LeadsBack(p) => LeadsBack(r)
  BY <1>2, <1>6, <1>10 DEF LeadsBack, Oldest
<1> QED BY <1>12, <1>13 DEF again, r

\* A step of one page, with its request.
LEMMA PageStep ==
  ASSUME EditingInv, NEW e \in Editors, NEW q, PageSound(q),
         page' = [page EXCEPT ![e] = q],
         NEW s \in Requests, request' = [request EXCEPT ![e] = s],
         clock' \in 1..Seconds, drawn' \in 0..MaxLayouts, unsure' \subseteq Editors,
         dash' \in [content : Contents, version : Nat, changed_on : 0..Seconds],
         unsure \subseteq unsure' \cup {e},
         e \notin unsure' => LeadsBack(q)
  PROVE  EditingInv'
<1>1. /\ page \in [Editors -> PageState] /\ request \in [Editors -> Requests]
      /\ \A d \in Editors : HistoryFits(page[d])
  BY DEF EditingInv, EditingTypes
<1>2. q \in PageState /\ HistoryFits(q)
  BY DEF PageSound
<1>3. /\ page' \in [Editors -> PageState] /\ request' \in [Editors -> Requests]
      /\ \A d \in Editors : page'[d] = IF d = e THEN q ELSE page[d]
  BY <1>1, <1>2
<1>4. EditingTypes'
  <2>1. \A d \in Editors : HistoryFits(page'[d])
    BY <1>1, <1>2, <1>3
  <2> QED BY <1>3, <2>1 DEF EditingInv, EditingTypes
<1>5. \A d \in Editors \ unsure' : LeadsBack(page'[d])
  BY <1>3 DEF EditingInv
<1> QED BY <1>4, <1>5 DEF EditingInv

LEMMA SamePage ==
  ASSUME EditingInv, NEW e \in Editors
  PROVE  /\ page = [page EXCEPT ![e] = page[e]]
         /\ request = [request EXCEPT ![e] = request[e]]
         /\ PageSound(page[e]) /\ page[e] \in PageState /\ request[e] \in Requests
         /\ dash \in [content : Contents, version : Nat, changed_on : 0..Seconds]
         /\ clock \in 1..Seconds /\ drawn \in 0..MaxLayouts /\ unsure \subseteq Editors
         /\ (e \notin unsure => LeadsBack(page[e]))
BY DEF EditingInv, EditingTypes, PageSound

LEMMA FlagChange ==
  ASSUME NEW p, PageSound(p), NEW b \in BOOLEAN
  PROVE  /\ PageSound(Rerendered([p EXCEPT !.hasUnsavedChanges = b]))
         /\ b /\ LeadsBack(p) => LeadsBack(Rerendered([p EXCEPT !.hasUnsavedChanges = b]))
<1> DEFINE r == [p EXCEPT !.hasUnsavedChanges = b]
<1>1. p \in PageState /\ HistoryFits(p)
  BY DEF PageSound
<1>2. /\ r \in PageState /\ r.past = p.past /\ r.future = p.future /\ r.present = p.present
      /\ r.latest = p.latest /\ r.saved = p.saved /\ r.hasUnsavedChanges = b
      /\ r.maxUndoHistoryExceeded = p.maxUndoHistoryExceeded
  BY <1>1 DEF PageState
<1>3. PageSound(Rerendered(r)) /\ (LeadsBack(r) => LeadsBack(Rerendered(r)))
  BY <1>1, <1>2, HistoryHasLength, RerenderedIsSound DEF HistoryFits
<1>4. b /\ LeadsBack(p) => LeadsBack(r)
  BY <1>2 DEF LeadsBack, Oldest
<1> QED BY <1>3, <1>4

LEMMA EditKeeps ==
  ASSUME EditingInv, NEW e \in Editors, EditLayout(e)
  PROVE  EditingInv'
<1>1. PICK l : l = drawn'
  OBVIOUS
<1>2. PICK q : q = Rerendered([insert(page[e], Content(l, page[e].present.title))
                                  EXCEPT !.hasUnsavedChanges = TRUE])
  OBVIOUS
<1>3. l \in 0..MaxLayouts
  BY <1>1, SamePage, EditingAssumption DEF EditLayout
<1>4. /\ page' = [page EXCEPT ![e] = q]
      /\ unsure' = IF page[e].latest = Unrecorded THEN unsure \cup {e} ELSE unsure
      /\ request' = request /\ dash' = dash /\ clock' = clock
  BY <1>1, <1>2 DEF EditLayout, Becomes, BecomesUnsure
<1>5. PageSound(q) /\ (LeadsBack(page[e]) /\ page[e].latest # Unrecorded => LeadsBack(q))
  BY <1>2, <1>3, SamePage, EditIsSound
<1> QED BY <1>1, <1>3, <1>4, <1>5, SamePage, PageStep

LEMMA UndoKeeps ==
  ASSUME EditingInv, NEW e \in Editors, undoLayoutAction(e)
  PROVE  EditingInv'
<1>1. PICK p : p = page[e]
  OBVIOUS
<1> DEFINE n == Len(p.past)
           back == IF n = 0 THEN p
                   ELSE [p EXCEPT !.past = SubSeq(@, 1, n - 1),
                                  !.future = <<p.latest>> \o @,
                                  !.present = p.past[n], !.latest = p.past[n]]
           forget == back.past = <<>> /\ ~p.maxUndoHistoryExceeded /\ ~p.updatedColorScheme
           q == Rerendered([back EXCEPT !.hasUnsavedChanges = @ /\ ~forget])
<1>2. /\ page' = [page EXCEPT ![e] = q]
      /\ unsure' = IF n = 0 THEN unsure \cup {e} ELSE unsure
      /\ request' = request /\ dash' = dash /\ clock' = clock /\ drawn' = drawn
  BY <1>1 DEF undoLayoutAction, Becomes, BecomesUnsure
<1>3. /\ PageSound(p) /\ p \in PageState /\ p.past \in Seq(Contents)
      /\ p.hasUnsavedChanges \in BOOLEAN /\ p.maxUndoHistoryExceeded \in BOOLEAN
      /\ p.updatedColorScheme \in BOOLEAN
      /\ e \notin unsure => LeadsBack(p)
  BY <1>1, SamePage DEF PageState
<1>4. PageSound(q) /\ (n # 0 /\ LeadsBack(p) => LeadsBack(q))
  <2>1. CASE n = 0
    <3>1. back = p
      BY <2>1
    <3>2. PICK b : b = (p.hasUnsavedChanges /\ ~forget)
      OBVIOUS
    <3>3. b \in BOOLEAN
      BY <1>3, <3>2
    <3>4. q = Rerendered([p EXCEPT !.hasUnsavedChanges = b])
      BY <1>3, <3>1, <3>2 DEF PageState
    <3> HIDE DEF q, forget, back
    <3> QED BY <1>3, <2>1, <3>3, <3>4, FlagChange
  <2>2. CASE n # 0
    <3>1. q = AfterUndo(p)
      BY <2>2 DEF AfterUndo, Undone, Forgets
    <3>2. p.past # <<>>
      BY <1>3, <2>2
    <3> HIDE DEF q, forget, back
    <3> QED BY <1>3, <3>1, <3>2, UndoIsSound
  <2> QED BY <2>1, <2>2
<1> HIDE DEF q, forget, back
<1>5. PICK c : c = q
  OBVIOUS
<1>6. page' = [page EXCEPT ![e] = c] /\ PageSound(c)
  BY <1>2, <1>4, <1>5
<1>7. e \notin unsure' => LeadsBack(c)
  BY <1>2, <1>3, <1>4, <1>5
<1>8. unsure' \subseteq Editors /\ unsure \subseteq unsure' \cup {e}
  BY <1>2, SamePage
<1> HIDE DEF n
<1> QED BY <1>2, <1>6, <1>7, <1>8, SamePage, PageStep

LEMMA RedoKeeps ==
  ASSUME EditingInv, NEW e \in Editors, redoLayoutAction(e)
  PROVE  EditingInv'
<1>1. PICK p : p = page[e]
  OBVIOUS
<1> DEFINE again == IF p.future = <<>> THEN p
                    ELSE [p EXCEPT !.past = Append(@, p.latest),
                                   !.present = Head(p.future), !.latest = Head(p.future),
                                   !.future = Tail(@)]
<1>2. PICK q : q = Rerendered([again EXCEPT !.hasUnsavedChanges = TRUE])
  OBVIOUS
<1>3. /\ page' = [page EXCEPT ![e] = q]
      /\ request' = request /\ dash' = dash /\ clock' = clock /\ drawn' = drawn
      /\ unsure' = unsure
  BY <1>1, <1>2 DEF redoLayoutAction, Becomes
<1>4. PageSound(p) /\ (e \notin unsure => LeadsBack(p))
  BY <1>1, SamePage
<1>5. PageSound(q) /\ (LeadsBack(p) => LeadsBack(q))
  <2>1. CASE p.future = <<>>
    <3>1. q = Rerendered([p EXCEPT !.hasUnsavedChanges = TRUE])
      BY <1>2, <2>1
    <3> QED BY <1>4, <3>1, FlagChange
  <2>2. CASE p.future # <<>>
    <3>1. again = [p EXCEPT !.past = Append(@, p.latest),
                            !.present = Head(p.future), !.latest = Head(p.future),
                            !.future = Tail(@)]
      BY <2>2
    <3> QED BY <1>2, <1>4, <2>2, <3>1, RedoIsSound
  <2> QED BY <2>1, <2>2
<1> HIDE DEF again
<1> QED BY <1>1, <1>3, <1>4, <1>5, SamePage, PageStep

LEMMA FlagStepsKeep ==
  ASSUME EditingInv, NEW e \in Editors,
         onChange(e) \/ \E b \in BOOLEAN : setRefreshFrequency(e, b)
  PROVE  EditingInv'
<1>1. CASE onChange(e)
  <2>1. PICK q : q = Rerendered([page[e] EXCEPT !.hasUnsavedChanges = TRUE])
    OBVIOUS
  <2>2. PageSound(q) /\ (LeadsBack(page[e]) => LeadsBack(q))
    BY <2>1, SamePage, FlagChange
  <2> QED BY <1>1, <2>1, <2>2, SamePage, PageStep DEF onChange, Becomes
<1>2. ASSUME NEW b \in BOOLEAN, setRefreshFrequency(e, b)
      PROVE  EditingInv'
  <2>1. PICK q : q = Rerendered([page[e] EXCEPT !.hasUnsavedChanges = b])
    OBVIOUS
  <2>2. PageSound(q) /\ (b /\ LeadsBack(page[e]) => LeadsBack(q))
    BY <2>1, SamePage, FlagChange
  <2>3. /\ page' = [page EXCEPT ![e] = q]
        /\ unsure' = IF ~b THEN unsure \cup {e} ELSE unsure
        /\ UNCHANGED <<request, dash, clock, drawn>>
    BY <1>2, <2>1 DEF setRefreshFrequency, Becomes, BecomesUnsure
  <2> QED BY <2>2, <2>3, SamePage, PageStep
<1> QED BY <1>1, <1>2

LEMMA DiscardKeeps ==
  ASSUME EditingInv, NEW e \in Editors, discardChanges(e)
  PROVE  EditingInv'
<1>1. PICK q : q = Loaded(dash)
  OBVIOUS
<1>2. PageSound(q) /\ LeadsBack(q)
  BY <1>1, SamePage, LoadedIsSound
<1> QED BY <1>1, <1>2, SamePage, PageStep DEF discardChanges

\* The answer to a save: the page is where the save left, or it is unsure.
LEMMA SaveAnswerKeeps ==
  ASSUME EditingInv, NEW e \in Editors, saveDashboardRequestSuccess(e)
  PROVE  EditingInv'
<1>1. PICK p : p = page[e]
  OBVIOUS
<1>2. PICK r : r = request[e]
  OBVIOUS
<1>3. p \in PageState /\ r \in Requests /\ r.at = "saved"
  BY <1>1, <1>2, SamePage DEF saveDashboardRequestSuccess
<1>4. r.content \in Contents /\ r.time \in 0..Seconds /\ r.content.layout \in 0..MaxLayouts
  <2>1. r \in [at : {"save", "checked", "saved"}, content : Contents, time : 0..Seconds]
    BY <1>3 DEF Requests, NoRequest
  <2> QED BY <2>1, NotUnrecorded
<1>5. PICK latest \in {p.present, Unrecorded} :
        page' = [page EXCEPT ![e] = Rerendered([p EXCEPT !.hasUnsavedChanges = FALSE,
                                  !.maxUndoHistoryExceeded = FALSE,
                                  !.updatedColorScheme = FALSE,
                                  !.stateTime = r.time,
                                  !.saved = r.content.layout,
                                  !.past = <<>>, !.future = <<>>, !.latest = latest])]
  BY <1>1, <1>2 DEF saveDashboardRequestSuccess, Becomes
<1>6. PICK s : s = [p EXCEPT !.hasUnsavedChanges = FALSE,
                             !.maxUndoHistoryExceeded = FALSE,
                             !.updatedColorScheme = FALSE,
                             !.stateTime = r.time,
                             !.saved = r.content.layout,
                             !.past = <<>>, !.future = <<>>, !.latest = latest]
  OBVIOUS
<1>7. latest \in Contents \cup {Unrecorded} /\ <<>> \in Seq(Contents)
  BY <1>3 DEF PageState
<1>8. s \in PageState
  BY <1>3, <1>4, <1>6, <1>7 DEF PageState
<1>9. /\ s.past = <<>> /\ s.future = <<>> /\ s.latest = latest /\ s.present = p.present
      /\ s.saved = r.content.layout /\ ~s.maxUndoHistoryExceeded
  BY <1>3, <1>6 DEF PageState
<1>10. Len(s.past) + Len(s.future) <= UNDO_LIMIT + 1
  <2>1. Len(s.past) = 0 /\ Len(s.future) = 0
    BY <1>9
  <2> QED BY <2>1, EditingAssumption
<1>11. PICK q : q = Rerendered(s)
  OBVIOUS
<1>12. PageSound(q) /\ (LeadsBack(s) => LeadsBack(q))
  BY <1>8, <1>9, <1>10, <1>11, RerenderedIsSound
<1>13. p.present.layout = r.content.layout => LeadsBack(s)
  BY <1>9 DEF LeadsBack, Oldest
<1>14. /\ page' = [page EXCEPT ![e] = q]
       /\ request' = [request EXCEPT ![e] = NoRequest]
       /\ unsure' = IF p.present.layout # r.content.layout
                    THEN unsure \cup {e} ELSE unsure \ {e}
       /\ UNCHANGED <<dash, clock, drawn>>
  BY <1>1, <1>2, <1>5, <1>6, <1>11 DEF saveDashboardRequestSuccess
<1>15. NoRequest \in Requests
  BY DEF Requests
<1>16. unsure' \subseteq Editors /\ unsure \subseteq unsure' \cup {e}
       /\ (e \notin unsure' => LeadsBack(q))
  BY <1>12, <1>13, <1>14, SamePage
<1> QED BY <1>12, <1>14, <1>15, <1>16, SamePage, PageStep

\* The page does not change while a request leaves.
LEMMA RequestsKeep ==
  ASSUME EditingInv, NEW e \in Editors, saveDashboardRequest(e) \/ submitProperties(e)
  PROVE  EditingInv'
<1>1. page[e] \in PageState
  BY SamePage
<1>2. CASE saveDashboardRequest(e)
  <2>1. PICK s : s = [at |-> "save", content |-> page[e].present,
                      time |-> lastModifiedTime(page[e])]
    OBVIOUS
  <2>2. lastModifiedTime(page[e]) \in 0..Seconds /\ page[e].present \in Contents
    BY <1>1, EditingAssumption DEF lastModifiedTime, PageState, NaN
  <2>3. s \in Requests
    BY <2>1, <2>2 DEF Requests
  <2> QED BY <1>2, <2>1, <2>3, SamePage, PageStep DEF saveDashboardRequest
<1>3. CASE submitProperties(e)
  <2>1. PICK s : s = [at |-> "put", title |-> drawn']
    OBVIOUS
  <2>2. drawn' \in 0..MaxLayouts
    BY <1>3, SamePage, EditingAssumption DEF submitProperties
  <2>3. s \in Requests
    BY <2>1, <2>2 DEF Requests
  <2> QED BY <1>3, <2>1, <2>2, <2>3, SamePage, PageStep DEF submitProperties
<1> QED BY <1>2, <1>3

\* The title changes outside of the history, and with the flag on.
LEMMA SubmitKeeps ==
  ASSUME EditingInv, NEW e \in Editors, onSubmit(e)
  PROVE  EditingInv'
<1>1. PICK p : p = page[e]
  OBVIOUS
<1>2. PICK title : title = request[e].title
  OBVIOUS
<1>3. p \in PageState /\ HistoryFits(p) /\ PageSound(p) /\ (e \notin unsure => LeadsBack(p))
  BY <1>1, SamePage DEF PageSound
<1>4. title \in 0..MaxLayouts
  <2>1. request[e] \in [at : {"put", "changed"}, title : 0..MaxLayouts]
    BY SamePage DEF onSubmit, Requests, NoRequest
  <2> QED BY <1>2, <2>1
<1>5. PICK content : content = [p.present EXCEPT !.title = title]
  OBVIOUS
<1>6. content \in Contents /\ content.layout = p.present.layout
  BY <1>3, <1>4, <1>5 DEF PageState, Contents
<1>7. PICK s : s = [p EXCEPT !.infoTime = clock, !.updatedColorScheme = TRUE,
                             !.hasUnsavedChanges = TRUE, !.present = content]
  OBVIOUS
<1>8. s = [p EXCEPT !.infoTime = clock, !.updatedColorScheme = TRUE,
                    !.hasUnsavedChanges = TRUE, !.present.title = title]
  BY <1>3, <1>5, <1>7 DEF PageState
<1>9. /\ s \in PageState /\ s.past = p.past /\ s.future = p.future /\ s.latest = p.latest
      /\ s.present = content /\ s.saved = p.saved /\ s.hasUnsavedChanges
      /\ s.maxUndoHistoryExceeded = p.maxUndoHistoryExceeded
  <2>1. clock \in 0..Seconds
    BY SamePage, EditingAssumption
  <2> QED BY <1>3, <1>6, <1>7, <2>1 DEF PageState
<1>10. PICK q : q = Rerendered(s)
  OBVIOUS
<1>11. PageSound(q) /\ (LeadsBack(s) => LeadsBack(q))
  BY <1>3, <1>6, <1>9, <1>10, HistoryHasLength, RerenderedIsSound DEF HistoryFits
<1>12. LeadsBack(p) => LeadsBack(s)
  BY <1>6, <1>9 DEF LeadsBack, Oldest
<1>13. /\ page' = [page EXCEPT ![e] = q]
       /\ request' = [request EXCEPT ![e] = NoRequest]
       /\ UNCHANGED <<dash, clock, drawn, unsure>>
  BY <1>1, <1>2, <1>8, <1>10 DEF onSubmit, Becomes
<1>14. NoRequest \in Requests
  BY DEF Requests
<1> QED BY <1>3, <1>11, <1>12, <1>13, <1>14, SamePage, PageStep

\* The version that a page has seen says nothing of its history.
LEMMA SeenIsSound ==
  ASSUME NEW p, PageSound(p), NEW v \in Nat
  PROVE  /\ PageSound([p EXCEPT !.seen = v])
         /\ LeadsBack(p) => LeadsBack([p EXCEPT !.seen = v])
<1> DEFINE q == [p EXCEPT !.seen = v]
<1>1. p \in PageState /\ HistoryFits(p)
  BY DEF PageSound
<1>2. /\ q \in PageState /\ q.past = p.past /\ q.future = p.future /\ q.latest = p.latest
      /\ q.present = p.present /\ q.saved = p.saved
      /\ q.hasUnsavedChanges = p.hasUnsavedChanges
      /\ q.maxUndoHistoryExceeded = p.maxUndoHistoryExceeded
  BY <1>1 DEF PageState
<1> QED BY <1>1, <1>2 DEF PageSound, HistoryFits, LeadsBack, Oldest

LEMMA WrittenIs ==
  ASSUME EditingInv, NEW c \in Contents
  PROVE  /\ Written(c) \in [content : Contents, version : Nat, changed_on : 0..Seconds]
         /\ Written(c).version \in Nat /\ Written(c).changed_on \in 0..Seconds
<1>1. /\ dash \in [content : Contents, version : Nat, changed_on : 0..Seconds]
      /\ clock \in 0..Seconds
  BY EditingAssumption DEF EditingInv, EditingTypes
<1> QED BY <1>1 DEF Written

LEMMA ServerKeeps ==
  ASSUME EditingInv, NEW e \in Editors,
         save_dash_check(e) \/ save_dash_commit(e) \/ UpdateDashboardCommand(e)
  PROVE  EditingInv'
<1>1. PICK r : r = request[e]
  OBVIOUS
<1>2. PICK p : p = page[e]
  OBVIOUS
<1>3. r \in Requests /\ PageSound(p) /\ p \in PageState
  BY <1>1, <1>2, SamePage
<1>4. CASE save_dash_check(e)
  <2>1. r \in [at : {"save", "checked", "saved"}, content : Contents, time : 0..Seconds]
    BY <1>1, <1>3, <1>4 DEF save_dash_check, Requests, NoRequest
  <2>2. PICK s : s = IF r.time # NaN /\ r.time < dash.changed_on
                     THEN NoRequest ELSE [r EXCEPT !.at = "checked"]
    OBVIOUS
  <2>3. [r EXCEPT !.at = "checked"]
          \in [at : {"save", "checked", "saved"}, content : Contents, time : 0..Seconds]
    BY <2>1
  <2>4. s \in Requests
    BY <2>2, <2>3 DEF Requests
  <2>5. request' = [request EXCEPT ![e] = s]
    BY <1>1, <1>4, <2>2, SamePage DEF save_dash_check
  <2>6. page' = page /\ UNCHANGED <<dash, clock, drawn, unsure>>
    BY <1>4 DEF save_dash_check
  <2> QED BY <2>4, <2>5, <2>6, SamePage, PageStep
<1>5. CASE save_dash_commit(e)
  <2>1. r \in [at : {"save", "checked", "saved"}, content : Contents, time : 0..Seconds]
    BY <1>1, <1>3, <1>5 DEF save_dash_commit, Requests, NoRequest
  <2>2. PICK d : d = dash'
    OBVIOUS
  <2>3. /\ d \in [content : Contents, version : Nat, changed_on : 0..Seconds]
        /\ d.version \in Nat /\ d.changed_on \in 0..Seconds
    BY <1>1, <1>5, <2>1, <2>2, WrittenIs DEF save_dash_commit
  <2>4. PICK s : s = [r EXCEPT !.at = "saved", !.time = d.changed_on]
    OBVIOUS
  <2>5. s \in [at : {"save", "checked", "saved"}, content : Contents, time : 0..Seconds]
    BY <2>1, <2>3, <2>4
  <2>6. s \in Requests
    BY <2>5 DEF Requests
  <2>7. request' = [request EXCEPT ![e] = s]
    BY <1>1, <1>5, <2>2, <2>4, SamePage DEF save_dash_commit
  <2>8. PICK q : q = [p EXCEPT !.seen = d.version]
    OBVIOUS
  <2>9. PageSound(q) /\ (LeadsBack(p) => LeadsBack(q))
    BY <1>3, <2>3, <2>8, SeenIsSound
  <2>10. page' = [page EXCEPT ![e] = q]
    BY <1>2, <1>5, <2>2, <2>8, SamePage DEF save_dash_commit
  <2>11. UNCHANGED <<clock, drawn, unsure>>
    BY <1>5 DEF save_dash_commit
  <2> QED BY <1>2, <2>2, <2>3, <2>6, <2>7, <2>9, <2>10, <2>11, SamePage, PageStep
<1>6. CASE UpdateDashboardCommand(e)
  <2>1. r \in [at : {"put", "changed"}, title : 0..MaxLayouts]
    BY <1>1, <1>3, <1>6 DEF UpdateDashboardCommand, Requests, NoRequest
  <2>2. PICK d : d = dash'
    OBVIOUS
  <2>3. [dash.content EXCEPT !.title = r.title] \in Contents
    BY <2>1, SamePage DEF Contents
  <2>4. /\ d \in [content : Contents, version : Nat, changed_on : 0..Seconds]
        /\ d.version \in Nat /\ d.changed_on \in 0..Seconds
    BY <1>1, <1>6, <2>2, <2>3, WrittenIs DEF UpdateDashboardCommand
  <2>5. PICK s : s = [r EXCEPT !.at = "changed"]
    OBVIOUS
  <2>6. s \in [at : {"put", "changed"}, title : 0..MaxLayouts]
    BY <2>1, <2>5
  <2>7. s \in Requests
    BY <2>6 DEF Requests
  <2>8. request' = [request EXCEPT ![e] = s]
    BY <1>1, <1>6, <2>5, SamePage DEF UpdateDashboardCommand
  <2>9. PICK v : v = IF p.seen = dash.version THEN d.version ELSE p.seen
    OBVIOUS
  <2>10. PICK q : q = [p EXCEPT !.seen = v]
    OBVIOUS
  <2>11. v \in Nat
    BY <1>3, <2>4, <2>9 DEF PageState
  <2>12. PageSound(q) /\ (LeadsBack(p) => LeadsBack(q))
    BY <1>3, <2>10, <2>11, SeenIsSound
  <2>13. page' = [page EXCEPT ![e] = q]
    <3>1. page' = [page EXCEPT ![e].seen = IF @ = dash.version THEN d.version ELSE @]
      BY <1>6, <2>2 DEF UpdateDashboardCommand
    <3>2. page \in [Editors -> PageState]
      BY DEF EditingInv, EditingTypes
    <3>3. [page EXCEPT ![e].seen = IF @ = dash.version THEN d.version ELSE @]
            = [page EXCEPT ![e] = [p EXCEPT !.seen = IF @ = dash.version THEN d.version ELSE @]]
      BY <1>2, <3>2
    <3>4. [p EXCEPT !.seen = IF @ = dash.version THEN d.version ELSE @] = q
      BY <1>3, <2>9, <2>10 DEF PageState
    <3> QED BY <3>1, <3>3, <3>4
  <2>14. UNCHANGED <<clock, drawn, unsure>>
    BY <1>6 DEF UpdateDashboardCommand
  <2> QED BY <1>2, <2>2, <2>4, <2>7, <2>8, <2>12, <2>13, <2>14, SamePage, PageStep
<1> QED BY <1>4, <1>5, <1>6

LEMMA EditingStepKeeps ==
  ASSUME EditingInv, [EditingNext]_editingVars
  PROVE  EditingInv'
<1>1. CASE Second
  <2>1. clock' \in 1..Seconds
    BY <1>1, EditingAssumption DEF Second, EditingInv, EditingTypes
  <2> QED BY <1>1, <2>1 DEF Second, EditingInv, EditingTypes
<1>2. CASE UNCHANGED editingVars
  BY <1>2 DEF editingVars, EditingInv, EditingTypes
<1> QED
  BY <1>1, <1>2, EditKeeps, UndoKeeps, RedoKeeps, FlagStepsKeep, DiscardKeeps,
     SaveAnswerKeeps, RequestsKeep, SubmitKeeps, ServerKeeps DEF EditingNext

LEMMA EditingInitSound == ASSUME EditingInit PROVE EditingInv
<1>1. dash \in [content : Contents, version : Nat, changed_on : 0..Seconds]
  <2>1. Content(0, 0) \in Contents /\ 0 \in 0..Seconds
    BY ContentsAre, EditingAssumption
  <2> QED BY <2>1 DEF EditingInit
<1>2. PageSound(Loaded(dash)) /\ LeadsBack(Loaded(dash))
  BY <1>1, LoadedIsSound
<1>3. \A e \in Editors : page[e] = Loaded(dash)
  BY DEF EditingInit
<1>4. page \in [Editors -> PageState]
  BY <1>2 DEF EditingInit, PageSound
<1>5. NoRequest \in Requests
  BY DEF Requests
<1>6. request \in [Editors -> Requests]
  BY <1>5 DEF EditingInit
<1>7. clock \in 1..Seconds /\ drawn \in 0..MaxLayouts /\ unsure \subseteq Editors
  BY EditingAssumption DEF EditingInit
<1> QED BY <1>1, <1>2, <1>3, <1>4, <1>6, <1>7 DEF EditingInv, EditingTypes, PageSound

(***************************************************************************)
(* For any pages that edit a dashboard, any undo limit and any number of   *)
(* edits the state keeps its type: a history has at most one entry more    *)
(* than the limit, the one by which the header notices it (undo.js).       *)
(***************************************************************************)
THEOREM EditingTypeCorrect == EditingSpec => []EditingTypeOK
<1>1. EditingInit => EditingInv
  BY EditingInitSound
<1>2. EditingInv /\ [EditingNext]_editingVars => EditingInv'
  BY EditingStepKeeps
<1>3. EditingInv => EditingTypeOK
  <2> SUFFICES ASSUME EditingInv PROVE EditingTypeOK
    OBVIOUS
  <2>1. ASSUME NEW e \in Editors
        PROVE  /\ page[e].present \in Contents
               /\ page[e].latest \in Contents \cup {Unrecorded}
               /\ Len(page[e].past) <= UNDO_LIMIT + 1
               /\ {page[e].stateTime, page[e].infoTime} \subseteq 0..Seconds
               /\ request[e].at \in {"none", "save", "checked", "saved", "put", "changed"}
    <3>1. page[e] \in PageState /\ request[e] \in Requests /\ PageSound(page[e])
      BY SamePage
    <3>2. request[e].at \in {"none", "save", "checked", "saved", "put", "changed"}
      BY <3>1 DEF Requests, NoRequest
    <3>3. Len(page[e].past) <= UNDO_LIMIT + 1
      BY <3>1, HistoryHasLength
    <3> QED BY <3>1, <3>2, <3>3 DEF PageState
  <2> QED BY <2>1 DEF EditingInv, EditingTypes, EditingTypeOK
<1> QED BY <1>1, <1>2, <1>3, PTL DEF EditingSpec

(***************************************************************************)
(* For any pages, any undo limit and any edits: while the flag of unsaved  *)
(* changes is off, the layout is the one that was loaded or last saved,    *)
(* but on pages of which the flag is known to be unreliable                *)
(* (setUnsavedChangesAfterAction, undoLayoutAction).                       *)
(***************************************************************************)
THEOREM FlagAlwaysTells == EditingSpec => []FlagTellsOfChanges
<1>1. EditingInit => EditingInv
  BY EditingInitSound
<1>2. EditingInv /\ [EditingNext]_editingVars => EditingInv'
  BY EditingStepKeeps
<1>3. EditingInv => FlagTellsOfChanges
  BY DEF EditingInv, LeadsBack, FlagTellsOfChanges
<1> QED BY <1>1, <1>2, <1>3, PTL DEF EditingSpec

-------------------------------------------------------------------------------
(* Events: ids and their order *)

Pairs == {NoId} \cup (Nat \X Nat)

LEMMA PairIs ==
  ASSUME NEW a \in Pairs
  PROVE  a[1] \in Int /\ a[2] \in Int /\ a = <<a[1], a[2]>>
         /\ (a # NoId => a[1] \in Nat /\ a[2] \in Nat)
BY DEF Pairs, NoId

\* The order of ids is total.
LEMMA Order ==
  ASSUME NEW a \in Pairs, NEW b \in Pairs, NEW c \in Pairs
  PROVE  /\ NotAfter(a, a) /\ ~Before(a, a)
         /\ Before(a, b) => NotAfter(a, b) /\ a # b /\ ~NotAfter(b, a)
         /\ ~NotAfter(b, a) => Before(a, b)
         /\ NotAfter(a, b) /\ NotAfter(b, a) => a = b
         /\ NotAfter(a, b) /\ NotAfter(b, c) => NotAfter(a, c)
         /\ NotAfter(NoId, a)
<1>1. PICK a1, a2, b1, b2, c1, c2 \in Int :
        a = <<a1, a2>> /\ b = <<b1, b2>> /\ c = <<c1, c2>>
  BY PairIs
<1>2. NotAfter(NoId, a)
  BY PairIs DEF NotAfter, Before, NoId
<1> QED BY <1>1, <1>2 DEF NotAfter, Before

\* Events are sorted by their ids: what is sorted has the events up to its last one.
IdsDiffer(events) ==
  /\ \A e \in events : e.id \in Pairs
  /\ \A d, e \in events : d.id = e.id => d = e

LEMMA InOrderSorts ==
  ASSUME NEW events, IsFiniteSet(events), IdsDiffer(events)
  PROVE  /\ InOrder(events) \in Seq(events)
         /\ Len(InOrder(events)) = Cardinality(events)
         /\ \A i \in 1..Cardinality(events) :
              /\ InOrder(events)[i] \in events
              /\ Cardinality({d \in events : NotAfter(d.id, InOrder(events)[i].id)}) = i
         /\ \A e \in events : \E i \in 1..Cardinality(events) : InOrder(events)[i] = e
<1> DEFINE UpTo(e) == {d \in events : NotAfter(d.id, e.id)}
           place == [e \in events |-> Cardinality(UpTo(e))]
           n == Cardinality(events)
<1>1. n \in Nat
  BY FS_CardinalityType
<1>2. ASSUME NEW e \in events
      PROVE  IsFiniteSet(UpTo(e)) /\ Cardinality(UpTo(e)) \in 1..n
  <2>1. UpTo(e) \in SUBSET events /\ e \in UpTo(e)
    BY Order DEF IdsDiffer
  <2> HIDE DEF UpTo
  <2>2. IsFiniteSet(UpTo(e)) /\ Cardinality(UpTo(e)) <= n /\ Cardinality(UpTo(e)) \in Nat
    BY <2>1, FS_Subset, FS_CardinalityType
  <2>3. Cardinality(UpTo(e)) # 0
    BY <2>1, <2>2, FS_EmptySet
  <2> QED BY <1>1, <2>2, <2>3
<1>3. ASSUME NEW d \in events, NEW e \in events, Before(d.id, e.id)
      PROVE  Cardinality(UpTo(d)) # Cardinality(UpTo(e))
  <2>1. UpTo(d) \in SUBSET UpTo(e)
    BY <1>3, Order DEF IdsDiffer
  <2>2. e \in UpTo(e) /\ e \notin UpTo(d)
    BY <1>3, Order DEF IdsDiffer
  <2> HIDE DEF UpTo
  <2> QED BY <1>2, <2>1, <2>2, FS_Subset
<1>4. \A d, e \in events : Cardinality(UpTo(d)) = Cardinality(UpTo(e)) => d = e
  <2> SUFFICES ASSUME NEW d \in events, NEW e \in events,
                      Cardinality(UpTo(d)) = Cardinality(UpTo(e)), d # e
               PROVE  FALSE
    OBVIOUS
  <2>1. d.id \in Pairs /\ e.id \in Pairs /\ d.id # e.id
    BY DEF IdsDiffer
  <2>2. Before(d.id, e.id) \/ Before(e.id, d.id)
    BY <2>1, Order
  <2> HIDE DEF UpTo
  <2> QED BY <1>3, <2>2
<1>5. place \in Injection(events, 1..n)
  <2>1. place \in [events -> 1..n]
    <3> HIDE DEF UpTo
    <3> QED BY <1>2
  <2>2. ASSUME NEW d \in events, NEW e \in events, place[d] = place[e] PROVE d = e
    <3> HIDE DEF UpTo
    <3> QED BY <1>4, <2>2
  <2> HIDE DEF place
  <2>3. DOMAIN place = events
    BY <2>1
  <2> QED BY <2>1, <2>2, <2>3 DEF Injection, IsInjective
<1>6. place \in Surjection(events, 1..n)
  <2>1. IsFiniteSet(1..n) /\ Cardinality(1..n) = n
    BY <1>1, FS_Interval
  <2> HIDE DEF place
  <2> QED BY <1>5, <2>1, FS_Injection
<1>7. ASSUME NEW k \in 1..n PROVE \E e \in events : Cardinality(UpTo(e)) = k
  BY <1>6 DEF Surjection
<1>8. InOrder(events) = [k \in 1..n |-> CHOOSE e \in events : Cardinality(UpTo(e)) = k]
  BY DEF InOrder
<1> HIDE DEF UpTo, n
<1>9. ASSUME NEW k \in 1..n
      PROVE  InOrder(events)[k] \in events /\ Cardinality(UpTo(InOrder(events)[k])) = k
  BY <1>7, <1>8
<1>10. InOrder(events) \in Seq(events) /\ Len(InOrder(events)) = n
  <2>1. InOrder(events) \in [1..n -> events]
    BY <1>8, <1>9
  <2> QED BY <1>1, <2>1
<1>11. ASSUME NEW e \in events
       PROVE  \E i \in 1..n : InOrder(events)[i] = e
  <2>1. PICK i : i = Cardinality(UpTo(e))
    OBVIOUS
  <2>2. i \in 1..n
    BY <1>2, <2>1
  <2>3. InOrder(events)[i] = e
    BY <1>4, <1>9, <2>1, <2>2
  <2> QED BY <2>2, <2>3
<1> QED BY <1>9, <1>10, <1>11 DEF UpTo, n

\* The first n events are those up to the last of them.
LEMMA FirstAreEarliest ==
  ASSUME NEW events, IsFiniteSet(events), IdsDiffer(events), NEW n \in Nat \ {0},
         NEW first, first = FirstOf(n, InOrder(events))
  PROVE  /\ first \in Seq(events) /\ ToSet(first) \subseteq events
         /\ first # <<>> =>
              /\ Last(first) \in ToSet(first)
              /\ \A e \in events : e \in ToSet(first) <=> NotAfter(e.id, Last(first).id)
<1>1. PICK seq : seq = InOrder(events)
  OBVIOUS
<1>2. PICK size : size = Cardinality(events)
  OBVIOUS
<1>3. /\ seq \in Seq(events) /\ Len(seq) = size
      /\ \A i \in 1..size :
           /\ seq[i] \in events
           /\ Cardinality({d \in events : NotAfter(d.id, seq[i].id)}) = i
      /\ \A e \in events : \E i \in 1..size : seq[i] = e
  BY <1>1, <1>2, InOrderSorts
<1>4. size \in Nat
  BY <1>2, FS_CardinalityType
<1>5. PICK m : m = IF n < size THEN n ELSE size
  OBVIOUS
<1>6. m \in 0..size /\ first = SubSeq(seq, 1, m)
  BY <1>1, <1>3, <1>4, <1>5 DEF FirstOf
<1>7. first \in Seq(events) /\ Len(first) = m /\ \A i \in 1..m : first[i] = seq[i]
  BY <1>3, <1>4, <1>6
<1>8. ToSet(first) = {seq[i] : i \in 1..m}
  <2>1. DOMAIN first = 1..m
    BY <1>4, <1>6, <1>7
  <2> QED BY <1>7, <2>1 DEF ToSet
<1>9. ToSet(first) \subseteq events
  BY <1>3, <1>4, <1>6, <1>8
<1>10. ASSUME first # <<>>
       PROVE  /\ Last(first) \in ToSet(first)
              /\ \A e \in events : e \in ToSet(first) <=> NotAfter(e.id, Last(first).id)
  <2>1. m \in 1..size /\ Last(first) = seq[m]
    <3>1. m # 0
      BY <1>7, <1>10
    <3>2. m \in 1..m
      BY <1>4, <1>6, <3>1
    <3> QED BY <1>4, <1>6, <1>7, <3>1, <3>2 DEF Last
  <2>2. Last(first) \in ToSet(first)
    BY <1>4, <1>8, <2>1
  <2>3. ASSUME NEW i \in 1..size, NEW k \in 1..size
        PROVE  NotAfter(seq[i].id, seq[k].id) <=> i <= k
    <3> DEFINE UpTo(j) == {d \in events : NotAfter(d.id, seq[j].id)}
    <3>1. /\ seq[i] \in events /\ seq[k] \in events
          /\ Cardinality(UpTo(i)) = i /\ Cardinality(UpTo(k)) = k
      BY <1>3
    <3>2. \A d \in events : d.id \in Pairs
      BY DEF IdsDiffer
    <3>3. IsFiniteSet(UpTo(i)) /\ IsFiniteSet(UpTo(k))
      BY FS_Subset
    <3>4. CASE NotAfter(seq[i].id, seq[k].id)
      <4>1. UpTo(i) \in SUBSET UpTo(k)
        BY <3>1, <3>2, <3>4, Order
      <4> HIDE DEF UpTo
      <4> QED BY <3>1, <3>3, <3>4, <4>1, FS_Subset
    <3>5. CASE ~NotAfter(seq[i].id, seq[k].id)
      <4>1. UpTo(k) \in SUBSET UpTo(i) /\ seq[i] \in UpTo(i) /\ seq[i] \notin UpTo(k)
        BY <3>1, <3>2, <3>5, Order
      <4> HIDE DEF UpTo
      <4>2. k <= i /\ k # i
        BY <3>1, <3>3, <4>1, FS_Subset
      <4> QED BY <1>4, <3>5, <4>2
    <3> QED BY <3>4, <3>5
  <2>4. ASSUME NEW e \in events
        PROVE  e \in ToSet(first) <=> NotAfter(e.id, Last(first).id)
    <3>1. PICK i \in 1..size : seq[i] = e
      BY <1>3
    <3>2. NotAfter(e.id, Last(first).id) <=> i <= m
      BY <2>1, <2>3, <3>1
    <3>3. i <= m => e \in ToSet(first)
      BY <1>4, <1>8, <2>1, <3>1
    <3>4. ASSUME e \in ToSet(first) PROVE i <= m
      <4>1. PICK k \in 1..m : e = seq[k]
        BY <1>8, <3>4
      <4>2. k \in 1..size /\ NotAfter(seq[k].id, seq[m].id)
        BY <1>4, <2>1, <2>3, <4>1
      <4> QED BY <2>1, <3>2, <4>1, <4>2
    <3> QED BY <3>2, <3>3, <3>4
  <2> QED BY <2>2, <2>4
<1> QED BY <1>7, <1>9, <1>10

\* Ids whose sequence number increment_id handles.
Early == {NoId} \cup (Nat \X (0..19))

Posts == {j \in Jobs : channel[j] = NoId}

\* The stream of the channel: ids grow, and few enough jobs are still to post.
StreamGrows ==
  /\ now \in Nat /\ DOMAIN worker = Jobs /\ DOMAIN tops = {"channel", "full"}
  /\ tops["channel"] \in Nat \X (0..19)
  /\ channel \in [Jobs -> Early]
  /\ \A j \in Jobs : worker[j] = "computing" => channel[j] = NoId
  /\ \A j \in Jobs : NotAfter(channel[j], tops["channel"])
  /\ \A j, k \in Jobs : channel[j] = channel[k] /\ channel[j] # NoId => j = k
  /\ tops["channel"][2] + Cardinality(Posts) <= 19

\* An id up to which the tab has processed everything.
Fine(id) ==
  /\ id \in Early /\ NotAfter(id, tops["channel"])
  /\ \A e \in Entries(channel) : NotAfter(e.id, id) => e.job \in seen

\* The answer to a poll leaves out nothing that precedes its last event and was
\* not processed before.
Told(events) ==
  events # <<>> =>
    /\ Last(events) \in ToSet(events)
    /\ Last(events).id \in Early /\ NotAfter(Last(events).id, tops["channel"])
    /\ \A e \in ToSet(events) : e.id \in Early /\ NotAfter(e.id, Last(events).id)
    /\ \A e \in Entries(channel) :
         NotAfter(e.id, Last(events).id) =>
           e.job \in seen \/ \E d \in ToSet(events) : d.job = e.job

AsksFromWhatItSaw ==
  /\ Fine(lastReceivedEventId)
  /\ \A e \in BagToSet(timers) : Fine(e.id)
  /\ poll.at \in {"none", "sent", "answered"}
  /\ poll.at = "sent" => Fine(poll.last_id)
  /\ poll.at = "answered" => Told(poll.events)

SocketsAtRest == socket = "off" /\ wire = <<>> /\ ranges = {} /\ xread = NoId

PollInv == transport = "polling" => StreamGrows /\ AsksFromWhatItSaw /\ SocketsAtRest

\* increment_id answers the least id after its argument, of those that are used.
LEMMA IncrementIsNext ==
  ASSUME NEW a \in Early \ {NoId}, NEW b \in Early \ {NoId}
  PROVE  NotAfter(increment_id(a), b) <=> Before(a, b)
<1>0. ASSUME NEW id \in Early \ {NoId}
      PROVE  \E m \in Nat, n \in 0..19 : id = <<m, n>>
  <2>1. id \in Nat \X (0..19)
    BY DEF Early
  <2>2. id = <<id[1], id[2]>> /\ id[1] \in Nat /\ id[2] \in 0..19
    BY <2>1
  <2> QED BY <2>2
<1>a. PICK a1 \in Nat, a2 \in 0..19 : a = <<a1, a2>>
  BY <1>0
<1>b. PICK b1 \in Nat, b2 \in 0..19 : b = <<b1, b2>>
  BY <1>0
<1>1. a = <<a1, a2>> /\ b = <<b1, b2>>
  BY <1>a, <1>b
<1>2. PICK c : c = IF a2 % 10 < 9 THEN a2 + 1 ELSE (a2 \div 10) * 100 + 10
  OBVIOUS
<1>3. c = a2 + 1 \/ (a2 = 19 /\ c = 110)
  BY <1>2
<1>4. increment_id(a) = <<a1, c>>
  BY <1>1, <1>2 DEF increment_id
<1> QED BY <1>1, <1>3, <1>4 DEF NotAfter, Before

LEMMA EarlyArePairs == Early \subseteq Pairs
BY DEF Early, Pairs

LEMMA EntriesDiffer ==
  ASSUME IsFiniteSet(Jobs), StreamGrows
  PROVE  /\ IsFiniteSet(Entries(channel)) /\ IdsDiffer(Entries(channel))
         /\ \A e \in Entries(channel) :
              /\ e.job \in Jobs /\ e.id = channel[e.job] /\ e.id \in Early \ {NoId}
              /\ NotAfter(e.id, tops["channel"])
<1>1. \A e \in Entries(channel) :
        /\ e.job \in Jobs /\ e.id = channel[e.job] /\ e.id \in Early \ {NoId}
        /\ NotAfter(e.id, tops["channel"]) /\ e = Event(e.job, channel[e.job])
  BY DEF StreamGrows, Entries, Event
<1>2. \A d, e \in Entries(channel) : d.id = e.id => d = e
  BY <1>1 DEF StreamGrows
<1>3. IdsDiffer(Entries(channel))
  BY <1>1, <1>2, EarlyArePairs DEF IdsDiffer
<1>4. IsFiniteSet(Entries(channel))
  <2> DEFINE f == [e \in Entries(channel) |-> e.job]
  <2>1. f \in [Entries(channel) -> Jobs]
    BY <1>1
  <2>2. \A d, e \in Entries(channel) : f[d] = f[e] => d = e
    BY <1>1
  <2>3. DOMAIN f = Entries(channel)
    OBVIOUS
  <2> HIDE DEF f
  <2>4. f \in Injection(Entries(channel), Jobs)
    BY <2>1, <2>2, <2>3 DEF Injection, IsInjective
  <2> QED BY <2>4, FS_Injection
<1> QED BY <1>1, <1>3, <1>4

\* What the server reads for a tab that has processed everything up to an id.
LEMMA ReadsTheNext ==
  ASSUME IsFiniteSet(Jobs), MaxEventCount \in Nat \ {0}, StreamGrows,
         NEW id, Fine(id)
  PROVE  Told(read_events(id))
<1>1. PICK events : events = {e \in Entries(channel) : Before(id, e.id)}
  OBVIOUS
<1>2. PICK first : first = read_events(id)
  OBVIOUS
<1>3. first = FirstOf(MaxEventCount, InOrder(events))
  <2>1. ASSUME NEW e \in Entries(channel)
        PROVE  NotAfter(IF id = NoId THEN NoId ELSE increment_id(id), e.id)
                 <=> Before(id, e.id)
    <3>1. e.id \in Early \ {NoId} /\ id \in Early
      BY EntriesDiffer DEF Fine
    <3>2. CASE id # NoId
      BY <3>1, <3>2, IncrementIsNext
    <3>3. CASE id = NoId
      <4>1. e.id \in Pairs \ {NoId}
        BY <3>1, EarlyArePairs
      <4>2. NotAfter(NoId, e.id)
        BY <4>1, Order
      <4> QED BY <3>3, <4>1, <4>2 DEF NotAfter
    <3> QED BY <3>2, <3>3
  <2>2. {e \in Entries(channel) :
           NotAfter(IF id = NoId THEN NoId ELSE increment_id(id), e.id)} = events
    BY <1>1, <2>1
  <2> QED BY <1>2, <2>2 DEF read_events
<1>4. IsFiniteSet(events) /\ IdsDiffer(events) /\ events \subseteq Entries(channel)
  <2>1. events \in SUBSET Entries(channel)
    BY <1>1
  <2> QED BY <2>1, EntriesDiffer, FS_Subset DEF IdsDiffer
<1>5. /\ ToSet(first) \subseteq events
      /\ first # <<>> =>
           /\ Last(first) \in ToSet(first)
           /\ \A e \in events : e \in ToSet(first) <=> NotAfter(e.id, Last(first).id)
  BY <1>3, <1>4, FirstAreEarliest
<1>6. SUFFICES ASSUME first # <<>> PROVE Told(first)
  BY <1>2 DEF Told
<1>7. Last(first) \in ToSet(first) /\ Last(first) \in Entries(channel)
  BY <1>4, <1>5, <1>6
<1>8. Last(first).id \in Early /\ NotAfter(Last(first).id, tops["channel"])
  BY <1>7, EntriesDiffer
<1>9. \A e \in ToSet(first) : e.id \in Early /\ NotAfter(e.id, Last(first).id)
  BY <1>4, <1>5, <1>6, EntriesDiffer
<1>10. ASSUME NEW e \in Entries(channel), NotAfter(e.id, Last(first).id)
       PROVE  e.job \in seen \/ \E d \in ToSet(first) : d.job = e.job
  <2>1. CASE Before(id, e.id)
    BY <1>1, <1>5, <1>6, <1>10, <2>1
  <2>2. CASE ~Before(id, e.id)
    <3>1. e.id \in Pairs /\ id \in Pairs
      BY EntriesDiffer, EarlyArePairs DEF Fine
    <3>2. NotAfter(e.id, id)
      BY <2>2, <3>1, Order
    <3> QED BY <3>2 DEF Fine
  <2> QED BY <2>1, <2>2
<1> QED BY <1>6, <1>7, <1>8, <1>9, <1>10 DEF Told

\* XADD gives an id after the last one.
LEMMA NextIsAfter ==
  ASSUME IsFiniteSet(Jobs), StreamGrows, NEW j \in Posts
  PROVE  /\ NextId(tops["channel"]) \in Nat \X (0..19)
         /\ Before(tops["channel"], NextId(tops["channel"]))
         /\ NextId(tops["channel"])[2] + Cardinality(Posts \ {j}) <= 19
<1>1. PICK a \in Nat, b \in 0..19 : tops["channel"] = <<a, b>>
  BY DEF StreamGrows
<1>2. IsFiniteSet(Posts) /\ Cardinality(Posts) \in Nat
  <2>1. Posts \in SUBSET Jobs
    BY DEF Posts
  <2> QED BY <2>1, FS_Subset, FS_CardinalityType
<1>3. Cardinality(Posts \ {j}) = Cardinality(Posts) - 1
  BY <1>2, FS_RemoveElement
<1>4. Cardinality(Posts \ {j}) \in Nat
  BY <1>2, FS_RemoveElement, FS_CardinalityType
<1>5. b + Cardinality(Posts) <= 19
  BY <1>1 DEF StreamGrows
<1>6. NextId(tops["channel"]) = IF a < now THEN <<now, 0>> ELSE <<a, b + 1>>
  BY <1>1 DEF NextId
<1>7. b + 1 \in 0..19 /\ b + 1 + Cardinality(Posts \ {j}) <= 19
      /\ 0 + Cardinality(Posts \ {j}) <= 19
  BY <1>2, <1>3, <1>4, <1>5
<1>8. now \in Nat
  BY DEF StreamGrows
<1> QED BY <1>1, <1>6, <1>7, <1>8 DEF Before

\* A post leaves every id at which it was not as fine as it was.
LEMMA PostKeeps ==
  ASSUME IsFiniteSet(Jobs), StreamGrows, AsksFromWhatItSaw,
         NEW j \in Jobs, update_job(j)
  PROVE  StreamGrows' /\ AsksFromWhatItSaw'
<1>1. j \in Posts /\ channel[j] = NoId
  BY DEF update_job, StreamGrows, Posts
<1>2. PICK new : new = NextId(tops["channel"])
  OBVIOUS
<1>3. /\ new \in Nat \X (0..19) /\ Before(tops["channel"], new)
      /\ new[2] + Cardinality(Posts \ {j}) <= 19
  BY <1>1, <1>2, NextIsAfter
<1>4. new \in Early \ {NoId} /\ new \in Pairs /\ tops["channel"] \in Pairs
      /\ tops["channel"] \in Early
  BY <1>3 DEF Early, Pairs, NoId, StreamGrows
<1>5. /\ channel' = [channel EXCEPT ![j] = new] /\ tops'["channel"] = new
      /\ DOMAIN tops' = {"channel", "full"} /\ seen' = seen
  BY <1>2 DEF update_job, StreamGrows, client
<1>6. \A k \in Jobs : channel'[k] = IF k = j THEN new ELSE channel[k]
  BY <1>5 DEF StreamGrows
<1>7. ASSUME NEW id \in Early, NotAfter(id, tops["channel"])
      PROVE  /\ NotAfter(id, tops'["channel"]) /\ id # new
             /\ \A e \in Entries(channel)' : NotAfter(e.id, id) => e \in Entries(channel)
  <2>1. id \in Pairs
    BY <1>7, EarlyArePairs
  <2>2. NotAfter(id, new) /\ ~NotAfter(new, id)
    BY <1>3, <1>4, <1>7, <2>1, Order
  <2>3. ASSUME NEW e \in Entries(channel)', NotAfter(e.id, id)
        PROVE  e \in Entries(channel)
    <3>1. PICK k \in Jobs : channel'[k] # NoId /\ e = Event(k, channel'[k])
      BY DEF Entries
    <3>2. k # j
      BY <1>6, <2>2, <2>3, <3>1 DEF Event
    <3> QED BY <1>6, <3>1, <3>2 DEF Entries
  <2>4. id # new
    BY <1>4, <2>1, <2>2, Order
  <2> QED BY <1>5, <2>2, <2>3, <2>4
<1>8. StreamGrows'
  <2>1. /\ now' \in Nat /\ DOMAIN worker' = Jobs /\ DOMAIN tops' = {"channel", "full"}
        /\ tops'["channel"] \in Nat \X (0..19) /\ channel' \in [Jobs -> Early]
    BY <1>3, <1>4, <1>5 DEF update_job, StreamGrows
  <2>2. \A k \in Jobs : worker'[k] = "computing" => channel'[k] = NoId
    BY <1>6 DEF update_job, StreamGrows
  <2>3. \A k \in Jobs : NotAfter(channel'[k], tops'["channel"])
    BY <1>4, <1>5, <1>6, <1>7 DEF StreamGrows, NotAfter
  <2>4. \A k \in Jobs : k # j => channel'[k] # new
    BY <1>6, <1>7 DEF StreamGrows
  <2>5. \A k, l \in Jobs : channel'[k] = channel'[l] /\ channel'[k] # NoId => k = l
    BY <1>6, <2>4 DEF StreamGrows
  <2>6. Posts' = Posts \ {j}
    BY <1>4, <1>6 DEF Posts
  <2>7. tops'["channel"][2] + Cardinality(Posts') <= 19
    BY <1>3, <1>5, <2>6
  <2>8. (Cardinality(Posts))' = Cardinality(Posts')
    OBVIOUS
  <2> QED BY <2>1, <2>2, <2>3, <2>5, <2>7 DEF StreamGrows
<1>9. ASSUME NEW id, Fine(id)
      PROVE  /\ id \in Early /\ NotAfter(id, tops'["channel"])
             /\ \A e \in Entries(channel)' : NotAfter(e.id, id) => e.job \in seen'
  BY <1>5, <1>7, <1>9 DEF Fine
<1>10. /\ lastReceivedEventId' = lastReceivedEventId /\ timers' = timers /\ poll' = poll
  BY DEF update_job, client
<1>11. ASSUME NEW events, Told(events)
       PROVE  Told(events)'
  <2>1. SUFFICES ASSUME events # <<>> PROVE Told(events)'
    BY DEF Told
  <2> QED BY <1>5, <1>7, <1>11, <2>1 DEF Told
<1>12. ASSUME NEW id, Fine(id) PROVE Fine(id)'
  BY <1>9, <1>12 DEF Fine
<1>13. Fine(lastReceivedEventId)'
  BY <1>10, <1>9 DEF Fine, AsksFromWhatItSaw
<1>14. \A e \in BagToSet(timers') : Fine(e.id)'
  BY <1>10, <1>12 DEF AsksFromWhatItSaw
<1>15. poll.at = "sent" => Fine(poll.last_id)'
  BY <1>9, <1>10 DEF Fine, AsksFromWhatItSaw
<1>16. poll.at = "answered" => Told(poll.events)'
  BY <1>10, <1>11 DEF AsksFromWhatItSaw, Told
<1> QED BY <1>8, <1>10, <1>13, <1>14, <1>15, <1>16 DEF AsksFromWhatItSaw, BagToSet

\* processEvents on an answer that leaves nothing out.
LEMMA ProcessKeeps ==
  ASSUME StreamGrows, Fine(lastReceivedEventId), \A e \in BagToSet(timers) : Fine(e.id),
         NEW events, Told(events), events = <<>> => ToSet(events) = {},
         NEW due, BagToSet(due) \subseteq BagToSet(timers),
         processEvents(events, due), UNCHANGED redis
  PROVE  /\ Fine(lastReceivedEventId)'
         /\ \A e \in BagToSet(timers') : Fine(e.id)'
<1>1. channel' = channel /\ tops' = tops /\ Entries(channel)' = Entries(channel)
  BY DEF redis, Entries
<1>2. seen' = seen \cup {e.job : e \in ToSet(events)}
  BY DEF processEvents
<1>3. ASSUME NEW id, Fine(id) PROVE Fine(id)'
  BY <1>1, <1>2, <1>3 DEF Fine
<1>4. ASSUME events # <<>>, NEW e \in ToSet(events)
      PROVE  Fine(e.id)'
  <2>1. /\ Last(events).id \in Early /\ e.id \in Early
        /\ NotAfter(Last(events).id, tops["channel"]) /\ NotAfter(e.id, Last(events).id)
        /\ \A d \in Entries(channel) :
             NotAfter(d.id, Last(events).id) => d.job \in seen'
    BY <1>2, <1>4 DEF Told
  <2>2. /\ Last(events).id \in Pairs /\ e.id \in Pairs /\ tops["channel"] \in Pairs
        /\ \A d \in Entries(channel) : d.id \in Pairs
    BY <2>1, EarlyArePairs DEF StreamGrows, Pairs, Entries, Event
  <2>3. NotAfter(e.id, tops["channel"])
    BY <2>1, <2>2, Order
  <2>4. \A d \in Entries(channel) : NotAfter(d.id, e.id) => d.job \in seen'
    BY <2>1, <2>2, Order
  <2> QED BY <1>1, <2>1, <2>3, <2>4 DEF Fine
<1>5. Fine(lastReceivedEventId)'
  <2>1. CASE events = <<>>
    <3>1. lastReceivedEventId' = lastReceivedEventId
      BY <2>1 DEF processEvents
    <3> QED BY <1>1, <1>2, <3>1 DEF Fine
  <2>2. CASE events # <<>>
    <3>1. lastReceivedEventId' = Last(events).id /\ Last(events) \in ToSet(events)
      BY <2>2 DEF processEvents, Told
    <3>2. Fine(Last(events).id)'
      BY <1>4, <2>2, <3>1
    <3> QED BY <3>1, <3>2 DEF Fine
  <2> QED BY <2>1, <2>2
<1>6. BagToSet(timers') \subseteq BagToSet(timers) \cup ToSet(events)
  <2>1. PICK again : again = {e \in ToSet(events) : TriesAgain(e.job)}
    OBVIOUS
  <2>2. timers' = due (+) SetToBag(again)
    BY <2>1 DEF processEvents
  <2>3. BagToSet(due (+) SetToBag(again)) = BagToSet(due) \cup again
    BY DEF (+), SetToBag, BagToSet
  <2> QED BY <2>1, <2>2, <2>3
<1>7. ASSUME NEW e \in BagToSet(timers') PROVE Fine(e.id)'
  <2>1. CASE e \in BagToSet(timers)
    BY <1>3, <2>1
  <2>2. CASE e \in ToSet(events)
    <3>1. events # <<>>
      BY <2>2
    <3> QED BY <1>4, <2>2, <3>1
  <2> QED BY <1>6, <2>1, <2>2
<1> QED BY <1>5, <1>7

\* The events whose retry is due are among those up to which the tab has
\* processed everything, and one of them alone is told.
LEMMA OneIsTold ==
  ASSUME NEW e, Fine(e.id)
  PROVE  Told(<<e>>) /\ Last(<<e>>) = e /\ ToSet(<<e>>) = {e}
<1>1. Last(<<e>>) = e /\ ToSet(<<e>>) = {e}
  BY DEF Last, ToSet
<1> QED BY <1>1 DEF Told, Fine, NotAfter

\* Steps that post nothing and process nothing.
LEMMA RestStays ==
  ASSUME StreamGrows, AsksFromWhatItSaw,
         channel' = channel, tops'["channel"] = tops["channel"],
         DOMAIN tops' = DOMAIN tops, DOMAIN worker' = DOMAIN worker, now' \in Nat,
         \A j \in Jobs : worker'[j] = "computing" => worker[j] = "computing",
         UNCHANGED <<lastReceivedEventId, timers, seen, poll>>
  PROVE  StreamGrows' /\ AsksFromWhatItSaw'
<1>1. StreamGrows'
  BY DEF StreamGrows, Posts
<1>2. AsksFromWhatItSaw'
  BY DEF AsksFromWhatItSaw, Fine, Told, Entries
<1> QED BY <1>1, <1>2

\* A poll starts, is answered or fails.
LEMMA NewPoll ==
  ASSUME StreamGrows, AsksFromWhatItSaw, UNCHANGED redis,
         UNCHANGED <<lastReceivedEventId, timers, seen>>,
         poll'.at \in {"none", "sent", "answered"},
         poll'.at = "sent" => Fine(poll'.last_id),
         poll'.at = "answered" => Told(poll'.events)
  PROVE  StreamGrows' /\ AsksFromWhatItSaw'
<1>1. StreamGrows'
  BY DEF StreamGrows, Posts, redis
<1>2. AsksFromWhatItSaw'
  BY DEF AsksFromWhatItSaw, Fine, Told, Entries, redis
<1> QED BY <1>1, <1>2

\* A poll on its way stays in order while the tab processes other events.
LEMMA MoreSeen ==
  ASSUME StreamGrows, AsksFromWhatItSaw, UNCHANGED redis, poll' = poll,
         seen \subseteq seen', Fine(lastReceivedEventId)',
         \A e \in BagToSet(timers') : Fine(e.id)'
  PROVE  StreamGrows' /\ AsksFromWhatItSaw'
<1>1. StreamGrows'
  BY DEF StreamGrows, Posts, redis
<1>2. channel' = channel /\ tops' = tops /\ Entries(channel)' = Entries(channel)
  BY DEF redis, Entries
<1>3. poll.at = "sent" => Fine(poll.last_id)'
  BY <1>2 DEF AsksFromWhatItSaw, Fine
<1>4. poll.at = "answered" => Told(poll.events)'
  BY <1>2 DEF AsksFromWhatItSaw, Told
<1> QED BY <1>1, <1>3, <1>4 DEF AsksFromWhatItSaw

\* The stream of the channel never holds ids that increment_id does not handle.
FewEvents == IsFiniteSet(Jobs) /\ \A s \in StartSeqs : s + Cardinality(Jobs) <= 19

LEMMA PollsStartFine ==
  ASSUME BoundsAssumption, FewEvents, Init
  PROVE  PollInv
<1>1. PICK s \in StartSeqs, f \in StartSeqs : tops = [channel |-> <<0, s>>, full |-> <<0, f>>]
  BY DEF Init
<1>2. /\ s \in Nat /\ s + Cardinality(Jobs) <= 19 /\ Cardinality(Jobs) \in Nat
  BY FS_CardinalityType DEF BoundsAssumption, FewEvents
<1>3. s \in 0..19 /\ tops["channel"] = <<0, s>>
  BY <1>1, <1>2
<1>4. tops["channel"] \in Early /\ NoId \in Early /\ NoId \in Pairs
      /\ tops["channel"] \in Pairs
  BY <1>3 DEF Early, Pairs
<1>5. NotAfter(NoId, tops["channel"])
  BY <1>4, Order
<1>6. channel = [j \in Jobs |-> NoId] /\ Entries(channel) = {} /\ Posts = Jobs
  BY DEF Init, Entries, Posts
<1>7. StreamGrows
  <2>1. DOMAIN tops = {"channel", "full"} /\ DOMAIN worker = Jobs /\ now \in Nat
    BY <1>1 DEF Init
  <2>2. tops["channel"][2] + Cardinality(Posts) <= 19 /\ tops["channel"] \in Nat \X (0..19)
    BY <1>2, <1>3, <1>6
  <2>3. channel \in [Jobs -> Early] /\ \A j \in Jobs : channel[j] = NoId
    BY <1>4, <1>6
  <2> QED BY <1>5, <2>1, <2>2, <2>3 DEF StreamGrows
<1>8. lastReceivedEventId \in {NoId, tops["channel"]}
  BY DEF Init
<1>9. Fine(lastReceivedEventId)
  BY <1>4, <1>5, <1>6, <1>8 DEF Fine, NotAfter
<1>10. BagToSet(timers) = {} /\ poll = NoPoll
  BY DEF Init, EmptyBag, SetToBag, BagToSet
<1>11. AsksFromWhatItSaw
  BY <1>9, <1>10 DEF AsksFromWhatItSaw, NoPoll
<1>12. transport = "polling" => SocketsAtRest
  BY DEF Init, SocketsAtRest
<1> QED BY <1>7, <1>11, <1>12 DEF PollInv

LEMMA PollsStayFine ==
  ASSUME BoundsAssumption, FewEvents, PollInv, [Next]_vars
  PROVE  PollInv'
<1>1. transport' = transport
  <2>1. CASE Next
    BY <2>1 DEF Next, Tick, WorkerStep, update_job, update_firehose, SoftTimeLimit,
       waitForAsyncData, SettleStep, removeListener, TimerStep, RetryEvent,
       loadEventsFromApi, AnswerPoll, ProcessPoll, FailPoll, CallXread, ReturnXread,
       TimeoutXread, wsConnection, RangeStep, fetchRangeFromStream, Restart, Receive,
       CloseSocket, wsConnect
  <2>2. CASE UNCHANGED vars
    BY <2>2 DEF vars
  <2> QED BY <2>1, <2>2
<1>2. SUFFICES ASSUME transport = "polling"
               PROVE  StreamGrows' /\ AsksFromWhatItSaw' /\ SocketsAtRest'
  BY <1>1 DEF PollInv
<1>3. StreamGrows /\ AsksFromWhatItSaw /\ SocketsAtRest
  BY <1>2 DEF PollInv
<1>4. IsFiniteSet(Jobs) /\ MaxEventCount \in Nat \ {0}
  BY DEF FewEvents, BoundsAssumption
<1>5. CASE UNCHANGED vars
  BY <1>3, <1>5, RestStays DEF StreamGrows, vars, redis, server, link, client, SocketsAtRest
<1>6. CASE Tick
  <2>1. now' \in Nat
    BY <1>3, <1>6 DEF Tick, StreamGrows
  <2> QED BY <1>3, <1>6, <2>1, RestStays DEF Tick, StreamGrows, server, link, client, SocketsAtRest
<1>7. ASSUME NEW j \in Jobs, update_job(j)
      PROVE  StreamGrows' /\ AsksFromWhatItSaw' /\ SocketsAtRest'
  <2>1. SocketsAtRest'
    BY <1>3, <1>7 DEF update_job, SocketsAtRest, server, link
  <2> QED BY <1>3, <1>4, <1>7, <2>1, PostKeeps
<1>8. ASSUME NEW j \in Jobs, update_firehose(j) \/ SoftTimeLimit(j)
      PROVE  StreamGrows' /\ AsksFromWhatItSaw' /\ SocketsAtRest'
  <2>1. /\ channel' = channel /\ tops'["channel"] = tops["channel"] /\ now' = now
        /\ DOMAIN tops' = DOMAIN tops /\ DOMAIN worker' = DOMAIN worker
        /\ \A k \in Jobs : worker'[k] = "computing" => worker[k] = "computing"
    BY <1>3, <1>8 DEF update_firehose, SoftTimeLimit, StreamGrows
  <2>2. UNCHANGED <<lastReceivedEventId, timers, seen, poll>>
        /\ UNCHANGED <<socket, wire, ranges, xread>>
    BY <1>8 DEF update_firehose, SoftTimeLimit, server, link, client
  <2> QED BY <1>3, <2>1, <2>2, RestStays DEF SocketsAtRest, StreamGrows
<1>9. ASSUME NEW j \in Jobs, waitForAsyncData(j) \/ removeListener(j)
      PROVE  StreamGrows' /\ AsksFromWhatItSaw' /\ SocketsAtRest'
  BY <1>3, <1>9, RestStays
     DEF waitForAsyncData, removeListener, redis, server, link, SocketsAtRest, StreamGrows
<1>10. CASE CallXread \/ ReturnXread \/ TimeoutXread \/ wsConnection \/ RangeStep
            \/ Restart \/ Receive \/ CloseSocket \/ wsConnect
  BY <1>2, <1>3, <1>10 DEF SocketsAtRest, CallXread, ReturnXread, TimeoutXread,
     wsConnection, RangeStep, Restart, Receive, CloseSocket, wsConnect
<1>11. ASSUME NEW e, RetryEvent(e)
       PROVE  StreamGrows' /\ AsksFromWhatItSaw' /\ SocketsAtRest'
  <2>1. UNCHANGED redis /\ poll' = poll /\ SocketsAtRest'
    BY <1>3, <1>11 DEF RetryEvent, SocketsAtRest, server, link
  <2>2. Fine(e.id) /\ e \in BagToSet(timers)
    BY <1>3, <1>11 DEF RetryEvent, AsksFromWhatItSaw
  <2>3. PICK due : due = timers (-) SetToBag({e})
    OBVIOUS
  <2>4. BagToSet(due) \subseteq BagToSet(timers)
    BY <2>3 DEF (-), SetToBag, BagToSet
  <2>5. processEvents(<<e>>, due)
    BY <1>11, <2>3 DEF RetryEvent
  <2>6. Told(<<e>>) /\ <<e>> # <<>>
    BY <2>2, OneIsTold
  <2>7. Fine(lastReceivedEventId)' /\ \A d \in BagToSet(timers') : Fine(d.id)'
    BY <1>3, <2>1, <2>4, <2>5, <2>6, ProcessKeeps DEF AsksFromWhatItSaw
  <2>8. seen \subseteq seen'
    BY <2>5 DEF processEvents
  <2> QED BY <1>3, <2>1, <2>7, <2>8, MoreSeen
<1>12. CASE loadEventsFromApi
  <2>1. poll' = Asked(lastReceivedEventId) /\ UNCHANGED redis
        /\ UNCHANGED <<lastReceivedEventId, timers, seen>> /\ SocketsAtRest'
    BY <1>3, <1>12 DEF loadEventsFromApi, SocketsAtRest, server, link, client
  <2> QED BY <1>3, <2>1, NewPoll DEF Asked, AsksFromWhatItSaw
<1>13. CASE AnswerPoll
  <2>1. /\ poll.at = "sent" /\ poll'.at = "answered" /\ UNCHANGED redis
        /\ poll'.events = read_events(poll.last_id)
        /\ UNCHANGED <<lastReceivedEventId, timers, seen>> /\ SocketsAtRest'
    BY <1>3, <1>13 DEF AnswerPoll, SocketsAtRest, server, link, client
  <2>2. Told(read_events(poll.last_id))
    BY <1>3, <1>4, <2>1, ReadsTheNext DEF AsksFromWhatItSaw
  <2> QED BY <1>3, <2>1, <2>2, NewPoll
<1>14. CASE FailPoll
  <2>1. poll' = NoPoll /\ UNCHANGED redis
        /\ UNCHANGED <<lastReceivedEventId, timers, seen>> /\ SocketsAtRest'
    BY <1>3, <1>14 DEF FailPoll, SocketsAtRest, server, link, client
  <2> QED BY <1>3, <2>1, NewPoll DEF NoPoll
<1>15. CASE ProcessPoll
  <2>1. UNCHANGED redis /\ poll' = NoPoll /\ SocketsAtRest' /\ poll.at = "answered"
    BY <1>3, <1>15 DEF ProcessPoll, SocketsAtRest, server, link
  <2>2. Told(poll.events) /\ processEvents(poll.events, timers)
    BY <1>3, <1>15, <2>1 DEF AsksFromWhatItSaw, ProcessPoll
  <2>3. poll.events = <<>> => ToSet(poll.events) = {}
    BY DEF ToSet
  <2>4. Fine(lastReceivedEventId)' /\ \A d \in BagToSet(timers') : Fine(d.id)'
    BY <1>3, <2>1, <2>2, <2>3, ProcessKeeps DEF AsksFromWhatItSaw
  <2>5. StreamGrows'
    BY <1>3, <2>1 DEF redis, StreamGrows, Posts
  <2> QED BY <2>1, <2>4, <2>5 DEF AsksFromWhatItSaw, NoPoll
<1> QED BY <1>5, <1>6, <1>7, <1>8, <1>9, <1>10, <1>11, <1>12, <1>13, <1>14, <1>15
        DEF Next, WorkerStep, SettleStep, TimerStep

\* A tab that polls never asks past an event that it has not processed, as long
\* as the stream holds fewer events of one millisecond than increment_id
\* handles.
THEOREM PollsSkipNothing == FewEvents => (Spec => []PollSkipsNothing)
<1> SUFFICES ASSUME FewEvents PROVE Spec => []PollSkipsNothing
  OBVIOUS
<1>1. Init => PollInv
  BY PollsStartFine, BoundsAssumption
<1>2. PollInv /\ [Next]_vars => PollInv'
  BY PollsStayFine, BoundsAssumption
<1>3. PollInv => PollSkipsNothing
  BY DEF PollInv, AsksFromWhatItSaw, Fine, PollSkipsNothing
<1> QED BY <1>1, <1>2, <1>3, PTL DEF Spec

(***************************************************************************)
(* The scopes of filters, for any number of tabs, charts, filter boxes and *)
(* columns. What is below a container, and what is made of what is checked *)
(* there, are recursive functions on the containers; RecursionTheorems     *)
(* says that they exist, with the distance to the last container as the    *)
(* measure. What holds of them is shown of a least counterexample: the one *)
(* nearest to the last.                                                    *)
(***************************************************************************)
\* The charts below a container, from those below its tabs.
BelowBody(p, f, n) ==
  {c \in TreeCharts : p[c] = n} \cup UNION {f[t] : t \in {u \in Tab : p[u] = n}}

Belows == INSTANCE RecursionTheorems WITH Def <- BelowBody

\* How far a container is from the last one: the measure of both recursions.
FromLast == [n \in Container |-> NTabs - n]

LEMMA FromLastIsMeasure == FromLast \in [Container -> Nat]
BY ScopesAssumption DEF FromLast, Container, Root, Tab

LEMMA TabsComeLater ==
  ASSUME parent \in Layouts, NEW n \in Container, NEW t \in TabsIn(n)
  PROVE  /\ t \in Tab /\ t \in Container /\ parent[t] = n /\ t \in Nat /\ n \in Nat /\ n < t
         /\ FromLast[t] < FromLast[n]
BY ScopesAssumption DEF TabsIn, Layouts, FromLast, Container, Root, Tab

LEMMA BelowsExist ==
  ASSUME parent \in Layouts
  PROVE  \E f : f = [n \in Container |-> BelowBody(parent, f, n)]
<1>1. ASSUME NEW f, NEW g, NEW n \in Container,
             \A k \in Container : FromLast[k] < FromLast[n] => f[k] = g[k]
      PROVE  BelowBody(parent, f, n) = BelowBody(parent, g, n)
  <2>1. \A t \in {u \in Tab : parent[u] = n} : f[t] = g[t]
    BY <1>1, TabsComeLater DEF TabsIn
  <2>2. {f[t] : t \in {u \in Tab : parent[u] = n}} = {g[t] : t \in {u \in Tab : parent[u] = n}}
    BY <2>1
  <2> QED BY <2>2 DEF BelowBody
<1>2. Belows!ReadsSmaller(parent, Container, FromLast)
  BY <1>1 DEF Belows!ReadsSmaller
<1> QED BY <1>2, FromLastIsMeasure, Belows!RecursionIsDefined

LEMMA ChartsBelowIs ==
  ASSUME parent \in Layouts, NEW n \in Container
  PROVE  ChartsBelow[n] = ChartsIn(n) \cup UNION {ChartsBelow[t] : t \in TabsIn(n)}
<1>1. ChartsBelow = CHOOSE f : f = [k \in Container |-> BelowBody(parent, f, k)]
  BY DEF ChartsBelow, BelowBody, ChartsIn, TabsIn
<1>2. ChartsBelow = [k \in Container |-> BelowBody(parent, ChartsBelow, k)]
  <2> DEFINE Is(f) == f = [k \in Container |-> BelowBody(parent, f, k)]
  <2>1. \E f : Is(f)
    BY BelowsExist
  <2>2. ChartsBelow = CHOOSE f : Is(f)
    BY <1>1
  <2> HIDE DEF Is
  <2>3. Is(ChartsBelow)
    BY <2>1, <2>2
  <2> QED BY <2>3 DEF Is
<1>3. ChartsBelow[n] = BelowBody(parent, ChartsBelow, n)
  BY <1>2
<1> QED BY <1>3 DEF BelowBody, ChartsIn, TabsIn

-----------------------------------------------------------------------------
(* The scope that is made of what is checked *)

Unchecked(f, C, n) == ChartsIn(n) \ (C \cup Own(f))

TraverseBody(p, g, n) ==
  LET tabScopes == [t \in TabsIn(n) |-> g[t]]
      whole == aggregate(n, tabScopes)
  IN IF ChartsIn(n) \cap p[2] # {}
     THEN [whole EXCEPT !.immune = @ \cup Unchecked(p[1], p[2], n)]
     ELSE IF TabsIn(n) # {}
     THEN getTabChildrenScope(n, tabScopes, Unchecked(p[1], p[2], n))
     ELSE [scope |-> {}, immune |-> Unchecked(p[1], p[2], n)]

Traversals == INSTANCE RecursionTheorems WITH Def <- TraverseBody

IsTraversal(tr, f, C) == tr = [n \in Container |-> TraverseBody(<<f, C>>, tr, n)]

LEMMA TraversalExists ==
  ASSUME parent \in Layouts, NEW f, NEW C
  PROVE  \E tr : IsTraversal(tr, f, C)
<1>1. ASSUME NEW g, NEW h, NEW n \in Container,
             \A k \in Container : FromLast[k] < FromLast[n] => g[k] = h[k]
      PROVE  TraverseBody(<<f, C>>, g, n) = TraverseBody(<<f, C>>, h, n)
  <2>1. \A t \in TabsIn(n) : g[t] = h[t]
    BY <1>1, TabsComeLater
  <2>2. [t \in TabsIn(n) |-> g[t]] = [t \in TabsIn(n) |-> h[t]]
    BY <2>1
  <2> QED BY <2>2, Zenon DEF TraverseBody
<1>2. Traversals!ReadsSmaller(<<f, C>>, Container, FromLast)
  BY <1>1 DEF Traversals!ReadsSmaller
<1> QED BY <1>2, FromLastIsMeasure, Traversals!RecursionIsDefined DEF IsTraversal

LEMMA ScopeIsTraversed ==
  ASSUME parent \in Layouts, NEW f, NEW C
  PROVE  \E tr : IsTraversal(tr, f, C) /\ getFilterScopeFromNodesTree(f, C) = tr[Root]
<1> DEFINE tr == CHOOSE tr : IsTraversal(tr, f, C)
<1>1. IsTraversal(tr, f, C)
  BY TraversalExists
<1>2. getFilterScopeFromNodesTree(f, C) = tr[Root]
  BY DEF getFilterScopeFromNodesTree, IsTraversal, TraverseBody, Unchecked
<1> QED BY <1>1, <1>2

\* What the tabs of a container say, together.
TabScopes(tr, n) == UNION {tr[t].scope : t \in TabsIn(n)}
TabImmune(tr, n) == UNION {tr[t].immune : t \in TabsIn(n)}
\* Charts of tabs' tabs that neither tab speaks for.
Overlooked(tr, n) == getImmuneChartIdsFromTabsNotInScope(TabsIn(n), TabScopes(tr, n))

\* The scope is the container itself ...
TakenWhole(tr, f, C, n) ==
  /\ tr[n].scope = {n}
  /\ tr[n].immune = Overlooked(tr, n) \cup TabImmune(tr, n) \cup Unchecked(f, C, n)
  /\ \/ ChartsIn(n) \cap C # {}
     \/ ChartsIn(n) = {} /\ \A t \in TabsIn(n) : tr[t].scope = {t}
\* ... or that of its tabs.
TakenByTab(tr, f, C, n) ==
  /\ ChartsIn(n) \cap C = {}
  /\ tr[n].scope = TabScopes(tr, n)
  /\ tr[n].immune \subseteq TabImmune(tr, n) \cup Unchecked(f, C, n)
  /\ \A t \in TabsIn(n) : tr[t].scope # {} => tr[t].immune \subseteq tr[n].immune
  /\ TabsIn(n) = {} => Unchecked(f, C, n) \subseteq tr[n].immune

LEMMA TraversalCases ==
  ASSUME parent \in Layouts, NEW f, NEW C, NEW tr, IsTraversal(tr, f, C),
         NEW n \in Container
  PROVE  TakenWhole(tr, f, C, n) \/ TakenByTab(tr, f, C, n)
<1> DEFINE ts == [t \in TabsIn(n) |-> tr[t]]
           un == Unchecked(f, C, n)
<1>1. tr[n] = TraverseBody(<<f, C>>, tr, n)
  BY DEF IsTraversal
<1>2. \A t \in TabsIn(n) : ts[t] = tr[t]
  OBVIOUS
<1>3. /\ UNION {ts[t].scope : t \in TabsIn(n)} = TabScopes(tr, n)
      /\ UNION {ts[t].immune : t \in TabsIn(n)} = TabImmune(tr, n)
  BY <1>2 DEF TabScopes, TabImmune
<1>4. aggregate(n, ts) = [scope |-> {n}, immune |-> Overlooked(tr, n) \cup TabImmune(tr, n)]
  <2> HIDE DEF ts
  <2> QED BY <1>3 DEF aggregate, Overlooked
<1>5. CASE ChartsIn(n) \cap C # {}
  <2>1. tr[n] = [aggregate(n, ts) EXCEPT !.immune = @ \cup un]
    BY <1>1, <1>5 DEF TraverseBody
  <2>2. tr[n].scope = {n} /\ tr[n].immune = Overlooked(tr, n) \cup TabImmune(tr, n) \cup un
    <3> HIDE DEF ts, un
    <3> QED BY <2>1, <1>4
  <2> QED BY <2>2, <1>5 DEF TakenWhole
<1>6. CASE ChartsIn(n) \cap C = {} /\ TabsIn(n) # {}
  <2>1. tr[n] = getTabChildrenScope(n, ts, un)
    BY <1>1, <1>6 DEF TraverseBody
  <2>2. CASE ChartsIn(n) = {} /\ \A t \in TabsIn(n) : ts[t].scope = {t}
    <3>1. tr[n] = aggregate(n, ts)
      BY <2>1, <2>2 DEF getTabChildrenScope
    <3>2. un = {}
      BY <2>2 DEF Unchecked
    <3>3. TakenWhole(tr, f, C, n)
      <4>1. \A t \in TabsIn(n) : tr[t].scope = {t}
        BY <2>2, <1>2
      <4> HIDE DEF ts
      <4> QED BY <3>1, <3>2, <1>4, <2>2, <4>1 DEF TakenWhole
    <3> QED BY <3>3
  <2>3. CASE ~(ChartsIn(n) = {} /\ \A t \in TabsIn(n) : ts[t].scope = {t})
    <3> DEFINE inScope == {t \in TabsIn(n) : ts[t].scope # {}}
               scopesIn == UNION {ts[t].scope : t \in inScope}
               immuneIn == UNION {ts[t].immune : t \in inScope}
               immuneAll == UNION {ts[t].immune : t \in TabsIn(n)}
    <3>1. tr[n] = [scope |-> scopesIn,
                   immune |-> IF inScope # {} THEN immuneIn ELSE immuneAll \cup un]
      BY <2>1, <2>3 DEF getTabChildrenScope
    <3>2. scopesIn = TabScopes(tr, n)
      <4>1. scopesIn = UNION {ts[t].scope : t \in TabsIn(n)}
        <5> HIDE DEF ts
        <5> QED OBVIOUS
      <4> QED BY <4>1, <1>3
    <3>3. immuneIn \subseteq immuneAll /\ immuneAll = TabImmune(tr, n)
      <4>1. immuneIn \subseteq immuneAll
        <5> HIDE DEF ts
        <5> QED OBVIOUS
      <4> QED BY <4>1, <1>3
    <3>4. ASSUME NEW t \in TabsIn(n), tr[t].scope # {}
          PROVE  t \in inScope /\ tr[t].immune \subseteq immuneIn
      <4>1. t \in inScope /\ ts[t].immune = tr[t].immune
        BY <3>4, <1>2
      <4> HIDE DEF ts, inScope
      <4> QED BY <4>1
    <3> HIDE DEF ts, un, inScope, scopesIn, immuneIn, immuneAll
    <3>5. /\ tr[n].scope = scopesIn
          /\ tr[n].immune = IF inScope # {} THEN immuneIn ELSE immuneAll \cup un
      BY <3>1
    <3>6. tr[n].immune \subseteq TabImmune(tr, n) \cup un
      BY <3>3, <3>5
    <3>7. \A t \in TabsIn(n) : tr[t].scope # {} => tr[t].immune \subseteq tr[n].immune
      BY <3>4, <3>5
    <3> QED BY <3>2, <3>5, <3>6, <3>7, <1>6 DEF TakenByTab, un
  <2> QED BY <2>2, <2>3
<1>7. CASE ChartsIn(n) \cap C = {} /\ TabsIn(n) = {}
  <2>1. tr[n] = [scope |-> {}, immune |-> un]
    BY <1>1, <1>7 DEF TraverseBody
  <2>2. TabScopes(tr, n) = {} /\ TabImmune(tr, n) = {}
    BY <1>7 DEF TabScopes, TabImmune
  <2> HIDE DEF un
  <2>3. tr[n].scope = {} /\ tr[n].immune = un
    BY <2>1
  <2> QED BY <2>2, <2>3, <1>7 DEF TakenByTab, un
<1> QED BY <1>5, <1>6, <1>7

\* The containers in and below n.
Below(n) ==
  {m \in Container : \A X \in SUBSET Container :
     n \in X /\ (\A t \in Tab : parent[t] \in X => t \in X) => m \in X}

LEMMA BelowGrows ==
  ASSUME parent \in Layouts, NEW n \in Container
  PROVE  n \in Below(n) /\ \A t \in TabsIn(n) : Below(t) \subseteq Below(n)
<1>1. n \in Below(n)
  BY DEF Below
<1>2. ASSUME NEW t \in TabsIn(n), NEW m \in Below(t) PROVE m \in Below(n)
  BY <1>2 DEF Below, TabsIn
<1> QED BY <1>1, <1>2

\* Neither a tab nor a tab in it is below another tab of the same container.
LEMMA TabsAreApart ==
  ASSUME parent \in Layouts, NEW n \in Container, NEW t \in TabsIn(n), NEW u \in TabsIn(n),
         t # u
  PROVE  t \notin Below(u) /\ \A s \in TabsIn(t) : s \notin Below(u)
<1>1. \A k \in Container : \A s \in TabsIn(k) : s \in Nat /\ k \in Nat /\ k < s /\ s \in Container
  BY TabsComeLater
<1>2. t \in Container /\ u \in Container /\ n < t /\ n < u /\ n \in Nat /\ t \in Nat /\ u \in Nat
  BY <1>1
<1>3. ASSUME NEW s \in {t} \cup TabsIn(t) PROVE s \notin Below(u)
  <2> DEFINE X == {k \in Container : n < k /\ k # t /\ k # s}
  <2>1. s \in Nat /\ s \in Container /\ s # u /\ t <= s
    <3>1. CASE s = t
      BY <3>1, <1>2
    <3>2. CASE s \in TabsIn(t)
      BY <3>2, <1>1, <1>2 DEF TabsIn
    <3> QED BY <3>1, <3>2
  <2>2. u \in X
    BY <1>2, <2>1
  <2>3. ASSUME NEW k \in Tab, parent[k] \in X PROVE k \in X
    <3>1. k \in TabsIn(parent[k]) /\ parent[k] \in Container
      BY <2>3 DEF TabsIn
    <3>2. parent[k] < k /\ k \in Container /\ k \in Nat /\ parent[k] \in Nat
      BY <3>1, <1>1
    <3>3. k # t /\ k # s
      <4>1. parent[t] = n /\ n \notin X /\ t \notin X
        BY <1>2 DEF TabsIn
      <4>2. parent[s] \notin X
        BY <4>1, <1>3 DEF TabsIn
      <4> QED BY <4>1, <4>2, <2>3
    <3>4. n < k
      BY <3>2, <2>3, <1>2
    <3> QED BY <3>2, <3>3, <3>4
  <2>4. X \in SUBSET Container /\ s \notin X
    OBVIOUS
  <2> HIDE DEF X
  <2> QED BY <2>2, <2>3, <2>4 DEF Below
<1> QED BY <1>3

Covered(tr, n) == UNION {ChartsBelow[m] : m \in tr[n].scope}

\* What the scope that is made for a container has to do with what is checked.
ScopeIsSound(tr, f, C, n) ==
  /\ tr[n].scope \subseteq Below(n)
  /\ C \cap ChartsBelow[n] \subseteq Covered(tr, n)
  /\ Covered(tr, n) \ (C \cup Own(f)) \subseteq tr[n].immune
  /\ tr[n].immune \cap C = {}

LEMMA TakenByTabIsSound ==
  ASSUME parent \in Layouts, NEW f, NEW C, NEW tr, NEW n \in Container,
         \A t \in TabsIn(n) : ScopeIsSound(tr, f, C, t), TakenByTab(tr, f, C, n)
  PROVE  ScopeIsSound(tr, f, C, n)
<1>1. tr[n].scope \subseteq Below(n)
  BY BelowGrows DEF TakenByTab, TabScopes, ScopeIsSound
<1>2. ASSUME NEW t \in TabsIn(n) PROVE Covered(tr, t) \subseteq Covered(tr, n)
  BY DEF TakenByTab, TabScopes, Covered
<1>3. C \cap ChartsBelow[n] \subseteq Covered(tr, n)
  <2>1. ASSUME NEW c \in C, c \in ChartsBelow[n] PROVE c \in Covered(tr, n)
    <3>1. PICK t \in TabsIn(n) : c \in ChartsBelow[t]
      BY <2>1, ChartsBelowIs DEF TakenByTab
    <3> QED BY <3>1, <1>2 DEF ScopeIsSound
  <2> QED BY <2>1
<1>4. ASSUME NEW c \in Covered(tr, n), c \notin C \cup Own(f) PROVE c \in tr[n].immune
  <2>1. PICK t \in TabsIn(n) : c \in Covered(tr, t) /\ tr[t].scope # {}
    BY DEF Covered, TakenByTab, TabScopes
  <2>2. c \in tr[t].immune
    BY <2>1, <1>4 DEF ScopeIsSound
  <2> QED BY <2>1, <2>2 DEF TakenByTab
<1>5. tr[n].immune \cap C = {}
  BY DEF TakenByTab, TabImmune, ScopeIsSound, Unchecked
<1> QED BY <1>1, <1>3, <1>4, <1>5 DEF ScopeIsSound

\* Charts that are overlooked are not checked: the scope of a tab with a checked chart
\* is the tab itself, and so it is found in the scope of the tab above, if not that tab.
LEMMA OverlookedAreUnchecked ==
  ASSUME parent \in Layouts, NEW f, NEW C, NEW tr, IsTraversal(tr, f, C), NEW n \in Container
  PROVE  Overlooked(tr, n) \cap C = {}
<1> SUFFICES ASSUME NEW c \in Overlooked(tr, n), c \in C PROVE FALSE
  OBVIOUS
<1>1. PICK u \in Tab, s \in Tab :
        /\ u \in TabsIn(n) /\ s \in TabsIn(u)
        /\ u \notin TabScopes(tr, n) /\ s \notin TabScopes(tr, n) /\ c \in ChartsIn(s)
  BY DEF Overlooked, getImmuneChartIdsFromTabsNotInScope, TabsIn
<1>2. u \in Container /\ s \in Container
  BY <1>1, TabsComeLater
<1>3. tr[s].scope = {s}
  BY <1>1, <1>2, TraversalCases DEF TakenWhole, TakenByTab
<1>4. tr[u].scope \subseteq TabScopes(tr, n)
  BY <1>1 DEF TabScopes
<1>5. tr[u].scope = TabScopes(tr, u)
  BY <1>1, <1>2, <1>4, TraversalCases DEF TakenWhole, TakenByTab
<1>6. s \in TabScopes(tr, u)
  BY <1>1, <1>3 DEF TabScopes
<1> QED BY <1>1, <1>4, <1>5, <1>6

LEMMA TakenWholeIsSound ==
  ASSUME parent \in Layouts, FewTabsBesideCharts, NEW f, NEW C, NEW tr, IsTraversal(tr, f, C),
         NEW n \in Container,
         \A t \in TabsIn(n) : ScopeIsSound(tr, f, C, t), TakenWhole(tr, f, C, n)
  PROVE  ScopeIsSound(tr, f, C, n)
<1>1. tr[n].scope = {n} /\ Covered(tr, n) = ChartsBelow[n]
  BY DEF TakenWhole, Covered
<1>2. tr[n].scope \subseteq Below(n)
  BY <1>1, BelowGrows
<1>3. tr[n].immune = Overlooked(tr, n) \cup TabImmune(tr, n) \cup Unchecked(f, C, n)
  BY DEF TakenWhole
<1>4. tr[n].immune \cap C = {}
  <2>1. TabImmune(tr, n) \cap C = {}
    BY DEF TabImmune, ScopeIsSound
  <2>2. Overlooked(tr, n) \cap C = {}
    BY OverlookedAreUnchecked
  <2>3. Unchecked(f, C, n) \cap C = {}
    BY DEF Unchecked
  <2> QED BY <1>3, <2>1, <2>2, <2>3
<1>5. ASSUME NEW c \in ChartsBelow[n], c \notin C \cup Own(f) PROVE c \in tr[n].immune
  <2>1. CASE c \in ChartsIn(n)
    BY <2>1, <1>3, <1>5 DEF Unchecked
  <2>2. ASSUME NEW t \in TabsIn(n), c \in ChartsBelow[t] PROVE c \in tr[n].immune
    <3>1. tr[t].immune \subseteq tr[n].immune
      BY <1>3 DEF TabImmune
    <3>2. CASE c \in Covered(tr, t)
      BY <3>1, <3>2, <1>5 DEF ScopeIsSound
    <3>3. CASE c \notin Covered(tr, t)
      <4>1. t \notin tr[t].scope
        BY <3>3, <2>2 DEF Covered
      <4>2. t \in Tab /\ t \in Container /\ parent[t] = n
        BY TabsComeLater
      <4>3. TakenByTab(tr, f, C, t)
        BY <4>1, <4>2, TraversalCases DEF TakenWhole
      <4>4. ChartsIn(n) # {}
        BY <4>1 DEF TakenWhole
      <4>5. /\ ChartsIn(t) # {} => TabsIn(t) = {}
            /\ \A s \in TabsIn(t) : TabsIn(s) = {}
        BY <4>2, <4>4 DEF FewTabsBesideCharts
      <4>6. CASE c \in ChartsIn(t)
        <5>1. c \in Unchecked(f, C, t)
          BY <4>6, <1>5 DEF Unchecked
        <5> QED BY <5>1, <4>3, <4>5, <4>6, <3>1 DEF TakenByTab
      <4>7. CASE c \notin ChartsIn(t)
        <5>1. PICK s \in TabsIn(t) : c \in ChartsBelow[s]
          BY <4>7, <4>2, <2>2, ChartsBelowIs
        <5>2. s \in Container /\ c \in ChartsIn(s)
          BY <5>1, <4>2, <4>5, TabsComeLater, ChartsBelowIs
        <5>3. s \notin tr[t].scope
          BY <3>3, <5>1 DEF Covered
        <5>4. t \notin TabScopes(tr, n) /\ s \notin TabScopes(tr, n)
          <6>1. ASSUME NEW u \in TabsIn(n), t \in tr[u].scope \/ s \in tr[u].scope PROVE FALSE
            <7>1. u # t /\ tr[u].scope \subseteq Below(u)
              BY <6>1, <4>1, <5>3 DEF ScopeIsSound
            <7> QED BY <7>1, <6>1, <5>1, TabsAreApart
          <6> QED BY <6>1 DEF TabScopes
        <5>5. c \in Overlooked(tr, n)
          BY <5>1, <5>2, <5>4 DEF Overlooked, getImmuneChartIdsFromTabsNotInScope
        <5> QED BY <5>5, <1>3
      <4> QED BY <4>6, <4>7
    <3> QED BY <3>2, <3>3
  <2> QED BY <2>1, <2>2, <1>5, ChartsBelowIs
<1> QED BY <1>1, <1>2, <1>4, <1>5 DEF ScopeIsSound

LEMMA ScopesAreSound ==
  ASSUME parent \in Layouts, FewTabsBesideCharts, NEW f, NEW C, NEW tr, IsTraversal(tr, f, C)
  PROVE  \A n \in Container : ScopeIsSound(tr, f, C, n)
<1> DEFINE B == {n \in Container : ~ScopeIsSound(tr, f, C, n)}
<1>1. SUFFICES ASSUME B # {} PROVE FALSE
  OBVIOUS
<1>2. PICK n \in B : \A k \in B : FromLast[n] <= FromLast[k]
  <2>1. B \in SUBSET Container
    OBVIOUS
  <2> HIDE DEF B
  <2> QED BY <1>1, <2>1, FromLastIsMeasure, Traversals!LeastByMeasure
<1>3. ASSUME NEW t \in TabsIn(n) PROVE ScopeIsSound(tr, f, C, t)
  <2>1. t \in Container /\ FromLast[t] < FromLast[n]
    BY TabsComeLater
  <2>2. FromLast[t] \in Nat /\ FromLast[n] \in Nat
    BY <2>1, FromLastIsMeasure
  <2> QED BY <2>1, <2>2, <1>2
<1>4. ScopeIsSound(tr, f, C, n)
  BY <1>3, TraversalCases, TakenWholeIsSound, TakenByTabIsSound
<1> QED BY <1>2, <1>4

LEMMA BelowAreCharts ==
  ASSUME parent \in Layouts
  PROVE  \A n \in Container : ChartsBelow[n] \subseteq TreeCharts
<1> DEFINE B == {n \in Container : ~(ChartsBelow[n] \subseteq TreeCharts)}
<1>1. SUFFICES ASSUME B # {} PROVE FALSE
  OBVIOUS
<1>2. PICK n \in B : \A k \in B : FromLast[n] <= FromLast[k]
  <2>1. B \in SUBSET Container
    OBVIOUS
  <2> HIDE DEF B
  <2> QED BY <1>1, <2>1, FromLastIsMeasure, Belows!LeastByMeasure
<1>3. ASSUME NEW t \in TabsIn(n) PROVE ChartsBelow[t] \subseteq TreeCharts
  <2>1. t \in Container /\ FromLast[t] < FromLast[n]
    BY TabsComeLater
  <2>2. FromLast[t] \in Nat /\ FromLast[n] \in Nat
    BY <2>1, FromLastIsMeasure
  <2> QED BY <2>1, <2>2, <1>2
<1>4. ChartsBelow[n] \subseteq TreeCharts
  BY <1>3, ChartsBelowIs DEF ChartsIn
<1> QED BY <1>2, <1>4

\* Every chart is below the root.
LEMMA RootHoldsAll ==
  ASSUME parent \in Layouts
  PROVE  ChartsBelow[Root] = TreeCharts
<1> DEFINE B == {n \in Container : ~(ChartsBelow[n] \subseteq ChartsBelow[Root])}
<1>1. B = {}
  <2>1. SUFFICES ASSUME B # {} PROVE FALSE
    OBVIOUS
  <2>2. PICK n \in B : \A k \in B : n <= k
    <3>1. B \in SUBSET Nat
      BY DEF Container, Root, Tab
    <3> HIDE DEF B
    <3> QED BY <2>1, <3>1, Belows!LeastNumber
  <2>3. n # Root
    BY <2>2
  <2>4. n \in TabsIn(parent[n]) /\ parent[n] \in Container
    BY <2>2, <2>3 DEF Container, TabsIn, Layouts
  <2>5. parent[n] < n /\ parent[n] \in Nat /\ n \in Nat
    BY <2>4, TabsComeLater
  <2>6. ChartsBelow[parent[n]] \subseteq ChartsBelow[Root]
    BY <2>2, <2>4, <2>5
  <2>7. ChartsBelow[n] \subseteq ChartsBelow[parent[n]]
    BY <2>4, ChartsBelowIs
  <2> QED BY <2>2, <2>6, <2>7
<1>2. ASSUME NEW c \in TreeCharts PROVE c \in ChartsBelow[Root]
  <2>1. parent[c] \in Container /\ c \in ChartsIn(parent[c])
    BY DEF Layouts, ChartsIn
  <2>2. c \in ChartsBelow[parent[c]]
    BY <2>1, ChartsBelowIs
  <2> QED BY <2>1, <2>2, <1>1
<1>3. Root \in Container
  BY DEF Container
<1> QED BY <1>2, <1>3, BelowAreCharts

LEMMA FilteredAreCharts ==
  ASSUME parent \in Layouts, NEW s \in Scope
  PROVE  getChartIdsInFilterScope(s) \subseteq TreeCharts
BY BelowAreCharts DEF getChartIdsInFilterScope, Scope

LEMMA RoundTrip ==
  ASSUME parent \in Layouts, FewTabsBesideCharts, NEW f, NEW C \in SUBSET TreeCharts,
         C \cap Own(f) = {}
  PROVE  getChartIdsInFilterScope(getFilterScopeFromNodesTree(f, C)) \ Own(f) = C
<1>1. PICK tr : IsTraversal(tr, f, C) /\ getFilterScopeFromNodesTree(f, C) = tr[Root]
  BY ScopeIsTraversed
<1>2. ScopeIsSound(tr, f, C, Root)
  BY <1>1, ScopesAreSound DEF Container
<1>3. getChartIdsInFilterScope(tr[Root]) = Covered(tr, Root) \ tr[Root].immune
  BY DEF getChartIdsInFilterScope, Covered
<1>4. C \cap ChartsBelow[Root] = C
  BY RootHoldsAll
<1> QED BY <1>1, <1>2, <1>3, <1>4 DEF ScopeIsSound

LEMMA ScopeTyped ==
  ASSUME parent \in Layouts, NEW f, NEW C
  PROVE  getFilterScopeFromNodesTree(f, C) \in Scope
<1>1. PICK tr : IsTraversal(tr, f, C) /\ getFilterScopeFromNodesTree(f, C) = tr[Root]
  BY ScopeIsTraversed
<1> DEFINE B == {n \in Container : tr[n] \notin Scope}
<1>2. SUFFICES ASSUME B # {} PROVE FALSE
  BY <1>1 DEF Container
<1>3. PICK n \in B : \A k \in B : FromLast[n] <= FromLast[k]
  <2>1. B \in SUBSET Container
    OBVIOUS
  <2> HIDE DEF B
  <2> QED BY <1>2, <2>1, FromLastIsMeasure, Belows!LeastByMeasure
<1>4. ASSUME NEW t \in TabsIn(n) PROVE t \in Container /\ tr[t] \in Scope
  <2>1. t \in Container /\ FromLast[t] < FromLast[n]
    BY TabsComeLater
  <2>2. FromLast[t] \in Nat /\ FromLast[n] \in Nat
    BY <2>1, FromLastIsMeasure
  <2> QED BY <2>1, <2>2, <1>3
<1> DEFINE ts == [t \in TabsIn(n) |-> tr[t]]
           un == Unchecked(f, C, n)
<1>5. tr[n] = TraverseBody(<<f, C>>, tr, n)
  BY <1>1, <1>3 DEF IsTraversal
<1>6. \A t \in TabsIn(n) : ts[t].scope \subseteq Container /\ ts[t].immune \subseteq TreeCharts
  BY <1>4 DEF Scope
<1>7. un \subseteq TreeCharts
  BY DEF Unchecked, ChartsIn
<1>8. n \in Container
  BY <1>3
<1>9. aggregate(n, ts) \in Scope
  <2> DEFINE all == getImmuneChartIdsFromTabsNotInScope(TabsIn(n), UNION {ts[t].scope : t \in TabsIn(n)})
                    \cup UNION {ts[t].immune : t \in TabsIn(n)}
  <2>1. all \subseteq TreeCharts
    <3> HIDE DEF ts
    <3> QED BY <1>6 DEF getImmuneChartIdsFromTabsNotInScope, ChartsIn
  <2>2. aggregate(n, ts) = [scope |-> {n}, immune |-> all]
    BY DEF aggregate
  <2> HIDE DEF all, ts
  <2> QED BY <1>8, <2>1, <2>2 DEF Scope
<1>10. getTabChildrenScope(n, ts, un) \in Scope
  <2> HIDE DEF ts, un
  <2> QED BY <1>6, <1>7, <1>9 DEF getTabChildrenScope, Scope
<1>11. tr[n] \in Scope
  <2>1. \/ tr[n] = [aggregate(n, ts) EXCEPT !.immune = @ \cup un]
        \/ tr[n] = getTabChildrenScope(n, ts, un)
        \/ tr[n] = [scope |-> {}, immune |-> un]
    BY <1>5 DEF TraverseBody
  <2> HIDE DEF ts, un
  <2> QED BY <2>1, <1>7, <1>9, <1>10 DEF Scope
<1> QED BY <1>3, <1>11

-----------------------------------------------------------------------------
(* The inductive invariant *)

\* What the tree on display says of a field.
Displayed(f) == {c \in TreeCharts : <<c, f>> \in shown} \ Own(f)

ScopesInv ==
  /\ ScopesTypeOK
  /\ \A f \in Field : checked[f] \cap Own(f) = {}
  /\ \A f \in EditingList(activeFilterField, checkedFilterFields) : checked[f] = Displayed(f)
  /\ FewTabsBesideCharts =>
       IF showing THEN \A f \in Field : checked[f] = wanted[f]
       ELSE \A f \in Field : Filtered(f) = wanted[f]

LEMMA FilteredTyped ==
  ASSUME ScopesInv, NEW f \in Field
  PROVE  Filtered(f) \in SUBSET TreeCharts /\ Filtered(f) \cap Own(f) = {}
BY FilteredAreCharts DEF ScopesInv, ScopesTypeOK, Filtered

LEMMA EditedAreFields ==
  ASSUME ScopesInv
  PROVE  EditingList(activeFilterField, checkedFilterFields) \subseteq Field
BY DEF ScopesInv, ScopesTypeOK, EditingList

LEMMA InitScopesInv == ScopesInit => ScopesInv
<1> SUFFICES ASSUME ScopesInit PROVE ScopesInv
  OBVIOUS
<1> USE DEF ScopesInit
<1>1. DASHBOARD_FILTER_SCOPE_GLOBAL \in Scope
  BY DEF DASHBOARD_FILTER_SCOPE_GLOBAL, Scope, Container
<1>2. scopes \in [Field -> Scope]
  BY <1>1
<1>3. \A f \in Field : Filtered(f) \in SUBSET TreeCharts
  BY <1>2, FilteredAreCharts DEF Filtered
<1>4. ScopesTypeOK
  BY <1>2, <1>3 DEF ScopesTypeOK
<1>5. EditingList(activeFilterField, checkedFilterFields) = {}
  BY DEF EditingList
<1> QED BY <1>4, <1>5 DEF ScopesInv

LEMMA OpenStep ==
  ASSUME ScopesInv, NEW f \in Field, OpenSelector(f)
  PROVE  ScopesInv'
<1> USE DEF OpenSelector
<1>1. \A g \in Field : Filtered(g) \in SUBSET TreeCharts /\ Filtered(g) \cap Own(g) = {}
  BY FilteredTyped
<1>2. ScopesTypeOK'
  BY <1>1 DEF ScopesInv, ScopesTypeOK, Layouts, Scope
<1>3. \A g \in Field : checked'[g] \cap Own(g) = {}
  BY <1>1
<1>4. \A g \in EditingList(activeFilterField, checkedFilterFields)' : checked'[g] = Displayed(g)'
  <2>1. EditingList(activeFilterField, checkedFilterFields)' \subseteq {f}
    BY DEF EditingList
  <2>2. Displayed(f)' = Filtered(f)
    BY <1>1 DEF Displayed
  <2> QED BY <2>1, <2>2
<1>5. FewTabsBesideCharts' => \A g \in Field : checked'[g] = wanted'[g]
  BY DEF ScopesInv, FewTabsBesideCharts, ChartsIn, TabsIn
<1> QED BY <1>2, <1>3, <1>4, <1>5 DEF ScopesInv

\* Another list of fields is edited: the tree is built anew from what is checked.
LEMMA FieldsStep ==
  ASSUME ScopesInv, UNCHANGED <<parent, scopes, showing, checked, wanted>>, showing,
         activeFilterField' \in Field \cup {NoField}, checkedFilterFields' \subseteq Field,
         shown' = buildFilterScopeTreeEntry(activeFilterField', checkedFilterFields')
  PROVE  ScopesInv'
<1>1. shown' = {leaf \in TreeCharts \X EditingList(activeFilterField', checkedFilterFields') :
                  leaf[1] \in checked[leaf[2]]}
  BY DEF buildFilterScopeTreeEntry
<1>2. EditingList(activeFilterField', checkedFilterFields') \subseteq Field
  BY DEF EditingList
<1>3. ScopesTypeOK'
  BY <1>1, <1>2 DEF ScopesInv, ScopesTypeOK, Layouts, Scope
<1>4. ASSUME NEW g \in EditingList(activeFilterField', checkedFilterFields')
      PROVE  checked[g] = Displayed(g)'
  <2>1. g \in Field /\ checked[g] \subseteq TreeCharts /\ checked[g] \cap Own(g) = {}
    BY <1>2, <1>4 DEF ScopesInv, ScopesTypeOK
  <2>2. \A c \in TreeCharts : <<c, g>> \in shown' <=> c \in checked[g]
    BY <1>1, <1>4
  <2>3. Displayed(g)' = {c \in TreeCharts : <<c, g>> \in shown'} \ Own(g)
    BY DEF Displayed, Own
  <2> QED BY <2>1, <2>2, <2>3
<1>5. FewTabsBesideCharts' = FewTabsBesideCharts
  BY DEF FewTabsBesideCharts, ChartsIn, TabsIn
<1> QED BY <1>3, <1>4, <1>5 DEF ScopesInv, EditingList

\* What the user checks, the tree shows, and of the tree the scopes are made.
LEMMA CheckStep ==
  ASSUME ScopesInv, NEW under \in SUBSET TreeCharts, NEW on \in BOOLEAN,
         onCheckFilterScope(under, on)
  PROVE  ScopesInv'
<1> DEFINE fields == EditingList(activeFilterField, checkedFilterFields)
<1>1. /\ shown' = IF on THEN shown \cup (under \X fields) ELSE shown \ (under \X fields)
      /\ checked' = getRevertedFilterScope(shown', fields)
      /\ wanted' = [f \in Field |->
                      IF f \notin fields THEN wanted[f]
                      ELSE IF on THEN wanted[f] \cup (under \ Own(f)) ELSE wanted[f] \ under]
      /\ UNCHANGED <<parent, scopes, showing, activeFilterField, checkedFilterFields>>
      /\ showing
  BY DEF onCheckFilterScope
<1>2. fields \subseteq Field
  BY EditedAreFields
<1>3. \A f \in Field : checked'[f] = IF f \in fields THEN Displayed(f)' ELSE checked[f]
  BY <1>1 DEF getRevertedFilterScope, Displayed, Own
<1>4. ScopesTypeOK'
  <2>1. shown' \subseteq TreeCharts \X Field
    <3>1. under \X fields \subseteq TreeCharts \X Field
      BY <1>2
    <3> HIDE DEF fields
    <3> QED BY <1>1, <3>1 DEF ScopesInv, ScopesTypeOK
  <2>2. checked' \in [Field -> SUBSET TreeCharts]
    BY <1>1 DEF getRevertedFilterScope, ScopesInv, ScopesTypeOK
  <2>3. wanted' \in [Field -> SUBSET TreeCharts]
    <3> HIDE DEF fields
    <3> QED BY <1>1 DEF ScopesInv, ScopesTypeOK
  <2> HIDE DEF fields
  <2> QED BY <2>1, <2>2, <2>3, <1>1 DEF ScopesInv, ScopesTypeOK, Layouts, Scope
<1>5. \A f \in Field : checked'[f] \cap Own(f) = {}
  BY <1>3 DEF Displayed, ScopesInv, Own
<1>6. \A f \in fields : checked'[f] = Displayed(f)'
  BY <1>2, <1>3
<1>7. ASSUME FewTabsBesideCharts, NEW f \in Field PROVE checked'[f] = wanted'[f]
  <2>1. checked[f] = wanted[f] /\ checked[f] \cap Own(f) = {}
    BY <1>1, <1>7 DEF ScopesInv
  <2>2. CASE f \notin fields
    BY <2>1, <2>2, <1>1, <1>3
  <2>3. CASE f \in fields
    <3>1. checked[f] = {c \in TreeCharts : <<c, f>> \in shown} \ Own(f)
      BY <2>3 DEF ScopesInv, Displayed
    <3>2. checked'[f] = {c \in TreeCharts : <<c, f>> \in shown'} \ Own(f)
      BY <2>3, <1>3 DEF Displayed, Own
    <3>3. \A c \in TreeCharts : <<c, f>> \in shown' <=>
             IF on THEN <<c, f>> \in shown \/ c \in under ELSE <<c, f>> \in shown /\ c \notin under
      <4> HIDE DEF fields
      <4> QED BY <2>3, <1>1
    <3>4. wanted'[f] = IF on THEN wanted[f] \cup (under \ Own(f)) ELSE wanted[f] \ under
      <4> HIDE DEF fields
      <4> QED BY <2>3, <1>1
    <3>5. CASE on
      BY <3>1, <3>2, <3>3, <3>4, <3>5, <2>1
    <3>6. CASE ~on
      BY <3>1, <3>2, <3>3, <3>4, <3>6, <2>1
    <3> QED BY <3>5, <3>6
  <2> QED BY <2>2, <2>3
<1>8. FewTabsBesideCharts' = FewTabsBesideCharts /\ showing' /\ fields' = fields
  BY <1>1 DEF FewTabsBesideCharts, ChartsIn, TabsIn
<1> HIDE DEF fields
<1> QED BY <1>4, <1>5, <1>6, <1>7, <1>8 DEF ScopesInv, fields

LEMMA SaveStep ==
  ASSUME ScopesInv, onSave
  PROVE  ScopesInv'
<1> USE DEF onSave, Closed
<1>1. parent \in Layouts /\ checked \in [Field -> SUBSET TreeCharts]
  BY DEF ScopesInv, ScopesTypeOK
<1>2. \A f \in Field : scopes'[f] = getFilterScopeFromNodesTree(f, checked[f])
  OBVIOUS
<1>3. scopes' \in [Field -> Scope]
  BY <1>1, ScopeTyped
<1>4. ScopesTypeOK'
  BY <1>3 DEF ScopesInv, ScopesTypeOK, Layouts, Scope
<1>5. EditingList(activeFilterField, checkedFilterFields)' = {}
  BY DEF EditingList
<1>6. FewTabsBesideCharts' = FewTabsBesideCharts
  BY DEF FewTabsBesideCharts, ChartsIn, TabsIn
<1>7. \A n \in Container : ChartsBelow'[n] = ChartsBelow[n]
  BY DEF ChartsBelow, ChartsIn, TabsIn
<1>8. ASSUME NEW f \in Field
      PROVE  Filtered(f)' = getChartIdsInFilterScope(scopes'[f]) \ Own(f)
  <2>1. ChartsBelow' = ChartsBelow
    BY DEF ChartsBelow, ChartsIn, TabsIn
  <2> QED BY <2>1 DEF Filtered, getChartIdsInFilterScope, Own
<1>9. ASSUME FewTabsBesideCharts, NEW f \in Field PROVE Filtered(f)' = wanted'[f]
  <2>1. checked[f] = wanted[f] /\ checked[f] \cap Own(f) = {}
    BY <1>9 DEF ScopesInv
  <2>2. getChartIdsInFilterScope(scopes'[f]) \ Own(f) = checked[f]
    BY <1>1, <1>2, <1>9, <2>1, RoundTrip
  <2> QED BY <1>8, <2>1, <2>2
<1>10. \A f \in Field : checked'[f] \cap Own(f) = {}
  OBVIOUS
<1> QED BY <1>4, <1>5, <1>6, <1>9, <1>10 DEF ScopesInv

LEMMA CloseStep ==
  ASSUME ScopesInv, onClose
  PROVE  ScopesInv'
<1> USE DEF onClose, Closed
<1>1. \A f \in Field : Filtered(f) \in SUBSET TreeCharts
  BY FilteredTyped
<1>2. ScopesTypeOK'
  BY <1>1 DEF ScopesInv, ScopesTypeOK, Layouts, Scope
<1>3. EditingList(activeFilterField, checkedFilterFields)' = {}
  BY DEF EditingList
<1>4. ASSUME NEW f \in Field PROVE Filtered(f)' = wanted'[f]
  <2>1. ChartsBelow' = ChartsBelow
    BY DEF ChartsBelow, ChartsIn, TabsIn
  <2> QED BY <2>1 DEF Filtered, getChartIdsInFilterScope, Own
<1>5. \A f \in Field : checked'[f] \cap Own(f) = {}
  OBVIOUS
<1> QED BY <1>2, <1>3, <1>4, <1>5 DEF ScopesInv

LEMMA ScopesStep == ScopesInv /\ [ScopesNext]_scopeVars => ScopesInv'
<1> SUFFICES ASSUME ScopesInv, [ScopesNext]_scopeVars PROVE ScopesInv'
  OBVIOUS
<1>1. ASSUME NEW f \in Field, OpenSelector(f) PROVE ScopesInv'
  BY <1>1, OpenStep
<1>2. ASSUME NEW f \in Field, onChangeFilterField(f) PROVE ScopesInv'
  BY <1>2, FieldsStep DEF onChangeFilterField, ScopesInv, ScopesTypeOK
<1>3. ASSUME NEW f \in Field, onCheckFilterField(f) PROVE ScopesInv'
  BY <1>3, FieldsStep DEF onCheckFilterField, ScopesInv, ScopesTypeOK
<1>4. ASSUME NEW c \in TreeCharts, NEW on \in BOOLEAN, onCheckFilterScope({c}, on)
      PROVE  ScopesInv'
  BY <1>4, CheckStep
<1>5. ASSUME NEW n \in Container, NEW on \in BOOLEAN, onCheckFilterScope(ChartsBelow[n], on)
      PROVE  ScopesInv'
  <2>1. ChartsBelow[n] \in SUBSET TreeCharts
    BY BelowAreCharts DEF ScopesInv, ScopesTypeOK
  <2> QED BY <1>5, <2>1, CheckStep
<1>6. CASE UNCHANGED scopeVars
  <2>1. ChartsBelow' = ChartsBelow
    BY <1>6 DEF scopeVars, ChartsBelow, ChartsIn, TabsIn
  <2>2. /\ parent' = parent /\ scopes' = scopes /\ showing' = showing /\ wanted' = wanted
        /\ activeFilterField' = activeFilterField /\ checkedFilterFields' = checkedFilterFields
        /\ checked' = checked /\ shown' = shown
    BY <1>6 DEF scopeVars, dialog
  <2> QED BY <2>1, <2>2 DEF ScopesInv, ScopesTypeOK, Layouts, Scope, EditingList, Displayed,
        Filtered, getChartIdsInFilterScope, FewTabsBesideCharts, ChartsIn, TabsIn, Own
<1> QED BY <1>1, <1>2, <1>3, <1>4, <1>5, <1>6, SaveStep, CloseStep DEF ScopesNext

\* The dialog and the scopes keep their types.
THEOREM ScopesTypeCorrect == ScopesSpec => []ScopesTypeOK
<1>1. ScopesInv => ScopesTypeOK
  BY DEF ScopesInv
<1> QED BY <1>1, InitScopesInv, ScopesStep, PTL DEF ScopesSpec

\* What is checked in the dialog is what the fields filter once it is saved, for any
\* number of tabs and charts, in layouts with few tabs beside charts: the scope that
\* getFilterScopeFromNodesTree makes, getChartIdsInFilterScope reads back as it was meant.
THEOREM ScopesAppliedAsChecked == ScopesSpec => []ScopesAreAsChecked
<1>1. ScopesInv => ScopesAreAsChecked
  BY DEF ScopesInv, ScopesAreAsChecked, AppliesAsChecked
<1> QED BY <1>1, InitScopesInv, ScopesStep, PTL DEF ScopesSpec

=============================================================================
