------------------------------- MODULE MCCharts -------------------------------
(***************************************************************************)
(* Small instances, for TLC, of how charts get their data in the browser:  *)
(* the queries of a dashboard's charts (ChartQueries), and the events by   *)
(* which a tab learns that an asynchronous one is done (AsyncEvents).  The *)
(* two are explored each by itself: `part` says which one runs, and the    *)
(* other one rests.                                                        *)
(***************************************************************************)
EXTENDS AsyncEvents, ChartQueries

CONSTANTS c1, c2  \* two charts

VARIABLE part

pageVars == <<part, vars, chartVars>>

\* A tab of a dashboard, or a filter's scope, holds one chart or both.
SomeCharts == {{c1}, {c1, c2}}

\* The charts have been answered without annotations.
ChartsAtRest ==
  /\ activeFilters = [f \in Filters |-> [value |-> NoValue, scope |-> Charts]]
  /\ appliedFilters = activeFilters
  /\ visible = Charts /\ editMode = FALSE /\ missed = {} /\ actions = 0
  /\ charts = [c \in Charts |->
        [triggerQuery |-> FALSE, chartStatus |-> "updated", started |-> 1,
         latestQueryFormData |-> {}, flying |-> {}, queriesResponse |-> 1,
         annotationQuery |-> 0, annotationData |-> 0]]

PageInit ==
  /\ Init
  /\ \/ part = "events" /\ ChartsAtRest
     \/ part = "charts" /\ ChartInit /\ transport = "polling"

EventsStep == part = "events" /\ Next /\ UNCHANGED <<part, chartVars>>
ChartStep == part = "charts" /\ ChartNext /\ UNCHANGED <<part, vars>>
PageNext == EventsStep \/ ChartStep

\* The fairness of the part explored.
Events(A) == part = "events" /\ A /\ UNCHANGED <<part, chartVars>>
Chart(A) == part = "charts" /\ A /\ UNCHANGED <<part, vars>>

PageFairness ==
  /\ WF_pageVars(Events(SettleStep)) /\ WF_pageVars(Events(TimerStep))
  /\ WF_pageVars(Events(loadEventsFromApi)) /\ WF_pageVars(Events(AnswerPoll))
  /\ WF_pageVars(Events(ProcessPoll)) /\ WF_pageVars(Events(CallXread))
  /\ WF_pageVars(Events(ReturnXread)) /\ WF_pageVars(Events(Receive))
  /\ \A c \in Charts : WF_pageVars(Chart(Answered(c)))

PageSpec == PageInit /\ [][PageNext]_pageVars /\ PageFairness

\* Both parts keep their types: whatever arrives in whatever order, retries
\* stay below MAX_RETRIES and what a chart shows answers a request of its own.
PageTypeOK == TypeOK /\ ChartTypeOK
===============================================================================
