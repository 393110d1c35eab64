----------------------------- MODULE SqlLabClient -----------------------------
(***************************************************************************)
(* What a browser page of SQL Lab knows of its queries: it is told by the  *)
(* answers to its requests and by polls, which overtake one another        *)
(* (superset-frontend/src/SqlLab).  The server's part, of which            *)
(* SqlLabQuery has the detail, is the row of each query with the time of   *)
(* its last change.                                                        *)
(*                                                                         *)
(* Left out: what a query returns, the tables and data previews, several   *)
(* tabs, and the storage of tabs.  The age at which a running query is no  *)
(* longer polled for is beyond the clock.                                  *)
(***************************************************************************)
EXTENDS Integers, FiniteSets, SequencesExt

CONSTANTS
    NQueries,
    Settings,               \* whether the database runs queries asynchronously, how
                            \* far the browser's clock is ahead, and bounds: queries
                            \* that the user runs and stops, polls on the way,
                            \* validations of the text in the editor
    QUERY_UPDATE_BUFFER,    \* what is subtracted from the time polled for
    Lag,                    \* how long the answer to a poll may take
    Times                   \* bound: the server's clock runs from 0 to Times

ASSUME SqlLabClientAssumption ==
    /\ {NQueries, QUERY_UPDATE_BUFFER, Lag, Times} \subseteq Nat
    /\ Settings \subseteq [runAsync : BOOLEAN, runs : 0..NQueries,
                           stoppable : SUBSET (1..NQueries), polls : Nat,
                           validations : Nat, skew : Nat]

VARIABLES
    setting,
    row,                \* the server's rows
    time,               \* the server's clock
    queries,            \* the page's store
    queriesLastUpdate,
    post, stop, fetch,  \* for each query the requests sql_json, stop_query, results
    polls,              \* answers to polls on the way, in the order they were sent
    validation,         \* validationResult of the editor
    validating          \* validations on the way

labVars == <<setting, row, time, queries, queriesLastUpdate, post, stop, fetch, polls,
             validation, validating>>

Queries == 1..NQueries
Ended == {"success", "failed", "stopped"}
Running == {"pending", "running", "fetching"}

runAsync == setting.runAsync
NoRow == [state |-> "none", changedOn |-> 0]

LabTypeOK ==
    /\ setting \in Settings /\ time \in 0..Times
    /\ row \in [Queries -> [state : {"none", "running"} \cup Ended, changedOn : 0..Times]]
    /\ queries \in [Queries -> {"none"} \cup Running \cup Ended]
    /\ queriesLastUpdate \in 0..(Times + setting.skew)
    /\ {post, stop, fetch} \subseteq [Queries -> {"none", "sent", "ok", "error"}]
    /\ Len(polls) <= setting.polls
    /\ {validation.id, validation.of} \subseteq 0..setting.validations
    /\ validating \subseteq 1..setting.validations

LabInit ==
    /\ setting \in Settings
    /\ row = [q \in Queries |-> NoRow]
    /\ time = 0
    /\ queries = [q \in Queries |-> "none"]
    /\ queriesLastUpdate = setting.skew
    /\ post = [q \in Queries |-> "none"] /\ stop = post /\ fetch = post
    /\ polls = <<>>
    /\ validation = [id |-> 0, of |-> 0]
    /\ validating = {}

server == <<row, time>>
requests == <<post, stop, fetch, polls>>
editor == <<validation, validating>>

-----------------------------------------------------------------------------
(* Running a query *)

\* Queries are run one after the other, as their ids are drawn.
runQuery(q) ==
    /\ q <= setting.runs
    /\ queries[q] = "none" /\ \A p \in 1..(q - 1) : queries[p] # "none"
    /\ queries' = [queries EXCEPT ![q] = IF runAsync THEN "pending" ELSE "running"]
    /\ post' = [post EXCEPT ![q] = "sent"]
    /\ UNCHANGED <<setting, server, queriesLastUpdate, stop, fetch, polls, editor>>

Changed(q, state) == row' = [row EXCEPT ![q] = [state |-> state, changedOn |-> time]]

\* The row is inserted; an asynchronous query is answered at once.
sql_json(q) ==
    /\ post[q] = "sent" /\ row[q].state = "none"
    /\ Changed(q, "running")
    /\ post' = IF runAsync THEN [post EXCEPT ![q] = "ok"] ELSE post
    /\ UNCHANGED <<setting, time, queries, queriesLastUpdate, stop, fetch, polls, editor>>

\* The query ends on the server, and a synchronous one is answered.
execute_sql_statements(q) ==
    /\ row[q].state = "running"
    /\ \E state \in {"success", "failed"} :
         /\ Changed(q, state)
         /\ post' = IF runAsync THEN post
                    ELSE [post EXCEPT ![q] = IF state = "success" THEN "ok" ELSE "error"]
    /\ UNCHANGED <<setting, time, queries, queriesLastUpdate, stop, fetch, polls, editor>>

\* A synchronous query that was stopped is answered with an error.
stopped_answer(q) ==
    /\ ~runAsync /\ row[q].state = "stopped" /\ post[q] = "sent"
    /\ post' = [post EXCEPT ![q] = "error"]
    /\ UNCHANGED <<setting, server, queries, queriesLastUpdate, stop, fetch, polls, editor>>

\* The reducer's check is of the object that was dispatched with the request,
\* whose state remains as it was then, running or fetching.
QUERY_ENDED(q, state) == queries' = [queries EXCEPT ![q] = state]

PostAnswered(q) ==
    /\ post[q] \in {"ok", "error"}
    /\ post' = [post EXCEPT ![q] = "none"]
    /\ IF post[q] = "error" THEN QUERY_ENDED(q, "failed")
       ELSE IF runAsync THEN UNCHANGED queries
       ELSE QUERY_ENDED(q, "success")
    /\ UNCHANGED <<setting, server, queriesLastUpdate, stop, fetch, polls, editor>>

\* An asynchronous query's results, which the page asks for when it learns where
\* they are.
FetchAnswered(q) ==
    /\ fetch[q] = "sent"
    /\ fetch' = [fetch EXCEPT ![q] = "none"]
    /\ \E state \in {"success", "failed"} : QUERY_ENDED(q, state)
    /\ UNCHANGED <<setting, server, queriesLastUpdate, post, stop, polls, editor>>

-----------------------------------------------------------------------------
(* Stopping it *)

latestQuery == {q \in Queries : queries[q] # "none"
                                /\ \A p \in Queries : p > q => queries[p] = "none"}

postStopQuery(q) ==
    /\ q \in latestQuery \cap setting.stoppable /\ queries[q] \in {"running", "pending"} /\ stop[q] = "none"
    /\ stop' = [stop EXCEPT ![q] = "sent"]
    /\ UNCHANGED <<setting, server, queries, queriesLastUpdate, post, fetch, polls, editor>>

\* (mutant) That the query could not be cancelled is not reported.
stop_query_ignoring_errors(q) ==
    /\ stop[q] = "sent"
    /\ stop' = [stop EXCEPT ![q] = "ok"]
    /\ \/ row[q].state = "running" /\ Changed(q, "stopped")
       \/ UNCHANGED row
    /\ UNCHANGED <<setting, time, queries, queriesLastUpdate, post, fetch, polls, editor>>

\* stop_query: without a row, or when it cannot cancel the query, it fails.
stop_query(q) ==
    /\ stop[q] = "sent"
    /\ \/ /\ stop' = [stop EXCEPT ![q] = "ok"]
          /\ IF row[q].state = "running" THEN Changed(q, "stopped")
             ELSE row[q].state # "none" /\ UNCHANGED row
       \/ row[q].state \in {"none", "running"} /\ UNCHANGED row
          /\ stop' = [stop EXCEPT ![q] = "error"]
    /\ UNCHANGED <<setting, time, queries, queriesLastUpdate, post, fetch, polls, editor>>

StopAnswered(q) ==
    /\ stop[q] \in {"ok", "error"}
    /\ stop' = [stop EXCEPT ![q] = "none"]
    /\ queries' = IF stop[q] = "ok" THEN [queries EXCEPT ![q] = "stopped"] ELSE queries
    /\ UNCHANGED <<setting, server, queriesLastUpdate, post, fetch, polls, editor>>

-----------------------------------------------------------------------------
(* Polling *)

shouldCheckForQueries == \E q \in Queries : queries[q] \in Running

\* (mutant) A poll asks for what changed since the last change that is known.
poll_without_buffer == queriesLastUpdate

since == queriesLastUpdate - QUERY_UPDATE_BUFFER

\* Timer and queries_exec: the rows are read when the timer ticks, whether or not
\* earlier polls were answered, and it is the answer that takes its time.
stopwatch ==
    /\ shouldCheckForQueries
    /\ Len(polls) < setting.polls
    /\ polls' = Append(polls,
         [taken |-> time,
          rows |-> [q \in Queries |->
                      IF row[q].state # "none" /\ row[q].changedOn >= since
                      THEN row[q] ELSE NoRow]])
    /\ UNCHANGED <<setting, server, queries, queriesLastUpdate, post, stop, fetch, editor>>

Altered(p) ==
    {q \in Queries : polls[p].rows[q] # NoRow /\ queries[q] \notin {"stopped", "failed"}}

\* REFRESH_QUERIES; a query whose results have become available to the page is
\* fetched at once.
refreshQueries(p) ==
    LET rows == polls[p].rows
        known == Altered(p)
        fetched == {q \in known : runAsync /\ rows[q].state = "success"
                                   /\ queries[q] \in {"pending", "running"}}
    IN  /\ p \in DOMAIN polls
        /\ polls' = RemoveAt(polls, p)
        /\ queries' = [q \in Queries |-> IF q \in fetched THEN "fetching"
                                         ELSE IF q \in known THEN rows[q].state
                                         ELSE queries[q]]
        /\ fetch' = [q \in Queries |-> IF q \in fetched THEN "sent" ELSE fetch[q]]
        /\ queriesLastUpdate' =
             CHOOSE t \in {queriesLastUpdate} \cup {rows[q].changedOn : q \in known} :
               \A u \in {queriesLastUpdate} \cup {rows[q].changedOn : q \in known} : t >= u
        /\ UNCHANGED <<setting, server, post, stop, editor>>

\* A poll fails or its timeout passes.
PollLost(p) ==
    /\ polls' = RemoveAt(polls, p)
    /\ UNCHANGED <<setting, server, queries, queriesLastUpdate, post, stop, fetch, editor>>

\* Time passes, and no poll is overly late.
Elapse ==
    /\ time < Times
    /\ \A p \in DOMAIN polls : time < polls[p].taken + Lag
    /\ time' = time + 1
    /\ UNCHANGED <<setting, row, queries, queriesLastUpdate, requests, editor>>

-----------------------------------------------------------------------------
(* Validating the text in the editor *)

validateQuery ==
    LET id == validation.id + 1
    IN  /\ id <= setting.validations
        /\ validation' = [id |-> id, of |-> 0]
        /\ validating' = validating \cup {id}
        /\ UNCHANGED <<setting, server, queries, queriesLastUpdate, requests>>

\* (mutant) Any answer is taken.
takes_any(id) == TRUE

IsLatestValidation(id) == validation.id = id

\* of is the request that the errors shown are an answer to.
queryValidationReturned(id) ==
    /\ id \in validating
    /\ validating' = validating \ {id}
    /\ validation' = IF IsLatestValidation(id) THEN [validation EXCEPT !.of = id]
                     ELSE validation
    /\ UNCHANGED <<setting, server, queries, queriesLastUpdate, requests>>

\* A query goes on, on the server or with the answer to a request.
QueryStep(q) == \/ sql_json(q) \/ execute_sql_statements(q) \/ stopped_answer(q)
                \/ PostAnswered(q) \/ FetchAnswered(q)
AnswerStep == \E p \in DOMAIN polls : refreshQueries(p) \/ PollLost(p)

LabNext ==
    \/ \E q \in Queries :
         \/ runQuery(q) \/ QueryStep(q)
         \/ postStopQuery(q) \/ stop_query(q) \/ StopAnswered(q)
    \/ stopwatch \/ AnswerStep
    \/ Elapse
    \/ validateQuery \/ \E id \in validating : queryValidationReturned(id)

LabSpec == LabInit /\ [][LabNext]_labVars

\* A query goes on, the timer ticks, and the latest poll is answered again and again.
LabFairSpec ==
    /\ LabSpec
    /\ \A q \in Queries : WF_labVars(QueryStep(q))
    /\ WF_labVars(stopwatch) /\ SF_labVars(refreshQueries(Len(polls)))

-----------------------------------------------------------------------------
(***************************************************************************)
(* The page learns the end of each query, although it may miss answers of  *)
(* polls and get them out of order, so that a query that has ended runs    *)
(* again in the store: as long as neither the age of an answer nor the lead*)
(* of the browser's clock exceeds the buffer, the next poll asks far enough*)
(* back.                                                                   *)
(***************************************************************************)
EndIsLearnt ==
    \A q \in Queries : (row[q].state \in Ended) ~> (queries[q] \in Ended)

(***************************************************************************)
(* A query is shown as stopped only when nothing runs it any more.         *)
(***************************************************************************)
StoppedHasEnded ==
    \A q \in Queries : queries[q] = "stopped" => row[q].state \in Ended

(***************************************************************************)
(* sqlLab.js:194 "If the server is very slow about answering us, we might  *)
(* get validation responses back out of order": the errors in the editor   *)
(* are those of the text that was sent last.                               *)
(***************************************************************************)
ValidationIsOfLatest ==
    validation.of # 0 => validation.of = validation.id

(***************************************************************************)
(* Whatever answers come late or fail, what the page shows of a stop and of*)
(* the text in the editor is so.                                           *)
(***************************************************************************)
LateAnswersDoNotMislead == StoppedHasEnded /\ ValidationIsOfLatest
=============================================================================
