----------------------------- MODULE SqlLabQuery -----------------------------
(***************************************************************************)
(* The life of one SQL Lab query (superset/sql_lab.py, and sql_json_exec   *)
(* and stop_query of superset/views/core.py).                              *)
(*                                                                         *)
(* A web request creates the row of the query and has it executed, by      *)
(* itself (sync) or by a celery worker (async); the executor runs the      *)
(* statements one after the other on one connection to the database the    *)
(* query is about; other web requests may ask to stop it.  They share the  *)
(* row: each loads it into its own session, computes, and writes back what *)
(* it has changed, so the steps of this module are the loads, the commits, *)
(* and the calls to the database and to the results backend.               *)
(*                                                                         *)
(* Of the data only the number of rows is kept, of the last statement.     *)
(***************************************************************************)
EXTENDS Integers, FiniteSets

CONSTANTS
    Requests,     \* the requests considered, see RequestType
    SQL_MAX_ROW,  \* config.SQL_MAX_ROW
    MaxStops,     \* bound: calls to stop_query, its retries included
    MaxKills,     \* bound: workers killed by the hard time limit
    None          \* Python's None

(***************************************************************************)
(* method is the engine's limit_method; cancels is what its cancel_query   *)
(* ends: nothing without a get_cancel_query_id, the connection (PostgreSQL,*)
(* MySQL), or the statements that run at that moment (Snowflake).          *)
(* queryLimit is the limit the user sent and sqlLimit the one in the SQL;  *)
(* size is the number of rows the table has.                               *)
(***************************************************************************)
RequestType ==
    [mode : {"sync", "async"},
     method : {"force_limit", "wrap_sql", "fetch_many"},
     cancels : {"nothing", "connection", "statements"},
     statements : (Nat \ {0}),
     queryLimit : Int,
     sqlLimit : ((Nat \ {0}) \cup {None}),
     size : Nat]

ASSUME RequestsAssumption == Requests \subseteq RequestType

ASSUME LimitsAssumption ==
    SQL_MAX_ROW \in Nat \ {0} /\ MaxStops \in Nat /\ MaxKills \in Nat

ASSUME NoneAssumption ==
    /\ None \notin Int
    /\ None \notin {"pending", "running", "success", "failed", "stopped"}

VARIABLES
    request,          \* the request
    status,           \* Query.status, None before the row exists
    limit,            \* Query.limit
    limiting_factor,  \* Query.limiting_factor
    cancel_key,       \* whether Query.extra has the cancel_query key
    results_key,      \* whether Query.results_key is set
    backend,          \* rows of the stored results, None when not stored
    web,              \* where the web request is
    worker,           \* where the executor is
    statement,        \* the statement it is at
    increased_limit,  \* its local variable
    data,             \* rows of its result set
    not_limited,      \* its session holds NOT_LIMITED, not yet committed
    connection,       \* its connection to the database
    stopper,          \* where the stop_query request is
    stops,            \* calls to stop_query
    kills             \* workers killed

rowVars == <<status, limit, limiting_factor, cancel_key, results_key>>
localVars == <<statement, increased_limit, data, not_limited>>
stopVars == <<stopper, stops>>
vars == <<request, rowVars, backend, web, worker, localVars, connection,
          stopVars, kills>>

Final == {"success", "failed", "stopped"}
Factors == {"UNKNOWN", "NOT_LIMITED", "DROPDOWN", "QUERY", "QUERY_AND_DROPDOWN"}
WorkerState == {"none", "queued", "loaded", "running", "check", "ready",
                "execute", "raised", "fetched", "committed", "stored", "done",
                "killed"}

TypeOK ==
    /\ request \in Requests
    /\ status \in {None, "pending", "running"} \cup Final
    /\ limit \in Nat \cup {None}
    /\ limiting_factor \in Factors
    /\ cancel_key \in BOOLEAN /\ results_key \in BOOLEAN
    /\ backend \in Nat \cup {None}
    /\ web \in {"start", "created", "sent", "done"}
    /\ worker \in WorkerState
    /\ statement \in 1..request.statements
    /\ increased_limit \in Nat \cup {None}
    /\ data \in Nat \cup {None}
    /\ not_limited \in BOOLEAN
    /\ connection \in {"closed", "open", "killed"}
    /\ stopper \in {"idle", "read", "cancelled"}
    /\ stops \in 0..MaxStops
    /\ kills \in 0..MaxKills

Init ==
    /\ request \in Requests
    /\ status = None
    /\ limit = None
    /\ limiting_factor = "UNKNOWN"
    /\ cancel_key = FALSE
    /\ results_key = FALSE
    /\ backend = None
    /\ web = "start"
    /\ worker = "none"
    /\ statement = 1
    /\ increased_limit = None
    /\ data = None
    /\ not_limited = FALSE
    /\ connection = "closed"
    /\ stopper = "idle"
    /\ stops = 0
    /\ kills = 0

-----------------------------------------------------------------------------
(* The limit of the query, from the user's and the SQL's.                  *)

Smallest(S) == CHOOSE m \in S : \A n \in S : m <= n

Present(S) == S \ {None}

(* Mutant: a negative queryLimit is taken as it is.                        *)
dropdown_limit_unchecked ==
    IF request.queryLimit = 0 THEN SQL_MAX_ROW ELSE request.queryLimit

(* A falsy queryLimit stands for SQL_MAX_ROW, a negative one for zero.     *)
dropdown_limit ==
    IF request.queryLimit = 0 THEN SQL_MAX_ROW
    ELSE IF request.queryLimit < 0 THEN 0 ELSE request.queryLimit

computed_limit == Smallest(Present({request.sqlLimit, dropdown_limit}))

computed_factor ==
    IF request.sqlLimit = None \/ request.sqlLimit > dropdown_limit
    THEN "DROPDOWN"
    ELSE IF request.sqlLimit < dropdown_limit THEN "QUERY"
    ELSE "QUERY_AND_DROPDOWN"

-----------------------------------------------------------------------------
(* sql_json_exec.                                                          *)

CreateQuery ==
    /\ web = "start"
    /\ status' = IF request.mode = "async" THEN "pending" ELSE "running"
    /\ web' = "created"
    /\ UNCHANGED <<request, limit, limiting_factor, cancel_key, results_key,
                   backend, worker, localVars, connection, stopVars, kills>>

(* No access, a template that does not render or has undefined parameters. *)
RejectQuery ==
    /\ web = "created"
    /\ status' = "failed"
    /\ web' = "done"
    /\ UNCHANGED <<request, limit, limiting_factor, cancel_key, results_key,
                   backend, worker, localVars, connection, stopVars, kills>>

(* The limit is in the web request's session when the task is sent.        *)
SendTask ==
    /\ web = "created" /\ request.mode = "async"
    /\ worker' = "queued"
    /\ web' = "sent"
    /\ UNCHANGED <<request, rowVars, backend, localVars, connection, stopVars,
                   kills>>

CommitLimit ==
    /\ limit' = computed_limit
    /\ limiting_factor' = computed_factor

(* The commit at the end of _sql_json_async.                               *)
CommitSent ==
    /\ web = "sent"
    /\ CommitLimit
    /\ web' = "done"
    /\ UNCHANGED <<request, status, cancel_key, results_key, backend, worker,
                   localVars, connection, stopVars, kills>>

(***************************************************************************)
(* delay raises, or the task was sent and task.forget raises: one handler  *)
(* for both.                                                               *)
(***************************************************************************)
SendingFails ==
    /\ \/ web = "created" /\ request.mode = "async"
       \/ web = "sent"
    /\ CommitLimit
    /\ status' = "failed"
    /\ web' = "done"
    /\ UNCHANGED <<request, cancel_key, results_key, backend, worker,
                   localVars, connection, stopVars, kills>>

(* Called directly, get_sql_results begins with a commit of the session.   *)
CallDirectly ==
    /\ web = "created" /\ request.mode = "sync"
    /\ CommitLimit
    /\ worker' = "queued"
    /\ web' = "done"
    /\ UNCHANGED <<request, status, cancel_key, results_key, backend,
                   localVars, connection, stopVars, kills>>

-----------------------------------------------------------------------------
(* get_sql_results and execute_sql_statements.                             *)

(* Mutant: the query can be stopped before it runs.                        *)
get_query_storing_key ==
    /\ worker = "queued"
    /\ worker' = "loaded"
    /\ cancel_key' = (request.cancels # "nothing")
    /\ UNCHANGED <<request, status, limit, limiting_factor, results_key,
                   backend, web, localVars, connection, stopVars, kills>>

get_query ==
    /\ worker = "queued"
    /\ worker' = "loaded"
    /\ UNCHANGED <<request, rowVars, backend, web, localVars, connection,
                   stopVars, kills>>

SetRunning ==
    /\ worker = "loaded"
    /\ status' = "running"
    /\ worker' = "running"
    /\ UNCHANGED <<request, limit, limiting_factor, cancel_key, results_key,
                   backend, web, localVars, connection, stopVars, kills>>

Connect ==
    /\ worker = "running"
    /\ connection' = "open"
    /\ cancel_key' = (request.cancels # "nothing")
    /\ worker' = "check"
    /\ UNCHANGED <<request, status, limit, limiting_factor, results_key,
                   backend, web, localVars, stopVars, kills>>

(* Mutant: the failure is returned and not committed.                       *)
handle_query_error_uncommitted ==
    /\ worker' = "done"
    /\ connection' = "closed"
    /\ UNCHANGED <<request, rowVars, backend, web, localVars, stopVars, kills>>

(* handle_query_error, and the end of the execution: its commit takes      *)
(* along what the session has changed before.                              *)
handle_query_error ==
    /\ status' = "failed"
    /\ results_key' = (worker = "stored")
    /\ limiting_factor' = IF not_limited THEN "NOT_LIMITED" ELSE limiting_factor
    /\ worker' = "done"
    /\ connection' = "closed"
    /\ UNCHANGED <<request, limit, cancel_key, backend, web, localVars, stopVars,
                   kills>>

(***************************************************************************)
(* The exceptions that are recorded without a look at the row: no results  *)
(* backend, an invalid CTAS, no connection, a statement that is not        *)
(* allowed, a commit of the connection or a results backend that fails,    *)
(* and the time limits, which interrupt the executor anywhere (inside the  *)
(* handler of an exception is left out).                                   *)
(***************************************************************************)
FailUnchecked ==
    /\ worker \in {"loaded", "running", "check", "ready", "execute", "fetched",
                   "committed", "stored"}
    /\ handle_query_error

(* The refresh before each statement; it drops what is not committed.      *)
CheckStopped ==
    /\ worker = "check"
    /\ not_limited' = FALSE
    /\ IF status = "stopped"
       THEN worker' = "done" /\ connection' = "closed"
       ELSE worker' = "ready" /\ UNCHANGED connection
    /\ UNCHANGED <<request, rowVars, backend, web, statement, increased_limit,
                   data, stopVars, kills>>

clamped_limit ==
    IF limit = None \/ limit = 0 \/ limit > SQL_MAX_ROW THEN SQL_MAX_ROW ELSE limit

(* Mutant: no row is fetched beyond the limit.                              *)
increased_by_nothing == limit

increased == IF limit = None THEN None ELSE limit + 1

(* The head of execute_sql_statement, up to its commit.                    *)
ApplyLimit ==
    /\ worker = "ready"
    /\ increased_limit' = increased
    /\ limit' = clamped_limit
    /\ worker' = "execute"
    /\ UNCHANGED <<request, status, limiting_factor, cancel_key, results_key,
                   backend, web, statement, data, not_limited, connection,
                   stopVars, kills>>

(***************************************************************************)
(* Rows the database gives: with force_limit the increased limit replaces  *)
(* the one in the SQL, otherwise both count.                               *)
(***************************************************************************)
Fetched ==
    Smallest(Present({request.size, increased_limit,
                      IF request.method = "force_limit" THEN None
                      ELSE request.sqlLimit}))

(* "LIMIT None" is no SQL.                                                 *)
Malformed == request.method = "force_limit" /\ increased_limit = None

(* The extra row is dropped when there is one.                             *)
Returned == IF limit = None \/ Fetched <= limit THEN Fetched ELSE Fetched - 1

Execute ==
    /\ worker = "execute"
    /\ connection = "open" /\ ~Malformed
    /\ data' = Returned
    /\ not_limited' = (limit = None \/ Fetched <= limit)
    /\ worker' = "fetched"
    /\ UNCHANGED <<request, rowVars, backend, web, statement, increased_limit,
                   connection, stopVars, kills>>

(* The database raises: an error, or the connection was terminated.        *)
StatementRaises ==
    /\ worker = "execute"
    /\ worker' = "raised"
    /\ UNCHANGED <<request, rowVars, backend, web, localVars, connection,
                   stopVars, kills>>

HandleException ==
    /\ worker = "raised"
    /\ IF status = "stopped"
       THEN /\ worker' = "done" /\ connection' = "closed"
            /\ UNCHANGED <<request, rowVars, backend, web, localVars, stopVars,
                           kills>>
       ELSE handle_query_error

NextStatement ==
    /\ worker = "fetched" /\ statement < request.statements
    /\ statement' = statement + 1
    /\ worker' = "check"
    /\ UNCHANGED <<request, rowVars, backend, web, increased_limit, data,
                   not_limited, connection, stopVars, kills>>

CommitConnection ==
    /\ worker = "fetched" /\ statement = request.statements
    /\ connection = "open"
    /\ connection' = "closed"
    /\ worker' = "committed"
    /\ UNCHANGED <<request, rowVars, backend, web, localVars, stopVars, kills>>

(* The results of an async query are stored before it is a success.        *)
StoreResults ==
    /\ worker = "committed" /\ request.mode = "async"
    /\ backend' = data
    /\ worker' = "stored"
    /\ UNCHANGED <<request, rowVars, web, localVars, connection, stopVars, kills>>

(* Mutant: success is committed before the results are stored.             *)
ReadyToFinish_before_storing == worker = "committed"

ReadyToFinish ==
    IF request.mode = "async" THEN worker = "stored" ELSE worker = "committed"

Finish ==
    /\ ReadyToFinish
    /\ status' = "success"
    /\ results_key' = (request.mode = "async")
    /\ limiting_factor' = IF not_limited THEN "NOT_LIMITED" ELSE limiting_factor
    /\ worker' = "done"
    /\ UNCHANGED <<request, limit, cancel_key, backend, web, localVars,
                   connection, stopVars, kills>>

(* The hard time limit kills the worker's process.                         *)
Kill ==
    /\ request.mode = "async"
    /\ worker \notin {"none", "queued", "done", "killed"}
    /\ kills < MaxKills
    /\ kills' = kills + 1
    /\ worker' = "killed"
    /\ connection' = "closed"
    /\ UNCHANGED <<request, rowVars, backend, web, localVars, stopVars>>

-----------------------------------------------------------------------------
(* stop_query; each of its retries begins anew.                            *)

(* It goes on unless the query is complete, and raises without a key.      *)
StopRead ==
    /\ status # None
    /\ stopper = "idle" /\ stops < MaxStops
    /\ stops' = stops + 1
    /\ stopper' = IF status \notin {"failed", "success"} /\ cancel_key
                  THEN "read" ELSE "idle"
    /\ UNCHANGED <<request, rowVars, backend, web, worker, localVars,
                   connection, kills>>

(* Of an open connection: it is terminated; or the statement that runs is  *)
(* cancelled, after which the executor uses it no more, but a statement    *)
(* that it is about to send is not.                                        *)
Cancelled ==
    IF request.cancels = "connection" THEN {"killed"}
    ELSE IF worker = "execute" THEN {"killed", "open"} ELSE {"open"}

(* cancel_query; there may be no connection any more.                      *)
CancelQuery ==
    /\ stopper = "read"
    /\ connection' \in IF connection = "open" THEN Cancelled ELSE {connection}
    /\ stopper' = "cancelled"
    /\ UNCHANGED <<request, rowVars, backend, web, worker, localVars, stops,
                   kills>>

(* Mutant: what cancel_query returned is not looked at.                     *)
CancelFails_ignored ==
    /\ stopper = "read"
    /\ stopper' = "cancelled"
    /\ UNCHANGED <<request, rowVars, backend, web, worker, localVars,
                   connection, stops, kills>>

CancelFails ==
    /\ stopper = "read"
    /\ stopper' = "idle"
    /\ UNCHANGED <<request, rowVars, backend, web, worker, localVars,
                   connection, stops, kills>>

CommitStopped ==
    /\ stopper = "cancelled"
    /\ status' = "stopped"
    /\ stopper' = "idle"
    /\ UNCHANGED <<request, limit, limiting_factor, cancel_key, results_key,
                   backend, web, worker, localVars, connection, stops, kills>>

-----------------------------------------------------------------------------
WebStep ==
    \/ CreateQuery \/ RejectQuery \/ SendTask \/ CommitSent \/ SendingFails
    \/ CallDirectly

WorkerStep ==
    \/ get_query \/ SetRunning \/ Connect \/ FailUnchecked
    \/ CheckStopped \/ ApplyLimit \/ Execute \/ StatementRaises
    \/ HandleException \/ NextStatement \/ CommitConnection
    \/ StoreResults \/ Finish

StopStep == StopRead \/ CancelQuery \/ CancelFails \/ CommitStopped

Next == WebStep \/ WorkerStep \/ Kill \/ StopStep

Spec == Init /\ [][Next]_vars

(* The web request and the worker do not stall; the worker's time limits   *)
(* end a statement that would.  Nobody has to stop a query, but a request  *)
(* to do so runs to its end.                                               *)
FairSpec ==
    /\ Spec
    /\ WF_vars(WebStep)
    /\ WF_vars(WorkerStep)
    /\ WF_vars(CancelQuery \/ CancelFails \/ CommitStopped)

-----------------------------------------------------------------------------
(* Properties.                                                             *)

(***************************************************************************)
(* An async query that is a success has its results in the results backend:*)
(* a client that sees the status and asks for the key finds them.  (CREATE *)
(* TABLE AS, which this module leaves out, stores none.)                   *)
(***************************************************************************)
ResultsBeforeSuccess ==
    status = "success" /\ request.mode = "async" => results_key /\ backend # None

(***************************************************************************)
(* A query that has succeeded or was stopped never runs again: a stop      *)
(* cannot be undone by the worker's start.  (One that failed may: see      *)
(* SendingFails.)                                                          *)
(***************************************************************************)
NeverRunsAgain ==
    [][(status \in {"success", "stopped"}) => status' \notin {"pending", "running"}]_vars

(***************************************************************************)
(* The database works on no statement of a query that is shown as stopped, *)
(* where cancelling it ends its connection.  (Snowflake's cancel ends      *)
(* nothing when it falls between the refresh and the execution of a        *)
(* statement, and the query goes on although it is shown as stopped.)      *)
(***************************************************************************)
StoppedRunsNothing ==
    status = "stopped" /\ request.cancels = "connection" => connection # "open"

(***************************************************************************)
(* Of a query executed by the web request itself, with a limit in 1 to     *)
(* SQL_MAX_ROW: it returns as many rows as its statement has, up to the    *)
(* limit, and is marked NOT_LIMITED only when these are all of them.       *)
(***************************************************************************)
OwnRows == Smallest(Present({request.size, request.sqlLimit}))

RowsAreExact ==
    status = "success" /\ request.mode = "sync"
        /\ request.queryLimit \in 1..SQL_MAX_ROW
        => /\ data = Smallest({OwnRows, request.queryLimit})
           /\ limiting_factor = "NOT_LIMITED" => data = OwnRows

(***************************************************************************)
(* A query that runs ends, unless its worker is killed.                    *)
(***************************************************************************)
QueriesEnd ==
    status \in {"pending", "running"} ~> status \in Final \/ worker = "killed"

(***************************************************************************)
(* sql_lab.py:297 "stopping raises expected exceptions which we should     *)
(* skip": a statement that fails because stop_query terminated its         *)
(* connection does not make the query a failure.                           *)
(***************************************************************************)
StoppingIsNoFailure ==
    [][worker = "raised" /\ connection = "killed" => status' # "failed"]_vars
=============================================================================
