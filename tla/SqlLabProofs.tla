---------------------------- MODULE SqlLabProofs ----------------------------
(***************************************************************************)
(* Theorems about a query of SQL Lab (SqlLabQuery), then about the page    *)
(* that shows queries (SqlLabClient), then about the page's tabs           *)
(* (SqlLabTabs).                                                           *)
(***************************************************************************)
EXTENDS SqlLabQuery, SqlLabClient, SqlLabTabs, FiniteSetTheorems,
        WellFoundedInduction, TLAPS

(***************************************************************************)
(* Proofs about SqlLabQuery, for any requests, any SQL_MAX_ROW and any     *)
(* number of stops and of killed workers: the types, and the three safety  *)
(* properties of a stop and of a success.  They rest on one inductive      *)
(* invariant, IInv.                                                        *)
(***************************************************************************)
(* A worker exists from the task's sending on, and the row before it.      *)
InOrder ==
    /\ web = "start" => status = None
    /\ web \in {"start", "created"} => worker = "none"

(* The query can be stopped once the executor has its connection, which it *)
(* opens but once.                                                         *)
StopNeedsKey ==
    /\ cancel_key => worker \notin {"none", "queued", "loaded", "running"}
    /\ stopper # "idle" => cancel_key
    /\ status = "stopped" => cancel_key

(* From cancel_query to the commit of "stopped" the connection stays gone, *)
(* if it is the connection that is ended.                                  *)
CancelledRunsNothing ==
    stopper = "cancelled" /\ request.cancels = "connection" => connection # "open"

(* Only an executor that is done leaves a success.                         *)
SuccessIsLast == status = "success" => worker = "done"

(* What is stored, and what success is committed after.                    *)
DataBeforeSuccess ==
    /\ worker \in {"fetched", "committed", "stored"} => data # None
    /\ worker = "stored" => backend # None

Ordered ==
    /\ InOrder
    /\ StopNeedsKey
    /\ CancelledRunsNothing
    /\ StoppedRunsNothing
    /\ SuccessIsLast
    /\ DataBeforeSuccess
    /\ ResultsBeforeSuccess

IInv == TypeOK /\ Ordered

-----------------------------------------------------------------------------
(* The helpers.                                                            *)

(* The least of a number and two that may be absent is a number.           *)
LEMMA SmallestOfThree ==
    ASSUME NEW a \in Nat, NEW b \in Nat \cup {None}, NEW c \in Nat \cup {None}
    PROVE  Smallest(Present({a, b, c})) \in Nat
<1> DEFINE S == Present({a, b, c})
<1>1. S \subseteq Nat /\ a \in S
    BY NoneAssumption DEF Present
<1>2. \E m \in S : \A n \in S : m <= n
    <2>1. CASE b = None /\ c = None
        <3>1. S = {a}
            BY <2>1, NoneAssumption DEF Present
        <3> QED BY <3>1
    <2>2. CASE b = None /\ c # None
        <3>1. S = {a, c}
            BY <2>2, NoneAssumption DEF Present
        <3> QED BY <3>1, <2>2
    <2>3. CASE b # None /\ c = None
        <3>1. S = {a, b}
            BY <2>3, NoneAssumption DEF Present
        <3> QED BY <3>1, <2>3
    <2>4. CASE b # None /\ c # None
        <3>1. S = {a, b, c}
            BY <2>4, NoneAssumption DEF Present
        <3> QED BY <3>1, <2>4
    <2> QED BY <2>1, <2>2, <2>3, <2>4
<1>3. Smallest(S) \in S
    BY <1>2 DEF Smallest
<1> QED BY <1>1, <1>3

(* Every request has the fields of its type.                               *)
LEMMA RequestTyped ==
    ASSUME TypeOK
    PROVE  request \in RequestType
BY RequestsAssumption DEF TypeOK

(* The limit that is committed is a number, and the clamped one too.       *)
LEMMA LimitTyped ==
    ASSUME TypeOK
    PROVE  computed_limit \in Nat /\ computed_factor \in Factors
<1>1. request.queryLimit \in Int /\ request.sqlLimit \in Nat \cup {None}
    BY RequestTyped DEF RequestType
<1>2. dropdown_limit \in Nat
    BY <1>1, LimitsAssumption DEF dropdown_limit
<1>3. Present({request.sqlLimit, dropdown_limit})
        = Present({dropdown_limit, request.sqlLimit, request.sqlLimit})
    BY DEF Present
<1>4. computed_limit \in Nat
    BY <1>1, <1>2, <1>3, SmallestOfThree DEF computed_limit
<1>5. computed_factor \in Factors
    BY DEF computed_factor, Factors
<1> QED BY <1>4, <1>5

(* What is fetched and what is returned are numbers of rows.               *)
LEMMA RowsTyped ==
    ASSUME TypeOK
    PROVE  Returned \in Nat
<1>1. request.size \in Nat /\ request.sqlLimit \in Nat \cup {None}
    BY RequestTyped DEF RequestType
<1>2. Fetched \in Nat
    BY <1>1, SmallestOfThree DEF Fetched, TypeOK
<1>3. limit \in Nat \cup {None}
    BY DEF TypeOK
<1> QED BY <1>2, <1>3, NoneAssumption DEF Returned

-----------------------------------------------------------------------------
(* The invariant holds in the beginning.                                   *)
LEMMA InitIInv == Init => IInv
<1> SUFFICES ASSUME Init PROVE IInv
    OBVIOUS
<1>1. request \in RequestType
    BY RequestsAssumption DEF Init
<1>2. TypeOK
    <2>1. 1 \in 1..request.statements
        BY <1>1 DEF RequestType
    <2>2. stops \in 0..MaxStops /\ kills \in 0..MaxKills
        BY LimitsAssumption DEF Init
    <2> QED BY <2>1, <2>2 DEF Init, TypeOK, Factors, WorkerState
<1>3. InOrder /\ StopNeedsKey /\ CancelledRunsNothing /\ StoppedRunsNothing
    BY NoneAssumption
       DEF Init, InOrder, StopNeedsKey, CancelledRunsNothing, StoppedRunsNothing
<1>4. SuccessIsLast /\ DataBeforeSuccess /\ ResultsBeforeSuccess
    BY NoneAssumption
       DEF Init, SuccessIsLast, DataBeforeSuccess, ResultsBeforeSuccess
<1> QED BY <1>2, <1>3, <1>4 DEF IInv, Ordered

-----------------------------------------------------------------------------
(* The types.                                                              *)

(* The web request writes a row of the right types.                        *)
LEMMA WebTypes == ASSUME TypeOK, WebStep PROVE TypeOK'
<1>1. computed_limit \in Nat /\ computed_factor \in Factors
    BY LimitTyped
<1>2. CASE CreateQuery
    BY <1>2 DEF CreateQuery, TypeOK, localVars, stopVars
<1>3. CASE RejectQuery
    BY <1>3 DEF RejectQuery, TypeOK, localVars, stopVars, Final
<1>4. CASE SendTask
    BY <1>4 DEF SendTask, TypeOK, rowVars, localVars, stopVars, WorkerState
<1>5. CASE CommitSent
    BY <1>1, <1>5 DEF CommitSent, CommitLimit, TypeOK, localVars, stopVars
<1>6. CASE SendingFails
    BY <1>1, <1>6
       DEF SendingFails, CommitLimit, TypeOK, localVars, stopVars, Final
<1>7. CASE CallDirectly
    BY <1>1, <1>7
       DEF CallDirectly, CommitLimit, TypeOK, localVars, stopVars, WorkerState
<1> QED BY <1>2, <1>3, <1>4, <1>5, <1>6, <1>7 DEF WebStep

(* So does the end of an execution that failed,                            *)
LEMMA ErrorTypes == ASSUME TypeOK, handle_query_error PROVE TypeOK'
BY DEF handle_query_error, TypeOK, localVars, stopVars, Final, Factors,
       WorkerState

(* ... every other step of the executor,                                   *)
LEMMA WorkerTypes == ASSUME TypeOK, WorkerStep PROVE TypeOK'
<1> USE DEF WorkerState
<1>1. CASE get_query
    BY <1>1 DEF get_query, TypeOK, rowVars, localVars, stopVars
<1>2. CASE SetRunning
    BY <1>2 DEF SetRunning, TypeOK, localVars, stopVars
<1>3. CASE Connect
    BY <1>3 DEF Connect, TypeOK, localVars, stopVars
<1>4. CASE FailUnchecked
    BY <1>4, ErrorTypes DEF FailUnchecked
<1>5. CASE CheckStopped
    <2>1. /\ worker' \in WorkerState
          /\ connection' \in {"closed", "open", "killed"}
        BY <1>5 DEF CheckStopped, TypeOK
    <2>2. not_limited' \in BOOLEAN
        BY <1>5 DEF CheckStopped
    <2> QED BY <1>5, <2>1, <2>2 DEF CheckStopped, TypeOK, rowVars, stopVars
<1>6. CASE ApplyLimit
    <2>1. limit \in Nat \cup {None}
        BY DEF TypeOK
    <2>2. increased \in Nat \cup {None} /\ clamped_limit \in Nat
        BY <2>1, LimitsAssumption, NoneAssumption DEF increased, clamped_limit
    <2> QED BY <1>6, <2>2 DEF ApplyLimit, TypeOK, stopVars
<1>7. CASE Execute
    BY <1>7, RowsTyped DEF Execute, TypeOK, rowVars, stopVars
<1>8. CASE StatementRaises
    BY <1>8 DEF StatementRaises, TypeOK, rowVars, localVars, stopVars
<1>9. CASE HandleException
    <2>1. CASE status = "stopped"
        BY <1>9, <2>1 DEF HandleException, TypeOK, rowVars, localVars, stopVars
    <2>2. CASE status # "stopped"
        BY <1>9, <2>2, ErrorTypes DEF HandleException
    <2> QED BY <2>1, <2>2
<1>10. CASE NextStatement
    <2>1. request.statements \in Nat \ {0}
        BY RequestTyped DEF RequestType
    <2>2. statement \in 1..request.statements
        BY DEF TypeOK
    <2>3. statement' \in 1..request'.statements
        BY <1>10, <2>1, <2>2 DEF NextStatement
    <2> QED BY <1>10, <2>3 DEF NextStatement, TypeOK, rowVars, stopVars
<1>11. CASE CommitConnection
    BY <1>11 DEF CommitConnection, TypeOK, rowVars, localVars, stopVars
<1>12. CASE StoreResults
    BY <1>12 DEF StoreResults, TypeOK, rowVars, localVars, stopVars
<1>13. CASE Finish
    BY <1>13 DEF Finish, TypeOK, localVars, stopVars, Final, Factors
<1> QED
    BY <1>1, <1>2, <1>3, <1>4, <1>5, <1>6, <1>7, <1>8, <1>9, <1>10, <1>11,
       <1>12, <1>13 DEF WorkerStep

(* ... and stop_query, and the kill of a worker.                           *)
LEMMA StopTypes == ASSUME TypeOK, StopStep \/ Kill PROVE TypeOK'
<1> USE LimitsAssumption DEF TypeOK, rowVars, localVars
<1>1. CASE StopRead
    BY <1>1 DEF StopRead
<1>2. CASE CancelQuery
    BY <1>2 DEF CancelQuery, Cancelled
<1>3. CASE CancelFails
    BY <1>3 DEF CancelFails
<1>4. CASE CommitStopped
    BY <1>4 DEF CommitStopped, Final
<1>5. CASE Kill
    BY <1>5 DEF Kill, stopVars, WorkerState
<1> QED BY <1>1, <1>2, <1>3, <1>4, <1>5 DEF StopStep

(* TypeOK is inductive by itself.                                          *)
LEMMA NextTypes == TypeOK /\ [Next]_vars => TypeOK'
<1> SUFFICES ASSUME TypeOK, [Next]_vars PROVE TypeOK'
    OBVIOUS
<1>1. CASE UNCHANGED vars
    BY <1>1 DEF vars, rowVars, localVars, stopVars, TypeOK
<1> QED BY <1>1, WebTypes, WorkerTypes, StopTypes DEF Next

-----------------------------------------------------------------------------
(* The rest of the invariant.                                              *)

(* The web request hands the query to a worker that has not begun.         *)
LEMMA WebOrder == ASSUME IInv, WebStep PROVE Ordered'
<1> USE NoneAssumption
    DEF IInv, Ordered, InOrder, StopNeedsKey, CancelledRunsNothing,
        StoppedRunsNothing, SuccessIsLast, DataBeforeSuccess,
        ResultsBeforeSuccess
<1>1. CASE CreateQuery
    BY <1>1 DEF CreateQuery, localVars, stopVars
<1>2. CASE RejectQuery
    BY <1>2 DEF RejectQuery, localVars, stopVars
<1>3. CASE SendTask
    BY <1>3 DEF SendTask, rowVars, localVars, stopVars
<1>4. CASE CommitSent
    BY <1>4 DEF CommitSent, CommitLimit, localVars, stopVars
<1>5. CASE SendingFails
    BY <1>5 DEF SendingFails, CommitLimit, localVars, stopVars
<1>6. CASE CallDirectly
    BY <1>6 DEF CallDirectly, CommitLimit, localVars, stopVars
<1> QED BY <1>1, <1>2, <1>3, <1>4, <1>5, <1>6 DEF WebStep

(* The executor connects once, stores before it succeeds, and then ends.   *)
LEMMA WorkerOrder == ASSUME IInv, WorkerStep \/ Kill PROVE Ordered'
<1> USE NoneAssumption
    DEF IInv, Ordered, InOrder, StopNeedsKey, CancelledRunsNothing,
        StoppedRunsNothing, SuccessIsLast, DataBeforeSuccess,
        ResultsBeforeSuccess
<1>1. CASE get_query
    BY <1>1 DEF get_query, rowVars, localVars, stopVars
<1>2. CASE SetRunning
    BY <1>2 DEF SetRunning, localVars, stopVars
<1>3. CASE Connect
    BY <1>3 DEF Connect, localVars, stopVars
<1>4. CASE FailUnchecked
    BY <1>4 DEF FailUnchecked, handle_query_error, localVars, stopVars
<1>5. CASE CheckStopped
    BY <1>5 DEF CheckStopped, rowVars, stopVars
<1>6. CASE ApplyLimit
    BY <1>6 DEF ApplyLimit, stopVars
<1>7. CASE Execute
    BY <1>7, RowsTyped DEF Execute, rowVars, stopVars
<1>8. CASE StatementRaises
    BY <1>8 DEF StatementRaises, rowVars, localVars, stopVars
<1>9. CASE HandleException
    BY <1>9
       DEF HandleException, handle_query_error, rowVars, localVars, stopVars
<1>10. CASE NextStatement
    BY <1>10 DEF NextStatement, rowVars, stopVars
<1>11. CASE CommitConnection
    BY <1>11 DEF CommitConnection, rowVars, localVars, stopVars
<1>12. CASE StoreResults
    BY <1>12 DEF StoreResults, rowVars, localVars, stopVars
<1>13. CASE Finish
    BY <1>13 DEF Finish, ReadyToFinish, localVars, stopVars
<1>14. CASE Kill
    BY <1>14 DEF Kill, rowVars, localVars, stopVars
<1> QED
    BY <1>1, <1>2, <1>3, <1>4, <1>5, <1>6, <1>7, <1>8, <1>9, <1>10, <1>11,
       <1>12, <1>13, <1>14 DEF WorkerStep

(* stop_query commits after the connection is gone, which has a key.       *)
LEMMA StopOrder == ASSUME IInv, StopStep PROVE Ordered'
<1> USE NoneAssumption
    DEF IInv, Ordered, InOrder, StopNeedsKey, CancelledRunsNothing,
        StoppedRunsNothing, SuccessIsLast, DataBeforeSuccess,
        ResultsBeforeSuccess
<1>1. CASE StopRead
    BY <1>1 DEF StopRead, rowVars, localVars
<1>2. CASE CancelQuery
    BY <1>2 DEF CancelQuery, Cancelled, rowVars, localVars
<1>3. CASE CancelFails
    BY <1>3 DEF CancelFails, rowVars, localVars
<1>4. CASE CommitStopped
    BY <1>4 DEF CommitStopped, localVars
<1> QED BY <1>1, <1>2, <1>3, <1>4 DEF StopStep

(* Every step preserves the invariant.                                     *)
LEMMA NextIInv == IInv /\ [Next]_vars => IInv'
<1> SUFFICES ASSUME IInv, [Next]_vars PROVE IInv'
    OBVIOUS
<1>1. TypeOK'
    BY NextTypes DEF IInv
<1>2. Ordered'
    <2>1. CASE UNCHANGED vars
        BY <2>1 DEF vars, rowVars, localVars, stopVars, IInv, Ordered, InOrder,
           StopNeedsKey, CancelledRunsNothing, StoppedRunsNothing,
           SuccessIsLast, DataBeforeSuccess, ResultsBeforeSuccess
    <2> QED BY <2>1, WebOrder, WorkerOrder, StopOrder DEF Next
<1> QED BY <1>1, <1>2 DEF IInv

-----------------------------------------------------------------------------
(* The theorems.                                                           *)

(* Every variable keeps its type: in particular no limit and no number of  *)
(* rows is ever negative (sql_lab.py, execute_sql_statement).              *)
THEOREM TypeCorrect == Spec => []TypeOK
<1>1. Init => TypeOK
    BY InitIInv DEF IInv
<1> QED BY <1>1, NextTypes, PTL DEF Spec

(* The invariant holds in every state.                                     *)
LEMMA Invariance == Spec => []IInv
BY InitIInv, NextIInv, PTL DEF Spec

(* An async query is a success only when its results are stored and its    *)
(* row names them (the end of execute_sql_statements).                     *)
THEOREM ResultsAreThere == Spec => []ResultsBeforeSuccess
<1>1. IInv => ResultsBeforeSuccess
    BY DEF IInv, Ordered
<1> QED BY <1>1, Invariance, PTL

(* The database works on no statement of a query shown as stopped          *)
(* (stop_query and the one connection of execute_sql_statements).          *)
THEOREM NothingRunsOnceStopped == Spec => []StoppedRunsNothing
<1>1. IInv => StoppedRunsNothing
    BY DEF IInv, Ordered
<1> QED BY <1>1, Invariance, PTL

(* A success or a stop is never undone by a start (SetRunning and          *)
(* CreateQuery are the only steps to "running" and "pending").             *)
THEOREM NoneRunsAgain == Spec => NeverRunsAgain
<1>1. ASSUME IInv, [Next]_vars, status \in {"success", "stopped"}
      PROVE  status' \notin {"pending", "running"}
    <2> USE <1>1, NoneAssumption DEF IInv, Ordered
    <2>1. CASE CreateQuery
        BY <2>1 DEF CreateQuery, InOrder
    <2>2. CASE SetRunning
        BY <2>2 DEF SetRunning, SuccessIsLast, StopNeedsKey
    <2>3. CASE WebStep /\ ~CreateQuery
        BY <2>3 DEF WebStep, RejectQuery, SendTask, CommitSent, SendingFails,
           CallDirectly, rowVars
    <2>4. CASE WorkerStep /\ ~SetRunning
        BY <2>4 DEF WorkerStep, get_query, Connect, FailUnchecked, CheckStopped,
           ApplyLimit, Execute, StatementRaises, HandleException,
           handle_query_error, NextStatement, CommitConnection, StoreResults,
           Finish, rowVars
    <2>5. CASE Kill \/ StopStep
        BY <2>5 DEF Kill, StopStep, StopRead, CancelQuery, CancelFails,
           CommitStopped, rowVars
    <2>6. CASE UNCHANGED vars
        BY <2>6 DEF vars, rowVars
    <2> QED BY <2>1, <2>2, <2>3, <2>4, <2>5, <2>6 DEF Next
<1>2. IInv /\ [Next]_vars
        => [(status \in {"success", "stopped"})
              => status' \notin {"pending", "running"}]_vars
    BY <1>1
<1> QED BY <1>2, Invariance, PTL DEF Spec, NeverRunsAgain

-----------------------------------------------------------------------------
(* The rows of a sync query: with the limit in 1 to SQL_MAX_ROW it is what *)
(* was computed until the end, one row more is fetched, and the statement  *)
(* has no more rows than were fetched when no row was dropped.             *)

ExactRequest ==
    request.mode = "sync" /\ request.queryLimit \in 1..SQL_MAX_ROW

Exact ==
    /\ data = Smallest({OwnRows, request.queryLimit})
    /\ not_limited => data = OwnRows

RowsInv ==
    ExactRequest =>
        /\ web # "sent"
        /\ worker \notin {"stored", "killed"}
        /\ worker # "none" => web = "done" /\ limit = computed_limit
        /\ worker = "execute" => increased_limit = limit + 1
        /\ worker \in {"fetched", "committed"} => Exact
        /\ worker # "done" => limiting_factor # "NOT_LIMITED"
        /\ RowsAreExact

(* Smallest picks the least element when there is one.                     *)
LEMMA SmallestIs ==
    ASSUME NEW S \in SUBSET Int, NEW m \in S, \A n \in S : m <= n
    PROVE  Smallest(S) = m
<1>1. \A k \in S : (\A n \in S : k <= n) => k = m
    <2> TAKE k \in S
    <2> HAVE \A n \in S : k <= n
    <2> QED OBVIOUS
<1>2. Smallest(S) \in S /\ \A n \in S : Smallest(S) <= n
    BY DEF Smallest
<1> QED BY <1>1, <1>2

(* The least of two numbers, the second of which may be absent.            *)
LEMMA SmallestOfTwo ==
    ASSUME NEW a \in Nat, NEW b \in Nat \cup {None}
    PROVE  Smallest(Present({a, b})) = IF b = None \/ a <= b THEN a ELSE b
<1>1. CASE b = None
    <2>1. Present({a, b}) = {a}
        BY <1>1, NoneAssumption DEF Present
    <2> QED BY <1>1, <2>1, SmallestIs
<1>2. CASE b # None
    <2>1. Present({a, b}) = {a, b} /\ b \in Nat
        BY <1>2, NoneAssumption DEF Present
    <2>2. CASE a <= b
        <3>1. Smallest({a, b}) = a
            BY <2>1, <2>2, SmallestIs
        <3> QED BY <2>1, <2>2, <3>1
    <2>3. CASE ~(a <= b)
        <3>1. Smallest({a, b}) = b
            BY <2>1, <2>3, SmallestIs
        <3> QED BY <1>2, <2>1, <2>3, <3>1
    <2> QED BY <2>2, <2>3
<1> QED BY <1>1, <1>2

(* The least of two numbers and a third that may be absent.                *)
LEMMA SmallestOfTwoAnd ==
    ASSUME NEW a \in Nat, NEW b \in Nat, NEW c \in Nat \cup {None}
    PROVE  Smallest(Present({a, b, c}))
             = IF a <= b THEN Smallest(Present({a, c}))
                         ELSE Smallest(Present({b, c}))
<1> DEFINE S == Present({a, b, c})
<1>1. S \in SUBSET Int /\ S = Present({a, c}) \cup Present({b, c})
    BY NoneAssumption DEF Present
<1>2. CASE c = None
    <2>1. S = {a, b}
        BY <1>2, NoneAssumption DEF Present
    <2>2. Smallest(Present({a, c})) = a /\ Smallest(Present({b, c})) = b
        BY <1>2, SmallestOfTwo
    <2>3. CASE a <= b
        <3>1. Smallest({a, b}) = a
            BY <2>3, SmallestIs
        <3> QED BY <2>1, <2>2, <2>3, <3>1
    <2>4. CASE ~(a <= b)
        <3>1. Smallest({a, b}) = b
            BY <2>4, SmallestIs
        <3> QED BY <2>1, <2>2, <2>4, <3>1
    <2> QED BY <2>3, <2>4
<1>3. CASE c # None
    <2>1. S = {a, b, c} /\ c \in Nat
        BY <1>3, NoneAssumption DEF Present
    <2>2. /\ Smallest(Present({a, c})) = IF a <= c THEN a ELSE c
          /\ Smallest(Present({b, c})) = IF b <= c THEN b ELSE c
        BY <1>3, SmallestOfTwo
    <2> DEFINE m == IF a <= b THEN IF a <= c THEN a ELSE c
                    ELSE IF b <= c THEN b ELSE c
    <2>3. m \in {a, b, c} /\ \A n \in {a, b, c} : m <= n
        BY <2>1
    <2>4. {a, b, c} \in SUBSET Int
        BY <2>1
    <2> HIDE DEF m
    <2>5. Smallest({a, b, c}) = m
        BY <2>3, <2>4, SmallestIs
    <2> QED BY <2>1, <2>2, <2>5 DEF m
<1> QED BY <1>2, <1>3

(* The limit that sql_json_exec computes, and the rows that the statement  *)
(* itself has.                                                             *)
LEMMA LimitIs ==
    ASSUME TypeOK, ExactRequest
    PROVE  /\ request.queryLimit \in Nat /\ request.queryLimit <= SQL_MAX_ROW
           /\ computed_limit \in 1..SQL_MAX_ROW
           /\ computed_limit = IF request.sqlLimit = None
                                   \/ request.queryLimit <= request.sqlLimit
                               THEN request.queryLimit ELSE request.sqlLimit
           /\ OwnRows = IF request.sqlLimit = None
                            \/ request.size <= request.sqlLimit
                        THEN request.size ELSE request.sqlLimit
<1>1. /\ request.queryLimit \in Nat \ {0}
      /\ request.queryLimit <= SQL_MAX_ROW
      /\ request.sqlLimit \in (Nat \ {0}) \cup {None}
      /\ request.size \in Nat
    BY RequestTyped, LimitsAssumption DEF RequestType, ExactRequest
<1>2. dropdown_limit = request.queryLimit
    BY <1>1 DEF dropdown_limit
<1>3. Present({request.sqlLimit, dropdown_limit})
        = Present({request.queryLimit, request.sqlLimit})
    BY <1>2 DEF Present
<1>4. computed_limit = IF request.sqlLimit = None
                          \/ request.queryLimit <= request.sqlLimit
                      THEN request.queryLimit ELSE request.sqlLimit
    <2>1. request.queryLimit \in Nat /\ request.sqlLimit \in Nat \cup {None}
        BY <1>1
    <2>2. computed_limit
            = Smallest(Present({request.queryLimit, request.sqlLimit}))
        BY <1>3 DEF computed_limit
    <2> QED BY <2>1, <2>2, SmallestOfTwo
<1>5. computed_limit \in 1..SQL_MAX_ROW
    BY <1>1, <1>4, LimitsAssumption, NoneAssumption
<1>6. OwnRows = IF request.sqlLimit = None \/ request.size <= request.sqlLimit
                THEN request.size ELSE request.sqlLimit
    BY <1>1, SmallestOfTwo DEF OwnRows
<1> QED BY <1>1, <1>4, <1>5, <1>6

(* A statement returns the rows of the query up to the limit, and not all  *)
(* of them only when a row was dropped.                                    *)
LEMMA ExecuteIsExact ==
    ASSUME TypeOK, ExactRequest, limit = computed_limit,
           increased_limit = limit + 1, Execute
    PROVE  Exact'
<1> DEFINE size == request.size
           sql == request.sqlLimit
           own == IF sql = None \/ size <= sql THEN size ELSE sql
           Q == request.queryLimit
           cap == IF request.method = "force_limit" THEN None ELSE sql
<1>1. /\ size \in Nat /\ sql \in Nat \cup {None} /\ Q \in Nat /\ limit \in Nat
      /\ limit = IF sql = None \/ Q <= sql THEN Q ELSE sql
      /\ OwnRows = own
    BY LimitIs, RequestTyped DEF RequestType
<1>2. cap \in Nat \cup {None}
    BY <1>1
<1>3. Fetched = IF size <= limit + 1
                THEN IF cap = None \/ size <= cap THEN size ELSE cap
                ELSE IF cap = None \/ limit + 1 <= cap THEN limit + 1 ELSE cap
    <2>1. Fetched = Smallest(Present({size, limit + 1, cap}))
        BY DEF Fetched
    <2>2. Smallest(Present({size, cap}))
            = IF cap = None \/ size <= cap THEN size ELSE cap
        BY <1>1, <1>2, SmallestOfTwo
    <2>3. limit + 1 \in Nat
        BY <1>1
    <2> HIDE DEF cap
    <2>4. Smallest(Present({limit + 1, cap}))
            = IF cap = None \/ limit + 1 <= cap THEN limit + 1 ELSE cap
        BY <1>2, <2>3, SmallestOfTwo
    <2> QED BY <1>1, <1>2, <2>1, <2>2, <2>3, <2>4, SmallestOfTwoAnd
<1>4. own \in Nat /\ Smallest({own, Q}) = IF own <= Q THEN own ELSE Q
    <2>1. own \in Nat
        BY <1>1, NoneAssumption
    <2>2. Present({own, Q}) = {own, Q}
        BY <1>1, <2>1, NoneAssumption DEF Present
    <2>3. Q # None
        BY <1>1, NoneAssumption
    <2> QED BY <1>1, <2>1, <2>2, <2>3, SmallestOfTwo
<1>5. Returned = (IF own <= Q THEN own ELSE Q)
      /\ (Fetched <= limit => Returned = own)
    <2>1. Returned = IF Fetched <= limit THEN Fetched ELSE Fetched - 1
        BY <1>1, NoneAssumption DEF Returned
    <2>2. CASE sql = None
        BY <1>1, <1>3, <2>1, <2>2
    <2>3. CASE sql # None /\ cap = None
        BY <1>1, <1>3, <2>1, <2>3
    <2>4. CASE sql # None /\ cap = sql
        BY <1>1, <1>3, <2>1, <2>4
    <2> QED BY <2>2, <2>3, <2>4
<1>6. /\ data' = Returned /\ request' = request
      /\ not_limited' => limit = None \/ Fetched <= limit
    BY DEF Execute
<1>7. OwnRows' = own
    BY <1>1, <1>6 DEF OwnRows
<1> HIDE DEF own, Q
<1>8. Exact' = (data' = Smallest({OwnRows', request'.queryLimit})
                /\ (not_limited' => data' = OwnRows'))
    BY DEF Exact
<1>9. limit # None
    BY <1>1, NoneAssumption
<1> QED BY <1>4, <1>5, <1>6, <1>7, <1>8, <1>9 DEF Q

(* The web request of such a query commits the limit before it calls the   *)
(* executor.                                                               *)
LEMMA WebRows == ASSUME IInv, RowsInv, WebStep PROVE RowsInv'
<1> USE NoneAssumption
    DEF IInv, Ordered, InOrder, SuccessIsLast, RowsInv, ExactRequest, Exact,
        RowsAreExact, OwnRows
<1>1. CASE CreateQuery
    BY <1>1 DEF CreateQuery, localVars, stopVars
<1>2. CASE RejectQuery
    BY <1>2 DEF RejectQuery, localVars, stopVars
<1>3. CASE SendTask
    BY <1>3 DEF SendTask, rowVars, localVars, stopVars
<1>4. CASE CommitSent
    BY <1>4 DEF CommitSent
<1>5. CASE SendingFails
    BY <1>5 DEF SendingFails
<1>6. CASE CallDirectly
    <2>1. computed_factor # "NOT_LIMITED"
        BY DEF computed_factor
    <2>2. computed_limit' = computed_limit
        BY <1>6 DEF CallDirectly, computed_limit, dropdown_limit
    <2> QED
        BY <1>6, <2>1, <2>2 DEF CallDirectly, CommitLimit, localVars, stopVars
<1> QED BY <1>1, <1>2, <1>3, <1>4, <1>5, <1>6 DEF WebStep

(* The executor keeps the limit, fetches one row more, and returns what    *)
(* ExecuteIsExact says.                                                    *)
LEMMA WorkerRows == ASSUME IInv, RowsInv, WorkerStep \/ Kill PROVE RowsInv'
<1> SUFFICES ASSUME ExactRequest' PROVE RowsInv'
    BY DEF RowsInv
<1>0. request' = request /\ ExactRequest /\ TypeOK
    BY DEF IInv, WorkerStep, Kill, get_query, SetRunning, Connect,
       FailUnchecked, handle_query_error, CheckStopped, ApplyLimit, Execute,
       StatementRaises, HandleException, NextStatement, CommitConnection,
       StoreResults, Finish, ExactRequest
<1>a. computed_limit' = computed_limit /\ OwnRows' = OwnRows
    BY <1>0 DEF computed_limit, dropdown_limit, OwnRows
<1> USE <1>0, <1>a
    DEF IInv, Ordered, SuccessIsLast, RowsInv, Exact, RowsAreExact
<1>1. CASE get_query
    BY <1>1 DEF get_query, rowVars, localVars, stopVars
<1>2. CASE SetRunning
    BY <1>2 DEF SetRunning, localVars, stopVars
<1>3. CASE Connect
    BY <1>3 DEF Connect, localVars, stopVars
<1>4. CASE FailUnchecked
    BY <1>4 DEF FailUnchecked, handle_query_error, localVars, stopVars
<1>5. CASE CheckStopped
    BY <1>5 DEF CheckStopped, rowVars, stopVars
<1>6. CASE ApplyLimit
    <2>1. limit \in 1..SQL_MAX_ROW
        BY <1>6, LimitIs DEF ApplyLimit
    <2>2. clamped_limit = limit /\ increased = limit + 1
        BY <2>1, LimitsAssumption, NoneAssumption DEF clamped_limit, increased
    <2> QED BY <1>6, <2>2 DEF ApplyLimit, stopVars
<1>7. CASE Execute
    <2>1. Exact'
        BY <1>7, ExecuteIsExact DEF Execute
    <2> QED BY <1>7, <2>1 DEF Execute, rowVars, stopVars
<1>8. CASE StatementRaises
    BY <1>8 DEF StatementRaises, rowVars, localVars, stopVars
<1>9. CASE HandleException
    BY <1>9
       DEF HandleException, handle_query_error, rowVars, localVars, stopVars
<1>10. CASE NextStatement
    BY <1>10 DEF NextStatement, rowVars, stopVars
<1>11. CASE CommitConnection
    BY <1>11 DEF CommitConnection, rowVars, localVars, stopVars
<1>12. CASE StoreResults
    BY <1>12 DEF StoreResults, ExactRequest
<1>13. CASE Finish
    BY <1>13 DEF Finish, ReadyToFinish, ExactRequest, localVars, stopVars
<1>14. CASE Kill
    BY <1>14 DEF Kill, ExactRequest
<1> QED
    BY <1>1, <1>2, <1>3, <1>4, <1>5, <1>6, <1>7, <1>8, <1>9, <1>10, <1>11,
       <1>12, <1>13, <1>14 DEF WorkerStep

(* A stop changes no rows.                                                 *)
LEMMA StopRows == ASSUME RowsInv, StopStep \/ UNCHANGED vars PROVE RowsInv'
<1>1. /\ UNCHANGED <<request, limit, limiting_factor, web, worker, localVars>>
      /\ status' \in {status, "stopped"}
    BY DEF StopStep, StopRead, CancelQuery, CancelFails, CommitStopped, vars,
       rowVars
<1>2. computed_limit' = computed_limit /\ OwnRows' = OwnRows
    BY <1>1 DEF computed_limit, dropdown_limit, OwnRows
<1> QED BY <1>1, <1>2 DEF RowsInv, ExactRequest, Exact, RowsAreExact, localVars

(* A sync query with a limit in 1 to SQL_MAX_ROW returns as many rows as   *)
(* its statement has, up to the limit, and NOT_LIMITED says that these are *)
(* all: for every limit, every LIMIT of the SQL and every size of the      *)
(* table (execute_sql_statement, with increased_limit).                    *)
THEOREM RowsAreExactAlways == Spec => []RowsAreExact
<1>1. Init => RowsInv
    BY NoneAssumption DEF Init, RowsInv, RowsAreExact
<1>2. IInv /\ RowsInv /\ [Next]_vars => RowsInv'
    BY WebRows, WorkerRows, StopRows DEF Next
<1>3. RowsInv => RowsAreExact
    BY DEF RowsInv, ExactRequest, RowsAreExact
<1> QED BY <1>1, <1>2, <1>3, Invariance, PTL DEF Spec

-----------------------------------------------------------------------------
(***************************************************************************)
(* What a page of SQL Lab shows, for any number of queries, any clock, any *)
(* buffer and any delay of the polls.                                      *)
(*                                                                         *)
(* That a query shown as stopped has ended is not inductive: the page      *)
(* learns of a stop from the answer to its own request and of everything   *)
(* else from polls, and both may have been under way for long.  PageInv    *)
(* says of each answer on its way that what it tells is still so, which    *)
(* holds because a row that has ended stays so (EndIsFinal).               *)
(***************************************************************************)
-----------------------------------------------------------------------------
(* Lemmas about numbers and sequences *)

\* A set of numbers below a bound has a greatest one: the least of the distances to
\* the bound belongs to it.  (The time of the newest row that a poll brought.)
LEMMA GreatestExists ==
  ASSUME NEW n \in Nat, NEW S, S \subseteq 0..n, S # {}
  PROVE  \E t \in S : \A u \in S : t >= u
<1> DEFINE T == {m \in Nat : \E s \in S : s + m = n}
<1>1. T \subseteq Nat /\ T # {}
  <2>1. PICK s \in S : TRUE
    OBVIOUS
  <2>2. n - s \in Nat /\ s + (n - s) = n
    OBVIOUS
  <2> QED BY <2>1, <2>2
<1>2. \E x \in T : \A y \in T : ~ (<<y, x>> \in OpToRel(<, Nat))
  <2> HIDE DEF T
  <2> QED BY <1>1, WFMin, NatLessThanWellFounded
<1>3. PICK x \in T : \A y \in T : ~ (<<y, x>> \in OpToRel(<, Nat))
  BY <1>2
<1>4. \A y \in T : ~ (y < x)
  <2> HIDE DEF T
  <2> QED BY <1>1, <1>3, Zenon DEF OpToRel
<1>5. PICK t \in S : t + x = n
  OBVIOUS
<1>6. ASSUME NEW u \in S PROVE t >= u
  <2>1. n - u \in T
    OBVIOUS
  <2> QED BY <2>1, <1>4, <1>5
<1> QED BY <1>6

\* What is left of a sequence when one of its elements is removed.
LEMMA RemoveAtKeeps ==
  ASSUME NEW S, NEW s \in Seq(S), NEW i \in DOMAIN s
  PROVE  /\ RemoveAt(s, i) \in Seq(S)
         /\ Len(RemoveAt(s, i)) = Len(s) - 1
         /\ \A j \in DOMAIN RemoveAt(s, i) : \E k \in DOMAIN s : RemoveAt(s, i)[j] = s[k]
<1> DEFINE before == SubSeq(s, 1, i - 1)
           after == SubSeq(s, i + 1, Len(s))
<1>1. i \in 1..Len(s) /\ Len(s) \in Nat
  OBVIOUS
<1>2. before \in Seq(S) /\ Len(before) = i - 1
      /\ \A j \in 1..(i - 1) : before[j] = s[j]
  BY <1>1
<1>3. after \in Seq(S) /\ Len(after) = Len(s) - i
      /\ \A j \in 1..(Len(s) - i) : after[j] = s[i + j]
  BY <1>1
<1> HIDE DEF before, after
<1>4. RemoveAt(s, i) = before \o after
  BY DEF RemoveAt, before, after
<1>5. before \o after \in Seq(S) /\ Len(before \o after) = Len(s) - 1
  BY <1>1, <1>2, <1>3
<1>6. \A j \in 1..(Len(s) - 1) :
        (before \o after)[j] = IF j <= i - 1 THEN s[j] ELSE s[j + 1]
  BY <1>1, <1>2, <1>3
<1>7. \A j \in 1..(Len(s) - 1) : j \in DOMAIN s /\ j + 1 \in DOMAIN s
  BY <1>1
<1>8. DOMAIN (before \o after) = 1..(Len(s) - 1)
  BY <1>5
<1>9. ASSUME NEW j \in 1..(Len(s) - 1)
      PROVE  \E k \in DOMAIN s : (before \o after)[j] = s[k]
  BY <1>6, <1>7
<1> QED BY <1>4, <1>5, <1>8, <1>9

-----------------------------------------------------------------------------
(* The invariant *)

States == {"none", "running"} \cup Ended
RowsOf == [state : States, changedOn : 0..Times]
Polls == [taken : Nat, rows : [Queries -> RowsOf]]

PageTypes ==
  /\ setting \in Settings /\ time \in 0..Times
  /\ row \in [Queries -> RowsOf]
  /\ queries \in [Queries -> {"none"} \cup Running \cup Ended]
  /\ queriesLastUpdate \in 0..(Times + setting.skew)
  /\ post \in [Queries -> {"none", "sent", "ok", "error"}]
  /\ stop \in [Queries -> {"none", "sent", "ok", "error"}]
  /\ fetch \in [Queries -> {"none", "sent", "ok", "error"}]
  /\ polls \in Seq(Polls) /\ Len(polls) <= setting.polls
  /\ validation \in [id : 0..setting.validations, of : 0..setting.validations]
  /\ validating \subseteq 1..setting.validations

\* That a query was stopped is answered only when it has ended, and the rows in the
\* answers to polls tell of no end that there was not.
StopsAreSo == \A q \in Queries : stop[q] = "ok" => row[q].state \in Ended
PollsAreSo ==
  \A p \in DOMAIN polls : \A q \in Queries :
    polls[p].rows[q].state \in Ended => row[q].state \in Ended

PageInv == PageTypes /\ StopsAreSo /\ PollsAreSo /\ StoppedHasEnded /\ ValidationIsOfLatest

LEMMA SettingTypes ==
  ASSUME setting \in Settings
  PROVE  /\ NQueries \in Nat /\ Times \in Nat
         /\ setting.skew \in Nat /\ setting.polls \in Nat /\ setting.validations \in Nat
BY SqlLabClientAssumption

LEMMA PollTypes ==
  ASSUME PageTypes, NEW p \in DOMAIN polls
  PROVE  polls[p].rows \in [Queries -> RowsOf]
<1>1. polls[p] \in Polls
  BY DEF PageTypes
<1> QED BY <1>1 DEF Polls

\* A row that has ended stays so, whatever is done with the others.
LEMMA EndIsFinal ==
  ASSUME PageTypes, LabNext
  PROVE  \A q \in Queries : row[q].state \in Ended => row'[q].state \in Ended
<1> USE DEF PageTypes
<1>1. CASE UNCHANGED row
  BY <1>1
<1>2. CASE \E q \in Queries : row[q].state \notin Ended
                              /\ \E state \in States : Changed(q, state)
  BY <1>2 DEF Changed, RowsOf
<1>3. UNCHANGED row \/ \E q \in Queries : row[q].state \notin Ended
                                          /\ \E state \in States : Changed(q, state)
  BY DEF LabNext, QueryStep, AnswerStep, runQuery, sql_json, execute_sql_statements,
         stopped_answer, PostAnswered, FetchAnswered, postStopQuery, stop_query, StopAnswered,
         stopwatch, refreshQueries, PollLost, Elapse, validateQuery, queryValidationReturned,
         server, States, Ended
<1> QED BY <1>1, <1>2, <1>3

-----------------------------------------------------------------------------
(* Each step keeps the invariant *)

LEMMA InitHolds == LabInit => PageInv
<1> SUFFICES ASSUME LabInit PROVE PageInv
  OBVIOUS
<1>1. PageTypes
  BY SettingTypes, SqlLabClientAssumption
     DEF LabInit, PageTypes, NoRow, RowsOf, States, Running, Ended
<1>2. StopsAreSo /\ PollsAreSo /\ StoppedHasEnded /\ ValidationIsOfLatest
  BY DEF LabInit, StopsAreSo, PollsAreSo, StoppedHasEnded, ValidationIsOfLatest
<1> QED BY <1>1, <1>2 DEF PageInv

\* The steps that neither poll nor touch the editor.
PageStep ==
  \E q \in Queries :
    runQuery(q) \/ QueryStep(q) \/ postStopQuery(q) \/ stop_query(q) \/ StopAnswered(q)

LEMMA PageStepKeepsTypes ==
  ASSUME PageTypes, PageStep
  PROVE  PageTypes'
<1> USE DEF PageTypes, RowsOf, States, Running, Ended, editor, server
<1> PICK q \in Queries :
      runQuery(q) \/ QueryStep(q) \/ postStopQuery(q) \/ stop_query(q) \/ StopAnswered(q)
  BY DEF PageStep
<1>1. CASE runQuery(q)
  BY <1>1 DEF runQuery
<1>2. CASE sql_json(q)
  BY <1>2 DEF sql_json, Changed
<1>3. CASE execute_sql_statements(q)
  BY <1>3 DEF execute_sql_statements, Changed
<1>4. CASE stopped_answer(q)
  BY <1>4 DEF stopped_answer
<1>5. CASE PostAnswered(q)
  BY <1>5 DEF PostAnswered, QUERY_ENDED
<1>6. CASE FetchAnswered(q)
  BY <1>6 DEF FetchAnswered, QUERY_ENDED
<1>7. CASE postStopQuery(q)
  BY <1>7 DEF postStopQuery
<1>8. CASE stop_query(q)
  <2>1. PICK s \in {"ok", "error"} : stop' = [stop EXCEPT ![q] = s]
    BY <1>8 DEF stop_query
  <2>2. stop' \in [Queries -> {"none", "sent", "ok", "error"}]
    BY <2>1
  <2>3. UNCHANGED row \/ row' = [row EXCEPT ![q] = [state |-> "stopped", changedOn |-> time]]
    BY <1>8 DEF stop_query, Changed
  <2>4. [state |-> "stopped", changedOn |-> time] \in RowsOf
    OBVIOUS
  <2>5. row' \in [Queries -> RowsOf]
    <3> HIDE DEF RowsOf
    <3> QED BY <2>3, <2>4
  <2> QED BY <1>8, <2>2, <2>5 DEF stop_query
<1>9. CASE StopAnswered(q)
  BY <1>9 DEF StopAnswered
<1> QED BY <1>1, <1>2, <1>3, <1>4, <1>5, <1>6, <1>7, <1>8, <1>9 DEF QueryStep

LEMMA PageStepKeepsTruth ==
  ASSUME PageInv, PageStep, PageTypes'
  PROVE  StopsAreSo' /\ StoppedHasEnded'
<1> USE DEF PageInv, PageTypes, StopsAreSo, StoppedHasEnded
<1> PICK q \in Queries :
      runQuery(q) \/ QueryStep(q) \/ postStopQuery(q) \/ stop_query(q) \/ StopAnswered(q)
  BY DEF PageStep
<1>0. \A p \in Queries : row[p].state \in Ended => row'[p].state \in Ended
  BY EndIsFinal DEF LabNext, PageStep
<1>1. CASE runQuery(q)
  BY <1>1 DEF runQuery, server
<1>2. CASE QueryStep(q)
  <2>1. UNCHANGED stop
    BY <1>2 DEF QueryStep, sql_json, execute_sql_statements, stopped_answer, PostAnswered,
                FetchAnswered
  <2>2. \A p \in Queries : queries'[p] = "stopped" => queries[p] = "stopped"
    BY <1>2 DEF QueryStep, sql_json, execute_sql_statements, stopped_answer, PostAnswered,
                FetchAnswered, QUERY_ENDED
  <2> QED BY <1>0, <2>1, <2>2
<1>3. CASE postStopQuery(q)
  BY <1>3 DEF postStopQuery, server
<1>4. CASE stop_query(q)
  <2>1. stop'[q] = "ok" => row'[q].state \in Ended
    BY <1>4 DEF stop_query, Changed, RowsOf, States, Ended
  <2>2. \A p \in Queries \ {q} : stop'[p] = stop[p]
    BY <1>4 DEF stop_query
  <2>3. UNCHANGED queries
    BY <1>4 DEF stop_query
  <2> QED BY <1>0, <2>1, <2>2, <2>3
<1>5. CASE StopAnswered(q)
  BY <1>5 DEF StopAnswered, server
<1> QED BY <1>1, <1>2, <1>3, <1>4, <1>5

LEMMA PageStepKeepsRest ==
  ASSUME PageInv, PageStep
  PROVE  PollsAreSo' /\ ValidationIsOfLatest'
<1>1. UNCHANGED <<polls, validation>>
  BY DEF PageStep, QueryStep, runQuery, sql_json, execute_sql_statements, stopped_answer,
         PostAnswered, FetchAnswered, postStopQuery, stop_query, StopAnswered, editor
<1>2. \A p \in Queries : row[p].state \in Ended => row'[p].state \in Ended
  BY EndIsFinal DEF LabNext, PageStep, PageInv
<1> QED BY <1>1, <1>2 DEF PageInv, PollsAreSo, ValidationIsOfLatest

\* A poll takes the rows as they are.
LEMMA StopwatchKeeps ==
  ASSUME PageInv, stopwatch
  PROVE  PageInv'
<1> USE DEF PageInv, PageTypes
<1>1. PICK rows : /\ rows = [q \in Queries |->
                       IF row[q].state # "none" /\ row[q].changedOn >= since
                       THEN row[q] ELSE NoRow]
                  /\ polls' = Append(polls, [taken |-> time, rows |-> rows])
  BY DEF stopwatch
<1>2. /\ rows \in [Queries -> RowsOf]
      /\ \A q \in Queries : rows[q].state \in Ended => row[q].state \in Ended
  BY <1>1, SettingTypes DEF NoRow, RowsOf, States, Ended
<1>3. [taken |-> time, rows |-> rows] \in Polls
  BY <1>2, SqlLabClientAssumption DEF Polls
<1>4. PageTypes'
  BY <1>1, <1>3, SettingTypes DEF stopwatch, editor, server
<1>5. PollsAreSo'
  BY <1>1, <1>2 DEF PollsAreSo, stopwatch, server
<1>6. StopsAreSo' /\ StoppedHasEnded' /\ ValidationIsOfLatest'
  BY DEF StopsAreSo, StoppedHasEnded, ValidationIsOfLatest, stopwatch, editor, server
<1> QED BY <1>4, <1>5, <1>6

\* The time that is polled for next is that of a row.
LEMMA LastUpdateIsATime ==
  ASSUME PageTypes, NEW p \in DOMAIN polls, refreshQueries(p)
  PROVE  queriesLastUpdate' \in 0..(Times + setting.skew)
<1> DEFINE S == {queriesLastUpdate} \cup {polls[p].rows[q].changedOn : q \in Altered(p)}
<1>1. Times \in Nat /\ setting.skew \in Nat
  BY SettingTypes DEF PageTypes
<1>2. polls[p].rows \in [Queries -> RowsOf]
  BY PollTypes
<1>3. S \subseteq 0..(Times + setting.skew) /\ S # {}
  BY <1>1, <1>2 DEF PageTypes, RowsOf, Altered
<1>4. queriesLastUpdate' = CHOOSE t \in S : \A u \in S : t >= u
  BY DEF refreshQueries
<1> HIDE DEF S
<1>5. Times + setting.skew \in Nat
  BY <1>1
<1>6. \E t \in S : \A u \in S : t >= u
  BY <1>3, <1>5, GreatestExists
<1> QED BY <1>3, <1>4, <1>6

\* A poll that is answered, late or not, tells of no end that there was not.
LEMMA RefreshKeeps ==
  ASSUME PageInv, NEW p \in DOMAIN polls, refreshQueries(p)
  PROVE  PageInv'
<1> USE DEF PageInv, PageTypes
<1>1. polls' \in Seq(Polls) /\ Len(polls') <= setting.polls
      /\ \A j \in DOMAIN polls' : \E k \in DOMAIN polls : polls'[j] = polls[k]
  BY RemoveAtKeeps, SettingTypes DEF refreshQueries
<1>2. polls[p].rows \in [Queries -> RowsOf]
  BY PollTypes
<1>3. \A q \in Queries : \/ queries'[q] = queries[q] \/ queries'[q] = "fetching"
                         \/ polls[p].rows[q] # NoRow /\ queries'[q] = polls[p].rows[q].state
  BY DEF refreshQueries, Altered
<1>4. queries' \in [Queries -> {"none"} \cup Running \cup Ended]
  BY <1>2, <1>3 DEF refreshQueries, RowsOf, States, Running, Ended
<1>5. fetch' \in [Queries -> {"none", "sent", "ok", "error"}]
  BY DEF refreshQueries
<1>6. PageTypes'
  BY <1>1, <1>4, <1>5, LastUpdateIsATime DEF refreshQueries, editor, server
<1>7. StoppedHasEnded'
  BY <1>3 DEF StoppedHasEnded, PollsAreSo, refreshQueries, server, Ended
<1>8. StopsAreSo' /\ PollsAreSo' /\ ValidationIsOfLatest'
  BY <1>1 DEF StopsAreSo, PollsAreSo, ValidationIsOfLatest, refreshQueries, editor, server
<1> QED BY <1>6, <1>7, <1>8

LEMMA PollLostKeeps ==
  ASSUME PageInv, NEW p \in DOMAIN polls, PollLost(p)
  PROVE  PageInv'
<1> USE DEF PageInv, PageTypes
<1>1. polls' \in Seq(Polls) /\ Len(polls') <= setting.polls
      /\ \A j \in DOMAIN polls' : \E k \in DOMAIN polls : polls'[j] = polls[k]
  BY RemoveAtKeeps, SettingTypes DEF PollLost
<1>2. PageTypes'
  BY <1>1 DEF PollLost, editor, server
<1>3. PollsAreSo'
  BY <1>1 DEF PollsAreSo, PollLost, server
<1>4. StopsAreSo' /\ StoppedHasEnded' /\ ValidationIsOfLatest'
  BY DEF StopsAreSo, StoppedHasEnded, ValidationIsOfLatest, PollLost, editor, server
<1> QED BY <1>2, <1>3, <1>4

LEMMA ElapseKeeps ==
  ASSUME PageInv, Elapse
  PROVE  PageInv'
<1> USE DEF PageInv, PageTypes
<1>1. PageTypes'
  BY SettingTypes DEF Elapse, requests, editor
<1>2. StopsAreSo' /\ PollsAreSo' /\ StoppedHasEnded' /\ ValidationIsOfLatest'
  BY DEF StopsAreSo, PollsAreSo, StoppedHasEnded, ValidationIsOfLatest, Elapse, requests, editor
<1> QED BY <1>1, <1>2

LEMMA EditorKeeps ==
  ASSUME PageInv, validateQuery \/ \E id \in validating : queryValidationReturned(id)
  PROVE  PageInv'
<1> USE DEF PageInv, PageTypes
<1>0. UNCHANGED <<setting, row, time, queries, queriesLastUpdate, post, stop, fetch, polls>>
  BY DEF validateQuery, queryValidationReturned, server, requests
<1>1. StopsAreSo' /\ PollsAreSo' /\ StoppedHasEnded'
  BY <1>0 DEF StopsAreSo, PollsAreSo, StoppedHasEnded
<1>2. CASE validateQuery
  <2>1. validation.id + 1 \in 1..setting.validations
    BY <1>2, SettingTypes DEF validateQuery
  <2>2. validation' = [id |-> validation.id + 1, of |-> 0]
        /\ validating' = validating \cup {validation.id + 1}
    BY <1>2 DEF validateQuery
  <2>3. validation' \in [id : 0..setting.validations, of : 0..setting.validations]
        /\ validating' \subseteq 1..setting.validations
    <3>1. setting.validations \in Nat
      BY SettingTypes
    <3>2. validation.id + 1 \in 0..setting.validations /\ 0 \in 0..setting.validations
      BY <2>1, <3>1
    <3>3. validating' \subseteq 1..setting.validations
      BY <2>1, <2>2
    <3> QED BY <2>2, <3>2, <3>3
  <2>4. PageTypes'
    BY <1>0, <2>3
  <2> QED BY <1>1, <2>2, <2>4 DEF ValidationIsOfLatest
<1>3. CASE \E id \in validating : queryValidationReturned(id)
  BY <1>0, <1>1, <1>3, SettingTypes
     DEF queryValidationReturned, ValidationIsOfLatest, IsLatestValidation
<1> QED BY <1>2, <1>3

LEMMA StepHolds == PageInv /\ [LabNext]_labVars => PageInv'
<1> SUFFICES ASSUME PageInv, [LabNext]_labVars PROVE PageInv'
  OBVIOUS
<1>1. CASE PageStep
  BY <1>1, PageStepKeepsTypes, PageStepKeepsTruth, PageStepKeepsRest DEF PageInv
<1>2. CASE stopwatch
  BY <1>2, StopwatchKeeps
<1>3. CASE AnswerStep
  BY <1>3, RefreshKeeps, PollLostKeeps DEF AnswerStep
<1>4. CASE Elapse
  BY <1>4, ElapseKeeps
<1>5. CASE validateQuery \/ \E id \in validating : queryValidationReturned(id)
  BY <1>5, EditorKeeps
<1>6. CASE UNCHANGED labVars
  BY <1>6 DEF labVars, PageInv, PageTypes, StopsAreSo, PollsAreSo, StoppedHasEnded,
              ValidationIsOfLatest
<1> QED BY <1>1, <1>2, <1>3, <1>4, <1>5, <1>6 DEF LabNext, PageStep

LEMMA PageInvHolds == LabSpec => []PageInv
BY InitHolds, StepHolds, PTL DEF LabSpec

-----------------------------------------------------------------------------
\* The type invariant of the page and of what it knows of the server.
THEOREM PageTypeCorrect == LabSpec => []LabTypeOK
<1>1. PageInv => LabTypeOK
  BY SettingTypes DEF PageInv, PageTypes, LabTypeOK, RowsOf, States
<1> QED BY <1>1, PageInvHolds, PTL

\* sqlLab.js: a query shown as stopped has ended on the server, although the stop may
\* have failed and polls overtake one another, and the errors in the editor are those
\* of the text that was sent last, although validations are answered out of order.
THEOREM LateAnswersAreHarmless == LabSpec => []LateAnswersDoNotMislead
<1>1. PageInv => LateAnswersDoNotMislead
  BY DEF PageInv, LateAnswersDoNotMislead
<1> QED BY <1>1, PageInvHolds, PTL

-----------------------------------------------------------------------------
(***************************************************************************)
(* The tabs of SQL Lab, for any tabs in local storage and any bounds on    *)
(* tabs, rows, loads, acts and faults.                                     *)
(*                                                                         *)
(* That tabs are kept is not inductive: a tab leaves the local storage for *)
(* what an answer says, and its text comes back from what a page showed.   *)
(* TabsInv says of each request under way that its id and its text are     *)
(* those of its tab, and of each editor that its text is, once it was      *)
(* loaded or active.  What no step undoes is gathered in Grows, by which   *)
(* all that was sound remains so (WhatStays).                              *)
(***************************************************************************)

-----------------------------------------------------------------------------
(* Lemmas about sequences *)

\* What a filter leaves of a sequence was in it, and passes the filter.
LEMMA OnlyKeeps ==
  ASSUME NEW S, NEW history \in Seq(S), NEW ids
  PROVE  /\ Only(history, ids) \in Seq(S)
         /\ ToSet(Only(history, ids)) \subseteq ToSet(history) \cap ids
<1> DEFINE at == {i \in DOMAIN history : history[i] \in ids}
           Below(i) == {j \in at : j <= i}
           rank == [i \in at |-> Cardinality(Below(i))]
           n == Cardinality(at)
<1>1. at \subseteq 1..Len(history) /\ Len(history) \in Nat
  OBVIOUS
<1>2. IsFiniteSet(at) /\ n \in Nat
  <2> HIDE DEF at
  <2>1. IsFiniteSet(1..Len(history))
    BY <1>1, FS_Interval
  <2> QED BY <1>1, <2>1, FS_Subset, FS_CardinalityType
<1> HIDE DEF at
<1>3. ASSUME NEW i \in at
      PROVE  IsFiniteSet(Below(i)) /\ Cardinality(Below(i)) \in 1..n
  <2>1. Below(i) \in SUBSET at /\ i \in Below(i)
    BY <1>1
  <2> HIDE DEF Below
  <2>2. IsFiniteSet(Below(i)) /\ Cardinality(Below(i)) <= n /\ Cardinality(Below(i)) \in Nat
    BY <1>2, <2>1, FS_Subset, FS_CardinalityType
  <2>3. Cardinality(Below(i)) # 0
    BY <2>1, <2>2, FS_EmptySet
  <2> QED BY <1>2, <2>2, <2>3
<1>4. ASSUME NEW i \in at, NEW k \in at, i < k
      PROVE  Cardinality(Below(i)) # Cardinality(Below(k))
  <2>0. \A j \in at : j \in Int
    BY <1>1
  <2>1. Below(i) \in SUBSET Below(k)
    BY <2>0, <1>4
  <2>2. k \in Below(k) /\ k \notin Below(i)
    BY <2>0, <1>4
  <2> HIDE DEF Below
  <2>3. IsFiniteSet(Below(k))
    BY <1>3
  <2> QED BY <2>1, <2>2, <2>3, FS_Subset
<1>5. rank \in Injection(at, 1..n)
  <2>1. rank \in [at -> 1..n]
    <3> HIDE DEF Below
    <3> QED BY <1>3
  <2>2. ASSUME NEW i \in at, NEW k \in at, rank[i] = rank[k] PROVE i = k
    <3> HIDE DEF Below
    <3>1. Cardinality(Below(i)) = Cardinality(Below(k))
      BY <2>2
    <3>2. i \in Nat /\ k \in Nat
      BY <1>1
    <3> QED BY <1>4, <3>1, <3>2
  <2> HIDE DEF rank
  <2>3. DOMAIN rank = at
    BY <2>1
  <2> QED BY <2>1, <2>2, <2>3 DEF Injection, IsInjective
<1>6. rank \in Surjection(at, 1..n)
  <2>1. IsFiniteSet(1..n) /\ Cardinality(1..n) = n
    BY <1>2, FS_Interval
  <2> HIDE DEF rank
  <2> QED BY <1>5, <2>1, FS_Injection
<1>7. ASSUME NEW k \in 1..n PROVE \E i \in at : Cardinality(Below(i)) = k
  BY <1>6 DEF Surjection
<1>8. Only(history, ids) = [k \in 1..n |-> history[CHOOSE i \in at : Cardinality(Below(i)) = k]]
  BY DEF Only, at
<1>9. ASSUME NEW k \in 1..n
      PROVE  Only(history, ids)[k] \in S /\ Only(history, ids)[k] \in ToSet(history) \cap ids
  <2>1. PICK i \in at : Only(history, ids)[k] = history[i]
    BY <1>7, <1>8
  <2> QED BY <2>1 DEF at, ToSet
<1>10. Only(history, ids) \in Seq(S) /\ DOMAIN Only(history, ids) = 1..n
  <2>1. Only(history, ids) \in [1..n -> S]
    BY <1>8, <1>9
  <2> HIDE DEF n
  <2> QED BY <1>2, <2>1
<1> QED BY <1>9, <1>10 DEF ToSet

LEMMA SetToSeqIsASeq ==
  ASSUME NEW S, IsFiniteSet(S)
  PROVE  SetToSeq(S) \in Seq(S)
<1>1. Cardinality(S) \in Nat /\ ExistsBijection(1..Cardinality(S), S)
  BY FS_CardinalityType
<1>2. \E f \in [1..Cardinality(S) -> S] : IsInjective(f)
  BY <1>1 DEF ExistsBijection, Bijection, Injection
<1>3. SetToSeq(S) \in [1..Cardinality(S) -> S]
  BY <1>2 DEF SetToSeq
<1> QED BY <1>1, <1>3

-----------------------------------------------------------------------------
(* The invariant *)

\* The text is the one that the tab was given, unless it was stored over where no tab
\* was active; and the tab is one that there is.
TextOk(of, sql) == sql = born[of] \/ of \in adrift
Known(of) == of \in Locals \cap DOMAIN born \/ of \in 1..count.added

\* id stands for the tab `of`, in local storage or on the server.
IsTab(id, of) ==
  \/ id \in Locals /\ id = of
  \/ id \in DOMAIN tab_state /\ tab_state[id].of = of

TabRows ==
  [of : Tabs, sql : Tabs \cup {Placeholder}, active : BOOLEAN, table : BOOLEAN,
   there : BOOLEAN]
TabEditors == [id : Ids, of : Tabs, sql : Tabs \cup {Placeholder}, loaded : BOOLEAN]
Adding == {"migrate", "add"}
TabCalls ==
  [kind : Adding \cup {"table", "delete", "get", "activate", "put"}, id : Ids \cup {0},
   of : Tabs, sql : Tabs \cup {Placeholder},
   status : {"sent", "ok", "failed", "403", "404"}, heard : BOOLEAN]

TabTypes ==
  /\ storage \in [queryEditors : SUBSET Locals, tables : SUBSET WithTable,
                  tabHistory : Seq(Ids)]
  /\ tab_state \in Seq(TabRows) /\ Len(tab_state) <= MaxTabStates
  /\ sqlLab \in [queryEditors : SUBSET TabEditors, tabHistory : Seq(Ids)]
  /\ calls \subseteq TabCalls
  /\ born \in [DOMAIN born -> Tabs \cup {Placeholder}]
  /\ 1..MaxAdded \subseteq DOMAIN born
  /\ closed \cup adrift \cup dropped \subseteq Tabs
  /\ count \in [loads : Nat, acts : Nat, faults : Nat, added : 0..MaxAdded]

\* Every tab of the local storage has its own text, and the numbers of tabs still to be
\* added are free.
BornSound ==
  /\ \A l \in Locals \cap DOMAIN born : born[l] = l
  /\ \A n \in 1..MaxAdded : n > count.added => born[n] = n

StorageSound ==
  /\ storage.queryEditors \subseteq DOMAIN born
  /\ ToSet(storage.tabHistory) \subseteq storage.queryEditors
  /\ \A l \in Locals \cap DOMAIN born :
       l \in storage.queryEditors \/ \E t \in DOMAIN tab_state : tab_state[t].of = l

\* A row is gone only because its tab was closed.
RowSound(r) == Known(r.of) /\ TextOk(r.of, r.sql) /\ (r.there \/ r.of \in closed)
RowsSound == \A t \in DOMAIN tab_state : RowSound(tab_state[t])

Active(id) == id \in ToSet(sqlLab.tabHistory)

\* A page has the text of the tabs that it loaded and of those that were active.
EditorsSound ==
  /\ \A e \in sqlLab.queryEditors :
       /\ Known(e.of) /\ IsTab(e.id, e.of)
       /\ e.loaded \/ Active(e.id) => TextOk(e.of, e.sql)
  /\ \A d, e \in sqlLab.queryEditors : d.id = e.id => d = e
  /\ ToSet(sqlLab.tabHistory) \subseteq {e.id : e \in sqlLab.queryEditors}

TableKept(of) == of \in closed \/ \E t \in Rows : tab_state[t].of = of /\ tab_state[t].table

\* What a request asks for, or its answer tells, is of its tab.
CallSound(c) ==
  /\ Known(c.of)
  /\ c.status # "sent" => c.heard
  /\ c.kind \notin Adding \/ c.status = "ok" => IsTab(c.id, c.of)
  /\ c.kind = "migrate" => c.of \in Locals
  /\ c.kind \in Adding \cup {"put"} => TextOk(c.of, c.sql)
  /\ c.kind = "get" /\ c.status = "ok" => TextOk(c.of, c.sql)
  /\ c.kind = "delete" => c.id \in Locals \/ c.of \in closed
  /\ c.kind = "table" => c.id \notin Locals
  /\ c.kind = "table" /\ c.status = "ok" => TableKept(c.of)

CallsSound == \A c \in calls : CallSound(c)

\* A tab that is about to be active has its text.
ActivesSound ==
  \A c \in calls : c.kind = "activate" /\ c.heard =>
    \A e \in sqlLab.queryEditors : e.id = c.id => TextOk(e.of, e.sql)

\* A row that a tab is to be added for has no editor yet, and no other call adds one.
Answered(c) == c.kind \in Adding /\ c.status = "ok"
AddsAreNew ==
  \A c \in calls : Answered(c) =>
    /\ c.id \in DOMAIN tab_state
    /\ \A e \in sqlLab.queryEditors : e.id # c.id
    /\ \A d \in calls : Answered(d) /\ d.id = c.id => d = c

TabsInv ==
  /\ TabTypes /\ BornSound /\ StorageSound /\ RowsSound /\ EditorsSound /\ CallsSound
  /\ ActivesSound /\ AddsAreNew /\ TablesAreKept

-----------------------------------------------------------------------------
(* What no step undoes *)

Grows ==
  /\ \A t \in DOMAIN tab_state :
       /\ t \in DOMAIN tab_state' /\ tab_state'[t].of = tab_state[t].of
       /\ \/ tab_state'[t].of \in closed'
          \/ /\ tab_state[t].there => tab_state'[t].there
             /\ tab_state[t].table => tab_state'[t].table
  /\ DOMAIN born' = DOMAIN born
  /\ \A of \in Tabs : Known(of) => born'[of] = born[of]
  /\ closed \subseteq closed' /\ adrift \subseteq adrift'
  /\ 1..count.added \subseteq 1..count'.added

LEMMA KnownIsATab ==
  ASSUME TabTypes, NEW of, Known(of)
  PROVE  of \in Tabs /\ of \in DOMAIN born
BY TabsAssumption DEF TabTypes, Known, Tabs

\* An id stands for one tab only.
LEMMA OneTab ==
  ASSUME TabTypes, NEW id, NEW o, NEW p, IsTab(id, o), IsTab(id, p)
  PROVE  o = p
<1>1. DOMAIN tab_state \subseteq Nat
  BY DEF TabTypes
<1> QED BY <1>1, TabsAssumption DEF IsTab

LEMMA WhatStays ==
  ASSUME TabTypes, Grows
  PROVE  /\ \A of : Known(of) => Known(of)'
         /\ \A id, of : IsTab(id, of) => IsTab(id, of)'
         /\ \A of, sql : Known(of) /\ TextOk(of, sql) => TextOk(of, sql)'
         /\ \A of : TableKept(of) => TableKept(of)'
<1>1. ASSUME NEW of, Known(of) PROVE Known(of)'
  BY <1>1 DEF Known, Grows
<1>2. ASSUME NEW id, NEW of, IsTab(id, of) PROVE IsTab(id, of)'
  BY <1>2 DEF IsTab, Grows
<1>3. ASSUME NEW of, NEW sql, Known(of), TextOk(of, sql) PROVE TextOk(of, sql)'
  BY <1>3, KnownIsATab DEF TextOk, Grows
<1>4. ASSUME NEW of, TableKept(of) PROVE TableKept(of)'
  BY <1>4 DEF TableKept, Rows, Grows
<1> QED BY <1>1, <1>2, <1>3, <1>4

Still == UNCHANGED <<tab_state, born, closed, adrift>> /\ count'.added = count.added

LEMMA StillGrows ==
  ASSUME Still
  PROVE  Grows
BY DEF Still, Grows

LEMMA TabsInitHolds == TabsInit => TabsInv
<1> SUFFICES ASSUME TabsInit PROVE TabsInv
  OBVIOUS
<1>1. PICK start \in Starts :
        /\ storage = [queryEditors |-> start.tabs, tables |-> start.tabs \cap WithTable,
                      tabHistory |-> SetToSeq(start.tabs)]
        /\ born = [o \in start.tabs \cup 1..MaxAdded |-> o]
        /\ count = [loads |-> 0, acts |-> 0, faults |-> start.faults, added |-> start.added]
  BY DEF TabsInit
<1>2. start.tabs \subseteq Locals /\ start.faults \in Nat /\ start.added \in 0..MaxAdded
  BY TabsAssumption
<1>3. IsFiniteSet(start.tabs)
  BY <1>2, TabsAssumption, FS_Subset
<1> DEFINE history == SetToSeq(start.tabs)
<1>4. history \in Seq(start.tabs)
  BY <1>3, SetToSeqIsASeq
<1> HIDE DEF history
<1>5. history \in Seq(Ids) /\ ToSet(history) \subseteq start.tabs
  BY <1>2, <1>4 DEF Ids, ToSet
<1>6. storage = [queryEditors |-> start.tabs, tables |-> start.tabs \cap WithTable,
                 tabHistory |-> history]
  BY <1>1 DEF history
<1>7. tab_state = <<>> /\ sqlLab = [queryEditors |-> {}, tabHistory |-> <<>>]
      /\ calls = {} /\ closed = {} /\ adrift = {} /\ dropped = {}
  BY DEF TabsInit
<1>8. TabTypes
  BY <1>1, <1>2, <1>5, <1>6, <1>7, TabsAssumption DEF TabTypes, Tabs, Ids
<1>9. BornSound /\ StorageSound /\ RowsSound
  BY <1>1, <1>2, <1>5, <1>6, <1>7, TabsAssumption DEF BornSound, StorageSound, RowsSound
<1>10. EditorsSound /\ CallsSound /\ ActivesSound /\ AddsAreNew
  BY <1>7 DEF EditorsSound, CallsSound, ActivesSound, AddsAreNew, ToSet
<1>11. TablesAreKept
  BY <1>1, <1>6, TabsAssumption DEF TablesAreKept
<1> QED BY <1>8, <1>9, <1>10, <1>11 DEF TabsInv

-----------------------------------------------------------------------------
(* The server *)

Texts == Tabs \cup {Placeholder}
Statuses == {"sent", "ok", "failed", "403", "404"}

\* What does not change remains sound when the rest grows.
LEMMA RestStays ==
  ASSUME TabsInv, Grows, UNCHANGED <<storage, sqlLab, born, count>>
  PROVE  BornSound' /\ StorageSound' /\ EditorsSound'
<1> USE DEF TabsInv
<1>1. BornSound'
  BY DEF BornSound
<1>2. StorageSound'
  BY DEF StorageSound, Grows
<1>3. EditorsSound'
  BY WhatStays DEF EditorsSound, Active
<1> QED BY <1>1, <1>2, <1>3

LEMMA CallsStay ==
  ASSUME TabTypes, Grows, NEW c, CallSound(c)
  PROVE  CallSound(c)'
<1>1. Known(c.of)' /\ (c.status # "sent" => c.heard)
  BY WhatStays DEF CallSound
<1>2. c.kind \notin Adding \/ c.status = "ok" => IsTab(c.id, c.of)'
  BY WhatStays DEF CallSound
<1>3. /\ c.kind = "migrate" => c.of \in Locals
      /\ c.kind = "table" => c.id \notin Locals
  BY DEF CallSound
<1>4. /\ c.kind \in Adding \cup {"put"} => TextOk(c.of, c.sql)'
      /\ c.kind = "get" /\ c.status = "ok" => TextOk(c.of, c.sql)'
  BY WhatStays DEF CallSound
<1>5. c.kind = "delete" => c.id \in Locals \/ c.of \in closed'
  BY DEF CallSound, Grows
<1>6. c.kind = "table" /\ c.status = "ok" => TableKept(c.of)'
  BY WhatStays DEF CallSound
<1> QED BY <1>1, <1>2, <1>3, <1>4, <1>5, <1>6 DEF CallSound

LEMMA AnswerKeeps ==
  ASSUME TabsInv, Grows, UNCHANGED <<storage, sqlLab, born>>, dropped \subseteq dropped',
         NEW c \in calls, NEW d \in TabCalls,
         calls' = (calls \ {c}) \cup (IF c.heard THEN {d} ELSE {}),
         d.kind = c.kind, d.heard = c.heard, c.kind \in Adding \/ d.id = c.id,
         c.heard => CallSound(d)',
         Answered(d) => /\ d.id \in DOMAIN tab_state'
                        /\ \A e \in sqlLab.queryEditors : e.id # d.id
                        /\ \A b \in calls : Answered(b) => b.id # d.id,
         c.kind = "table" /\ c.status = "sent" => TableKept(c.of)' \/ c.of \in dropped'
  PROVE  calls' \subseteq TabCalls /\ CallsSound' /\ ActivesSound' /\ AddsAreNew' /\ TablesAreKept'
<1> USE DEF TabsInv
<1>1. calls' \subseteq calls \cup {d} /\ (d \in calls' => d \in calls \/ c.heard)
  OBVIOUS
<1>2. calls' \subseteq TabCalls
  BY <1>1 DEF TabTypes
<1>3. CallsSound'
  BY <1>1, CallsStay DEF CallsSound
<1>4. ActivesSound'
  <2>1. \A e \in sqlLab.queryEditors : TextOk(e.of, e.sql) => TextOk(e.of, e.sql)'
    BY WhatStays DEF EditorsSound
  <2>2. ASSUME NEW b \in calls', b.kind = "activate", b.heard, NEW e \in sqlLab.queryEditors,
               e.id = b.id
        PROVE  TextOk(e.of, e.sql)
    <3>1. CASE b \in calls
      BY <2>2, <3>1 DEF ActivesSound
    <3>2. CASE b = d
      <4>1. c.kind = "activate" /\ c.heard /\ e.id = c.id
        BY <2>2, <3>2 DEF Adding
      <4> QED BY <4>1 DEF ActivesSound
    <3> QED BY <1>1, <3>1, <3>2
  <2> QED BY <2>1, <2>2 DEF ActivesSound
<1>5. AddsAreNew'
  <2>1. DOMAIN tab_state \subseteq DOMAIN tab_state'
    BY DEF Grows
  <2>2. ASSUME NEW b \in calls', Answered(b)
        PROVE  b.id \in DOMAIN tab_state' /\ \A e \in sqlLab.queryEditors : e.id # b.id
    BY <1>1, <2>1, <2>2 DEF AddsAreNew
  <2>3. ASSUME NEW a \in calls', NEW b \in calls', Answered(a), Answered(b), a.id = b.id
        PROVE  a = b
    BY <1>1, <2>3 DEF AddsAreNew
  <2> QED BY <2>2, <2>3 DEF AddsAreNew, Answered
<1>6. TablesAreKept'
  <2> SUFFICES ASSUME NEW o \in WithTable \cap DOMAIN born
               PROVE  \/ TableKept(o)' \/ o \in dropped'
                      \/ o \in storage.queryEditors \cap storage.tables
                      \/ \E b \in calls' : b.kind = "table" /\ b.of = o /\ b.status = "sent"
    BY DEF TablesAreKept, TableKept, Rows
  <2>1. \/ TableKept(o) \/ o \in dropped \/ o \in storage.queryEditors \cap storage.tables
        \/ \E b \in calls : b.kind = "table" /\ b.of = o /\ b.status = "sent"
    BY DEF TablesAreKept, TableKept, Rows
  <2>2. CASE \E b \in calls : b.kind = "table" /\ b.of = o /\ b.status = "sent"
    BY <2>2
  <2> QED BY <2>1, <2>2, WhatStays
<1> QED BY <1>2, <1>3, <1>4, <1>5, <1>6

\* The rows after a step that alters some, adds none, and stores no other text than
\* that of the tab.
LEMMA RowsStay ==
  ASSUME TabsInv, Grows, UNCHANGED <<born, count>>,
         tab_state' \in Seq(TabRows), Len(tab_state') = Len(tab_state),
         \A t \in DOMAIN tab_state :
           \/ tab_state'[t].sql = tab_state[t].sql
           \/ TextOk(tab_state[t].of, tab_state'[t].sql)
  PROVE  RowsSound' /\ Len(tab_state') <= MaxTabStates
<1> USE DEF TabsInv
<1>1. DOMAIN tab_state' = DOMAIN tab_state
  BY DEF TabTypes
<1>2. ASSUME NEW t \in DOMAIN tab_state, NEW r, r = tab_state'[t]
      PROVE  RowSound(r)'
  <2>1. Known(r.of) /\ TextOk(r.of, r.sql)
    BY <1>2 DEF RowsSound, RowSound, Grows
  <2>2. Known(r.of)' /\ TextOk(r.of, r.sql)'
    BY <2>1, WhatStays
  <2>3. r.there \/ r.of \in closed'
    BY <1>2 DEF RowsSound, RowSound, Grows
  <2> QED BY <2>2, <2>3 DEF RowSound
<1>3. RowsSound'
  BY <1>1, <1>2 DEF RowsSound
<1> QED BY <1>3 DEF TabTypes

\* A request that adds no row is handled.
LEMMA HandledKeeps ==
  ASSUME TabsInv, UNCHANGED <<storage, sqlLab, pasts, count>>,
         NEW c \in calls, c.status = "sent", c.kind \notin Adding, Grows,
         tab_state' \in Seq(TabRows), Len(tab_state') = Len(tab_state),
         \A t \in DOMAIN tab_state :
           \/ tab_state'[t].sql = tab_state[t].sql
           \/ TextOk(tab_state[t].of, tab_state'[t].sql),
         NEW got \in Statuses \ {"sent"}, NEW sql \in Texts, Answer(c, got, c.id, sql),
         c.kind = "get" /\ got = "ok" => TextOk(c.of, sql),
         c.kind = "put" => sql = c.sql,
         c.kind = "table" => TableKept(c.of)'
  PROVE  TabsInv'
<1> USE DEF TabsInv
<1>1. c \in TabCalls
  BY DEF TabTypes
<1>2. c.id \in Ids \cup {0}
  BY <1>1 DEF TabCalls
<1>a. PICK d : d = [c EXCEPT !.status = got, !.id = c.id, !.sql = sql]
  OBVIOUS
<1>3. /\ d \in TabCalls
      /\ d.kind = c.kind /\ d.of = c.of /\ d.heard = c.heard
      /\ d.status = got /\ d.id = c.id /\ d.sql = sql
  <2>1. /\ d.kind = c.kind /\ d.of = c.of /\ d.heard = c.heard
        /\ d.status = got /\ d.id = c.id /\ d.sql = sql
    BY <1>1, <1>a DEF TabCalls
  <2>2. d \in TabCalls
    BY <1>1, <1>2, <1>a DEF TabCalls, Texts, Statuses
  <2> QED BY <2>1, <2>2
<1>4. calls' = (calls \ {c}) \cup (IF c.heard THEN {d} ELSE {})
  BY <1>a DEF Answer
<1>5. CallSound(c)'
  BY CallsStay DEF CallsSound
<1>6. UNCHANGED <<born, closed, adrift, dropped>>
  BY DEF pasts
<1>7. TextOk(c.of, sql) => TextOk(c.of, sql)'
  BY <1>6 DEF TextOk
<1>8. c.heard => CallSound(d)'
  BY <1>3, <1>5, <1>7 DEF CallSound, Adding
<1>9. calls' \subseteq TabCalls /\ CallsSound' /\ ActivesSound' /\ AddsAreNew' /\ TablesAreKept'
  BY <1>3, <1>4, <1>6, <1>8, AnswerKeeps DEF Answered
<1>10. RowsSound' /\ Len(tab_state') <= MaxTabStates
  BY <1>6, RowsStay
<1>11. BornSound' /\ StorageSound' /\ EditorsSound'
  BY <1>6, RestStays
<1>12. TabTypes'
  BY <1>6, <1>9, <1>10 DEF TabTypes
<1> QED BY <1>9, <1>10, <1>11, <1>12

LEMMA OwnRow ==
  ASSUME TabsInv, NEW c \in calls, c.kind \notin Adding \/ c.status = "ok",
         c.id \in DOMAIN tab_state
  PROVE  tab_state[c.id].of = c.of /\ c.id \notin Locals
<1>1. IsTab(c.id, c.of) /\ DOMAIN tab_state \subseteq Nat
  BY DEF TabsInv, CallsSound, CallSound, TabTypes
<1> QED BY <1>1, TabsAssumption DEF IsTab

LEMMA CallTypes ==
  ASSUME TabsInv, NEW c \in calls
  PROVE  /\ c \in TabCalls /\ c.id \in Ids \cup {0} /\ c.of \in Tabs /\ c.sql \in Texts
         /\ c.heard \in BOOLEAN /\ CallSound(c)
BY DEF TabsInv, TabTypes, TabCalls, Texts, CallsSound

\* One row is altered, or all are made inactive but one.
LEMMA AlteredRow ==
  ASSUME tab_state \in Seq(TabRows), NEW id \in DOMAIN tab_state, NEW r \in TabRows,
         tab_state' = [tab_state EXCEPT ![id] = r]
  PROVE  /\ tab_state' \in Seq(TabRows) /\ Len(tab_state') = Len(tab_state)
         /\ DOMAIN tab_state' = DOMAIN tab_state
         /\ \A t \in DOMAIN tab_state :
              tab_state'[t] = IF t = id THEN r ELSE tab_state[t]
OBVIOUS

LEMMA Deactivated ==
  ASSUME tab_state \in Seq(TabRows), NEW rows, rows = [t \in DOMAIN tab_state |-> rows[t]],
         \A t \in DOMAIN tab_state :
           \E b \in BOOLEAN : rows[t] = [tab_state[t] EXCEPT !.active = b]
  PROVE  /\ rows \in Seq(TabRows) /\ Len(rows) = Len(tab_state)
         /\ DOMAIN rows = DOMAIN tab_state
         /\ \A t \in DOMAIN tab_state :
              /\ rows[t].of = tab_state[t].of /\ rows[t].sql = tab_state[t].sql
              /\ rows[t].there = tab_state[t].there /\ rows[t].table = tab_state[t].table
<1>1. ASSUME NEW t \in DOMAIN tab_state
      PROVE  /\ rows[t] \in TabRows
             /\ rows[t].of = tab_state[t].of /\ rows[t].sql = tab_state[t].sql
             /\ rows[t].there = tab_state[t].there /\ rows[t].table = tab_state[t].table
  <2>1. PICK r \in TabRows : r = tab_state[t]
    OBVIOUS
  <2>2. PICK b \in BOOLEAN : rows[t] = [r EXCEPT !.active = b]
    BY <2>1
  <2> QED BY <2>1, <2>2 DEF TabRows
<1>2. DOMAIN rows = 1..Len(tab_state) /\ Len(tab_state) \in Nat
  OBVIOUS
<1>3. rows \in [1..Len(tab_state) -> TabRows]
  BY <1>1, <1>2
<1> QED BY <1>1, <1>2, <1>3

LEMMA DeleteKeeps ==
  ASSUME TabsInv, UNCHANGED <<storage, sqlLab, pasts, count>>, NEW c \in calls,
         c.status = "sent", delete(c)
  PROVE  TabsInv'
<1>1. c.kind = "delete" /\ c.id \in DOMAIN tab_state /\ Answer(c, "ok", c.id, c.sql)
      /\ tab_state' = [tab_state EXCEPT ![c.id].there = FALSE, ![c.id].active = FALSE,
                                        ![c.id].table = FALSE]
  BY DEF delete, Owned, Replies
<1>2. tab_state[c.id].of = c.of /\ c.of \in closed
  BY <1>1, OwnRow, CallTypes DEF CallSound, Adding
<1>3. tab_state \in Seq(TabRows)
  BY DEF TabsInv, TabTypes
<1>4. /\ tab_state' \in Seq(TabRows) /\ Len(tab_state') = Len(tab_state)
      /\ \A t \in DOMAIN tab_state :
           /\ tab_state'[t].sql = tab_state[t].sql /\ tab_state'[t].of = tab_state[t].of
           /\ t # c.id => tab_state'[t] = tab_state[t]
  <2>1. tab_state[c.id] \in TabRows
    BY <1>1, <1>3
  <2>2. PICK r : r = [tab_state[c.id] EXCEPT !.there = FALSE, !.active = FALSE, !.table = FALSE]
    OBVIOUS
  <2>3. r \in TabRows /\ r.sql = tab_state[c.id].sql /\ r.of = tab_state[c.id].of
    BY <2>1, <2>2 DEF TabRows
  <2>4. tab_state' = [tab_state EXCEPT ![c.id] = r]
    BY <1>1, <2>2
  <2> QED BY <1>1, <1>3, <2>3, <2>4, AlteredRow
<1>5. Grows
  BY <1>2, <1>3, <1>4 DEF Grows, pasts
<1> QED BY <1>1, <1>4, <1>5, HandledKeeps, CallTypes DEF Statuses, Adding

LEMMA AlterRowKeeps ==
  ASSUME TabsInv, UNCHANGED <<storage, sqlLab, pasts, count>>, NEW c \in calls,
         c.status = "sent", activate(c) \/ put(c) \/ post_table(c)
  PROVE  TabsInv'
<1>1. c.kind \in {"activate", "put", "table"} /\ c.id \in DOMAIN tab_state
      /\ Answer(c, "ok", c.id, c.sql)
  BY DEF activate, put, post_table, Owned, Replies
<1>2. tab_state[c.id].of = c.of
  BY <1>1, OwnRow DEF Adding
<1>3. tab_state \in Seq(TabRows) /\ c.sql \in Texts
  BY CallTypes DEF TabsInv, TabTypes
<1>4. /\ tab_state' \in Seq(TabRows) /\ Len(tab_state') = Len(tab_state)
      /\ \A t \in DOMAIN tab_state :
           /\ tab_state'[t].of = tab_state[t].of /\ tab_state'[t].there = tab_state[t].there
           /\ tab_state[t].table => tab_state'[t].table
           /\ \/ tab_state'[t].sql = tab_state[t].sql
              \/ c.kind = "put" /\ t = c.id /\ tab_state'[t].sql = c.sql
           /\ t = c.id /\ c.kind = "table" => tab_state'[t].table
  <2>1. CASE activate(c)
    <3>1. PICK rows : rows = [t \in DOMAIN tab_state |-> [tab_state[t] EXCEPT !.active = t = c.id]]
      OBVIOUS
    <3>2. tab_state' = rows /\ c.kind = "activate"
      BY <2>1, <3>1 DEF activate
    <3>3. ASSUME NEW t \in DOMAIN tab_state
          PROVE  \E b \in BOOLEAN : rows[t] = [tab_state[t] EXCEPT !.active = b]
      <4>1. (t = c.id) \in BOOLEAN /\ rows[t] = [tab_state[t] EXCEPT !.active = (t = c.id)]
        BY <3>1
      <4> QED BY <4>1, Zenon
    <3>4. rows = [t \in DOMAIN tab_state |-> rows[t]]
      BY <3>1
    <3>5. /\ rows \in Seq(TabRows) /\ Len(rows) = Len(tab_state)
          /\ \A t \in DOMAIN tab_state :
               /\ rows[t].of = tab_state[t].of /\ rows[t].sql = tab_state[t].sql
               /\ rows[t].there = tab_state[t].there /\ rows[t].table = tab_state[t].table
      BY <1>3, <3>3, <3>4, Deactivated
    <3> HIDE DEF TabRows
    <3> QED BY <3>2, <3>5
  <2>2. CASE put(c)
    <3>1. PICK r : r = [tab_state[c.id] EXCEPT !.sql = c.sql]
      OBVIOUS
    <3>2. tab_state[c.id] \in TabRows
      BY <1>1, <1>3
    <3>3. /\ r \in TabRows /\ r.sql = c.sql /\ r.of = tab_state[c.id].of
          /\ r.there = tab_state[c.id].there /\ r.table = tab_state[c.id].table
      BY <1>3, <3>1, <3>2 DEF TabRows, Texts
    <3>4. tab_state' = [tab_state EXCEPT ![c.id] = r] /\ c.kind = "put"
      BY <2>2, <3>1 DEF put
    <3> QED BY <1>1, <1>3, <3>3, <3>4, AlteredRow
  <2>3. CASE post_table(c)
    <3>1. PICK r : r = [tab_state[c.id] EXCEPT !.table = TRUE]
      OBVIOUS
    <3>2. tab_state[c.id] \in TabRows
      BY <1>1, <1>3
    <3>3. /\ r \in TabRows /\ r.sql = tab_state[c.id].sql /\ r.of = tab_state[c.id].of
          /\ r.there = tab_state[c.id].there /\ r.table
      BY <3>1, <3>2 DEF TabRows
    <3>4. tab_state' = [tab_state EXCEPT ![c.id] = r] /\ c.kind = "table"
      BY <2>3, <3>1 DEF post_table
    <3> QED BY <1>1, <1>3, <3>3, <3>4, AlteredRow
  <2> QED BY <2>1, <2>2, <2>3
<1>5. Grows
  BY <1>3, <1>4 DEF Grows, pasts
<1>6. c.kind = "put" => TextOk(c.of, c.sql)
  BY CallTypes DEF CallSound
<1>7. c.kind = "table" => TableKept(c.of)'
  <2> SUFFICES ASSUME c.kind = "table" PROVE TableKept(c.of)'
    OBVIOUS
  <2>1. tab_state[c.id].there
    BY <1>1 DEF activate, put, post_table, Owned
  <2>2. c.id \in DOMAIN tab_state' /\ tab_state'[c.id].there /\ tab_state'[c.id].table
        /\ tab_state'[c.id].of = c.of
    BY <1>1, <1>2, <1>3, <1>4, <2>1
  <2> QED BY <2>2 DEF TableKept, Rows
<1> QED BY <1>1, <1>2, <1>3, <1>4, <1>5, <1>6, <1>7, HandledKeeps DEF Statuses, Adding

\* No row changes when a request is refused or the text of a tab is asked for.
LEMMA RefusedKeeps ==
  ASSUME TabsInv, UNCHANGED <<storage, sqlLab, pasts, count>>, NEW c \in calls,
         c.status = "sent", Refused(c) \/ get(c)
  PROVE  TabsInv'
<1>1. Grows /\ UNCHANGED tab_state /\ tab_state \in Seq(TabRows)
  BY StillGrows DEF Still, pasts, Refused, get, TabsInv, TabTypes
<1>2. CASE Refused(c)
  <2>1. PICK got \in {"404", "403"} :
          Answer(c, got, c.id, c.sql) /\ c.kind \notin Adding /\ ~Owned(c.id)
    BY <1>2 DEF Refused, Replies, Adding
  <2>2. c.kind = "table" => TableKept(c.of)
    <3>1. c.kind = "table" => c.id \in DOMAIN tab_state
      BY <2>1, CallTypes DEF CallSound, IsTab, Adding
    <3>2. c.kind = "table" => tab_state[c.id].of = c.of /\ c.of \in closed
      BY <2>1, <3>1, OwnRow DEF Owned, TabsInv, RowsSound, RowSound
    <3> QED BY <3>2 DEF TableKept
  <2>3. c.kind = "table" => TableKept(c.of)'
    BY <1>1, <2>2, WhatStays DEF TabsInv
  <2> QED BY <1>1, <2>1, <2>3, CallTypes, HandledKeeps DEF Statuses
<1>3. CASE get(c)
  <2>1. c.kind = "get" /\ c.id \in DOMAIN tab_state
        /\ Answer(c, "ok", c.id, tab_state[c.id].sql)
    BY <1>3 DEF get, Owned
  <2>2. PICK sql : sql = tab_state[c.id].sql
    OBVIOUS
  <2>3. tab_state[c.id].of = c.of
    BY <2>1, OwnRow DEF Adding
  <2>4. sql \in Texts /\ TextOk(c.of, sql)
    <3>1. PICK r \in TabRows : r = tab_state[c.id]
      BY <1>1, <2>1
    <3>2. r.sql \in Texts /\ r.sql = sql /\ r.of = c.of
      BY <2>2, <2>3, <3>1 DEF TabRows, Texts
    <3>3. RowSound(r)
      BY <2>1, <3>1 DEF TabsInv, RowsSound
    <3> QED BY <3>2, <3>3 DEF RowSound
  <2>5. Answer(c, "ok", c.id, sql)
    BY <2>1, <2>2
  <2> QED BY <1>1, <2>1, <2>4, <2>5, HandledKeeps DEF Statuses, Adding
<1> QED BY <1>2, <1>3

\* A tab is added: its row is the last, and no editor and no answer has its id.
LEMMA PostKeeps ==
  ASSUME TabsInv, UNCHANGED <<storage, sqlLab, pasts, count>>, NEW c \in calls,
         c.status = "sent", post_tab(c)
  PROVE  TabsInv'
<1> PICK n : n = Len(tab_state) + 1
  OBVIOUS
<1>1. PICK rows : rows = [t \in DOMAIN tab_state |-> [tab_state[t] EXCEPT !.active = FALSE]]
  OBVIOUS
<1>2. tab_state \in Seq(TabRows) /\ Len(tab_state) < MaxTabStates /\ c.kind \in Adding
  BY DEF TabsInv, TabTypes, post_tab, Adding
<1>3. /\ rows \in Seq(TabRows) /\ Len(rows) = Len(tab_state)
      /\ DOMAIN rows = DOMAIN tab_state
      /\ \A t \in DOMAIN tab_state :
           /\ rows[t].of = tab_state[t].of /\ rows[t].sql = tab_state[t].sql
           /\ rows[t].there = tab_state[t].there /\ rows[t].table = tab_state[t].table
  <2>1. ASSUME NEW t \in DOMAIN tab_state
        PROVE  \E b \in BOOLEAN : rows[t] = [tab_state[t] EXCEPT !.active = b]
    BY <1>1, <2>1
  <2>2. rows = [t \in DOMAIN tab_state |-> rows[t]]
    BY <1>1
  <2> QED BY <1>2, <2>1, <2>2, Deactivated
<1>4. PICK r : r = [of |-> c.of, sql |-> c.sql, active |-> TRUE, table |-> FALSE, there |-> TRUE]
  OBVIOUS
<1>5. r \in TabRows /\ r.of = c.of /\ r.sql = c.sql /\ r.there
  BY <1>4, CallTypes DEF TabRows, Texts
<1>6. tab_state' = Append(rows, r)
  BY <1>1, <1>4 DEF post_tab
<1>7. /\ tab_state' \in Seq(TabRows) /\ Len(tab_state') = n /\ DOMAIN tab_state' = 1..n
      /\ n \in Nat \ {0} /\ n <= MaxTabStates /\ DOMAIN tab_state = 1..(n - 1)
      /\ tab_state'[n] = r /\ \A t \in DOMAIN tab_state : tab_state'[t] = rows[t]
  BY <1>2, <1>3, <1>5, <1>6, TabsAssumption
<1>8. UNCHANGED <<born, closed, adrift, dropped>>
  BY DEF pasts
<1>9. Grows
  BY <1>3, <1>7, <1>8 DEF Grows
<1>10. PICK d : d = [c EXCEPT !.status = "ok", !.id = n, !.sql = c.sql]
  OBVIOUS
<1>11. /\ d.kind = c.kind /\ d.of = c.of /\ d.heard = c.heard
       /\ d.status = "ok" /\ d.id = n /\ d.sql = c.sql
  BY <1>10, CallTypes DEF TabCalls
<1>12. n \in Ids
  BY <1>7 DEF Ids
<1>13. d \in TabCalls
  BY <1>10, <1>12, CallTypes DEF TabCalls
<1>14. calls' = (calls \ {c}) \cup (IF c.heard THEN {d} ELSE {})
  BY <1>7, <1>10 DEF post_tab, Answer
<1>15. CallSound(c) /\ CallSound(c)'
  BY <1>9, CallTypes, CallsStay DEF TabsInv
<1>16. c.heard => CallSound(d)'
  <2>1. IsTab(n, c.of)'
    BY <1>5, <1>7 DEF IsTab
  <2> QED BY <1>2, <1>11, <1>15, <2>1 DEF CallSound, Adding
<1>17. /\ n \in DOMAIN tab_state'
       /\ \A e \in sqlLab.queryEditors : e.id # n
       /\ \A b \in calls : Answered(b) => b.id # n
  <2>1. n \notin Locals /\ n \notin DOMAIN tab_state
    BY <1>7, TabsAssumption
  <2>2. \A e \in sqlLab.queryEditors : e.id \in Locals \cup DOMAIN tab_state
    BY DEF TabsInv, EditorsSound, IsTab
  <2>3. \A b \in calls : Answered(b) => b.id \in DOMAIN tab_state
    BY DEF TabsInv, AddsAreNew
  <2> QED BY <1>7, <2>1, <2>2, <2>3
<1>18. calls' \subseteq TabCalls /\ CallsSound' /\ ActivesSound' /\ AddsAreNew' /\ TablesAreKept'
  BY <1>2, <1>8, <1>9, <1>11, <1>13, <1>14, <1>16, <1>17, AnswerKeeps DEF Adding
<1>19. RowsSound'
  <2>1. ASSUME NEW t \in 1..n, NEW line, line = tab_state'[t] PROVE RowSound(line)'
    <3>1. CASE t = n
      <4>1. Known(c.of) /\ TextOk(c.of, c.sql)
        BY <1>2, <1>15 DEF CallSound
      <4>2. line = r
        BY <2>1, <3>1, <1>7
      <4> QED BY <1>5, <1>9, <4>1, <4>2, WhatStays DEF RowSound, TabsInv
    <3>2. CASE t # n
      <4>1. t \in DOMAIN tab_state
        BY <1>7, <3>2
      <4>2. RowSound(tab_state[t])
        BY <4>1 DEF TabsInv, RowsSound
      <4>3. Known(line.of) /\ TextOk(line.of, line.sql) /\ (line.there \/ line.of \in closed)
        BY <1>3, <1>7, <2>1, <4>1, <4>2 DEF RowSound
      <4> QED BY <1>8, <1>9, <4>3, WhatStays DEF RowSound, TabsInv
    <3> QED BY <3>1, <3>2
  <2> QED BY <1>7, <2>1 DEF RowsSound
<1>20. BornSound' /\ StorageSound' /\ EditorsSound'
  BY <1>8, <1>9, RestStays
<1>21. TabTypes'
  BY <1>7, <1>8, <1>18 DEF TabTypes, TabsInv
<1> QED BY <1>18, <1>19, <1>20, <1>21 DEF TabsInv

\* A request fails, or its answer is lost.
LEMMA FaultKeeps ==
  ASSUME TabsInv, NEW c \in calls, Fail(c) \/ LoseAnswer(c)
  PROVE  TabsInv'
<1>1. /\ UNCHANGED <<storage, tab_state, sqlLab, born, closed, adrift>>
      /\ count' = [count EXCEPT !.faults = @ + 1] /\ Answer(c, "failed", c.id, c.sql)
      /\ dropped' = IF c.kind = "table" /\ c.status = "sent" THEN dropped \cup {c.of} ELSE dropped
  BY DEF Fail, LoseAnswer, Fault, Replies, pasts
<1>2. /\ count' \in [loads : Nat, acts : Nat, faults : Nat, added : 0..MaxAdded]
      /\ count'.added = count.added
  <2>1. PICK k \in [loads : Nat, acts : Nat, faults : Nat, added : 0..MaxAdded] : k = count
    BY DEF TabsInv, TabTypes
  <2>2. count' = [k EXCEPT !.faults = k.faults + 1]
    BY <1>1, <2>1
  <2> QED BY <2>1, <2>2
<1>3. Grows
  BY <1>1, <1>2, StillGrows DEF Still
<1>4. PICK d : d = [c EXCEPT !.status = "failed", !.id = c.id, !.sql = c.sql]
  OBVIOUS
<1>5. /\ d.kind = c.kind /\ d.of = c.of /\ d.heard = c.heard
      /\ d.status = "failed" /\ d.id = c.id /\ d.sql = c.sql
  BY <1>4, CallTypes DEF TabCalls
<1>6. d \in TabCalls
  BY <1>4, CallTypes DEF TabCalls
<1>7. calls' = (calls \ {c}) \cup (IF c.heard THEN {d} ELSE {})
  BY <1>1, <1>4 DEF Answer
<1>8. CallSound(c)'
  BY <1>3, CallTypes, CallsStay DEF TabsInv
<1>9. c.heard => CallSound(d)'
  BY <1>5, <1>8 DEF CallSound, Adding
<1>10. dropped \subseteq dropped' /\ (c.kind = "table" /\ c.status = "sent" => c.of \in dropped')
  BY <1>1
<1>11. calls' \subseteq TabCalls /\ CallsSound' /\ ActivesSound' /\ AddsAreNew' /\ TablesAreKept'
  BY <1>1, <1>3, <1>5, <1>6, <1>7, <1>9, <1>10, AnswerKeeps DEF Answered
<1>12. BornSound' /\ StorageSound' /\ EditorsSound' /\ RowsSound'
  BY <1>1, <1>2, <1>3, WhatStays
     DEF TabsInv, BornSound, StorageSound, EditorsSound, Active, RowsSound, RowSound
<1>13. TabTypes'
  BY <1>1, <1>2, <1>11, CallTypes DEF TabTypes, TabsInv
<1> QED BY <1>11, <1>12, <1>13 DEF TabsInv

-----------------------------------------------------------------------------
(* Answers *)

LEMMA HeardCalls ==
  ASSUME TabsInv, UNCHANGED <<tab_state, pasts, count>>,
         NEW c \in calls, NEW more \in SUBSET TabCalls, Sends(c, more),
         \A d \in more :
           /\ CallSound(d) /\ d.kind \notin Adding
           /\ d.kind = "activate" =>
                \A e \in sqlLab'.queryEditors : e.id = d.id => TextOk(e.of, e.sql),
         \A e \in sqlLab'.queryEditors :
           /\ TextOk(e.of, e.sql) \/ e \in sqlLab.queryEditors
           /\ \/ \E d \in sqlLab.queryEditors : d.id = e.id
              \/ Answered(c) /\ e.id = c.id
  PROVE  calls' \subseteq TabCalls /\ CallsSound' /\ ActivesSound' /\ AddsAreNew'
<1> USE DEF TabsInv
<1>1. UNCHANGED <<tab_state, born, closed, adrift, dropped, count>>
  BY DEF pasts
<1>2. calls' \subseteq calls \cup more /\ (\A b \in calls' : b # c \/ b \in more)
  BY DEF Sends
<1>3. calls' \subseteq TabCalls
  BY <1>2 DEF TabTypes
<1>4. Grows
  BY <1>1, StillGrows DEF Still
<1>5. CallsSound'
  BY <1>2, <1>4, CallsStay DEF CallsSound
<1>6. ActivesSound'
  <2>1. ASSUME NEW b \in calls', b.kind = "activate", b.heard,
               NEW e \in sqlLab'.queryEditors, e.id = b.id
        PROVE  TextOk(e.of, e.sql)
    BY <1>2, <2>1 DEF ActivesSound
  <2> QED BY <1>1, <2>1 DEF ActivesSound, TextOk
<1>7. AddsAreNew'
  <2>1. \A b \in calls' : Answered(b) => b \in calls /\ b # c
    BY <1>2 DEF Answered
  <2>2. ASSUME NEW b \in calls', Answered(b)
        PROVE  /\ b.id \in DOMAIN tab_state'
               /\ \A e \in sqlLab'.queryEditors : e.id # b.id
               /\ \A d \in calls' : Answered(d) /\ d.id = b.id => d = b
    BY <1>1, <2>1, <2>2 DEF AddsAreNew
  <2> QED BY <2>2 DEF AddsAreNew, Answered
<1> QED BY <1>3, <1>5, <1>6, <1>7

LEMMA HeardRest ==
  ASSUME TabsInv, UNCHANGED <<tab_state, pasts, count>>
  PROVE  /\ BornSound' /\ RowsSound'
         /\ UNCHANGED <<tab_state, born, closed, adrift, dropped, count>>
BY DEF TabsInv, BornSound, RowsSound, RowSound, Known, TextOk, pasts

LEMMA EditorTypes ==
  ASSUME TabsInv
  PROVE  /\ sqlLab.queryEditors \subseteq TabEditors /\ sqlLab.tabHistory \in Seq(Ids)
         /\ DOMAIN sqlLab = {"queryEditors", "tabHistory"}
BY DEF TabsInv, TabTypes

\* The answer is heard, and neither the editors nor the storage change but for the tables.
LEMMA StorageStays ==
  ASSUME TabsInv, UNCHANGED <<storage, tab_state, pasts, count>>, NEW c \in calls,
         c.status # "sent", NEW more, Sends(c, more)
  PROVE  StorageSound' /\ TablesAreKept'
<1>1. UNCHANGED <<tab_state, born, closed, adrift, dropped, count>>
  BY DEF pasts
<1>2. \A b \in calls : b.status = "sent" => b \in calls'
  BY DEF Sends
<1> QED BY <1>1, <1>2 DEF TabsInv, StorageSound, TablesAreKept, Rows

\* The texts of the editors of one tab are replaced.
LEMMA AlteredEditors ==
  ASSUME TabsInv, UNCHANGED <<tab_state, pasts, count>>,
         NEW id, NEW of, NEW sql \in Texts, NEW loaded \in BOOLEAN,
         IsTab(id, of), TextOk(of, sql), sqlLab' = AlteredEditor(id, sql, loaded)
  PROVE  /\ sqlLab' \in [queryEditors : SUBSET TabEditors, tabHistory : Seq(Ids)]
         /\ EditorsSound'
         /\ \A e \in sqlLab'.queryEditors :
              /\ TextOk(e.of, e.sql) \/ e \in sqlLab.queryEditors
              /\ e.id = id => TextOk(e.of, e.sql)
              /\ \E d \in sqlLab.queryEditors : d.id = e.id
<1> DEFINE Edited(e) == IF e.id = id THEN [e EXCEPT !.sql = sql, !.loaded = loaded \/ @] ELSE e
<1>1. /\ sqlLab'.queryEditors = {Edited(e) : e \in sqlLab.queryEditors}
      /\ sqlLab'.tabHistory = sqlLab.tabHistory
      /\ DOMAIN sqlLab' = {"queryEditors", "tabHistory"}
      /\ sqlLab' = [queryEditors |-> sqlLab'.queryEditors, tabHistory |-> sqlLab'.tabHistory]
  BY EditorTypes DEF AlteredEditor, TabsInv, TabTypes
<1>2. ASSUME NEW e \in sqlLab.queryEditors, NEW f, f = Edited(e)
      PROVE  /\ f \in TabEditors /\ f.id = e.id /\ f.of = e.of
             /\ \/ f = e /\ e.id # id
                \/ e.id = id /\ f.sql = sql /\ f.of = of
  <2>1. e \in TabEditors /\ IsTab(e.id, e.of)
    BY EditorTypes DEF TabsInv, EditorsSound
  <2>2. CASE e.id = id
    <3>1. PICK b \in BOOLEAN : b = (loaded \/ e.loaded)
      OBVIOUS
    <3>2. f = [e EXCEPT !.sql = sql, !.loaded = b]
      BY <1>2, <2>2, <3>1
    <3>3. f \in TabEditors /\ f.id = e.id /\ f.of = e.of /\ f.sql = sql
      BY <2>1, <3>2 DEF TabEditors, Texts
    <3>4. f.of = of
      BY <2>1, <2>2, <3>3, OneTab DEF TabsInv
    <3> QED BY <2>2, <3>3, <3>4
  <2>3. CASE e.id # id
    BY <1>2, <2>1, <2>3
  <2> QED BY <2>2, <2>3
<1> HIDE DEF Edited
<1>3. ASSUME NEW f \in sqlLab'.queryEditors
      PROVE  \E e \in sqlLab.queryEditors :
               /\ f = Edited(e) /\ f \in TabEditors /\ f.id = e.id /\ f.of = e.of
               /\ \/ f = e /\ e.id # id
                  \/ e.id = id /\ f.sql = sql /\ f.of = of
  BY <1>1, <1>2
<1>4. sqlLab' \in [queryEditors : SUBSET TabEditors, tabHistory : Seq(Ids)]
  BY <1>1, <1>3, EditorTypes
<1>5. \A e \in sqlLab'.queryEditors :
              /\ TextOk(e.of, e.sql) \/ e \in sqlLab.queryEditors
              /\ e.id = id => TextOk(e.of, e.sql)
              /\ \E d \in sqlLab.queryEditors : d.id = e.id
  BY <1>3
<1>6. EditorsSound'
  <2>1. ASSUME NEW f \in sqlLab'.queryEditors
        PROVE  /\ Known(f.of) /\ IsTab(f.id, f.of)
               /\ f.loaded \/ f.id \in ToSet(sqlLab'.tabHistory) => TextOk(f.of, f.sql)
    <3>1. PICK e \in sqlLab.queryEditors :
            /\ f.id = e.id /\ f.of = e.of
            /\ f = e \/ TextOk(f.of, f.sql)
      BY <1>3
    <3>2. /\ Known(e.of) /\ IsTab(e.id, e.of)
          /\ e.loaded \/ e.id \in ToSet(sqlLab.tabHistory) => TextOk(e.of, e.sql)
      BY DEF TabsInv, EditorsSound, Active
    <3> QED BY <1>1, <3>1, <3>2
  <2>2. ASSUME NEW f \in sqlLab'.queryEditors, NEW g \in sqlLab'.queryEditors, f.id = g.id
        PROVE  f = g
    BY <1>3, <2>2 DEF TabsInv, EditorsSound
  <2>3. ToSet(sqlLab'.tabHistory) \subseteq {f.id : f \in sqlLab'.queryEditors}
    <3>1. \A e \in sqlLab.queryEditors : \E f \in sqlLab'.queryEditors : f.id = e.id
      BY <1>1, <1>2
    <3> QED BY <1>1, <3>1 DEF TabsInv, EditorsSound
  <2> QED BY <2>1, <2>2, <2>3, HeardRest DEF EditorsSound, Active, Known, IsTab, TextOk
<1> QED BY <1>4, <1>5, <1>6

\* LOAD_QUERY_EDITOR, after which the tab is activated, and QUERY_EDITOR_SET_SQL.
LEMMA TextHeardKeeps ==
  ASSUME TabsInv, UNCHANGED <<tab_state, pasts, count>>, NEW c \in calls,
         EditorLoaded(c) \/ SqlSet(c)
  PROVE  TabsInv'
<1>1. PICK loaded \in BOOLEAN : sqlLab' = AlteredEditor(c.id, c.sql, loaded)
  BY DEF EditorLoaded, SqlSet
<1>2. c.kind \in {"get", "put"} /\ c.status = "ok" /\ UNCHANGED storage
  BY DEF EditorLoaded, SqlSet
<1>3. IsTab(c.id, c.of) /\ TextOk(c.of, c.sql) /\ c.sql \in Texts /\ c.heard
  BY <1>2, CallTypes DEF CallSound, Adding
<1>4. /\ sqlLab' \in [queryEditors : SUBSET TabEditors, tabHistory : Seq(Ids)]
      /\ EditorsSound'
      /\ \A e \in sqlLab'.queryEditors :
           /\ TextOk(e.of, e.sql) \/ e \in sqlLab.queryEditors
           /\ e.id = c.id => TextOk(e.of, e.sql)
           /\ \E d \in sqlLab.queryEditors : d.id = e.id
  BY <1>1, <1>3, AlteredEditors
<1>5. PICK d : d = Call("activate", c.id, c.of, c.sql)
  OBVIOUS
<1>6. /\ d \in TabCalls /\ d.kind = "activate" /\ d.id = c.id /\ d.of = c.of
      /\ d.status = "sent" /\ d.heard
  BY <1>5, CallTypes DEF Call, TabCalls, Texts
<1>7. CallSound(d)
  BY <1>3, <1>6, CallTypes DEF CallSound, Adding
<1>8. PICK more \in SUBSET TabCalls : Sends(c, more) /\ more \subseteq {d}
  <2>1. CASE EditorLoaded(c)
    BY <1>5, <1>6, <2>1 DEF EditorLoaded
  <2>2. CASE SqlSet(c)
    BY <2>2 DEF SqlSet
  <2> QED BY <2>1, <2>2
<1>9. calls' \subseteq TabCalls /\ CallsSound' /\ ActivesSound' /\ AddsAreNew'
  BY <1>4, <1>6, <1>7, <1>8, HeardCalls DEF Adding
<1>10. BornSound' /\ RowsSound' /\ StorageSound' /\ TablesAreKept'
  BY <1>2, <1>8, HeardRest, StorageStays
<1>11. TabTypes'
  BY <1>2, <1>4, <1>9, HeardRest DEF TabTypes, TabsInv
<1> QED BY <1>4, <1>9, <1>10, <1>11 DEF TabsInv

\* Nothing but the call, and for MIGRATE_TABLE the table in local storage, goes.
LEMMA ToldKeeps ==
  ASSUME TabsInv, UNCHANGED <<tab_state, pasts, count>>, NEW c \in calls,
         Told(c) \/ MigratedTable(c)
  PROVE  TabsInv'
<1>1. /\ UNCHANGED sqlLab /\ Sends(c, {}) /\ c.status # "sent"
      /\ \/ UNCHANGED storage
         \/ c.kind = "table" /\ c.status = "ok"
            /\ storage' = [storage EXCEPT !.tables = @ \ {c.of}]
  BY DEF Told, MigratedTable
<1>2. UNCHANGED <<tab_state, born, closed, adrift, dropped, count>>
  BY DEF pasts
<1>3. /\ storage' \in [queryEditors : SUBSET Locals, tables : SUBSET WithTable,
                       tabHistory : Seq(Ids)]
      /\ storage'.queryEditors = storage.queryEditors
      /\ storage'.tabHistory = storage.tabHistory
      /\ \A o \in storage.tables : \/ o \in storage'.tables
                                   \/ o = c.of /\ c.kind = "table" /\ c.status = "ok"
  BY <1>1 DEF TabsInv, TabTypes
<1>4. calls' \subseteq TabCalls /\ CallsSound' /\ ActivesSound' /\ AddsAreNew'
  BY <1>1, HeardCalls
<1>5. StorageSound' /\ BornSound' /\ RowsSound' /\ EditorsSound'
  BY <1>1, <1>2, <1>3, HeardRest
     DEF TabsInv, StorageSound, EditorsSound, Active, Known, IsTab, TextOk
<1>6. TablesAreKept'
  <2>1. \A b \in calls : b.status = "sent" => b \in calls'
    BY <1>1 DEF Sends
  <2>2. c.kind = "table" /\ c.status = "ok" => TableKept(c.of)
    BY CallTypes DEF CallSound
  <2>3. \A o : TableKept(o) => TableKept(o)'
    BY <1>2 DEF TableKept, Rows
  <2> SUFFICES ASSUME NEW o \in WithTable \cap DOMAIN born
               PROVE  \/ TableKept(o)' \/ o \in dropped
                      \/ o \in storage'.queryEditors \cap storage'.tables
                      \/ \E b \in calls' : b.kind = "table" /\ b.of = o /\ b.status = "sent"
    BY <1>2 DEF TablesAreKept, TableKept, Rows
  <2>4. \/ TableKept(o) \/ o \in dropped \/ o \in storage.queryEditors \cap storage.tables
        \/ \E b \in calls : b.kind = "table" /\ b.of = o /\ b.status = "sent"
    BY DEF TabsInv, TablesAreKept, TableKept, Rows
  <2> QED BY <1>3, <2>1, <2>2, <2>3, <2>4
<1>7. TabTypes'
  BY <1>1, <1>2, <1>3, <1>4 DEF TabsInv, TabTypes
<1> QED BY <1>4, <1>5, <1>6, <1>7 DEF TabsInv

\* SET_ACTIVE_QUERY_EDITOR
LEMMA ActivatedKeeps ==
  ASSUME TabsInv, UNCHANGED <<tab_state, pasts, count>>, NEW c \in calls, Activated(c)
  PROVE  TabsInv'
<1>1. UNCHANGED storage /\ Sends(c, {}) /\ c.kind = "activate" /\ c.status = "ok" /\ c.heard
  BY CallTypes DEF Activated, CallSound
<1>2. UNCHANGED <<tab_state, born, closed, adrift, dropped, count>>
  BY DEF pasts
<1>3. \/ UNCHANGED sqlLab
      \/ /\ sqlLab' = [sqlLab EXCEPT !.tabHistory = Append(sqlLab.tabHistory, c.id)]
         /\ \E e \in sqlLab.queryEditors : e.id = c.id
  BY DEF Activated
<1>4. /\ sqlLab' \in [queryEditors : SUBSET TabEditors, tabHistory : Seq(Ids)]
      /\ sqlLab'.queryEditors = sqlLab.queryEditors
      /\ ToSet(sqlLab'.tabHistory) \subseteq ToSet(sqlLab.tabHistory) \cup {c.id}
      /\ ToSet(sqlLab'.tabHistory) \subseteq {e.id : e \in sqlLab.queryEditors}
  <2>1. CASE UNCHANGED sqlLab
    BY <2>1 DEF TabsInv, TabTypes, EditorsSound
  <2>2. CASE /\ sqlLab' = [sqlLab EXCEPT !.tabHistory = Append(sqlLab.tabHistory, c.id)]
             /\ \E e \in sqlLab.queryEditors : e.id = c.id
    <3>1. c.id \in Ids
      BY <2>2, EditorTypes DEF TabEditors
    <3>2. PICK history : history = Append(sqlLab.tabHistory, c.id)
      OBVIOUS
    <3>3. history \in Seq(Ids) /\ ToSet(history) \subseteq ToSet(sqlLab.tabHistory) \cup {c.id}
      BY <3>1, <3>2, EditorTypes DEF ToSet
    <3>4. sqlLab' = [queryEditors |-> sqlLab.queryEditors, tabHistory |-> history]
      BY <2>2, <3>2, EditorTypes DEF TabsInv, TabTypes
    <3>5. ToSet(sqlLab.tabHistory) \subseteq {e.id : e \in sqlLab.queryEditors}
      BY DEF TabsInv, EditorsSound
    <3>6. sqlLab'.queryEditors = sqlLab.queryEditors /\ sqlLab'.tabHistory = history
      BY <3>4
    <3>7. sqlLab' \in [queryEditors : SUBSET TabEditors, tabHistory : Seq(Ids)]
      BY <3>3, <3>4, EditorTypes
    <3>8. c.id \in {e.id : e \in sqlLab.queryEditors}
      BY <2>2
    <3> QED BY <3>3, <3>5, <3>6, <3>7, <3>8
  <2> QED BY <1>3, <2>1, <2>2
<1>5. calls' \subseteq TabCalls /\ CallsSound' /\ ActivesSound' /\ AddsAreNew'
  BY <1>1, <1>4, HeardCalls
<1>6. \A e \in sqlLab.queryEditors : e.id = c.id => TextOk(e.of, e.sql)
  BY <1>1 DEF TabsInv, ActivesSound
<1>7. EditorsSound'
  BY <1>2, <1>4, <1>6 DEF TabsInv, EditorsSound, Active, Known, IsTab, TextOk
<1>8. BornSound' /\ RowsSound' /\ StorageSound' /\ TablesAreKept'
  BY <1>1, HeardRest, StorageStays
<1>9. TabTypes'
  BY <1>1, <1>2, <1>4, <1>5 DEF TabTypes, TabsInv
<1> QED BY <1>5, <1>7, <1>8, <1>9 DEF TabsInv

\* REMOVE_QUERY_EDITOR
LEMMA RemovedKeeps ==
  ASSUME TabsInv, UNCHANGED <<tab_state, pasts, count>>, NEW c \in calls, Removed(c)
  PROVE  TabsInv'
<1>1. UNCHANGED storage /\ Sends(c, {}) /\ c.status # "sent"
  BY DEF Removed
<1>2. UNCHANGED <<tab_state, born, closed, adrift, dropped, count>>
  BY DEF pasts
<1>3. PICK rest : rest = WithoutEditor(sqlLab.queryEditors, c.id)
  OBVIOUS
<1>4. PICK ids : ids = {e.id : e \in rest}
  OBVIOUS
<1>5. sqlLab' = [queryEditors |-> rest, tabHistory |-> Only(sqlLab.tabHistory, ids)]
  BY <1>3, <1>4 DEF Removed
<1>6. /\ Only(sqlLab.tabHistory, ids) \in Seq(Ids)
      /\ ToSet(Only(sqlLab.tabHistory, ids)) \subseteq ToSet(sqlLab.tabHistory) \cap ids
  BY EditorTypes, OnlyKeeps
<1>7. rest \subseteq sqlLab.queryEditors
  BY <1>3 DEF WithoutEditor
<1>8. /\ sqlLab' \in [queryEditors : SUBSET TabEditors, tabHistory : Seq(Ids)]
      /\ sqlLab'.queryEditors \subseteq sqlLab.queryEditors
      /\ ToSet(sqlLab'.tabHistory) \subseteq ToSet(sqlLab.tabHistory)
      /\ ToSet(sqlLab'.tabHistory) \subseteq {e.id : e \in sqlLab'.queryEditors}
  BY <1>4, <1>5, <1>6, <1>7, EditorTypes
<1>9. calls' \subseteq TabCalls /\ CallsSound' /\ ActivesSound' /\ AddsAreNew'
  BY <1>1, <1>8, HeardCalls
<1>10. EditorsSound'
  BY <1>2, <1>8 DEF TabsInv, EditorsSound, Active, Known, IsTab, TextOk
<1>11. BornSound' /\ RowsSound' /\ StorageSound' /\ TablesAreKept'
  BY <1>1, HeardRest, StorageStays
<1>12. TabTypes'
  BY <1>1, <1>2, <1>8, <1>9 DEF TabTypes, TabsInv
<1> QED BY <1>9, <1>10, <1>11, <1>12 DEF TabsInv

\* The editors when one of a new id comes and the others stay or go.
LEMMA EditorComes ==
  ASSUME TabsInv, UNCHANGED <<tab_state, pasts, count>>, NEW c \in calls, Answered(c),
         NEW loaded \in BOOLEAN, NEW rest, rest \subseteq sqlLab.queryEditors,
         NEW history \in Seq(Ids), ToSet(history) \subseteq ToSet(sqlLab.tabHistory),
         ToSet(history) \subseteq {e.id : e \in rest},
         sqlLab' = [queryEditors |-> rest \cup {Editor(c.id, c.of, c.sql, loaded)},
                    tabHistory |-> Append(history, c.id)]
  PROVE  /\ sqlLab' \in [queryEditors : SUBSET TabEditors, tabHistory : Seq(Ids)]
         /\ EditorsSound'
         /\ \A e \in sqlLab'.queryEditors :
              /\ TextOk(e.of, e.sql) \/ e \in sqlLab.queryEditors
              /\ \/ \E d \in sqlLab.queryEditors : d.id = e.id
                 \/ Answered(c) /\ e.id = c.id
<1>1. PICK new : new = Editor(c.id, c.of, c.sql, loaded)
  OBVIOUS
<1>2. c.id \in Ids /\ c.id \in DOMAIN tab_state
  <2>1. c.id \in DOMAIN tab_state
    BY DEF TabsInv, AddsAreNew
  <2>2. Len(tab_state) <= MaxTabStates /\ tab_state \in Seq(TabRows)
    BY DEF TabsInv, TabTypes
  <2> QED BY <2>1, <2>2, TabsAssumption DEF Ids
<1>3. /\ new \in TabEditors /\ new.id = c.id /\ new.of = c.of /\ new.sql = c.sql
  BY <1>1, <1>2, CallTypes DEF Editor, TabEditors, Texts
<1>4. Known(c.of) /\ IsTab(c.id, c.of) /\ TextOk(c.of, c.sql)
  BY CallTypes DEF CallSound, Answered
<1>5. \A e \in sqlLab.queryEditors : e.id # c.id
  BY DEF TabsInv, AddsAreNew
<1>6. PICK later : later = Append(history, c.id)
  OBVIOUS
<1>7. later \in Seq(Ids) /\ ToSet(later) \subseteq ToSet(history) \cup {c.id}
  BY <1>2, <1>6 DEF ToSet
<1>8. sqlLab' = [queryEditors |-> rest \cup {new}, tabHistory |-> later]
  BY <1>1, <1>6
<1>9. sqlLab'.queryEditors = rest \cup {new} /\ sqlLab'.tabHistory = later
  BY <1>8
<1>10. sqlLab' \in [queryEditors : SUBSET TabEditors, tabHistory : Seq(Ids)]
  <2>1. rest \cup {new} \subseteq TabEditors
    BY <1>3, EditorTypes
  <2> QED BY <1>7, <1>8, <2>1
<1>11. ASSUME NEW e \in rest \cup {new}
       PROVE  /\ Known(e.of) /\ IsTab(e.id, e.of)
              /\ e.loaded \/ e.id \in ToSet(later) => TextOk(e.of, e.sql)
  <2>1. CASE e = new
    BY <1>3, <1>4, <2>1
  <2>2. CASE e \in rest
    BY <1>5, <1>7, <2>2 DEF TabsInv, EditorsSound, Active
  <2> QED BY <2>1, <2>2
<1>12. \A d, e \in rest \cup {new} : d.id = e.id => d = e
  BY <1>3, <1>5 DEF TabsInv, EditorsSound
<1>13. ToSet(later) \subseteq {e.id : e \in rest \cup {new}}
  BY <1>3, <1>7
<1>14. EditorsSound'
  BY <1>9, <1>11, <1>12, <1>13, HeardRest DEF EditorsSound, Active, Known, IsTab, TextOk
<1>15. ASSUME NEW e \in rest \cup {new}
       PROVE  /\ TextOk(e.of, e.sql) \/ e \in sqlLab.queryEditors
              /\ \/ \E d \in sqlLab.queryEditors : d.id = e.id
                 \/ Answered(c) /\ e.id = c.id
  BY <1>3, <1>4
<1> QED BY <1>9, <1>10, <1>14, <1>15

\* ADD_QUERY_EDITOR
LEMMA AddedKeeps ==
  ASSUME TabsInv, UNCHANGED <<tab_state, pasts, count>>, NEW c \in calls, Added(c)
  PROVE  TabsInv'
<1>1. UNCHANGED storage /\ Sends(c, {}) /\ c.status # "sent" /\ Answered(c)
  BY DEF Added, Answered, Adding
<1>2. sqlLab' = [queryEditors |-> sqlLab.queryEditors \cup {Editor(c.id, c.of, c.sql, FALSE)},
                 tabHistory |-> Append(sqlLab.tabHistory, c.id)]
  BY DEF Added
<1>3. /\ sqlLab' \in [queryEditors : SUBSET TabEditors, tabHistory : Seq(Ids)]
      /\ EditorsSound'
      /\ \A e \in sqlLab'.queryEditors :
           /\ TextOk(e.of, e.sql) \/ e \in sqlLab.queryEditors
           /\ \/ \E d \in sqlLab.queryEditors : d.id = e.id
              \/ Answered(c) /\ e.id = c.id
  <2>1. ToSet(sqlLab.tabHistory) \subseteq {e.id : e \in sqlLab.queryEditors}
    BY DEF TabsInv, EditorsSound
  <2> QED BY <1>1, <1>2, <2>1, EditorTypes, EditorComes
<1>4. calls' \subseteq TabCalls /\ CallsSound' /\ ActivesSound' /\ AddsAreNew'
  BY <1>1, <1>3, HeardCalls
<1>5. BornSound' /\ RowsSound' /\ StorageSound' /\ TablesAreKept'
  BY <1>1, HeardRest, StorageStays
<1>6. TabTypes'
  BY <1>1, <1>3, <1>4, HeardRest DEF TabTypes, TabsInv
<1> QED BY <1>3, <1>4, <1>5, <1>6 DEF TabsInv

\* MIGRATE_QUERY_EDITOR and MIGRATE_TAB_HISTORY: the tab goes from the local storage to
\* its row, and its table follows with a request of its own.
LEMMA MigratedKeeps ==
  ASSUME TabsInv, UNCHANGED <<tab_state, pasts, count>>, NEW c \in calls, Migrated(c)
  PROVE  TabsInv'
<1>1. c.kind = "migrate" /\ c.status = "ok" /\ Answered(c)
  BY DEF Migrated, Answered, Adding
<1>2. UNCHANGED <<tab_state, born, closed, adrift, dropped, count>>
  BY DEF pasts
<1>3. c.of \in Locals /\ IsTab(c.id, c.of) /\ c.id \in DOMAIN tab_state /\ Known(c.of)
  BY <1>1, CallTypes DEF CallSound, TabsInv, AddsAreNew
<1>4. tab_state[c.id].of = c.of /\ c.id \notin Locals
  BY <1>1, <1>3, OwnRow
<1> DEFINE others == Ids \ {c.of}
<1>5. PICK stored : stored = Only(storage.tabHistory, others)
  OBVIOUS
<1>6. storage.tabHistory \in Seq(Ids)
  BY DEF TabsInv, TabTypes
<1>7. stored \in Seq(Ids) /\ ToSet(stored) \subseteq ToSet(storage.tabHistory) \cap others
  BY <1>5, <1>6, OnlyKeeps
<1>8. /\ storage' = [queryEditors |-> storage.queryEditors \ {c.of},
                     tables |-> storage.tables, tabHistory |-> stored]
      /\ storage.queryEditors \subseteq Locals /\ storage.tables \subseteq WithTable
  BY <1>5 DEF Migrated, TabsInv, TabTypes
<1>9. PICK rest : rest = WithoutEditor(sqlLab.queryEditors, c.of)
  OBVIOUS
<1>10. PICK shown : shown = Only(sqlLab.tabHistory, others)
  OBVIOUS
<1>11. shown \in Seq(Ids) /\ ToSet(shown) \subseteq ToSet(sqlLab.tabHistory) \cap others
  BY <1>10, EditorTypes, OnlyKeeps
<1>12. rest \subseteq sqlLab.queryEditors /\ ToSet(shown) \subseteq {e.id : e \in rest}
  <2>1. ToSet(sqlLab.tabHistory) \subseteq {e.id : e \in sqlLab.queryEditors}
    BY DEF TabsInv, EditorsSound
  <2> QED BY <1>9, <1>11, <2>1 DEF WithoutEditor
<1>13. sqlLab' = [queryEditors |-> rest \cup {Editor(c.id, c.of, c.sql, TRUE)},
                  tabHistory |-> Append(shown, c.id)]
  BY <1>9, <1>10 DEF Migrated
<1>14. /\ sqlLab' \in [queryEditors : SUBSET TabEditors, tabHistory : Seq(Ids)]
       /\ EditorsSound'
       /\ \A e \in sqlLab'.queryEditors :
            /\ TextOk(e.of, e.sql) \/ e \in sqlLab.queryEditors
            /\ \/ \E d \in sqlLab.queryEditors : d.id = e.id
               \/ Answered(c) /\ e.id = c.id
  BY <1>1, <1>11, <1>12, <1>13, EditorComes
<1>15. PICK d : d = Call("table", c.id, c.of, c.sql)
  OBVIOUS
<1>16. /\ d \in TabCalls /\ d.kind = "table" /\ d.id = c.id /\ d.of = c.of
       /\ d.status = "sent" /\ d.heard
  BY <1>15, CallTypes DEF Call, TabCalls, Texts
<1>17. CallSound(d)
  BY <1>3, <1>4, <1>16 DEF CallSound, Adding
<1>18. PICK more \in SUBSET TabCalls :
         Sends(c, more) /\ more \subseteq {d} /\ (c.of \in storage.tables => d \in more)
  BY <1>15, <1>16 DEF Migrated
<1>19. calls' \subseteq TabCalls /\ CallsSound' /\ ActivesSound' /\ AddsAreNew'
  BY <1>14, <1>16, <1>17, <1>18, HeardCalls DEF Adding
<1>20. StorageSound'
  <2>1. storage'.queryEditors = storage.queryEditors \ {c.of} /\ storage'.tabHistory = stored
    BY <1>8
  <2> QED BY <1>2, <1>3, <1>4, <1>7, <2>1 DEF TabsInv, StorageSound
<1>21. TablesAreKept'
  <2>1. \A b \in calls : b.status = "sent" => b \in calls'
    BY <1>1, <1>18 DEF Sends
  <2>2. storage'.queryEditors = storage.queryEditors \ {c.of} /\ storage'.tables = storage.tables
    BY <1>8
  <2>3. c.of \in storage.tables =>
          \E b \in calls' : b.kind = "table" /\ b.of = c.of /\ b.status = "sent"
    BY <1>16, <1>18 DEF Sends
  <2> QED BY <1>2, <2>1, <2>2, <2>3 DEF TabsInv, TablesAreKept, Rows
<1>22. TabTypes'
  <2>1. storage' \in [queryEditors : SUBSET Locals, tables : SUBSET WithTable,
                      tabHistory : Seq(Ids)]
    BY <1>7, <1>8
  <2> QED BY <1>2, <1>14, <1>19, <2>1 DEF TabsInv, TabTypes
<1> QED BY <1>14, <1>19, <1>20, <1>21, <1>22, HeardRest DEF TabsInv

-----------------------------------------------------------------------------
(* What users do *)

\* A step of the user sends one request more, and what was sound remains so.
LEMMA AskKeeps ==
  ASSUME TabsInv, Grows, UNCHANGED <<storage, sqlLab, dropped>>,
         NEW d \in TabCalls, calls' = calls \cup {d}, CallSound(d)', ~Answered(d),
         d.kind = "activate" => \A e \in sqlLab.queryEditors : e.id = d.id => TextOk(e.of, e.sql)
  PROVE  /\ calls' \subseteq TabCalls /\ CallsSound' /\ ActivesSound' /\ AddsAreNew'
         /\ TablesAreKept' /\ StorageSound' /\ EditorsSound'
<1> USE DEF TabsInv
<1>1. calls' \subseteq TabCalls
  BY DEF TabTypes
<1>2. CallsSound'
  BY CallsStay DEF CallsSound
<1>3. ActivesSound'
  <2>1. \A e \in sqlLab.queryEditors : TextOk(e.of, e.sql) => TextOk(e.of, e.sql)'
    BY WhatStays DEF EditorsSound
  <2>2. ASSUME NEW b \in calls', b.kind = "activate", b.heard, NEW e \in sqlLab.queryEditors,
               e.id = b.id
        PROVE  TextOk(e.of, e.sql)
    BY <2>2 DEF ActivesSound
  <2> QED BY <2>1, <2>2 DEF ActivesSound
<1>4. AddsAreNew'
  <2>1. \A b \in calls' : Answered(b) => b \in calls
    OBVIOUS
  <2>2. \A t \in DOMAIN tab_state : t \in DOMAIN tab_state'
    BY DEF Grows
  <2> QED BY <2>1, <2>2 DEF AddsAreNew, Answered
<1>5. TablesAreKept'
  <2> SUFFICES ASSUME NEW o \in WithTable \cap DOMAIN born
               PROVE  \/ TableKept(o)' \/ o \in dropped
                      \/ o \in storage.queryEditors \cap storage.tables
                      \/ \E b \in calls' : b.kind = "table" /\ b.of = o /\ b.status = "sent"
    BY DEF TablesAreKept, TableKept, Rows, Grows
  <2>1. \/ TableKept(o) \/ o \in dropped \/ o \in storage.queryEditors \cap storage.tables
        \/ \E b \in calls : b.kind = "table" /\ b.of = o /\ b.status = "sent"
    BY DEF TablesAreKept, TableKept, Rows
  <2> QED BY <2>1, WhatStays
<1>6. StorageSound'
  <2>1. ASSUME NEW l \in Locals \cap DOMAIN born
        PROVE  l \in storage.queryEditors
               \/ \E t \in DOMAIN tab_state' : tab_state'[t].of = l
    BY DEF StorageSound, Grows
  <2> QED BY <2>1 DEF StorageSound, Grows
<1>7. EditorsSound'
  BY WhatStays DEF EditorsSound, Active
<1> QED BY <1>1, <1>2, <1>3, <1>4, <1>5, <1>6, <1>7

LEMMA CountTypes ==
  ASSUME TabsInv
  PROVE  count \in [loads : Nat, acts : Nat, faults : Nat, added : 0..MaxAdded]
BY DEF TabsInv, TabTypes

\* The request for a tab that is shown.
LEMMA AskedCall ==
  ASSUME TabsInv, NEW e \in sqlLab.queryEditors,
         NEW kind \in {"get", "activate", "delete", "put"}, NEW d,
         d = Call(kind, e.id, e.of, e.sql)
  PROVE  /\ d \in TabCalls /\ d.kind = kind /\ d.id = e.id /\ d.of = e.of /\ d.sql = e.sql
         /\ d.status = "sent" /\ d.heard
         /\ Known(e.of) /\ IsTab(e.id, e.of) /\ e \in TabEditors
<1>1. e \in TabEditors
  BY EditorTypes
<1>2. Known(e.of) /\ IsTab(e.id, e.of)
  BY DEF TabsInv, EditorsSound
<1>3. /\ d.kind = kind /\ d.id = e.id /\ d.of = e.of /\ d.sql = e.sql
      /\ d.status = "sent" /\ d.heard
  BY DEF Call
<1>4. d \in TabCalls
  BY <1>1 DEF Call, TabCalls, TabEditors
<1> QED BY <1>1, <1>2, <1>3, <1>4

\* Selecting a tab, closing it, and storing its text: tab_state stays as it is.
LEMMA EditorActKeeps ==
  ASSUME TabsInv, NEW e \in sqlLab.queryEditors, NEW kind \in {"get", "activate", "delete", "put"},
         Act, Ask(kind, e), UNCHANGED <<storage, tab_state, sqlLab, born, dropped>>,
         closed \subseteq closed', closed' \subseteq closed \cup {e.of},
         adrift \subseteq adrift', adrift' \subseteq adrift \cup {e.of},
         kind = "activate" => e.loaded,
         kind = "delete" => e.id \in Locals \/ e.of \in closed',
         kind = "put" => Active(e.id) \/ e.of \in adrift'
  PROVE  TabsInv'
<1>1. count' = [count EXCEPT !.acts = @ + 1]
  BY DEF Act
<1>2. /\ count' \in [loads : Nat, acts : Nat, faults : Nat, added : 0..MaxAdded]
      /\ count'.added = count.added
  <2>1. PICK k \in [loads : Nat, acts : Nat, faults : Nat, added : 0..MaxAdded] : k = count
    BY CountTypes
  <2>2. count' = [k EXCEPT !.acts = k.acts + 1]
    BY <1>1, <2>1
  <2> QED BY <2>1, <2>2
<1>3. Grows
  BY <1>2 DEF Grows
<1>4. PICK d : d = Call(kind, e.id, e.of, e.sql)
  OBVIOUS
<1>5. /\ d \in TabCalls /\ d.kind = kind /\ d.id = e.id /\ d.of = e.of /\ d.sql = e.sql
      /\ d.status = "sent" /\ d.heard
      /\ Known(e.of) /\ IsTab(e.id, e.of) /\ e \in TabEditors
  BY <1>4, AskedCall
<1>6. calls' = calls \cup {d}
  BY <1>4 DEF Ask
<1>7. CallSound(d)'
  <2>1. Known(d.of)' /\ IsTab(d.id, d.of)'
    BY <1>3, <1>5, WhatStays DEF TabsInv
  <2>2. kind = "put" => TextOk(d.of, d.sql)'
    <3>1. Active(e.id) => TextOk(e.of, e.sql)
      BY DEF TabsInv, EditorsSound
    <3>2. Active(e.id) => TextOk(d.of, d.sql)'
      BY <1>3, <1>5, <3>1, WhatStays DEF TabsInv
    <3>3. e.of \in adrift' => TextOk(d.of, d.sql)'
      BY <1>5 DEF TextOk
    <3> QED BY <3>2, <3>3
  <2>3. kind = "delete" => d.id \in Locals \/ d.of \in closed'
    BY <1>5
  <2> QED BY <1>5, <2>1, <2>2, <2>3 DEF CallSound, Adding
<1>8. d.kind = "activate" => \A f \in sqlLab.queryEditors : f.id = d.id => TextOk(f.of, f.sql)
  BY <1>5 DEF TabsInv, EditorsSound
<1>9. ~Answered(d)
  BY <1>5 DEF Answered
<1>10. /\ calls' \subseteq TabCalls /\ CallsSound' /\ ActivesSound' /\ AddsAreNew'
       /\ TablesAreKept' /\ StorageSound' /\ EditorsSound'
  BY <1>3, <1>5, <1>6, <1>7, <1>8, <1>9, AskKeeps
<1>11. BornSound'
  BY <1>2 DEF TabsInv, BornSound
<1>12. RowsSound'
  BY <1>3, WhatStays DEF TabsInv, RowsSound, RowSound
<1>13. TabTypes'
  BY <1>2, <1>5, <1>10, KnownIsATab DEF TabsInv, TabTypes
<1> QED BY <1>10, <1>11, <1>12, <1>13 DEF TabsInv

LEMMA ShowKeeps ==
  ASSUME TabsInv, NEW e \in sqlLab.queryEditors,
         Select(e) \/ Close(e) \/ (e \in Shown /\ queryEditorSetSql(e))
  PROVE  TabsInv'
<1>1. CASE Select(e)
  <2>1. PICK kind \in {"get", "activate"} : Ask(kind, e) /\ (kind = "activate" => e.loaded)
    BY <1>1 DEF Select, switchQueryEditor
  <2>2. Act /\ UNCHANGED <<storage, tab_state, sqlLab, born, closed, adrift, dropped>>
    BY <1>1 DEF Select, pasts
  <2> QED BY <2>1, <2>2, EditorActKeeps
<1>2. CASE Close(e)
  <2>1. /\ Act /\ Ask("delete", e)
        /\ UNCHANGED <<storage, tab_state, sqlLab, born, adrift, dropped>>
        /\ closed' = IF e.id \in Locals THEN closed ELSE closed \cup {e.of}
    BY <1>2 DEF Close
  <2> QED BY <2>1, EditorActKeeps
<1>3. CASE e \in Shown /\ queryEditorSetSql(e)
  <2>1. /\ Act /\ Ask("put", e)
        /\ UNCHANGED <<storage, tab_state, sqlLab, born, closed, dropped>>
        /\ adrift' = IF sqlLab.tabHistory = <<>> THEN adrift \cup {e.of} ELSE adrift
    BY <1>3 DEF queryEditorSetSql
  <2>2. sqlLab.tabHistory # <<>> => Active(e.id)
    <3>1. sqlLab.tabHistory # <<>> =>
             Len(sqlLab.tabHistory) \in DOMAIN sqlLab.tabHistory
      BY EditorTypes
    <3> QED BY <1>3, <3>1 DEF Shown, Active, ToSet, Last
  <2> QED BY <2>1, <2>2, EditorActKeeps
<1> QED BY <1>1, <1>2, <1>3

\* A tab that is closed in another browser is gone, and was closed.
LEMMA CloseElsewhereKeeps ==
  ASSUME TabsInv, NEW t \in Rows, CloseElsewhere(t)
  PROVE  TabsInv'
<1>1. /\ UNCHANGED <<storage, sqlLab, calls, born, adrift, dropped>>
      /\ count' = [count EXCEPT !.acts = @ + 1] /\ t \in DOMAIN tab_state
      /\ closed' = closed \cup {tab_state[t].of}
  BY DEF CloseElsewhere, Act, Rows
<1>2. /\ count' \in [loads : Nat, acts : Nat, faults : Nat, added : 0..MaxAdded]
      /\ count'.added = count.added
  <2>1. PICK k \in [loads : Nat, acts : Nat, faults : Nat, added : 0..MaxAdded] : k = count
    BY CountTypes
  <2>2. count' = [k EXCEPT !.acts = k.acts + 1]
    BY <1>1, <2>1
  <2> QED BY <2>1, <2>2
<1>3. tab_state \in Seq(TabRows) /\ tab_state[t] \in TabRows
  BY <1>1 DEF TabsInv, TabTypes
<1>4. PICK r : r = [tab_state[t] EXCEPT !.there = FALSE, !.active = FALSE, !.table = FALSE]
  OBVIOUS
<1>5. r \in TabRows /\ r.sql = tab_state[t].sql /\ r.of = tab_state[t].of
  BY <1>3, <1>4 DEF TabRows
<1>6. tab_state' = [tab_state EXCEPT ![t] = r]
  BY <1>4 DEF CloseElsewhere
<1>7. /\ tab_state' \in Seq(TabRows) /\ Len(tab_state') = Len(tab_state)
      /\ DOMAIN tab_state' = DOMAIN tab_state
      /\ \A u \in DOMAIN tab_state : tab_state'[u] = IF u = t THEN r ELSE tab_state[u]
  BY <1>1, <1>3, <1>5, <1>6, AlteredRow
<1>8. Grows
  BY <1>1, <1>2, <1>5, <1>7 DEF Grows
<1>9. RowsSound'
  <2>1. ASSUME NEW u \in DOMAIN tab_state, NEW line, line = tab_state'[u] PROVE RowSound(line)'
    <3>1. Known(line.of) /\ TextOk(line.of, line.sql)
      BY <1>5, <1>7, <2>1 DEF TabsInv, RowsSound, RowSound
    <3>2. line.there \/ line.of \in closed'
      BY <1>1, <1>5, <1>7, <2>1 DEF TabsInv, RowsSound, RowSound
    <3> QED BY <1>8, <3>1, <3>2, WhatStays DEF TabsInv, RowSound
  <2> QED BY <1>7, <2>1 DEF RowsSound
<1>10. CallsSound' /\ EditorsSound' /\ BornSound'
  BY <1>1, <1>2, <1>8, CallsStay, WhatStays
     DEF TabsInv, CallsSound, EditorsSound, Active, BornSound
<1>11. ActivesSound'
  BY <1>1, <1>8, WhatStays DEF TabsInv, ActivesSound, EditorsSound
<1>12. AddsAreNew' /\ StorageSound'
  BY <1>1, <1>7, <1>8 DEF TabsInv, AddsAreNew, Answered, StorageSound, Grows
<1>13. TablesAreKept'
  <2>1. \A o : TableKept(o) => TableKept(o)'
    BY <1>8, WhatStays DEF TabsInv
  <2> SUFFICES ASSUME NEW o \in WithTable \cap DOMAIN born
               PROVE  \/ TableKept(o)' \/ o \in dropped
                      \/ o \in storage.queryEditors \cap storage.tables
                      \/ \E b \in calls : b.kind = "table" /\ b.of = o /\ b.status = "sent"
    BY <1>1 DEF TablesAreKept, TableKept, Rows
  <2> QED BY <2>1 DEF TabsInv, TablesAreKept, TableKept, Rows
<1>14. TabTypes'
  <2>1. tab_state[t].of \in Tabs
    BY <1>3 DEF TabRows
  <2> QED BY <1>1, <1>2, <1>7, <2>1 DEF TabsInv, TabTypes
<1> QED BY <1>9, <1>10, <1>11, <1>12, <1>13, <1>14 DEF TabsInv

\* A tab that is added gets a number that none has.
LEMMA AddKeeps ==
  ASSUME TabsInv, NEW sql \in Texts, addQueryEditor(sql)
  PROVE  TabsInv'
<1>1. PICK new : new = count.added + 1
  OBVIOUS
<1>2. count.added \in 0..MaxAdded /\ count.added < MaxAdded
  BY CountTypes DEF addQueryEditor
<1>3. /\ UNCHANGED <<storage, tab_state, sqlLab, closed, adrift, dropped>>
      /\ born' = [born EXCEPT ![new] = sql]
      /\ calls' = calls \cup {Call("add", 0, new, sql)}
      /\ count' = [count EXCEPT !.acts = @ + 1, !.added = new]
  BY <1>1 DEF addQueryEditor
<1>4. new \in 1..MaxAdded /\ new > count.added /\ new \notin Locals /\ new \in DOMAIN born
      /\ new \in Tabs
  BY <1>1, <1>2, TabsAssumption DEF TabsInv, TabTypes, Tabs
<1>5. /\ count' \in [loads : Nat, acts : Nat, faults : Nat, added : 0..MaxAdded]
      /\ count'.added = new
  <2>1. PICK k \in [loads : Nat, acts : Nat, faults : Nat, added : 0..MaxAdded] : k = count
    BY CountTypes
  <2>2. count' = [k EXCEPT !.acts = k.acts + 1, !.added = new]
    BY <1>3, <2>1
  <2>3. k.acts + 1 \in Nat /\ new \in 0..MaxAdded
    BY <1>4, <2>1, TabsAssumption
  <2>4. count' \in [loads : Nat, acts : Nat, faults : Nat, added : 0..MaxAdded]
    BY <2>1, <2>2, <2>3
  <2> QED BY <2>1, <2>2, <2>4
<1>6. /\ DOMAIN born' = DOMAIN born /\ born' \in [DOMAIN born' -> Texts] /\ born'[new] = sql
      /\ \A o \in DOMAIN born : o # new => born'[o] = born[o]
  BY <1>3, <1>4 DEF TabsInv, TabTypes, Texts
<1>7. \A o : Known(o) => o # new
  BY <1>2, <1>4 DEF Known
<1>8. Grows
  <2>1. ASSUME NEW o \in Tabs, Known(o) PROVE born'[o] = born[o]
    BY <1>6, <1>7, <2>1, KnownIsATab DEF TabsInv
  <2>2. 1..count.added \subseteq 1..count'.added
    BY <1>1, <1>2, <1>5
  <2> QED BY <1>3, <1>6, <2>1, <2>2 DEF Grows
<1>9. PICK d : d = Call("add", 0, new, sql)
  OBVIOUS
<1>10. /\ d \in TabCalls /\ d.kind = "add" /\ d.of = new /\ d.sql = sql
       /\ d.status = "sent" /\ d.heard
  BY <1>4, <1>9 DEF Call, TabCalls, Texts, Adding
<1>11. CallSound(d)'
  <2>1. Known(new)'
    BY <1>4, <1>5 DEF Known
  <2>2. TextOk(new, sql)'
    BY <1>6 DEF TextOk
  <2> QED BY <1>10, <2>1, <2>2 DEF CallSound, Adding
<1>12. /\ calls' \subseteq TabCalls /\ CallsSound' /\ ActivesSound' /\ AddsAreNew'
       /\ TablesAreKept' /\ StorageSound' /\ EditorsSound'
  BY <1>3, <1>8, <1>9, <1>10, <1>11, AskKeeps DEF Answered
<1>13. BornSound'
  <2>1. \A l \in Locals \cap DOMAIN born : born'[l] = l
    BY <1>4, <1>6 DEF TabsInv, BornSound
  <2>2. \A n \in 1..MaxAdded : n > new => born'[n] = n
    BY <1>1, <1>2, <1>4, <1>6 DEF TabsInv, BornSound, TabTypes
  <2> QED BY <1>5, <1>6, <2>1, <2>2 DEF BornSound
<1>14. RowsSound'
  BY <1>3, <1>8, WhatStays DEF TabsInv, RowsSound, RowSound
<1>15. TabTypes'
  BY <1>3, <1>5, <1>6, <1>12 DEF TabsInv, TabTypes, Texts
<1> QED BY <1>12, <1>13, <1>14, <1>15 DEF TabsInv

-----------------------------------------------------------------------------
(* Loading the page *)

\* What a page shows when it is loaded.
LEMMA ShownOnLoad ==
  ASSUME TabsInv, NEW active, Rows = {} => active = 0, Rows # {} => active \in Rows,
         NEW e \in TabsOf(active)
  PROVE  /\ e \in TabEditors /\ Known(e.of) /\ IsTab(e.id, e.of)
         /\ e.loaded \/ e.id = active \/ e.id \in Locals => TextOk(e.of, e.sql)
         /\ \/ e.id \in Rows /\ e = Editor(e.id, tab_state[e.id].of,
                 IF e.id = active THEN tab_state[e.id].sql ELSE Placeholder, e.id = active)
            \/ e.id \in storage.queryEditors /\ e = Editor(e.id, e.id, e.id, TRUE)
<1>1. DOMAIN tab_state \subseteq 1..MaxTabStates /\ tab_state \in Seq(TabRows)
  BY TabsAssumption DEF TabsInv, TabTypes
<1>2. CASE \E t \in Rows :
             e = Editor(t, tab_state[t].of,
                        IF t = active THEN tab_state[t].sql ELSE Placeholder, t = active)
  <2>1. PICK t \in Rows :
          e = Editor(t, tab_state[t].of,
                     IF t = active THEN tab_state[t].sql ELSE Placeholder, t = active)
    BY <1>2
  <2>2. t \in DOMAIN tab_state /\ tab_state[t] \in TabRows /\ t \in Nat
    BY <1>1 DEF Rows
  <2>3. RowSound(tab_state[t])
    BY <2>2 DEF TabsInv, RowsSound
  <2>4. /\ e.id = t /\ e.of = tab_state[t].of
        /\ e.sql = (IF t = active THEN tab_state[t].sql ELSE Placeholder)
        /\ e.loaded = (t = active)
    BY <2>1 DEF Editor
  <2>5. e \in TabEditors
    BY <1>1, <2>1, <2>2 DEF Editor, TabEditors, TabRows, Ids
  <2>6. t \notin Locals
    BY <2>2, TabsAssumption
  <2>7. e.loaded <=> t = active
    BY <2>4
  <2> QED BY <2>1, <2>2, <2>3, <2>4, <2>5, <2>6, <2>7 DEF RowSound, IsTab
<1>3. CASE \E l \in storage.queryEditors : e = Editor(l, l, l, TRUE)
  <2>1. PICK l \in storage.queryEditors : e = Editor(l, l, l, TRUE)
    BY <1>3
  <2>2. l \in Locals \cap DOMAIN born
    BY DEF TabsInv, TabTypes, StorageSound
  <2>3. e.id = l /\ e.of = l /\ e.sql = l
    BY <2>1 DEF Editor
  <2>4. e \in TabEditors
    BY <2>1, <2>2 DEF Editor, TabEditors, Ids, Tabs
  <2>5. born[l] = l
    BY <2>2 DEF TabsInv, BornSound
  <2> QED BY <2>1, <2>2, <2>3, <2>4, <2>5 DEF Known, IsTab, TextOk
<1> QED BY <1>2, <1>3 DEF TabsOf

\* The requests of the page that is left, and those of the new one.
LEMMA CallsOnLoad ==
  ASSUME TabsInv, Grows, UNCHANGED <<tab_state, pasts>>, NEW mount,
         calls' = Unheard \cup mount,
         \A c \in mount : /\ c \in TabCalls /\ CallSound(c)'
                          /\ c.kind \in Adding /\ c.status = "sent"
  PROVE  /\ calls' \subseteq TabCalls /\ CallsSound' /\ ActivesSound' /\ AddsAreNew'
         /\ \A c \in calls : c.kind = "table" /\ c.status = "sent" =>
              \E b \in calls' : b.kind = "table" /\ b.of = c.of /\ b.status = "sent"
<1>1. ASSUME NEW c \in calls, c.status = "sent", NEW b, b = [c EXCEPT !.heard = FALSE]
      PROVE  /\ b \in TabCalls /\ CallSound(b)' /\ b.kind = c.kind /\ b.of = c.of
             /\ b.status = "sent" /\ ~b.heard
  <2>1. c \in TabCalls /\ CallSound(c)
    BY DEF TabsInv, TabTypes, CallsSound
  <2>2. /\ b.kind = c.kind /\ b.of = c.of /\ b.id = c.id /\ b.sql = c.sql
        /\ b.status = "sent" /\ ~b.heard /\ b \in TabCalls
    BY <1>1, <2>1 DEF TabCalls
  <2>3. CallSound(c)'
    BY <2>1, CallsStay DEF TabsInv
  <2>4. CallSound(b)'
    BY <1>1, <2>2, <2>3 DEF CallSound
  <2> QED BY <2>2, <2>4
<1>2. \A b \in Unheard :
        b \in TabCalls /\ CallSound(b)' /\ b.status = "sent" /\ ~b.heard
  BY <1>1 DEF Unheard
<1>3. calls' \subseteq TabCalls /\ \A b \in calls' : CallSound(b)'
  BY <1>2
<1>4. CallsSound'
  BY <1>3 DEF CallsSound
<1>5. ActivesSound' /\ AddsAreNew'
  BY <1>2 DEF ActivesSound, AddsAreNew, Answered, Adding
<1>6. ASSUME NEW c \in calls, c.kind = "table", c.status = "sent"
      PROVE  \E b \in calls' : b.kind = "table" /\ b.of = c.of /\ b.status = "sent"
  <2>1. PICK b : b = [c EXCEPT !.heard = FALSE]
    OBVIOUS
  <2>2. b \in Unheard
    BY <1>6, <2>1 DEF Unheard
  <2> QED BY <1>1, <1>6, <2>1, <2>2
<1> QED BY <1>3, <1>4, <1>5, <1>6

\* The page is loaded: the active tab comes with its text, and what it shows of the local
\* storage is that of the local storage.
LEMMA LoadKeeps ==
  ASSUME TabsInv, Load
  PROVE  TabsInv'
<1>1. PICK active \in IF Rows = {} THEN {0} ELSE active_tab : getInitialState(active)
  BY DEF Load
<1>2. (Rows = {} => active = 0) /\ (Rows # {} => active \in Rows)
  BY DEF active_tab
<1>3. UNCHANGED <<tab_state, born, closed, adrift, dropped>> /\ UNCHANGED pasts
  BY DEF Load, pasts
<1>4. PICK mount : mount = componentDidMount
  OBVIOUS
<1>5. calls' = Unheard \cup mount
  BY <1>4 DEF Load
<1>6. PICK n \in 0..MaxAdded :
        /\ count.added <= n
        /\ \A c \in mount : c.kind = "add" => n = count.added + 1
        /\ count' \in [loads : Nat, acts : Nat, faults : Nat, added : 0..MaxAdded]
        /\ count'.added = n
  <2>1. PICK k \in [loads : Nat, acts : Nat, faults : Nat, added : 0..MaxAdded] : k = count
    BY CountTypes
  <2>2. k.added \in 0..MaxAdded /\ k.loads + 1 \in Nat /\ MaxAdded \in Nat
    BY <2>1, TabsAssumption
  <2>3. CASE \E c \in mount : c.kind = "add"
    <3>1. k.added < MaxAdded
      BY <1>4, <2>1, <2>3 DEF componentDidMount, Call
    <3>2. k.added + 1 \in 0..MaxAdded
      BY <2>2, <3>1
    <3>3. count' = [k EXCEPT !.loads = k.loads + 1, !.added = k.added + 1]
      BY <1>4, <2>1, <2>3 DEF Load
    <3>4. count' \in [loads : Nat, acts : Nat, faults : Nat, added : 0..MaxAdded]
      BY <2>1, <2>2, <3>2, <3>3
    <3>5. count'.added = k.added + 1
      BY <2>1, <3>3
    <3> QED BY <2>1, <2>2, <3>2, <3>4, <3>5
  <2>4. CASE ~\E c \in mount : c.kind = "add"
    <3>1. count' = [k EXCEPT !.loads = k.loads + 1, !.added = k.added]
      BY <1>4, <2>1, <2>4 DEF Load
    <3>2. count' \in [loads : Nat, acts : Nat, faults : Nat, added : 0..MaxAdded]
          /\ count'.added = k.added
      BY <2>1, <2>2, <3>1
    <3> QED BY <2>1, <2>2, <2>4, <3>2
  <2> QED BY <2>3, <2>4
<1>7. Grows
  <2>1. 1..count.added \subseteq 1..count'.added
    BY <1>6, CountTypes
  <2> QED BY <1>3, <2>1 DEF Grows
<1>8. ASSUME NEW c \in mount
      PROVE  c \in TabCalls /\ CallSound(c)' /\ c.kind \in Adding /\ c.status = "sent"
  <2>1. CASE \E l \in storage.queryEditors : c = Call("migrate", l, l, l)
    <3>1. PICK l \in storage.queryEditors : c = Call("migrate", l, l, l)
      BY <2>1
    <3>2. l \in Locals \cap DOMAIN born /\ born[l] = l
      BY DEF TabsInv, TabTypes, StorageSound, BornSound
    <3>3. c \in TabCalls /\ c.kind = "migrate" /\ c.of = l /\ c.sql = l /\ c.status = "sent"
      BY <3>1, <3>2 DEF Call, TabCalls, Adding, Ids, Tabs
    <3>4. CallSound(c)
      BY <3>2, <3>3 DEF CallSound, Adding, Known, TextOk
    <3>5. CallSound(c)'
      BY <1>7, <3>4, CallsStay DEF TabsInv
    <3> QED BY <3>3, <3>5 DEF Adding
  <2>2. CASE /\ c = Call("add", 0, count.added + 1, count.added + 1)
             /\ count.added < MaxAdded
    <3>1. PICK new : new = count.added + 1
      OBVIOUS
    <3>2. c = Call("add", 0, new, new)
      BY <2>2, <3>1
    <3>3. new \in 1..MaxAdded /\ new > count.added
      BY <2>2, <3>1, CountTypes, TabsAssumption
    <3>4. born[new] = new
      BY <3>3 DEF TabsInv, BornSound
    <3>5. c \in TabCalls /\ c.kind = "add" /\ c.of = new /\ c.sql = new /\ c.status = "sent"
      BY <3>2, <3>3 DEF Call, TabCalls, Adding, Ids, Tabs
    <3>6. n = new
      BY <1>6, <3>1, <3>5
    <3>7. Known(new)' /\ TextOk(new, new)'
      BY <1>3, <1>6, <3>3, <3>4, <3>6 DEF Known, TextOk
    <3> QED BY <3>5, <3>7 DEF CallSound, Adding
  <2> QED BY <1>4, <2>1, <2>2 DEF componentDidMount
<1>9. /\ calls' \subseteq TabCalls /\ CallsSound' /\ ActivesSound' /\ AddsAreNew'
      /\ \A c \in calls : c.kind = "table" /\ c.status = "sent" =>
           \E b \in calls' : b.kind = "table" /\ b.of = c.of /\ b.status = "sent"
  BY <1>3, <1>5, <1>7, <1>8, CallsOnLoad
<1>10. storage \in [queryEditors : SUBSET Locals, tables : SUBSET WithTable,
                    tabHistory : Seq(Ids)]
  BY DEF TabsInv, TabTypes
<1>11. /\ storage' \in [queryEditors : SUBSET Locals, tables : SUBSET WithTable,
                       tabHistory : Seq(Ids)]
       /\ storage'.queryEditors = storage.queryEditors
       /\ storage.queryEditors # {} => storage' = storage
       /\ ToSet(storage'.tabHistory) \subseteq storage'.queryEditors
  <2>1. CASE storage.queryEditors = {}
    <3>1. storage' = NoStorage
      BY <1>1, <2>1 DEF getInitialState
    <3> QED BY <2>1, <3>1 DEF NoStorage, ToSet
  <2>2. CASE storage.queryEditors # {}
    BY <1>1, <1>10, <2>2 DEF getInitialState, TabsInv, StorageSound
  <2> QED BY <2>1, <2>2
<1>12. PICK history :
         /\ history \in Seq(Ids)
         /\ \A i \in ToSet(history) :
              (i = active /\ Rows # {}) \/ i \in storage.queryEditors
         /\ sqlLab' = [queryEditors |-> TabsOf(active), tabHistory |-> history]
  <2>1. PICK left : left = IF storage.queryEditors = {} THEN <<>> ELSE storage.tabHistory
    OBVIOUS
  <2>2. left \in Seq(Ids) /\ ToSet(left) \subseteq storage.queryEditors
    BY <1>10, <2>1 DEF TabsInv, StorageSound, ToSet
  <2>3. PICK first : first = IF active = 0 THEN <<>> ELSE <<active>>
    OBVIOUS
  <2>4. 0 \notin Rows /\ Rows \subseteq Ids
    BY TabsAssumption DEF Rows, Ids, TabsInv, TabTypes
  <2>5. first \in Seq(Ids) /\ \A i \in ToSet(first) : i = active /\ Rows # {}
    BY <1>2, <2>3, <2>4 DEF ToSet
  <2>6. PICK history : history = first \o left
    OBVIOUS
  <2>7. history \in Seq(Ids) /\ ToSet(history) \subseteq ToSet(first) \cup ToSet(left)
    <3>1. history \in Seq(Ids) /\ Len(history) = Len(first) + Len(left)
      BY <2>2, <2>5, <2>6
    <3>2. ASSUME NEW k \in DOMAIN history PROVE history[k] \in ToSet(first) \cup ToSet(left)
      BY <2>2, <2>5, <2>6, <3>1, <3>2 DEF ToSet
    <3> QED BY <3>1, <3>2 DEF ToSet
  <2>8. sqlLab' = [queryEditors |-> TabsOf(active), tabHistory |-> history]
    BY <1>1, <2>1, <2>3, <2>6 DEF getInitialState
  <2> QED BY <2>2, <2>5, <2>7, <2>8
<1>13. sqlLab'.queryEditors = TabsOf(active) /\ sqlLab'.tabHistory = history
  BY <1>12
<1>14. PICK editors : editors = TabsOf(active)
  OBVIOUS
<1>15. \A e \in editors :
         /\ e \in TabEditors /\ Known(e.of) /\ IsTab(e.id, e.of)
         /\ e.loaded \/ e.id = active \/ e.id \in Locals => TextOk(e.of, e.sql)
  BY <1>2, <1>14, ShownOnLoad
<1>16. \A d, e \in editors : d.id = e.id => d = e
  <2> DEFINE OfRow(i) == Editor(i, tab_state[i].of,
                                IF i = active THEN tab_state[i].sql ELSE Placeholder,
                                i = active)
             Stored(i) == Editor(i, i, i, TRUE)
  <2>1. Rows \cap storage.queryEditors = {}
    BY TabsAssumption DEF Rows, TabsInv, TabTypes
  <2>2. ASSUME NEW e \in editors
        PROVE  \/ e.id \in Rows /\ e = OfRow(e.id)
               \/ e.id \in storage.queryEditors /\ e = Stored(e.id)
    <3> HIDE DEF OfRow, Stored
    <3>1. \/ e.id \in Rows /\ e = Editor(e.id, tab_state[e.id].of,
                   IF e.id = active THEN tab_state[e.id].sql ELSE Placeholder, e.id = active)
          \/ e.id \in storage.queryEditors /\ e = Editor(e.id, e.id, e.id, TRUE)
      BY <1>2, <1>14, ShownOnLoad
    <3> QED BY <3>1 DEF OfRow, Stored
  <2> HIDE DEF OfRow, Stored
  <2> QED BY <2>1, <2>2
<1>17. ToSet(history) \subseteq {e.id : e \in editors}
  <2>1. ASSUME NEW t \in Rows PROVE \E e \in editors : e.id = t
    <3>1. PICK e : e = Editor(t, tab_state[t].of,
                              IF t = active THEN tab_state[t].sql ELSE Placeholder, t = active)
      OBVIOUS
    <3>2. e \in editors
      BY <1>14, <3>1 DEF TabsOf
    <3>3. e.id = t
      BY <3>1 DEF Editor
    <3> QED BY <3>2, <3>3
  <2>2. ASSUME NEW l \in storage.queryEditors PROVE \E e \in editors : e.id = l
    <3>1. PICK e : e = Editor(l, l, l, TRUE)
      OBVIOUS
    <3>2. e \in editors
      BY <1>14, <3>1 DEF TabsOf
    <3>3. e.id = l
      BY <3>1 DEF Editor
    <3> QED BY <3>2, <3>3
  <2> QED BY <1>2, <1>12, <2>1, <2>2
<1>18. EditorsSound'
  <2>1. \A e \in editors :
          /\ Known(e.of)' /\ IsTab(e.id, e.of)'
          /\ e.loaded \/ e.id \in ToSet(history) => TextOk(e.of, e.sql)'
    <3>1. storage.queryEditors \subseteq Locals
      BY <1>10
    <3> QED BY <1>7, <1>12, <1>15, <3>1, WhatStays DEF TabsInv
  <2> QED BY <1>13, <1>14, <1>16, <1>17, <2>1 DEF EditorsSound, Active
<1>19. sqlLab' \in [queryEditors : SUBSET TabEditors, tabHistory : Seq(Ids)]
  BY <1>12, <1>14, <1>15
<1>20. StorageSound'
  BY <1>3, <1>11 DEF TabsInv, StorageSound
<1>21. BornSound' /\ RowsSound'
  <2>1. \A m \in 1..MaxAdded : m > n => born[m] = m
    BY <1>6, CountTypes DEF TabsInv, BornSound
  <2>2. RowsSound'
    BY <1>3, <1>7, WhatStays DEF TabsInv, RowsSound, RowSound
  <2> QED BY <1>3, <1>6, <2>1, <2>2 DEF TabsInv, BornSound
<1>22. TablesAreKept'
  <2>1. storage.queryEditors \cap storage.tables \subseteq
          storage'.queryEditors \cap storage'.tables
    BY <1>11
  <2> QED BY <1>3, <1>9, <2>1 DEF TabsInv, TablesAreKept, Rows
<1>23. TabTypes'
  BY <1>3, <1>6, <1>9, <1>11, <1>19 DEF TabsInv, TabTypes
<1> QED BY <1>9, <1>18, <1>20, <1>21, <1>22, <1>23 DEF TabsInv

-----------------------------------------------------------------------------
(* The theorems *)

LEMMA HandleKeeps ==
  ASSUME TabsInv, NEW c \in calls, Handle(c)
  PROVE  TabsInv'
<1>1. UNCHANGED <<storage, sqlLab, pasts, count>> /\ c.status = "sent"
  BY DEF Handle
<1>2. CASE post_tab(c)
  BY <1>1, <1>2, PostKeeps
<1>3. CASE Refused(c) \/ get(c)
  BY <1>1, <1>3, RefusedKeeps
<1>4. CASE delete(c)
  BY <1>1, <1>4, DeleteKeeps
<1>5. CASE activate(c) \/ put(c) \/ post_table(c)
  BY <1>1, <1>5, AlterRowKeeps
<1> QED BY <1>2, <1>3, <1>4, <1>5 DEF Handle

LEMMA HearKeeps ==
  ASSUME TabsInv, NEW c \in calls, Hear(c)
  PROVE  TabsInv'
<1>1. UNCHANGED <<tab_state, pasts, count>>
  BY DEF Hear
<1>2. CASE Migrated(c)
  BY <1>1, <1>2, MigratedKeeps
<1>3. CASE Added(c)
  BY <1>1, <1>3, AddedKeeps
<1>4. CASE Removed(c)
  BY <1>1, <1>4, RemovedKeeps
<1>5. CASE EditorLoaded(c) \/ SqlSet(c)
  BY <1>1, <1>5, TextHeardKeeps
<1>6. CASE Activated(c)
  BY <1>1, <1>6, ActivatedKeeps
<1>7. CASE Told(c) \/ MigratedTable(c)
  BY <1>1, <1>7, ToldKeeps
<1> QED BY <1>2, <1>3, <1>4, <1>5, <1>6, <1>7 DEF Hear

LEMMA UseKeeps ==
  ASSUME TabsInv, Use
  PROVE  TabsInv'
<1>1. CASE \E e \in sqlLab.queryEditors : Select(e) \/ Close(e)
  BY <1>1, ShowKeeps
<1>2. CASE \E e \in sqlLab.queryEditors : cloneQueryToNewTab(e)
  <2>1. PICK e \in sqlLab.queryEditors : addQueryEditor(e.sql)
    BY <1>2 DEF cloneQueryToNewTab
  <2>2. e.sql \in Texts
    BY EditorTypes DEF TabEditors, Texts
  <2> QED BY <2>1, <2>2, AddKeeps
<1>3. CASE \E t \in Rows : CloseElsewhere(t)
  BY <1>3, CloseElsewhereKeeps
<1>4. CASE \E e \in Shown : queryEditorSetSql(e)
  BY <1>4, ShowKeeps DEF Shown
<1>5. CASE addQueryEditor(count.added + 1)
  <2>1. count.added + 1 \in Texts
    BY <1>5, CountTypes, TabsAssumption DEF addQueryEditor, Texts, Tabs
  <2> QED BY <1>5, <2>1, AddKeeps
<1> QED BY <1>1, <1>2, <1>3, <1>4, <1>5 DEF Use

LEMMA IdleKeeps ==
  ASSUME TabsInv, UNCHANGED tabsVars
  PROVE  TabsInv'
BY DEF TabsInv, tabsVars, TabTypes, BornSound, StorageSound, RowsSound, RowSound, EditorsSound,
       CallsSound, CallSound, ActivesSound, AddsAreNew, Answered, TablesAreKept, TableKept,
       Known, TextOk, IsTab, Active, Rows

LEMMA StepKeeps == TabsInv /\ [TabsNext]_tabsVars => TabsInv'
<1> SUFFICES ASSUME TabsInv, [TabsNext]_tabsVars PROVE TabsInv'
  OBVIOUS
<1>1. CASE Load
  BY <1>1, LoadKeeps
<1>2. CASE Use
  BY <1>2, UseKeeps
<1>3. CASE \E c \in calls : Handle(c)
  BY <1>3, HandleKeeps
<1>4. CASE \E c \in calls : Fail(c) \/ LoseAnswer(c)
  BY <1>4, FaultKeeps
<1>5. CASE \E c \in calls : Hear(c)
  BY <1>5, HearKeeps
<1>6. CASE UNCHANGED tabsVars
  BY <1>6, IdleKeeps
<1> QED BY <1>1, <1>2, <1>3, <1>4, <1>5, <1>6 DEF TabsNext

LEMMA TabsInvHolds == TabsSpec => []TabsInv
BY TabsInitHolds, StepKeeps, PTL DEF TabsSpec

\* TabTypeCorrect: the local storage, the rows of the server and the state of the page have
\* their types, no two tabs of a page share an id, and what its history names is there, for
\* any number of tabs, loads, acts and faults (reducers/sqlLab.js, views/sql_lab.py).
THEOREM TabTypeCorrect == TabsSpec => []TabsTypeOK
<1>1. TabsInv => TabsTypeOK
  BY DEF TabsInv, TabTypes, EditorsSound, TabsTypeOK, TabEditors
<1> QED BY <1>1, TabsInvHolds, PTL

\* TabsKept: a tab that no user closed is in the local storage or on the server with the
\* text it was given, and its table goes where it goes, whatever requests fail, answers are
\* lost and pages are reloaded, and in whatever order the requests are handled
\* (migrateQueryEditorFromLocalStorage of actions/sqlLab.js, MIGRATE_QUERY_EDITOR of the
\* reducers, TabStateView of views/sql_lab.py).
THEOREM TabsKept == TabsSpec => []TabsAreKept
<1>1. TabsInv => TabsAreKept
  <2> SUFFICES ASSUME TabsInv PROVE TabsAreKept
    OBVIOUS
  <2>1. ASSUME NEW t \in DOMAIN tab_state
        PROVE  /\ TextOk(tab_state[t].of, tab_state[t].sql)
               /\ t \in Rows \/ tab_state[t].of \in closed
    BY DEF TabsInv, RowsSound, RowSound, Rows
  <2>2. \A o \in Locals \cap DOMAIN born :
          o \in closed \cup storage.queryEditors \/ \E t \in Rows : tab_state[t].of = o
    BY <2>1 DEF TabsInv, StorageSound
  <2>3. ASSUME NEW e \in sqlLab.queryEditors
        PROVE  \/ e.of \in closed \cup storage.queryEditors
               \/ \E t \in Rows : tab_state[t].of = e.of
    <3>1. Known(e.of) /\ IsTab(e.id, e.of)
      BY DEF TabsInv, EditorsSound
    <3>2. e.of \in Locals => e.of \in DOMAIN born
      BY <3>1, KnownIsATab DEF TabsInv
    <3> QED BY <2>1, <2>2, <3>1, <3>2 DEF IsTab
  <2>4. EditorsAreKept
    BY <2>2, <2>3 DEF EditorsAreKept
  <2>5. TextsAreTheirs
    BY <2>1 DEF TextsAreTheirs, TextOk, Rows
  <2> QED BY <2>4, <2>5 DEF TabsInv, TabsAreKept
<1> QED BY <1>1, TabsInvHolds, PTL

=============================================================================
