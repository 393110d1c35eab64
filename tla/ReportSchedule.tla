--------------------------- MODULE ReportSchedule ---------------------------
(***************************************************************************)
(* The execution of one alert or report schedule                           *)
(* (superset/reports/commands/execute.py).                                 *)
(*                                                                         *)
(* The celery beat sends an execution message for an active schedule       *)
(* (tasks/scheduler.py); any celery worker picks it up, reads the          *)
(* schedule's last_state from the metadata database, chooses a state class *)
(* from it and runs that class's next(), which commits the row and writes  *)
(* a row of the execution log several times on the way.  Nothing but       *)
(* last_state keeps two executions of one schedule apart, so the steps of  *)
(* this module are the commits and the reads between them.  A worker may   *)
(* die between any two of them; an owner may deactivate, activate or       *)
(* delete the schedule meanwhile; the log is pruned.                       *)
(*                                                                         *)
(* The log table is kept as the ages of the rows its queries look for: the *)
(* queries of reports/dao.py only ask for the newest row of a kind.  Ages  *)
(* stop growing at Horizon, past every period they are compared with, so   *)
(* time itself is unbounded.                                               *)
(***************************************************************************)
EXTENDS Integers, FiniteSets

CONSTANTS
    Workers,         \* celery worker processes
    Recipients,      \* recipients of the schedule's notifications
    Types,           \* the schedule types considered, of {"Alert", "Report"}
    GracePeriod,     \* grace_period; 0 stands for a falsy one
    WorkingTimeout,  \* working_timeout, or None
    LogRetention,    \* log_retention, or None
    Horizon,         \* age at which a log row is old for every purpose
    MaxPending,      \* bound: execution messages waiting in the broker
    MaxCrashes,      \* bound: executions that die on the way
    Editing,         \* whether an owner edits the schedule
    None             \* Python's None

ASSUME PeriodsAssumption ==
    /\ GracePeriod \in Nat
    /\ WorkingTimeout \in Nat \cup {None}
    /\ LogRetention \in Nat \cup {None}
    /\ Horizon \in Nat
    /\ Horizon >= GracePeriod
    /\ WorkingTimeout # None => Horizon > WorkingTimeout
    /\ LogRetention # None => Horizon > LogRetention

ASSUME BoundsAssumption ==
    /\ MaxPending \in Nat
    /\ MaxCrashes \in Nat
    /\ Editing \in BOOLEAN
    /\ Types \subseteq {"Alert", "Report"}

ASSUME NoneAssumption == None \notin Nat

VARIABLES
    type,        \* ReportSchedule.type
    deleted,     \* whether the schedule has been deleted
    active,      \* ReportSchedule.active
    last_state,  \* ReportSchedule.last_state
    log,         \* age of the newest log row of each kind, or None
    pending,     \* execution messages sent and not yet taken
    pc,          \* where each worker's execution is
    handler,     \* the state class that a worker's execution runs
    loaded,      \* last_state as the worker's session read it
    delivered,   \* recipients a worker's execution has reached
    editor,      \* last_state as read by a deactivation under way, or None
    crashes,     \* executions that died
    stalled,     \* history: an execution died while it held WORKING
    pruned       \* history: the newest SUCCESS row of the log was pruned

workerVars == <<pc, handler, loaded, delivered>>
vars == <<type, deleted, active, last_state, log, pending, workerVars,
          editor, crashes, stalled, pruned>>

ReportState == {"SUCCESS", "WORKING", "ERROR", "NOOP", "GRACE"}

(***************************************************************************)
(* Kinds of log rows: an execution entering WORKING (no error message), a  *)
(* SUCCESS, an error notification (the MARKER message), any row whose      *)
(* state is neither ERROR nor WORKING, and the newest such row that is     *)
(* older than the newest MARKER.                                           *)
(***************************************************************************)
LogKind == {"entered", "success", "marker", "nonError", "nonErrorBeforeMarker"}

Age == (0..Horizon) \cup {None}

(* States of an execution; the LogStates are between two commits.          *)
LogStates == {"log_entered", "log_noop", "log_grace", "log_success",
              "log_error", "log_marker"}
WorkerState == LogStates \cup
    {"idle", "working", "enter", "run", "send", "sent", "failed",
     "notify_owners", "owners_notified"}

(* States in which an execution has written WORKING and not yet a final    *)
(* state.                                                                  *)
HoldingStates == {"log_entered", "run", "send", "sent", "failed"}

Holding(w) == pc[w] \in HoldingStates

TypeOK ==
    /\ type \in Types
    /\ deleted \in BOOLEAN
    /\ active \in BOOLEAN
    /\ last_state \in ReportState
    /\ log \in [LogKind -> Age]
    /\ pending \in 0..MaxPending
    /\ pc \in [Workers -> WorkerState]
    /\ handler \in [Workers -> {"not_triggered", "success"}]
    /\ loaded \in [Workers -> ReportState]
    /\ delivered \in [Workers -> SUBSET Recipients]
    /\ editor \in ReportState \cup {None}
    /\ crashes \in 0..MaxCrashes
    /\ stalled \in BOOLEAN
    /\ pruned \in BOOLEAN

Init ==
    /\ type \in Types
    /\ deleted = FALSE
    /\ active = TRUE
    /\ last_state = "NOOP"
    /\ log = [k \in LogKind |-> None]
    /\ pending = 0
    /\ pc = [w \in Workers |-> "idle"]
    /\ handler = [w \in Workers |-> "not_triggered"]
    /\ loaded = [w \in Workers |-> "NOOP"]
    /\ delivered = [w \in Workers |-> {}]
    /\ editor = None
    /\ crashes = 0
    /\ stalled = FALSE
    /\ pruned = FALSE

-----------------------------------------------------------------------------
(* Log queries.                                                            *)

Within(age, period) == age # None /\ age < period

is_in_grace_period == Within(log["success"], GracePeriod)

find_last_error_notification ==
    IF log["nonErrorBeforeMarker"] = None THEN log["marker"] ELSE None

(* Mutant: looks for the last success, as is_in_grace_period does.          *)
error_grace_from_success == Within(log["success"], GracePeriod)

is_in_error_grace_period == Within(find_last_error_notification, GracePeriod)

is_on_working_timeout ==
    /\ log["entered"] # None
    /\ WorkingTimeout # None
    /\ log["entered"] > WorkingTimeout

(***************************************************************************)
(* The log table after a row has been added.                               *)
(***************************************************************************)
LogWith(kind) ==
    [k \in LogKind |->
        IF k = kind \/ (k = "nonError" /\ kind = "success") THEN 0
        ELSE IF k = "nonErrorBeforeMarker" /\ kind = "marker" THEN log["nonError"]
        ELSE log[k]]

-----------------------------------------------------------------------------
(* Sending executions, and taking them.                                    *)

scheduler ==
    /\ active /\ ~deleted
    /\ pending < MaxPending
    /\ pending' = pending + 1
    /\ UNCHANGED <<type, deleted, active, last_state, log, workerVars, editor,
                   crashes, stalled, pruned>>

(* Mutants: GRACE is in no class, or is re-evaluated as NOOP is.            *)
StateClass_without_grace(s) ==
    IF s = "WORKING" THEN "working"
    ELSE IF s \in {"NOOP", "ERROR"} THEN "not_triggered"
    ELSE IF s = "SUCCESS" THEN "success" ELSE "not_found"

StateClass_reevaluating_grace(s) ==
    IF s = "WORKING" THEN "working"
    ELSE IF s \in {"NOOP", "ERROR", "GRACE"} THEN "not_triggered" ELSE "success"

(* The class of states_cls whose current_states has the state.             *)
StateClass(s) ==
    IF s = "WORKING" THEN "working"
    ELSE IF s \in {"NOOP", "ERROR"} THEN "not_triggered" ELSE "success"

(***************************************************************************)
(* A worker takes a message, reads the row and picks the state class.  The *)
(* message of a deleted schedule ends in ReportScheduleNotFoundError.      *)
(***************************************************************************)
Start(w) ==
    /\ pc[w] = "idle"
    /\ pending > 0
    /\ pending' = pending - 1
    /\ IF deleted
       THEN UNCHANGED workerVars
       ELSE /\ loaded' = [loaded EXCEPT ![w] = last_state]
            /\ IF StateClass(last_state) = "working"
               THEN /\ pc' = [pc EXCEPT ![w] = "working"]
                    /\ UNCHANGED handler
               ELSE /\ pc' = [pc EXCEPT ![w] = "enter"]
                    /\ handler' = [handler EXCEPT ![w] = StateClass(last_state)]
            /\ UNCHANGED delivered
    /\ UNCHANGED <<type, deleted, active, last_state, log, editor, crashes,
                   stalled, pruned>>

(* Mutant: the UPDATE always carries last_state.                            *)
set_state_always(w, s) ==
    /\ last_state' = s
    /\ stalled' = (stalled /\ s = "WORKING")

(***************************************************************************)
(* set_state: the session emits an UPDATE of last_state only when the new  *)
(* value differs from the one it read in this transaction.                 *)
(***************************************************************************)
set_state(w, s) ==
    /\ last_state' = IF s = loaded[w] THEN last_state ELSE s
    /\ stalled' = IF s = loaded[w] THEN stalled ELSE FALSE

(* The execution is over.                                                  *)
EndsIn(w, s) ==
    /\ pc' = [pc EXCEPT ![w] = s]
    /\ delivered' = [delivered EXCEPT ![w] = IF s = "idle" THEN {} ELSE @]

AtRow(w, s) == pc[w] = s /\ ~deleted

(* Mutant: a refusal is logged as an entry into WORKING is.                 *)
WorkingNext_logs_entry(w) ==
    /\ AtRow(w, "working")
    /\ set_state(w, IF is_on_working_timeout THEN "ERROR" ELSE "WORKING")
    /\ log' = IF is_on_working_timeout THEN log ELSE LogWith("entered")
    /\ EndsIn(w, "idle")
    /\ UNCHANGED <<type, deleted, active, pending, handler, loaded, editor,
                   crashes, pruned>>

(***************************************************************************)
(* ReportWorkingState.next.  Both of its log rows carry an error message,  *)
(* and no query looks for them.                                            *)
(***************************************************************************)
WorkingNext(w) ==
    /\ AtRow(w, "working")
    /\ set_state(w, IF is_on_working_timeout THEN "ERROR" ELSE "WORKING")
    /\ EndsIn(w, "idle")
    /\ UNCHANGED <<type, deleted, active, log, pending, handler, loaded,
                   editor, crashes, pruned>>

(* next of the other two classes begins with set_state(WORKING) ...        *)
EnterWorking(w) ==
    /\ AtRow(w, "enter")
    /\ set_state(w, "WORKING")
    /\ EndsIn(w, "log_entered")
    /\ UNCHANGED <<type, deleted, active, log, pending, handler, loaded,
                   editor, crashes, pruned>>

(* Mutants: SUCCESS is logged as a NOOP; every error carries the MARKER.    *)
LogKindOf_without_success(s) ==
    CASE s = "log_entered" -> "entered"
      [] s \in {"log_noop", "log_grace", "log_success"} -> "nonError"
      [] s = "log_marker" -> "marker"
      [] OTHER -> "unqueried"

LogKindOf_marking_any_error(s) ==
    CASE s = "log_entered" -> "entered"
      [] s = "log_success" -> "success"
      [] s \in {"log_noop", "log_grace"} -> "nonError"
      [] s \in {"log_marker", "log_error"} -> "marker"
      [] OTHER -> "unqueried"

LogKindOf(s) ==
    CASE s = "log_entered" -> "entered"
      [] s = "log_success" -> "success"
      [] s \in {"log_noop", "log_grace"} -> "nonError"
      [] s = "log_marker" -> "marker"
      [] OTHER -> "unqueried"

AfterLog(w) ==
    IF pc[w] = "log_entered" THEN "run"
    ELSE IF pc[w] = "log_error" /\ handler[w] = "not_triggered"
         THEN "notify_owners" ELSE "idle"

(***************************************************************************)
(* create_log.  Its commit expires the session's copy of the row; the next *)
(* attribute that is read reloads it.                                      *)
(***************************************************************************)
create_log(w) ==
    /\ pc[w] \in LogStates
    /\ ~deleted
    /\ log' = LogWith(LogKindOf(pc[w]))
    /\ pruned' = (pruned /\ LogKindOf(pc[w]) # "success")
    /\ loaded' = [loaded EXCEPT ![w] = last_state]
    /\ EndsIn(w, AfterLog(w))
    /\ UNCHANGED <<type, deleted, active, last_state, pending, handler,
                   editor, crashes, stalled>>

(***************************************************************************)
(* AlertCommand in ReportNotTriggeredErrorState: the alert is triggered,   *)
(* is not, or the query fails with a CommandException.                     *)
(***************************************************************************)
EvaluateAlert(w) ==
    /\ AtRow(w, "run") /\ type = "Alert" /\ handler[w] = "not_triggered"
    /\ \/ /\ EndsIn(w, "send")
          /\ UNCHANGED <<last_state, stalled>>
       \/ /\ set_state(w, "NOOP")
          /\ EndsIn(w, "log_noop")
       \/ /\ EndsIn(w, "failed")
          /\ UNCHANGED <<last_state, stalled>>
    /\ UNCHANGED <<type, deleted, active, log, pending, handler, loaded,
                   editor, crashes, pruned>>

(* An alert in ReportSuccessState only looks at its grace period.          *)
SuccessAlert(w) ==
    /\ AtRow(w, "run") /\ type = "Alert" /\ handler[w] = "success"
    /\ IF is_in_grace_period
       THEN set_state(w, "GRACE") /\ EndsIn(w, "log_grace")
       ELSE set_state(w, "NOOP") /\ EndsIn(w, "log_noop")
    /\ UNCHANGED <<type, deleted, active, log, pending, handler, loaded,
                   editor, crashes, pruned>>

RunReport(w) ==
    /\ AtRow(w, "run") /\ type = "Report"
    /\ EndsIn(w, "send")
    /\ UNCHANGED <<type, deleted, active, last_state, log, pending, handler,
                   loaded, editor, crashes, stalled, pruned>>

(* Mutant: the errors that were collected are not raised.                   *)
AfterSend_swallowing_errors(reached) == "sent"

AfterSend(reached) == IF reached = Recipients THEN "sent" ELSE "failed"

(***************************************************************************)
(* send: building the content fails and nobody is notified, or each        *)
(* recipient is tried and those whose channel failed are collected.        *)
(***************************************************************************)
send(w) ==
    /\ AtRow(w, "send")
    /\ \/ EndsIn(w, "failed")
       \/ \E reached \in SUBSET Recipients :
            /\ delivered' = [delivered EXCEPT ![w] = reached]
            /\ pc' = [pc EXCEPT ![w] = AfterSend(reached)]
    /\ UNCHANGED <<type, deleted, active, last_state, log, pending, handler,
                   loaded, editor, crashes, stalled, pruned>>

Succeed(w) ==
    /\ AtRow(w, "sent")
    /\ set_state(w, "SUCCESS")
    /\ EndsIn(w, "log_success")
    /\ UNCHANGED <<type, deleted, active, log, pending, handler, loaded,
                   editor, crashes, pruned>>

Fail(w) ==
    /\ AtRow(w, "failed")
    /\ set_state(w, "ERROR")
    /\ EndsIn(w, "log_error")
    /\ UNCHANGED <<type, deleted, active, log, pending, handler, loaded,
                   editor, crashes, pruned>>

(***************************************************************************)
(* After an error the owners are told, unless they were within the grace   *)
(* period.  When that fails too, ERROR is stored and logged again.         *)
(***************************************************************************)
send_error(w) ==
    /\ AtRow(w, "notify_owners")
    /\ \/ /\ is_in_error_grace_period
          /\ EndsIn(w, "idle")
          /\ UNCHANGED <<last_state, stalled>>
       \/ /\ ~is_in_error_grace_period
          /\ EndsIn(w, "owners_notified")
          /\ UNCHANGED <<last_state, stalled>>
       \/ /\ ~is_in_error_grace_period
          /\ set_state(w, "ERROR")
          /\ EndsIn(w, "idle")
    /\ UNCHANGED <<type, deleted, active, log, pending, handler, loaded,
                   editor, crashes, pruned>>

MarkNotified(w) ==
    /\ AtRow(w, "owners_notified")
    /\ set_state(w, "ERROR")
    /\ EndsIn(w, "log_marker")
    /\ UNCHANGED <<type, deleted, active, log, pending, handler, loaded,
                   editor, crashes, pruned>>

(***************************************************************************)
(* The execution ends without another commit: the worker is killed by the  *)
(* task's time limit or dies, or an exception that is not a                *)
(* CommandException escapes next() (ReportScheduleUnexpectedError).        *)
(***************************************************************************)
Crash(w) ==
    /\ pc[w] # "idle"
    /\ crashes < MaxCrashes
    /\ crashes' = crashes + 1
    /\ EndsIn(w, "idle")
    /\ stalled' = (stalled \/ (Holding(w) /\ last_state = "WORKING"))
    /\ UNCHANGED <<type, deleted, active, last_state, log, pending, handler,
                   loaded, editor, pruned>>

(* The row is gone: the session's next access to it raises.                *)
RowGone(w) ==
    /\ pc[w] # "idle"
    /\ deleted
    /\ EndsIn(w, "idle")
    /\ UNCHANGED <<type, deleted, active, last_state, log, pending, handler,
                   loaded, editor, crashes, stalled, pruned>>

-----------------------------------------------------------------------------
(* The REST API and the pruning task.                                      *)

(***************************************************************************)
(* UpdateReportScheduleCommand with active = False: validate reads the     *)
(* row, run writes it; a schedule seen WORKING is also set to NOOP.        *)
(***************************************************************************)
ValidateDeactivation ==
    /\ Editing /\ ~deleted /\ active /\ editor = None
    /\ editor' = last_state
    /\ UNCHANGED <<type, deleted, active, last_state, log, pending, workerVars,
                   crashes, stalled, pruned>>

CommitDeactivation ==
    /\ editor # None
    /\ editor' = None
    /\ IF deleted
       THEN UNCHANGED <<active, last_state, stalled>>
       ELSE /\ active' = FALSE
            /\ last_state' = IF editor = "WORKING" THEN "NOOP" ELSE last_state
            /\ stalled' = (stalled /\ editor # "WORKING")
    /\ UNCHANGED <<type, deleted, log, pending, workerVars, crashes, pruned>>

Activate ==
    /\ Editing /\ ~deleted /\ ~active
    /\ active' = TRUE
    /\ UNCHANGED <<type, deleted, last_state, log, pending, workerVars, editor,
                   crashes, stalled, pruned>>

(* The log rows are deleted with the schedule.                             *)
Delete ==
    /\ Editing /\ ~deleted
    /\ deleted' = TRUE
    /\ log' = [k \in LogKind |-> None]
    /\ UNCHANGED <<type, active, last_state, pending, workerVars, editor,
                   crashes, stalled, pruned>>

prune_log ==
    /\ ~deleted /\ LogRetention # None
    /\ log' = [k \in LogKind |->
                 IF log[k] # None /\ log[k] > LogRetention THEN None ELSE log[k]]
    /\ pruned' = (pruned \/ (log["success"] # None /\ log'["success"] = None))
    /\ UNCHANGED <<type, deleted, active, last_state, pending, workerVars,
                   editor, crashes, stalled>>

Older(age) == IF age = None \/ age = Horizon THEN age ELSE age + 1

Tick ==
    /\ log' = [k \in LogKind |-> Older(log[k])]
    /\ UNCHANGED <<type, deleted, active, last_state, pending, workerVars,
                   editor, crashes, stalled, pruned>>

Execute(w) ==
    \/ WorkingNext(w) \/ EnterWorking(w) \/ create_log(w)
    \/ EvaluateAlert(w) \/ SuccessAlert(w) \/ RunReport(w)
    \/ send(w) \/ Succeed(w) \/ Fail(w) \/ send_error(w) \/ MarkNotified(w)
    \/ RowGone(w)

NextButTick ==
    \/ scheduler
    \/ \E w \in Workers : Start(w) \/ Execute(w) \/ Crash(w)
    \/ ValidateDeactivation \/ CommitDeactivation \/ Activate \/ Delete
    \/ prune_log

Next == NextButTick \/ Tick

Spec == Init /\ [][Next]_vars

(***************************************************************************)
(* The beat keeps sending, workers keep taking and finishing executions    *)
(* (a hung one is killed by the task's time limit, which is Crash), and    *)
(* time passes.  Nothing is assumed of owners, pruning or crashes.         *)
(***************************************************************************)
Fairness ==
    /\ WF_vars(scheduler)
    /\ \A w \in Workers : WF_vars(Start(w)) /\ WF_vars(Execute(w))
    /\ WF_vars(Tick)

FairSpec == Spec /\ Fairness

-----------------------------------------------------------------------------
(* Properties.                                                             *)

(***************************************************************************)
(* A schedule is WORKING only while some execution holds it, unless one    *)
(* died holding it: however executions, deactivations and timeouts         *)
(* overlap, none of them puts WORKING back after the holders' final        *)
(* states.  ReportWorkingState "sets" WORKING again, which is harmless     *)
(* only because the session omits an unchanged column from its UPDATE.     *)
(***************************************************************************)
StallOnlyAfterCrash ==
    ~deleted /\ last_state = "WORKING" => stalled \/ \E w \in Workers : Holding(w)

(***************************************************************************)
(* The grace period is computed from the SUCCESS row of the log, and not   *)
(* from last_state.  In an alert that is in SUCCESS or GRACE that row      *)
(* exists, or its writer is between the commit of the state and the commit *)
(* of the row, or died there, or the row was pruned.                       *)
(***************************************************************************)
GraceHasItsSuccess ==
    last_state \in {"SUCCESS", "GRACE"} /\ ~deleted /\ crashes = 0
        => \/ log["success"] # None \/ pruned
           \/ \E w \in Workers : pc[w] = "log_success"

(***************************************************************************)
(* A schedule left WORKING is not left so for ever while the entered row   *)
(* stays in the log: a later execution finds it timed out and sets ERROR.  *)
(***************************************************************************)
StallRecovers ==
    (last_state = "WORKING" /\ log["entered"] # None)
        ~> (last_state # "WORKING" \/ log["entered"] = None)

(***************************************************************************)
(* models/reports.py:134 "Unlock a possible stalled working state", without*)
(* the log row that the unlocking depends on.                              *)
(***************************************************************************)
AnyStallRecovers == last_state = "WORKING" ~> last_state # "WORKING"
=============================================================================
