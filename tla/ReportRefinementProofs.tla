----------------------- MODULE ReportRefinementProofs -----------------------
(***************************************************************************)
(* ReportSchedule implements ReportLifecycle, for any recipients, periods  *)
(* and number of crashes, with the one worker and no edits that            *)
(* ReportRefinement assumes; and what its grace periods promise.           *)
(***************************************************************************)
EXTENDS ReportRefinement, ReportScheduleProofs

LEMMA TheWorker == Workers = {W}
  BY OneWorker, Zenon DEF W

(***************************************************************************)
(* Where its execution is tells what the row holds, what the session has   *)
(* read of it, and whom the execution has reached.                         *)
(***************************************************************************)
Undisturbed == ~deleted /\ editor = None

RowFitsStep ==
    /\ Holding(W) => last_state = "WORKING"
    /\ pc[W] \in {"enter", "log_noop", "log_grace", "log_success", "log_marker"}
         => last_state # "WORKING"
    /\ pc[W] \in {"log_error", "notify_owners", "owners_notified"}
         => last_state = "ERROR"

ReadFitsRow ==
    pc[W] \in {"working", "enter", "run", "send", "sent", "failed",
               "notify_owners", "owners_notified"} => loaded[W] = last_state

ClassFitsRow ==
    /\ pc[W] = "working" => last_state = "WORKING"
    /\ pc[W] = "enter" => handler[W] = StateClass(last_state)
    /\ pc[W] \in {"send", "sent"} /\ type = "Alert" => handler[W] = "not_triggered"

ReachedFitsStep ==
    /\ pc[W] \in {"idle", "working", "enter", "log_entered", "run", "send"}
         => delivered[W] = {}
    /\ pc[W] = "sent" => delivered[W] = Recipients

RInv == /\ Undisturbed /\ RowFitsStep /\ ReadFitsRow /\ ClassFitsRow
        /\ ReachedFitsStep

(* What the refinement makes of a state.                                   *)
Origin == IF last_state = "WORKING" THEN handler[W] ELSE "none"
Notified == IF Holding(W) THEN delivered[W] ELSE {}

Hidden == UNCHANGED <<type, last_state, Origin, Notified>>

LEMMA HiddenStutters == Hidden => UNCHANGED Lifecycle!vars
  BY DEF Hidden, Origin, Notified, Lifecycle!vars

LEMMA InitRefines == Init => RInv /\ Lifecycle!Init
  <1> SUFFICES ASSUME Init PROVE RInv /\ Lifecycle!Init
    OBVIOUS
  <1>1. pc[W] = "idle" /\ delivered[W] = {} /\ handler[W] = "not_triggered"
    BY TheWorker DEF Init
  <1>2. ~Holding(W)
    BY <1>1 DEF Holding, HoldingStates
  <1>3. Lifecycle!Init
    BY <1>2 DEF Init, Lifecycle!Init
  <1> QED
    BY <1>1, <1>2, <1>3 DEF Init, RInv, Undisturbed, RowFitsStep, ReadFitsRow,
                            ClassFitsRow, ReachedFitsStep

-----------------------------------------------------------------------------
(* Taking a message reads the row and reaches nobody.                      *)
LEMMA StartRefines ==
    ASSUME TypeOK, RInv, Start(W)
    PROVE  RInv' /\ Hidden
  <1> USE TheWorker
  <1>0. ~deleted
    BY DEF RInv, Undisturbed
  <1>1. CASE last_state = "WORKING"
    <2>1. /\ pc'[W] = "working" /\ loaded'[W] = "WORKING"
          /\ UNCHANGED <<type, deleted, editor, last_state, handler, delivered>>
      BY <1>0, <1>1 DEF Start, StateClass, TypeOK
    <2> QED
      BY <1>1, <2>1 DEF Start, RInv, Undisturbed, RowFitsStep, ReadFitsRow,
         ClassFitsRow, ReachedFitsStep, Holding, HoldingStates, Hidden, Origin,
         Notified
  <1>2. CASE last_state # "WORKING"
    <2>1. /\ pc'[W] = "enter" /\ loaded'[W] = last_state
          /\ handler'[W] = StateClass(last_state)
          /\ UNCHANGED <<type, deleted, editor, last_state, delivered>>
      BY <1>0, <1>2 DEF Start, StateClass, TypeOK
    <2>2. StateClass(last_state)' = StateClass(last_state)
      BY <2>1 DEF StateClass
    <2> QED
      BY <1>2, <2>1, <2>2 DEF Start, RInv, Undisturbed, RowFitsStep, ReadFitsRow,
         ClassFitsRow, ReachedFitsStep, Holding, HoldingStates, Hidden, Origin,
         Notified
  <1> QED
    BY <1>1, <1>2

(* A step that only moves the execution on, and its crash.                 *)
LEMMA WriteOf ==
    ASSUME TypeOK, NEW s \in ReportState, set_state(W, s)
    PROVE  /\ loaded[W] = last_state => last_state' = s
           /\ s # loaded[W] => last_state' = s
  BY DEF set_state

LEMMA EndsInAt ==
    ASSUME TypeOK, NEW s \in WorkerState, EndsIn(W, s)
    PROVE  /\ pc'[W] = s
           /\ delivered'[W] = IF s = "idle" THEN {} ELSE delivered[W]
  BY TheWorker DEF EndsIn, TypeOK

LEMMA CreateLogRefines ==
    ASSUME TypeOK, RInv, create_log(W)
    PROVE  RInv' /\ Hidden
  <1> USE TheWorker DEF WorkerState, LogStates
  <1>1. /\ loaded'[W] = last_state
        /\ UNCHANGED <<type, deleted, editor, last_state, handler>>
    BY DEF create_log, TypeOK
  <1>2. CASE pc[W] = "log_entered"
    <2>1. EndsIn(W, "run")
      BY <1>2 DEF create_log, AfterLog
    <2>2. pc'[W] = "run" /\ delivered'[W] = delivered[W]
      BY <2>1, EndsInAt
    <2> QED
      BY <1>1, <1>2, <2>2 DEF RInv, Undisturbed, RowFitsStep, ReadFitsRow,
         ClassFitsRow, ReachedFitsStep, Holding, HoldingStates, Hidden, Origin,
         Notified
  <1>3. CASE pc[W] = "log_error" /\ handler[W] = "not_triggered"
    <2>1. EndsIn(W, "notify_owners")
      BY <1>3 DEF create_log, AfterLog
    <2>2. pc'[W] = "notify_owners" /\ delivered'[W] = delivered[W]
      BY <2>1, EndsInAt
    <2> QED
      BY <1>1, <1>3, <2>2 DEF RInv, Undisturbed, RowFitsStep, ReadFitsRow,
         ClassFitsRow, ReachedFitsStep, Holding, HoldingStates, Hidden, Origin,
         Notified
  <1>4. CASE pc[W] # "log_entered" /\ ~(pc[W] = "log_error" /\ handler[W] = "not_triggered")
    <2>1. EndsIn(W, "idle") /\ pc[W] \in LogStates
      BY <1>4 DEF create_log, AfterLog
    <2>2. pc'[W] = "idle" /\ delivered'[W] = {}
      BY <2>1, EndsInAt
    <2> QED
      BY <1>1, <1>4, <2>1, <2>2 DEF RInv, Undisturbed, RowFitsStep, ReadFitsRow,
         ClassFitsRow, ReachedFitsStep, Holding, HoldingStates, Hidden, Origin,
         Notified
  <1> QED
    BY <1>2, <1>3, <1>4

(* Refusals and time outs, and the entry into WORKING.                     *)
LEMMA WorkingRefines ==
    ASSUME TypeOK, RInv, WorkingNext(W)
    PROVE  RInv' /\ (Hidden \/ Lifecycle!Leave)
  <1>1. /\ pc[W] = "working" /\ last_state = "WORKING" /\ loaded[W] = "WORKING"
        /\ UNCHANGED <<type, deleted, editor, handler, loaded>>
    BY DEF WorkingNext, AtRow, RInv, ReadFitsRow, ClassFitsRow
  <1>2. pc'[W] = "idle" /\ delivered'[W] = {}
    BY EndsInAt DEF WorkingNext, WorkerState
  <1>3. RInv'
    BY <1>1, <1>2 DEF RInv, Undisturbed, RowFitsStep, ReadFitsRow, ClassFitsRow,
       ReachedFitsStep, Holding, HoldingStates
  <1>4. last_state' \in {"WORKING", "ERROR"}
    BY <1>1 DEF WorkingNext, set_state
  <1>5. CASE last_state' = "WORKING"
    BY <1>1, <1>2, <1>3, <1>5 DEF Hidden, Origin, Notified, Holding, HoldingStates
  <1>6. CASE last_state' = "ERROR"
    <2>1. Lifecycle!Leave
      BY <1>1, <1>2, <1>6 DEF Lifecycle!Leave, Lifecycle!Final, Holding, HoldingStates
    <2> QED
      BY <1>3, <2>1
  <1> QED
    BY <1>4, <1>5, <1>6

LEMMA EnterRefines ==
    ASSUME TypeOK, RInv, EnterWorking(W)
    PROVE  RInv' /\ Lifecycle!Enter
  <1>1. /\ pc[W] = "enter" /\ last_state # "WORKING" /\ loaded[W] = last_state
        /\ handler[W] = StateClass(last_state) /\ delivered[W] = {}
        /\ UNCHANGED <<type, deleted, editor, handler, loaded>>
    BY DEF EnterWorking, AtRow, RInv, ReadFitsRow, ClassFitsRow, RowFitsStep,
           ReachedFitsStep
  <1>2. pc'[W] = "log_entered" /\ delivered'[W] = {}
    BY <1>1, EndsInAt DEF EnterWorking, WorkerState, LogStates
  <1>3. last_state' = "WORKING"
    BY <1>1 DEF EnterWorking, set_state
  <1>4. RInv'
    BY <1>1, <1>2, <1>3 DEF RInv, Undisturbed, RowFitsStep, ReadFitsRow,
       ClassFitsRow, ReachedFitsStep, Holding, HoldingStates
  <1>5. Lifecycle!Enter
    BY <1>1, <1>2, <1>3 DEF Lifecycle!Enter, Holding, HoldingStates, StateClass
  <1> QED
    BY <1>4, <1>5

(* A step on the way that writes nothing.                                  *)
LEMMA MovesOn ==
    ASSUME TypeOK, RInv, pc[W] = "run", EndsIn(W, "send") \/ EndsIn(W, "failed"),
           type = "Alert" => handler[W] = "not_triggered",
           UNCHANGED <<type, deleted, editor, last_state, handler, loaded>>
    PROVE  RInv' /\ Hidden
  <1>1. /\ pc'[W] \in {"send", "failed"} /\ delivered'[W] = delivered[W]
    BY EndsInAt DEF WorkerState
  <1> QED
    BY <1>1 DEF RInv, Undisturbed, RowFitsStep, ReadFitsRow, ClassFitsRow,
       ReachedFitsStep, Holding, HoldingStates, Hidden, Origin, Notified

(* The commit of a final state that the lifecycle allows.                  *)
LEMMA FinalRefines ==
    ASSUME TypeOK, RInv, pc[W] \in {"run", "sent", "failed"},
           NEW s \in {"NOOP", "GRACE", "SUCCESS", "ERROR"}, set_state(W, s),
           NEW t \in {"log_noop", "log_grace", "log_success", "log_error"}, EndsIn(W, t),
           t = "log_error" => s = "ERROR", Lifecycle!Final(s),
           UNCHANGED <<type, deleted, editor, handler, loaded>>
    PROVE  RInv' /\ Lifecycle!Leave
  <1>1. pc'[W] = t /\ delivered'[W] = delivered[W]
    BY EndsInAt DEF WorkerState, LogStates
  <1>2. last_state = "WORKING" /\ last_state' = s
    BY DEF RInv, RowFitsStep, ReadFitsRow, Holding, HoldingStates, set_state
  <1>3. RInv'
    BY <1>1, <1>2 DEF RInv, Undisturbed, RowFitsStep, ReadFitsRow, ClassFitsRow,
       ReachedFitsStep, Holding, HoldingStates
  <1>4. Lifecycle!Leave
    BY <1>1, <1>2 DEF Lifecycle!Leave, Holding, HoldingStates
  <1> QED
    BY <1>3, <1>4

LEMMA EvaluateRefines ==
    ASSUME TypeOK, RInv, EvaluateAlert(W)
    PROVE  RInv' /\ (Hidden \/ Lifecycle!Leave)
  <1>1. /\ pc[W] = "run" /\ type = "Alert" /\ handler[W] = "not_triggered"
        /\ UNCHANGED <<type, deleted, editor, handler, loaded>>
    BY DEF EvaluateAlert, AtRow
  <1>2. CASE /\ EndsIn(W, "send") \/ EndsIn(W, "failed")
             /\ UNCHANGED last_state
    BY <1>1, <1>2, MovesOn
  <1>3. CASE set_state(W, "NOOP") /\ EndsIn(W, "log_noop")
    <2>1. Lifecycle!Final("NOOP")
      BY <1>1 DEF Lifecycle!Final, RInv, ReachedFitsStep
    <2> QED
      BY <1>1, <1>3, <2>1, FinalRefines
  <1> QED
    BY <1>2, <1>3 DEF EvaluateAlert

LEMMA SuccessRefines ==
    ASSUME TypeOK, RInv, SuccessAlert(W)
    PROVE  RInv' /\ Lifecycle!Leave
  <1>1. /\ pc[W] = "run" /\ type = "Alert" /\ handler[W] = "success"
        /\ UNCHANGED <<type, deleted, editor, handler, loaded>>
    BY DEF SuccessAlert, AtRow
  <1>2. Lifecycle!Final("NOOP") /\ Lifecycle!Final("GRACE")
    BY <1>1 DEF Lifecycle!Final, RInv, RowFitsStep, ReachedFitsStep, Holding,
                HoldingStates
  <1>3. CASE set_state(W, "GRACE") /\ EndsIn(W, "log_grace")
    BY <1>1, <1>2, <1>3, FinalRefines
  <1>4. CASE set_state(W, "NOOP") /\ EndsIn(W, "log_noop")
    BY <1>1, <1>2, <1>4, FinalRefines
  <1> QED
    BY <1>3, <1>4 DEF SuccessAlert

LEMMA SendRefines ==
    ASSUME TypeOK, RInv, send(W)
    PROVE  RInv' /\ (Hidden \/ Lifecycle!Notify)
  <1> USE TheWorker
  <1>1. /\ pc[W] = "send" /\ delivered[W] = {} /\ last_state = "WORKING"
        /\ type = "Alert" => handler[W] = "not_triggered"
        /\ UNCHANGED <<type, deleted, editor, last_state, handler, loaded>>
    BY DEF send, AtRow, RInv, RowFitsStep, ClassFitsRow, ReachedFitsStep, Holding,
           HoldingStates
  <1>2. CASE EndsIn(W, "failed")
    <2>1. pc'[W] = "failed" /\ delivered'[W] = {}
      BY <1>1, <1>2, EndsInAt DEF WorkerState
    <2> QED
      BY <1>1, <2>1 DEF RInv, Undisturbed, RowFitsStep, ReadFitsRow, ClassFitsRow,
         ReachedFitsStep, Holding, HoldingStates, Hidden, Origin, Notified
  <1>3. ASSUME NEW reached \in SUBSET Recipients,
               delivered' = [delivered EXCEPT ![W] = reached],
               pc' = [pc EXCEPT ![W] = AfterSend(reached)]
        PROVE  RInv' /\ Lifecycle!Notify
    <2>1. /\ delivered'[W] = reached
          /\ pc'[W] = IF reached = Recipients THEN "sent" ELSE "failed"
      BY <1>3 DEF TypeOK, AfterSend
    <2>2. RInv'
      BY <1>1, <2>1 DEF RInv, Undisturbed, RowFitsStep, ReadFitsRow, ClassFitsRow,
         ReachedFitsStep, Holding, HoldingStates
    <2>3. Lifecycle!Notify
      BY <1>1, <2>1 DEF Lifecycle!Notify, Holding, HoldingStates
    <2> QED
      BY <2>2, <2>3
  <1> QED
    BY <1>2, <1>3 DEF send

(* Telling the owners of an error happens when WORKING has been left.      *)
LEMMA OwnersRefine ==
    ASSUME TypeOK, RInv, send_error(W) \/ MarkNotified(W)
    PROVE  RInv' /\ Hidden
  <1>1. /\ pc[W] \in {"notify_owners", "owners_notified"}
        /\ last_state = "ERROR" /\ loaded[W] = "ERROR" /\ last_state' = "ERROR"
        /\ UNCHANGED <<type, deleted, editor, handler, loaded>>
    BY DEF send_error, MarkNotified, AtRow, RInv, RowFitsStep, ReadFitsRow, set_state
  <1>2. /\ pc'[W] \in {"idle", "owners_notified", "log_marker"}
        /\ pc'[W] = "idle" => delivered'[W] = {}
    BY EndsInAt DEF send_error, MarkNotified, WorkerState, LogStates
  <1> QED
    BY <1>1, <1>2 DEF RInv, Undisturbed, RowFitsStep, ReadFitsRow, ClassFitsRow,
       ReachedFitsStep, Holding, HoldingStates, Hidden, Origin, Notified

(* An execution that dies holding WORKING leaves it to be timed out.       *)
LEMMA CrashRefines ==
    ASSUME TypeOK, RInv, Crash(W)
    PROVE  RInv' /\ (Hidden \/ Lifecycle!Die)
  <1>1. /\ pc'[W] = "idle" /\ delivered'[W] = {}
        /\ UNCHANGED <<type, deleted, editor, last_state, handler, loaded>>
    BY EndsInAt DEF Crash, WorkerState
  <1>2. RInv'
    BY <1>1 DEF RInv, Undisturbed, RowFitsStep, ReadFitsRow, ClassFitsRow,
       ReachedFitsStep, Holding, HoldingStates
  <1>3. CASE Holding(W)
    <2>1. Lifecycle!Die
      BY <1>1, <1>3 DEF RInv, RowFitsStep, Lifecycle!Die, Holding, HoldingStates
    <2> QED
      BY <1>2, <2>1
  <1>4. CASE ~Holding(W)
    BY <1>1, <1>2, <1>4 DEF Hidden, Origin, Notified, Holding, HoldingStates
  <1> QED
    BY <1>3, <1>4

LEMMA ElsewhereRefines ==
    ASSUME RInv, UNCHANGED <<type, deleted, editor, last_state, workerVars>>
    PROVE  RInv' /\ Hidden
  <1> USE DEF workerVars
  <1>1. Holding(W)' = Holding(W) /\ StateClass(last_state)' = StateClass(last_state)
    BY DEF Holding, StateClass
  <1> QED
    BY <1>1 DEF RInv, Undisturbed, RowFitsStep, ReadFitsRow, ClassFitsRow,
       ReachedFitsStep, Hidden, Origin, Notified

-----------------------------------------------------------------------------
LEMMA StepRefines ==
    ASSUME TypeOK, RInv, [Next]_vars
    PROVE  RInv' /\ [Lifecycle!Next]_Lifecycle!vars
  <1> SUFFICES RInv' /\ (\/ Hidden \/ Lifecycle!Enter \/ Lifecycle!Notify
                         \/ Lifecycle!Leave \/ Lifecycle!Die)
    BY HiddenStutters DEF Lifecycle!Next
  <1>0. ~deleted /\ editor = None
    BY DEF RInv, Undisturbed
  <1>1. CASE scheduler
    BY <1>1, ElsewhereRefines DEF scheduler
  <1>2. CASE Start(W)
    BY <1>2, StartRefines
  <1>3. CASE Execute(W)
    <2>1. CASE EvaluateAlert(W) \/ SuccessAlert(W) \/ WorkingNext(W) \/ EnterWorking(W)
      BY <2>1, EvaluateRefines, SuccessRefines, WorkingRefines, EnterRefines
    <2>2. CASE create_log(W) \/ send(W) \/ send_error(W) \/ MarkNotified(W)
      BY <2>2, CreateLogRefines, SendRefines, OwnersRefine
    <2>3. CASE RunReport(W)
      BY <2>3, MovesOn DEF RunReport, AtRow
    <2>4. CASE Succeed(W)
      <3>1. Lifecycle!Final("SUCCESS")
        BY <2>4 DEF Succeed, AtRow, Lifecycle!Final, RInv, RowFitsStep, ClassFitsRow,
                    ReachedFitsStep, Holding, HoldingStates
      <3> QED
        BY <2>4, <3>1, FinalRefines DEF Succeed, AtRow
    <2>5. CASE Fail(W)
      <3>1. Lifecycle!Final("ERROR")
        BY DEF Lifecycle!Final
      <3> QED
        BY <2>5, <3>1, FinalRefines DEF Fail, AtRow
    <2>6. CASE RowGone(W)
      BY <1>0, <2>6 DEF RowGone
    <2> QED
      BY <1>3, <2>1, <2>2, <2>3, <2>4, <2>5, <2>6 DEF Execute
  <1>4. CASE Crash(W)
    BY <1>4, CrashRefines
  <1>5. CASE ValidateDeactivation \/ CommitDeactivation \/ Activate \/ Delete
    BY <1>0, <1>5, NobodyEdits DEF ValidateDeactivation, CommitDeactivation, Activate,
                                   Delete
  <1>6. CASE prune_log
    BY <1>6, ElsewhereRefines DEF prune_log
  <1>7. CASE Tick
    BY <1>7, ElsewhereRefines DEF Tick
  <1>8. CASE UNCHANGED vars
    BY <1>8, ElsewhereRefines DEF vars
  <1>9. (\E w \in Workers : Start(w) \/ Execute(w) \/ Crash(w))
          => Start(W) \/ Execute(W) \/ Crash(W)
    BY TheWorker
  <1> QED
    BY <1>1, <1>2, <1>3, <1>4, <1>5, <1>6, <1>7, <1>8, <1>9 DEF Next, NextButTick

(***************************************************************************)
(* Every execution, with its crashes, refusals and time outs, is one of    *)
(* ReportLifecycle: it notifies each recipient at most once, and leaves    *)
(* WORKING only for a final state that the state it entered from allows.   *)
(***************************************************************************)
THEOREM Refines == Spec => ImplementsLifecycle
  <1>1. Init => RInv /\ Lifecycle!Init
    BY InitRefines
  <1>2. TypeOK /\ RInv /\ [Next]_vars => RInv' /\ [Lifecycle!Next]_Lifecycle!vars
    BY StepRefines
  <1>3. Spec => []TypeOK
    BY TypeCorrect
  <1> QED
    BY <1>1, <1>2, <1>3, PTL DEF Spec, ImplementsLifecycle, Lifecycle!Spec

-----------------------------------------------------------------------------
(***************************************************************************)
(* The grace period of an alert, for any recipients, periods and number of *)
(* messages, with the one worker and no edits that ReportRefinement        *)
(* assumes.                                                                *)
(***************************************************************************)
(* The log is not pruned of the SUCCESS that a grace period is counted from.*)
RetentionOutlivesGrace == LogRetention # None => LogRetention + 1 >= GracePeriod

Fresh(r) == Within(nagAge[r], GracePeriod)

(***************************************************************************)
(* Where the schedule is while a recipient was reached less than a grace   *)
(* period ago: on the way to the SUCCESS row of that execution, or in a    *)
(* state that is not evaluated again, with that row in the log.            *)
(***************************************************************************)
SuccessSince(r) == log["success"] # None /\ log["success"] <= nagAge[r]

Quiet(r) ==
    \/ pc[W] = "sent"
    \/ pc[W] = "log_success" /\ last_state = "SUCCESS"
    \/ /\ pc[W] \in {"idle", "enter", "log_entered", "run", "log_grace"}
       /\ \/ last_state \in {"SUCCESS", "GRACE"}
          \/ last_state = "WORKING" /\ handler[W] = "success"
       /\ SuccessSince(r)

Undying == crashes = 0
Applies == type = "Alert" /\ Undying /\ ~partly

NInv ==
    /\ nagAge \in [Recipients -> Age]
    /\ Undying /\ last_state = "WORKING" => Holding(W)
    /\ Applies => \A r \in Recipients : Fresh(r) => Quiet(r)

LEMMA InitNInv == HistoryInit => NInv
  BY NoneAssumption DEF HistoryInit, Init, NInv, Age, Fresh, Within

(* A step that reaches nobody leaves the time since recipients were reached.*)
LEMMA ReachesNobody ==
    ASSUME TypeOK, NInv, Record, delivered'[W] \subseteq delivered[W]
    PROVE  nagAge' = nagAge /\ (partly => partly')
  BY TheWorker DEF Record, Reaches, NInv, TypeOK

LEMMA LogsSuccess ==
    /\ pc[W] = "log_success" => LogKindOf(pc[W]) = "success"
    /\ pc[W] \in {"log_entered", "log_noop", "log_grace", "log_error", "log_marker"}
         => LogKindOf(pc[W]) # "success"
  <1>1. pc[W] = "log_success" => LogKindOf(pc[W]) = "success"
    BY DEF LogKindOf
  <1>2. pc[W] = "log_entered" => LogKindOf(pc[W]) # "success"
    BY DEF LogKindOf
  <1>3. pc[W] \in {"log_noop", "log_grace"} => LogKindOf(pc[W]) # "success"
    BY DEF LogKindOf
  <1>4. pc[W] = "log_marker" => LogKindOf(pc[W]) # "success"
    BY DEF LogKindOf
  <1>5. pc[W] = "log_error" => LogKindOf(pc[W]) # "success"
    BY DEF LogKindOf
  <1> QED
    BY <1>1, <1>2, <1>3, <1>4, <1>5

(* Steps after which the conditions of Quiet are what they were.            *)
LEMMA Keeps ==
    ASSUME TypeOK, NInv, nagAge' = nagAge, partly => partly',
           UNCHANGED <<type, crashes>>,
           Undying /\ last_state' = "WORKING" => Holding(W)',
           ASSUME NEW r \in Recipients, Applies, Fresh(r), Quiet(r)
           PROVE  Quiet(r)'
    PROVE  NInv'
  BY DEF NInv, Applies, Undying, Fresh

-----------------------------------------------------------------------------
(* The steps of the execution and around it, each with what it reaches.    *)
LEMMA StartQuiet ==
    ASSUME TypeOK, RInv, NInv, Start(W), Record
    PROVE  NInv'
  <1> USE TheWorker
  <1>0. /\ ~deleted /\ pc[W] = "idle"
        /\ UNCHANGED <<type, crashes, last_state, log, delivered>>
    BY DEF RInv, Undisturbed, Start
  <1>1. nagAge' = nagAge /\ (partly => partly')
    BY <1>0, ReachesNobody
  <1>2. ~Holding(W)
    BY <1>0 DEF Holding, HoldingStates
  <1>3. ASSUME NEW r \in Recipients, Applies, Fresh(r), Quiet(r)
        PROVE  Quiet(r)'
    <2>1. last_state \in {"SUCCESS", "GRACE"} /\ SuccessSince(r)
      BY <1>0, <1>2, <1>3 DEF Quiet, NInv, Applies
    <2>2. pc'[W] = "enter"
      BY <1>0, <2>1 DEF Start, StateClass, TypeOK
    <2> QED
      BY <1>0, <1>1, <2>1, <2>2 DEF Quiet, SuccessSince
  <1>4. Undying /\ last_state' = "WORKING" => Holding(W)'
    BY <1>0, <1>2 DEF NInv
  <1> QED
    BY <1>0, <1>1, <1>3, <1>4, Keeps

LEMMA WorkingQuiet ==
    ASSUME TypeOK, RInv, NInv, WorkingNext(W), Record
    PROVE  NInv'
  <1>0. /\ pc[W] = "working" /\ last_state = "WORKING"
        /\ UNCHANGED <<type, crashes>>
    BY DEF WorkingNext, AtRow, RInv, ClassFitsRow
  <1>1. delivered'[W] = {}
    BY EndsInAt DEF WorkingNext, WorkerState
  <1>2. nagAge' = nagAge /\ (partly => partly')
    BY <1>1, ReachesNobody
  <1>3. ~Undying
    BY <1>0 DEF NInv, Holding, HoldingStates
  <1> QED
    BY <1>0, <1>2, <1>3, Keeps DEF Applies

LEMMA EnterQuiet ==
    ASSUME TypeOK, RInv, NInv, EnterWorking(W), Record
    PROVE  NInv'
  <1>0. /\ pc[W] = "enter" /\ last_state # "WORKING" /\ loaded[W] = last_state
        /\ handler[W] = StateClass(last_state)
        /\ UNCHANGED <<type, crashes, log, handler>>
    BY DEF EnterWorking, AtRow, RInv, ClassFitsRow, ReadFitsRow, RowFitsStep
  <1>1. pc'[W] = "log_entered" /\ delivered'[W] = delivered[W]
    BY EndsInAt DEF EnterWorking, WorkerState, LogStates
  <1>2. nagAge' = nagAge /\ (partly => partly')
    BY <1>1, ReachesNobody
  <1>3. last_state' = "WORKING"
    BY <1>0 DEF EnterWorking, set_state
  <1>4. ASSUME NEW r \in Recipients, Quiet(r) PROVE Quiet(r)'
    BY <1>0, <1>1, <1>2, <1>3, <1>4 DEF Quiet, SuccessSince, StateClass
  <1>5. Holding(W)'
    BY <1>1 DEF Holding, HoldingStates
  <1> QED
    BY <1>0, <1>2, <1>4, <1>5, Keeps

(* The SUCCESS row is newer than what the execution reached; no other row  *)
(* takes its place.                                                        *)
LEMMA CreateLogQuiet ==
    ASSUME TypeOK, RInv, NInv, create_log(W), Record
    PROVE  NInv'
  <1> USE TheWorker DEF WorkerState, LogStates
  <1>0. /\ pc[W] \in LogStates
        /\ UNCHANGED <<type, crashes, last_state, handler>>
    BY DEF create_log
  <1>1. EndsIn(W, AfterLog(W)) /\ AfterLog(W) \in {"run", "notify_owners", "idle"}
    BY DEF create_log, AfterLog
  <1>2. pc'[W] = AfterLog(W) /\ delivered'[W] \subseteq delivered[W]
    BY <1>1, EndsInAt
  <1>3. nagAge' = nagAge /\ (partly => partly')
    BY <1>2, ReachesNobody
  <1>4. log'["success"] = IF pc[W] = "log_success" THEN 0 ELSE log["success"]
    <2>1. log' = LogWith(LogKindOf(pc[W])) /\ "success" \in LogKind
      BY DEF create_log, LogKind
    <2>2. \A kind : LogWith(kind)["success"] = IF kind = "success" THEN 0
                                              ELSE log["success"]
      BY <2>1 DEF LogWith
    <2> QED
      BY <1>0, <2>1, <2>2, LogsSuccess
  <1>5. ASSUME NEW r \in Recipients, Fresh(r), Quiet(r) PROVE Quiet(r)'
    <2>1. nagAge[r] \in Nat /\ 0 # None
      BY <1>5, PeriodsAssumption, NoneAssumption DEF Fresh, Within, NInv, Age
    <2>2. CASE pc[W] = "log_success"
      <3>1. pc'[W] = "idle" /\ last_state = "SUCCESS"
        BY <1>2, <1>5, <2>2 DEF Quiet, AfterLog
      <3> QED
        BY <1>0, <1>3, <1>4, <2>1, <2>2, <3>1 DEF Quiet, SuccessSince
    <2>3. CASE pc[W] # "log_success"
      <3>1. pc[W] \in {"log_entered", "log_grace"} /\ SuccessSince(r)
        BY <1>0, <1>5, <2>3 DEF Quiet
      <3>2. SuccessSince(r)'
        BY <1>3, <1>4, <2>3, <3>1 DEF SuccessSince
      <3>3. pc'[W] \in {"run", "idle"}
        BY <1>2, <3>1 DEF AfterLog
      <3> QED
        BY <1>0, <1>5, <3>1, <3>2, <3>3 DEF Quiet
    <2> QED
      BY <2>2, <2>3
  <1>6. Undying /\ last_state' = "WORKING" => Holding(W)'
    <2>1. ASSUME Undying, last_state = "WORKING" PROVE pc[W] = "log_entered"
      BY <1>0, <2>1 DEF NInv, Holding, HoldingStates
    <2> QED
      BY <1>0, <1>2, <2>1 DEF AfterLog, Holding, HoldingStates
  <1> QED
    BY <1>0, <1>3, <1>5, <1>6, Keeps

(* Evaluating an alert, or failing, happens to nobody's quiet.             *)
LEMMA LoudStep ==
    ASSUME TypeOK, RInv, NInv, Record,
           NEW t \in WorkerState, EndsIn(W, t), UNCHANGED <<type, crashes>>,
           \A r \in Recipients : ~Quiet(r),
           Holding(W) \/ last_state # "WORKING",
           last_state' # "WORKING" \/ (last_state' = last_state /\ t \in HoldingStates)
    PROVE  NInv'
  <1>1. pc'[W] = t /\ delivered'[W] \subseteq delivered[W]
    BY EndsInAt
  <1>2. nagAge' = nagAge /\ (partly => partly')
    BY <1>1, ReachesNobody
  <1>3. Undying /\ last_state' = "WORKING" => Holding(W)'
    BY <1>1 DEF Holding
  <1> QED
    BY <1>2, <1>3, Keeps

LEMMA EvaluateQuiet ==
    ASSUME TypeOK, RInv, NInv, EvaluateAlert(W), Record
    PROVE  NInv'
  <1>0. /\ pc[W] = "run" /\ handler[W] = "not_triggered"
        /\ last_state = "WORKING" /\ loaded[W] = "WORKING" /\ Holding(W)
        /\ UNCHANGED <<type, crashes>>
    BY DEF EvaluateAlert, AtRow, RInv, RowFitsStep, ReadFitsRow, Holding, HoldingStates
  <1>1. \A r \in Recipients : ~Quiet(r)
    BY <1>0 DEF Quiet
  <1>2. CASE EndsIn(W, "send") /\ UNCHANGED last_state
    BY <1>0, <1>1, <1>2, LoudStep DEF WorkerState, HoldingStates
  <1>3. CASE EndsIn(W, "failed") /\ UNCHANGED last_state
    BY <1>0, <1>1, <1>3, LoudStep DEF WorkerState, HoldingStates
  <1>4. CASE set_state(W, "NOOP") /\ EndsIn(W, "log_noop")
    BY <1>0, <1>1, <1>4, LoudStep DEF WorkerState, LogStates, set_state
  <1> QED
    BY <1>2, <1>3, <1>4 DEF EvaluateAlert

(* Within the grace period of its SUCCESS the alert only turns to GRACE.   *)
LEMMA SuccessQuiet ==
    ASSUME TypeOK, RInv, NInv, SuccessAlert(W), Record
    PROVE  NInv'
  <1>0. /\ pc[W] = "run" /\ handler[W] = "success"
        /\ last_state = "WORKING" /\ loaded[W] = "WORKING"
        /\ UNCHANGED <<type, crashes, log, handler>>
    BY DEF SuccessAlert, AtRow, RInv, RowFitsStep, ReadFitsRow, Holding, HoldingStates
  <1>1. /\ pc'[W] \in {"log_grace", "log_noop"} /\ delivered'[W] = delivered[W]
        /\ is_in_grace_period => pc'[W] = "log_grace" /\ last_state' = "GRACE"
        /\ last_state' \in {"GRACE", "NOOP"}
    <2>1. CASE is_in_grace_period
      <3>1. set_state(W, "GRACE") /\ EndsIn(W, "log_grace")
        BY <2>1 DEF SuccessAlert
      <3> QED
        BY <1>0, <3>1, EndsInAt DEF WorkerState, LogStates, set_state
    <2>2. CASE ~is_in_grace_period
      <3>1. set_state(W, "NOOP") /\ EndsIn(W, "log_noop")
        BY <2>2 DEF SuccessAlert
      <3> QED
        BY <1>0, <2>2, <3>1, EndsInAt DEF WorkerState, LogStates, set_state
    <2> QED
      BY <2>1, <2>2
  <1>2. nagAge' = nagAge /\ (partly => partly')
    BY <1>1, ReachesNobody
  <1>3. ASSUME NEW r \in Recipients, Fresh(r), Quiet(r) PROVE Quiet(r)'
    <2>1. SuccessSince(r)
      BY <1>0, <1>3 DEF Quiet
    <2>2. log["success"] \in Nat /\ nagAge[r] \in Nat /\ GracePeriod \in Nat
      BY <1>3, <2>1, PeriodsAssumption
         DEF SuccessSince, Fresh, Within, NInv, TypeOK, Age, LogKind
    <2>3. is_in_grace_period
      BY <1>3, <2>1, <2>2 DEF is_in_grace_period, Within, Fresh, SuccessSince
    <2> QED
      BY <1>0, <1>1, <1>2, <2>1, <2>3 DEF Quiet, SuccessSince
  <1>4. last_state' # "WORKING"
    BY <1>1
  <1> QED
    BY <1>0, <1>2, <1>3, <1>4, Keeps

(* Only here is anybody reached: all of them, or partly.                   *)
LEMMA SendQuiet ==
    ASSUME TypeOK, RInv, NInv, send(W), Record
    PROVE  NInv'
  <1> USE TheWorker
  <1>0. /\ pc[W] = "send" /\ delivered[W] = {} /\ last_state = "WORKING" /\ Holding(W)
        /\ UNCHANGED <<type, crashes, last_state>>
    BY DEF send, AtRow, RInv, RowFitsStep, ReachedFitsStep, Holding, HoldingStates
  <1>1. \A r \in Recipients : ~Quiet(r)
    BY <1>0 DEF Quiet
  <1>2. CASE EndsIn(W, "failed")
    BY <1>0, <1>1, <1>2, LoudStep DEF WorkerState, HoldingStates
  <1>3. ASSUME NEW reached \in SUBSET Recipients,
               delivered' = [delivered EXCEPT ![W] = reached],
               pc' = [pc EXCEPT ![W] = AfterSend(reached)]
        PROVE  NInv'
    <2>1. /\ delivered'[W] = reached
          /\ pc'[W] = IF reached = Recipients THEN "sent" ELSE "failed"
      BY <1>3 DEF TypeOK, AfterSend
    <2>2. Holding(W)'
      BY <2>1 DEF Holding, HoldingStates
    <2>3. nagAge' \in [Recipients -> Age]
      BY PeriodsAssumption DEF Record, NInv, Age
    <2>4. CASE reached = Recipients
      BY <2>1, <2>2, <2>3, <2>4 DEF NInv, Quiet
    <2>5. CASE reached # Recipients /\ reached # {}
      <3>1. partly'
        BY <1>0, <2>1, <2>5 DEF Record, FailsPartly
      <3> QED
        BY <2>2, <2>3, <3>1 DEF NInv, Applies
    <2>6. CASE reached # Recipients /\ reached = {}
      <3>1. nagAge' = nagAge /\ (partly => partly')
        BY <1>0, <2>1, <2>6, ReachesNobody
      <3> QED
        BY <1>0, <1>1, <2>2, <3>1, Keeps
    <2> QED
      BY <2>4, <2>5, <2>6
  <1> QED
    BY <1>2, <1>3 DEF send

(* Success is committed before its row is logged.                          *)
LEMMA SucceedQuiet ==
    ASSUME TypeOK, RInv, NInv, Succeed(W), Record
    PROVE  NInv'
  <1>0. /\ pc[W] = "sent" /\ loaded[W] = "WORKING"
        /\ UNCHANGED <<type, crashes, log, handler>>
    BY DEF Succeed, AtRow, RInv, RowFitsStep, ReadFitsRow, Holding, HoldingStates
  <1>1. pc'[W] = "log_success" /\ delivered'[W] = delivered[W]
    BY EndsInAt DEF Succeed, WorkerState, LogStates
  <1>2. nagAge' = nagAge /\ (partly => partly')
    BY <1>1, ReachesNobody
  <1>3. last_state' = "SUCCESS"
    BY <1>0 DEF Succeed, set_state
  <1> QED
    BY <1>0, <1>1, <1>2, <1>3, Keeps DEF Quiet

(* Failing, and telling the owners of it.                                  *)
LEMMA ErrorQuiet ==
    ASSUME TypeOK, RInv, NInv, Fail(W) \/ send_error(W) \/ MarkNotified(W), Record
    PROVE  NInv'
  <1>0. /\ pc[W] \in {"failed", "notify_owners", "owners_notified"}
        /\ UNCHANGED <<type, crashes>>
        /\ last_state \in {"WORKING", "ERROR"} /\ loaded[W] = last_state
        /\ last_state' = "ERROR"
        /\ Holding(W) \/ last_state # "WORKING"
    BY DEF Fail, send_error, MarkNotified, AtRow, RInv, RowFitsStep, ReadFitsRow,
           Holding, HoldingStates, set_state
  <1>1. \E t \in WorkerState : EndsIn(W, t)
    BY DEF Fail, send_error, MarkNotified, WorkerState, LogStates
  <1>2. \A r \in Recipients : ~Quiet(r)
    BY <1>0 DEF Quiet
  <1> QED
    BY <1>0, <1>1, <1>2, LoudStep

LEMMA CrashQuiet ==
    ASSUME TypeOK, RInv, NInv, Crash(W), Record
    PROVE  NInv'
  <1>1. ~Undying'
    BY BoundsAssumption DEF Crash, Undying, TypeOK
  <1>2. nagAge' = nagAge
    BY EndsInAt, ReachesNobody DEF Crash, WorkerState
  <1> QED
    BY <1>1, <1>2 DEF NInv, Applies

(* Sending messages, and pruning a log that is kept long enough.           *)
LEMMA ElsewhereQuiet ==
    ASSUME TypeOK, RInv, NInv, RetentionOutlivesGrace, scheduler \/ prune_log, Record
    PROVE  NInv'
  <1>0. UNCHANGED <<type, crashes, last_state, pc, handler, delivered>>
    BY DEF scheduler, prune_log, workerVars
  <1>1. nagAge' = nagAge /\ (partly => partly')
    BY <1>0, ReachesNobody
  <1>2. ASSUME NEW r \in Recipients, Fresh(r), Quiet(r) PROVE Quiet(r)'
    <2>1. ASSUME SuccessSince(r) PROVE log'["success"] = log["success"]
      <3>1. /\ log["success"] \in Nat /\ nagAge[r] \in Nat /\ GracePeriod \in Nat
            /\ "success" \in LogKind
        BY <1>2, <2>1, PeriodsAssumption
           DEF SuccessSince, Fresh, Within, NInv, TypeOK, Age, LogKind
      <3>2. LogRetention # None => LogRetention \in Nat /\ ~(log["success"] > LogRetention)
        BY <1>2, <2>1, <3>1, PeriodsAssumption
           DEF RetentionOutlivesGrace, SuccessSince, Fresh, Within
      <3> QED
        BY <3>1, <3>2 DEF scheduler, prune_log
    <2> QED
      BY <1>0, <1>1, <1>2, <2>1 DEF Quiet, SuccessSince
  <1>3. Undying /\ last_state' = "WORKING" => Holding(W)'
    BY <1>0 DEF NInv, Holding
  <1> QED
    BY <1>0, <1>1, <1>2, <1>3, Keeps

(* Time that passes ages the SUCCESS row and what was reached alike.       *)
LEMMA TickQuiet ==
    ASSUME TypeOK, RInv, NInv, Tick, GrowOlder
    PROVE  NInv'
  <1>0. UNCHANGED <<type, crashes, last_state, pc, handler, partly>>
    BY DEF Tick, GrowOlder, workerVars
  <1>1. nagAge' \in [Recipients -> Age]
    BY LogTypes DEF GrowOlder, NInv, TypeOK
  <1>2. ASSUME NEW r \in Recipients, Fresh(r)'
        PROVE  /\ Fresh(r) /\ SuccessSince(r) => SuccessSince(r)'
               /\ Fresh(r)
    <2>1. nagAge'[r] = Older(nagAge[r]) /\ nagAge[r] \in Age /\ log["success"] \in Age
      BY DEF GrowOlder, NInv, TypeOK, LogKind
    <2>2. log'["success"] = Older(log["success"])
      BY DEF Tick, LogKind
    <2>3. nagAge'[r] # None /\ nagAge'[r] < GracePeriod
      BY <1>2 DEF Fresh, Within
    <2>4. /\ nagAge[r] \in Nat /\ nagAge[r] < GracePeriod
          /\ nagAge'[r] = nagAge[r] + 1
      BY <2>1, <2>3, PeriodsAssumption, NoneAssumption DEF Older, Age
    <2>5. Fresh(r)
      BY <2>4, NoneAssumption DEF Fresh, Within
    <2>6. ASSUME SuccessSince(r) PROVE SuccessSince(r)'
      <3>1. log["success"] \in Nat /\ log["success"] <= nagAge[r]
        BY <2>1, <2>6 DEF SuccessSince, Age
      <3>2. log'["success"] = log["success"] + 1
        BY <2>2, <2>4, <3>1, PeriodsAssumption, NoneAssumption DEF Older
      <3> QED
        BY <2>4, <3>1, <3>2, NoneAssumption DEF SuccessSince
    <2> QED
      BY <2>5, <2>6
  <1>3. Undying /\ last_state' = "WORKING" => Holding(W)'
    BY <1>0 DEF NInv, Holding, Undying
  <1> QED
    BY <1>0, <1>1, <1>2, <1>3 DEF NInv, Applies, Undying, Quiet

-----------------------------------------------------------------------------
LEMMA HistoryStep ==
    ASSUME TypeOK, RInv, NInv, RetentionOutlivesGrace, [HistoryNext]_hvars
    PROVE  NInv'
  <1>0. ~deleted /\ editor = None
    BY DEF RInv, Undisturbed
  <1>1. CASE Tick /\ GrowOlder
    BY <1>1, TickQuiet
  <1>2. CASE UNCHANGED hvars
    BY <1>2 DEF hvars, vars, workerVars, seen, NInv, Applies, Undying, Fresh, Quiet,
                SuccessSince, Holding
  <1>3. CASE NextButTick /\ Record
    <2>1. CASE scheduler \/ prune_log
      BY <1>3, <2>1, ElsewhereQuiet
    <2>2. CASE Start(W) \/ Crash(W)
      BY <1>3, <2>2, StartQuiet, CrashQuiet
    <2>3. CASE Execute(W)
      <3>1. CASE WorkingNext(W) \/ EnterWorking(W) \/ create_log(W)
        BY <1>3, <3>1, WorkingQuiet, EnterQuiet, CreateLogQuiet
      <3>2. CASE EvaluateAlert(W) \/ SuccessAlert(W) \/ send(W) \/ Succeed(W)
        BY <1>3, <3>2, EvaluateQuiet, SuccessQuiet, SendQuiet, SucceedQuiet
      <3>3. CASE Fail(W) \/ send_error(W) \/ MarkNotified(W)
        BY <1>3, <3>3, ErrorQuiet
      <3>4. CASE RowGone(W)
        BY <1>0, <3>4 DEF RowGone
      <3>5. CASE RunReport(W)
        <4>1. /\ type' # "Alert" /\ pc'[W] = "send" /\ delivered'[W] = delivered[W]
          BY <3>5, EndsInAt DEF RunReport, AtRow, WorkerState
        <4>2. nagAge' = nagAge /\ Holding(W)'
          BY <1>3, <4>1, ReachesNobody DEF Holding, HoldingStates
        <4> QED
          BY <4>1, <4>2 DEF NInv, Applies
      <3> QED
        BY <2>3, <3>1, <3>2, <3>3, <3>4, <3>5 DEF Execute
    <2>4. CASE ValidateDeactivation \/ CommitDeactivation \/ Activate \/ Delete
      BY <1>0, <2>4, NobodyEdits DEF ValidateDeactivation, CommitDeactivation, Activate,
                                     Delete
    <2> QED
      BY <1>3, <2>1, <2>2, <2>3, <2>4, TheWorker DEF NextButTick
  <1> QED
    BY <1>1, <1>2, <1>3 DEF HistoryNext

(* The execution that sends again finds nobody in a fresh grace period.    *)
LEMMA ReachesWhenDue ==
    ASSUME TypeOK, RInv, NInv, [HistoryNext]_hvars, NEW w \in Workers,
           NEW r \in Recipients, Applies, Reaches(w, r)
    PROVE  ~Fresh(r)
  <1>1. w = W
    BY TheWorker
  <1>2. pc[W] = "send"
    <2>1. CASE scheduler \/ Tick \/ UNCHANGED hvars \/ prune_log
      BY <1>1, <2>1 DEF scheduler, prune_log, Tick, hvars, vars, workerVars, Reaches
    <2>2. CASE Start(W) \/ Crash(W)
      BY <1>1, <2>2, EndsInAt DEF Start, Crash, workerVars, Reaches, WorkerState
    <2>3. ASSUME \E t \in WorkerState : EndsIn(W, t) PROVE FALSE
      BY <1>1, <2>3, EndsInAt DEF Reaches
    <2>4. CASE create_log(W)
      BY <2>3, <2>4 DEF create_log, AfterLog, WorkerState
    <2>5. CASE Execute(W) /\ ~create_log(W) /\ ~send(W)
      BY <2>3, <2>5 DEF Execute, WorkingNext, EnterWorking, EvaluateAlert, SuccessAlert,
         RunReport, Succeed, Fail, send_error, MarkNotified, RowGone, WorkerState, LogStates
    <2>6. CASE send(W)
      BY <2>6 DEF send, AtRow
    <2>7. CASE ValidateDeactivation \/ CommitDeactivation \/ Activate \/ Delete
      BY <2>7, NobodyEdits DEF ValidateDeactivation, CommitDeactivation, Activate, Delete,
                               RInv, Undisturbed
    <2> QED
      BY <2>1, <2>2, <2>4, <2>5, <2>6, <2>7, TheWorker DEF HistoryNext, NextButTick
  <1> QED
    BY <1>2 DEF NInv, Quiet

(***************************************************************************)
(* A recipient is reached at most once per grace period, along every path  *)
(* of states that no crash and no partly failed send cuts short, as long   *)
(* as the log is not pruned within a grace period.                         *)
(***************************************************************************)
THEOREM NagsOnce ==
    ASSUME RetentionOutlivesGrace
    PROVE  HistorySpec => NagsOncePerGracePeriod
  <1>1. HistoryInit => TypeOK /\ RInv /\ NInv
    BY InitIInv, InitRefines, InitNInv DEF IInv, HistoryInit
  <1>2. [HistoryNext]_hvars => [Next]_vars
    BY DEF HistoryNext, Next, hvars
  <1>3. TypeOK /\ RInv /\ NInv /\ [HistoryNext]_hvars => (TypeOK /\ RInv /\ NInv)'
    BY <1>2, TypeStep, StepRefines, HistoryStep, RetentionOutlivesGrace
  <1>4. TypeOK /\ RInv /\ NInv /\ [HistoryNext]_hvars =>
          [\A w \in Workers, r \in Recipients :
             type = "Alert" /\ crashes = 0 /\ ~partly /\ Reaches(w, r)
                => ~Within(nagAge[r], GracePeriod)]_hvars
    BY ReachesWhenDue DEF Applies, Undying, Fresh
  <1> QED
    BY <1>1, <1>3, <1>4, PTL DEF HistorySpec, NagsOncePerGracePeriod

-----------------------------------------------------------------------------
(***************************************************************************)
(* What the owners are told of errors, under the same assumptions.         *)
(***************************************************************************)
Telling == pc[W] \in {"owners_notified", "log_marker"}

MarkedSince == log["marker"] # None /\ log["marker"] <= ownersAge

(***************************************************************************)
(* A MARKER records that the owners were told, and is as new as the last   *)
(* time they were, or about to be logged; and a row that is no error, and  *)
(* older than the MARKER, is not the only one of its kind.                 *)
(***************************************************************************)
OInv ==
    /\ ownersAge \in Age
    /\ log["nonErrorBeforeMarker"] # None =>
         log["nonError"] # None /\ log["nonError"] <= log["nonErrorBeforeMarker"]
    /\ Telling => ownersAge # None
    /\ log["marker"] # None => ownersAge # None /\ ownersAge <= log["marker"]
    /\ Undying /\ Within(ownersAge, GracePeriod) => Telling \/ MarkedSince

LEMMA InitOInv == HistoryInit => OInv
  BY NoneAssumption, TheWorker DEF HistoryInit, Init, OInv, Age, Within, LogKind, Telling

(* A step that neither tells the owners nor touches the log.               *)
LEMMA Untold ==
    ASSUME TypeOK, OInv, log' = log, crashes' = crashes, ownersAge' = ownersAge,
           Telling' = Telling
    PROVE  OInv'
  BY DEF OInv, Undying, MarkedSince

LEMMA NobodyTold ==
    ASSUME Record, ~TellsOwners(W), ~RecordsEmail(W)
    PROVE  ownersAge' = ownersAge
  BY TheWorker DEF Record

LEMMA RecordingEnds ==
    ASSUME TypeOK, RecordsEmail(W)
    PROVE  pc[W] = "log_marker" /\ pc'[W] = "idle" /\ crashes' = crashes
  <1>1. pc[W] = "log_marker" /\ crashes' = crashes /\ EndsIn(W, AfterLog(W))
    BY DEF RecordsEmail, create_log
  <1>2. AfterLog(W) = "idle"
    BY <1>1 DEF AfterLog
  <1> QED
    BY <1>1, <1>2, EndsInAt DEF WorkerState

(* Steps of an execution that has not come to the owners.                  *)
LEMMA ElsewhereUntold ==
    ASSUME TypeOK, OInv, Record,
           \/ WorkingNext(W) \/ EnterWorking(W) \/ EvaluateAlert(W) \/ SuccessAlert(W)
           \/ RunReport(W) \/ send(W) \/ Succeed(W) \/ Fail(W) \/ Start(W) \/ scheduler
    PROVE  OInv'
  <1>1. log' = log /\ crashes' = crashes
    BY DEF WorkingNext, EnterWorking, EvaluateAlert, SuccessAlert, RunReport, send, Succeed,
           Fail, Start, scheduler
  <1>2. pc'[W] = pc[W] \/ pc[W] \notin {"notify_owners", "owners_notified", "log_marker"}
    BY DEF WorkingNext, EnterWorking, EvaluateAlert, SuccessAlert, RunReport, send, Succeed,
           Fail, Start, scheduler, workerVars, AtRow
  <1>3. pc'[W] = pc[W] \/ pc'[W] \notin {"owners_notified", "log_marker"}
    <2>1. CASE Start(W) \/ scheduler
      BY <2>1, TheWorker DEF Start, scheduler, workerVars, TypeOK
    <2>2. CASE send(W) /\ ~EndsIn(W, "failed")
      BY <2>2, TheWorker DEF send, AfterSend, TypeOK
    <2>3. CASE \E t \in {"idle", "log_entered", "log_noop", "log_grace", "log_success",
                         "log_error", "send", "failed"} : EndsIn(W, t)
      <3>1. PICK t \in {"idle", "log_entered", "log_noop", "log_grace", "log_success",
                        "log_error", "send", "failed"} : EndsIn(W, t)
        BY <2>3
      <3>2. t \in WorkerState /\ t \notin {"owners_notified", "log_marker"}
        BY DEF WorkerState, LogStates
      <3> QED
        BY <3>1, <3>2, EndsInAt
    <2> QED
      BY <2>1, <2>2, <2>3 DEF WorkingNext, EnterWorking, EvaluateAlert, SuccessAlert,
         RunReport, send, Succeed, Fail
  <1>4. ownersAge' = ownersAge
    BY <1>2, RecordingEnds, NobodyTold DEF TellsOwners
  <1> QED
    BY <1>1, <1>2, <1>3, <1>4, Untold DEF Telling

(* The owners are told, or are not, and the MARKER is about to be logged.  *)
LEMMA OwnersStep ==
    ASSUME TypeOK, OInv, Record, send_error(W) \/ MarkNotified(W)
    PROVE  OInv'
  <1> USE DEF WorkerState, LogStates
  <1>1. log' = log /\ crashes' = crashes
    BY DEF send_error, MarkNotified
  <1>2. CASE EndsIn(W, "idle") /\ pc[W] = "notify_owners"
    <2>1. pc'[W] = "idle"
      BY <1>2, EndsInAt
    <2> QED
      BY <1>1, <1>2, <2>1, NobodyTold, Untold DEF Telling, TellsOwners, RecordsEmail
  <1>3. CASE EndsIn(W, "owners_notified") /\ pc[W] = "notify_owners"
    <2>1. pc'[W] = "owners_notified"
      BY <1>3, EndsInAt
    <2>2. ownersAge' = 0
      BY <1>3, <2>1, TheWorker DEF Record, TellsOwners
    <2> QED
      BY <1>1, <2>1, <2>2, PeriodsAssumption, NoneAssumption
         DEF TypeOK, LogKind, OInv, Telling, Age
  <1>4. CASE EndsIn(W, "log_marker") /\ pc[W] = "owners_notified"
    <2>1. pc'[W] = "log_marker"
      BY <1>4, EndsInAt
    <2> QED
      BY <1>1, <1>4, <2>1, NobodyTold, Untold DEF Telling, TellsOwners, RecordsEmail
  <1> QED
    BY <1>2, <1>3, <1>4 DEF send_error, MarkNotified, AtRow

(* The MARKER row takes over what was logged before it.                    *)
LEMMA LogTold ==
    ASSUME TypeOK, OInv, Record, create_log(W)
    PROVE  OInv'
  <1>1. /\ pc[W] \in LogStates /\ crashes' = crashes
        /\ log' = LogWith(LogKindOf(pc[W])) /\ EndsIn(W, AfterLog(W))
    BY DEF create_log
  <1>2. ~Telling'
        /\ ownersAge' = IF pc[W] = "log_marker" THEN 0 ELSE ownersAge
    <2>1. AfterLog(W) \in {"run", "notify_owners", "idle"}
      BY DEF AfterLog
    <2>2. pc'[W] = AfterLog(W)
      BY <1>1, <2>1, EndsInAt DEF WorkerState
    <2> QED
      BY <1>1, <2>1, <2>2, TheWorker DEF Record, Telling, TellsOwners, RecordsEmail
  <1>3. LogKindOf(pc[W]) = "marker" <=> pc[W] = "log_marker"
    BY <1>1 DEF LogKindOf, LogStates
  <1>4. PICK kind : kind = LogKindOf(pc[W])
    OBVIOUS
  <1>5. /\ log'["marker"] = IF kind = "marker" THEN 0 ELSE log["marker"]
        /\ log'["nonErrorBeforeMarker"] =
             IF kind = "nonErrorBeforeMarker" THEN 0
             ELSE IF kind = "marker" THEN log["nonError"] ELSE log["nonErrorBeforeMarker"]
        /\ log'["nonError"] = IF kind \in {"nonError", "success"} THEN 0 ELSE log["nonError"]
    BY <1>1, <1>4 DEF LogWith, LogKind
  <1>6. kind # "nonErrorBeforeMarker"
    BY <1>1, <1>4 DEF LogKindOf, LogStates
  <1>7. /\ log["nonError"] \in Age /\ log["nonErrorBeforeMarker"] \in Age
        /\ log["marker"] \in Age /\ ownersAge \in Age
    BY DEF TypeOK, LogKind, OInv
  <1>8. 0 # None /\ \A a \in Age : a # None => a \in Nat
    BY NoneAssumption, PeriodsAssumption DEF Age
  <1>9. CASE kind = "marker"
    <2>1. log'["marker"] = 0 /\ log'["nonErrorBeforeMarker"] = log["nonError"]
          /\ log'["nonError"] = log["nonError"]
      BY <1>5, <1>9
    <2>3. ownersAge' = 0 /\ ownersAge' # None /\ ownersAge' \in Age
      BY <1>2, <1>3, <1>4, <1>8, <1>9, PeriodsAssumption DEF Age
    <2>4. MarkedSince'
      BY <1>8, <2>1, <2>3 DEF MarkedSince
    <2>5. log["nonError"] # None => log["nonError"] <= log["nonError"]
      BY <1>7, <1>8
    <2> QED
      BY <1>2, <2>1, <2>3, <2>4, <2>5 DEF OInv
  <1>10. CASE kind # "marker"
    <2>1. log'["marker"] = log["marker"]
          /\ log'["nonErrorBeforeMarker"] = log["nonErrorBeforeMarker"]
      BY <1>5, <1>6, <1>10
    <2>2. ~Telling /\ ownersAge' = ownersAge
      BY <1>1, <1>2, <1>3, <1>4, <1>10 DEF Telling, LogStates
    <2>3. log["nonErrorBeforeMarker"] # None =>
            0 <= log["nonErrorBeforeMarker"]
      BY <1>7, <1>8
    <2>4. log'["nonErrorBeforeMarker"] # None =>
            log'["nonError"] # None /\ log'["nonError"] <= log'["nonErrorBeforeMarker"]
      BY <1>5, <1>8, <2>1, <2>3 DEF OInv
    <2> QED
      BY <1>1, <1>2, <2>1, <2>2, <2>4 DEF OInv, MarkedSince, Undying
  <1> QED
    BY <1>9, <1>10

(* A log that is kept for a grace period keeps the MARKER for so long.     *)
LEMMA PruneTold ==
    ASSUME TypeOK, OInv, RetentionOutlivesGrace, Record, prune_log
    PROVE  OInv'
  <1>1. /\ crashes' = crashes /\ pc' = pc /\ LogRetention # None
        /\ \A k \in LogKind :
             log'[k] = IF log[k] # None /\ log[k] > LogRetention THEN None ELSE log[k]
    BY DEF prune_log, workerVars
  <1>2. ownersAge' = ownersAge /\ Telling' = Telling
    BY <1>1, RecordingEnds, NobodyTold DEF TellsOwners, Telling
  <1>3. /\ log["nonError"] \in Age /\ log["nonErrorBeforeMarker"] \in Age
        /\ log["marker"] \in Age /\ ownersAge \in Age
        /\ {"nonError", "nonErrorBeforeMarker", "marker"} \subseteq LogKind
    BY DEF TypeOK, LogKind, OInv
  <1>4. /\ \A a \in Age : a # None => a \in Nat
        /\ LogRetention \in Nat /\ GracePeriod \in Nat /\ LogRetention + 1 >= GracePeriod
    BY <1>1, NoneAssumption, PeriodsAssumption DEF Age, RetentionOutlivesGrace
  <1>5. ASSUME Within(ownersAge, GracePeriod), MarkedSince PROVE MarkedSince'
    <2>1. log["marker"] \in Nat /\ ownersAge \in Nat /\ ownersAge < GracePeriod
          /\ log["marker"] <= ownersAge /\ log["marker"] # None
      BY <1>3, <1>4, <1>5 DEF Within, MarkedSince
    <2>2. log'["marker"] = log["marker"]
      BY <1>1, <1>3, <1>4, <2>1
    <2> QED
      BY <1>2, <2>1, <2>2 DEF MarkedSince
  <1>6. ASSUME log'["nonErrorBeforeMarker"] # None
        PROVE  log'["nonError"] # None /\ log'["nonError"] <= log'["nonErrorBeforeMarker"]
    <2>1. log["nonErrorBeforeMarker"] # None
          /\ log'["nonErrorBeforeMarker"] = log["nonErrorBeforeMarker"]
          /\ ~(log["nonErrorBeforeMarker"] > LogRetention)
      BY <1>1, <1>3, <1>6
    <2>2. log["nonError"] # None /\ log["nonError"] <= log["nonErrorBeforeMarker"]
      BY <2>1 DEF OInv
    <2>3. log["nonError"] \in Nat /\ log["nonErrorBeforeMarker"] \in Nat
      BY <1>3, <1>4, <2>1, <2>2
    <2>4. ~(log["nonError"] > LogRetention)
      BY <1>4, <2>1, <2>2, <2>3
    <2>5. log'["nonError"] = log["nonError"]
      BY <1>1, <1>3, <2>4
    <2> QED
      BY <2>1, <2>2, <2>5
  <1>7. log'["marker"] # None => log["marker"] # None /\ log'["marker"] = log["marker"]
    BY <1>1, <1>3
  <1> QED
    BY <1>1, <1>2, <1>3, <1>5, <1>6, <1>7 DEF OInv, Undying

(* Time ages the MARKER and what the owners know alike.                    *)
LEMMA TickTold ==
    ASSUME TypeOK, OInv, Tick, GrowOlder
    PROVE  OInv'
  <1>1. /\ crashes' = crashes /\ pc' = pc /\ ownersAge' = Older(ownersAge)
        /\ \A k \in LogKind : log'[k] = Older(log[k])
    BY DEF Tick, GrowOlder, workerVars
  <1>2. Telling' = Telling
    BY <1>1 DEF Telling
  <1>3. /\ log["nonError"] \in Age /\ log["nonErrorBeforeMarker"] \in Age
        /\ log["marker"] \in Age /\ ownersAge \in Age
        /\ {"nonError", "nonErrorBeforeMarker", "marker"} \subseteq LogKind
    BY DEF TypeOK, LogKind, OInv
  <1>4. ASSUME NEW a \in Age
        PROVE  /\ Older(a) \in Age /\ (Older(a) # None <=> a # None)
               /\ Within(Older(a), GracePeriod) => Within(a, GracePeriod)
               /\ \A b \in Age : a # None /\ b # None /\ a <= b => Older(a) <= Older(b)
    <2>1. CASE a = None
      BY <2>1, NoneAssumption DEF Older, Within
    <2>2. CASE a # None
      <3>1. a \in 0..Horizon /\ Horizon \in Nat /\ GracePeriod \in Nat
        BY <2>2, PeriodsAssumption DEF Age
      <3>2. Older(a) = IF a = Horizon THEN a ELSE a + 1
        BY <2>2 DEF Older
      <3>3. Older(a) \in 0..Horizon /\ Older(a) >= a
        BY <3>1, <3>2
      <3>4. Older(a) # None /\ Older(a) \in Age
        BY <3>3, NoneAssumption DEF Age
      <3>5. ASSUME NEW b \in Age, b # None, a <= b PROVE Older(a) <= Older(b)
        <4>1. b \in 0..Horizon
          BY <3>5 DEF Age
        <4>2. Older(b) = IF b = Horizon THEN b ELSE b + 1
          BY <3>5 DEF Older
        <4> QED
          BY <3>1, <3>2, <3>5, <4>1, <4>2
      <3>6. Within(Older(a), GracePeriod) => Within(a, GracePeriod)
        BY <2>2, <3>1, <3>3 DEF Within
      <3> QED
        BY <2>2, <3>4, <3>5, <3>6
    <2> QED
      BY <2>1, <2>2
  <1>5. ASSUME ownersAge # None, MarkedSince PROVE MarkedSince'
    BY <1>1, <1>3, <1>4, <1>5 DEF MarkedSince
  <1>6. Within(ownersAge', GracePeriod) => Within(ownersAge, GracePeriod) /\ ownersAge # None
    BY <1>1, <1>3, <1>4 DEF Within
  <1>7. log'["nonErrorBeforeMarker"] # None =>
          log'["nonError"] # None /\ log'["nonError"] <= log'["nonErrorBeforeMarker"]
    BY <1>1, <1>3, <1>4 DEF OInv
  <1>8. ownersAge' \in Age
    BY <1>1, <1>3, <1>4
  <1>9. /\ Telling' => ownersAge' # None
        /\ log'["marker"] # None => ownersAge' # None /\ ownersAge' <= log'["marker"]
    BY <1>1, <1>2, <1>3, <1>4 DEF OInv
  <1> QED
    BY <1>1, <1>2, <1>5, <1>6, <1>7, <1>8, <1>9 DEF OInv, Undying

LEMMA ToldStep ==
    ASSUME TypeOK, RInv, OInv, RetentionOutlivesGrace, [HistoryNext]_hvars
    PROVE  OInv'
  <1>0. ~deleted /\ editor = None
    BY DEF RInv, Undisturbed
  <1>1. CASE Tick /\ GrowOlder
    BY <1>1, TickTold
  <1>2. CASE UNCHANGED hvars
    BY <1>2 DEF hvars, vars, workerVars, seen, OInv, Undying, MarkedSince, Telling
  <1>3. CASE NextButTick /\ Record
    <2>1. CASE scheduler \/ Start(W) \/ WorkingNext(W) \/ EnterWorking(W) \/ EvaluateAlert(W)
               \/ SuccessAlert(W) \/ RunReport(W) \/ send(W) \/ Succeed(W) \/ Fail(W)
      BY <1>3, <2>1, ElsewhereUntold
    <2>2. CASE prune_log \/ create_log(W) \/ send_error(W) \/ MarkNotified(W)
      BY <1>3, <2>2, PruneTold, LogTold, OwnersStep
    <2>3. CASE Crash(W)
      <3>1. /\ pc'[W] = "idle" /\ log' = log /\ crashes' = crashes + 1 /\ crashes \in Nat
        BY <2>3, EndsInAt, BoundsAssumption DEF Crash, WorkerState, TypeOK
      <3>2. ownersAge' = ownersAge /\ ~Telling'
        BY <1>3, <3>1, RecordingEnds, NobodyTold DEF TellsOwners, Telling
      <3>3. ~Undying'
        BY <3>1 DEF Undying
      <3> QED
        BY <3>1, <3>2, <3>3 DEF OInv
    <2>4. CASE RowGone(W) \/ ValidateDeactivation \/ CommitDeactivation \/ Activate \/ Delete
      BY <1>0, <2>4, NobodyEdits DEF RowGone, ValidateDeactivation, CommitDeactivation,
                                     Activate, Delete
    <2> QED
      BY <1>3, <2>1, <2>2, <2>3, <2>4, TheWorker DEF NextButTick, Execute
  <1> QED
    BY <1>1, <1>2, <1>3 DEF HistoryNext

(* Only send_error tells the owners, and reads the MARKER to do so or not. *)
LEMMA TellsWhenDue ==
    ASSUME TypeOK, RInv, OInv, [HistoryNext]_hvars, NEW w \in Workers
    PROVE  /\ TellsOwners(w) /\ crashes = 0 /\ log["nonError"] = None
                => ~Within(ownersAge, GracePeriod)
           /\ SilencedByGrace(w) => Within(ownersAge, GracePeriod)
  <1>1. w = W
    BY TheWorker
  <1>2. ASSUME TellsOwners(W) PROVE send_error(W) /\ ~is_in_error_grace_period
    <2>0. pc[W] = "notify_owners" /\ pc'[W] = "owners_notified"
      BY <1>2 DEF TellsOwners
    <2>1. CASE UNCHANGED hvars \/ Tick \/ scheduler \/ prune_log
      BY <2>0, <2>1 DEF hvars, vars, workerVars, Tick, scheduler, prune_log
    <2>2. CASE Start(W) \/ (Execute(W) /\ ~send_error(W) /\ ~RowGone(W))
      BY <2>0, <2>2 DEF Start, Execute, WorkingNext, EnterWorking, create_log, EvaluateAlert,
         SuccessAlert, RunReport, send, Succeed, Fail, MarkNotified, AtRow, LogStates
    <2>3. CASE Crash(W) \/ RowGone(W)
      BY <2>0, <2>3, EndsInAt DEF Crash, RowGone, WorkerState
    <2>4. CASE send_error(W)
      <3>1. ~EndsIn(W, "idle")
        BY <2>0, EndsInAt DEF WorkerState
      <3> QED
        BY <2>4, <3>1 DEF send_error
    <2>5. CASE ValidateDeactivation \/ CommitDeactivation \/ Activate \/ Delete
      BY <2>0, <2>5 DEF ValidateDeactivation, CommitDeactivation, Activate, Delete, workerVars
    <2> QED
      BY <2>1, <2>2, <2>3, <2>4, <2>5, TheWorker DEF HistoryNext, NextButTick
  <1>3. /\ log["nonError"] \in Age /\ log["nonErrorBeforeMarker"] \in Age
        /\ log["marker"] \in Age /\ ownersAge \in Age /\ GracePeriod \in Nat
        /\ \A a \in Age : a # None => a \in Nat
    BY NoneAssumption, PeriodsAssumption DEF TypeOK, LogKind, OInv, Age
  <1>4. ASSUME TellsOwners(W), crashes = 0, log["nonError"] = None,
               Within(ownersAge, GracePeriod)
        PROVE  FALSE
    <2>1. ~Telling
      BY <1>4 DEF TellsOwners, Telling
    <2>2. MarkedSince /\ log["nonErrorBeforeMarker"] = None
      BY <1>4, <2>1 DEF OInv, Undying
    <2>3. log["marker"] \in Nat /\ ownersAge \in Nat /\ ownersAge < GracePeriod
          /\ log["marker"] <= ownersAge /\ log["marker"] # None
      BY <1>3, <1>4, <2>2 DEF MarkedSince, Within
    <2>4. log["marker"] < GracePeriod
      BY <1>3, <2>3
    <2>5. is_in_error_grace_period
      BY <2>2, <2>3, <2>4 DEF is_in_error_grace_period, find_last_error_notification, Within
    <2> QED
      BY <1>2, <1>4, <2>5
  <1>5. ASSUME SilencedByGrace(W) PROVE Within(ownersAge, GracePeriod)
    <2>1. log["marker"] # None /\ log["marker"] < GracePeriod
      BY <1>5 DEF SilencedByGrace, is_in_error_grace_period, find_last_error_notification,
                  Within
    <2>2. ownersAge # None /\ ownersAge <= log["marker"]
      BY <2>1 DEF OInv
    <2> QED
      BY <1>3, <2>1, <2>2 DEF Within
  <1> QED
    BY <1>1, <1>4, <1>5

(***************************************************************************)
(* While errors are all that is logged, the owners are told of them at     *)
(* most once per grace period, whatever times out and fails between, and   *)
(* an error is kept from them only less than a grace period after it was   *)
(* recorded that they were told; as long as the log is not pruned within a *)
(* grace period.                                                           *)
(***************************************************************************)
THEOREM OwnersToldOnce ==
    ASSUME RetentionOutlivesGrace
    PROVE  HistorySpec => OwnersToldOncePerGracePeriod
  <1>1. HistoryInit => TypeOK /\ RInv /\ OInv
    BY InitIInv, InitRefines, InitOInv DEF IInv, HistoryInit
  <1>2. [HistoryNext]_hvars => [Next]_vars
    BY DEF HistoryNext, Next, hvars
  <1>3. TypeOK /\ RInv /\ OInv /\ [HistoryNext]_hvars => (TypeOK /\ RInv /\ OInv)'
    BY <1>2, TypeStep, StepRefines, ToldStep, RetentionOutlivesGrace
  <1>4. TypeOK /\ RInv /\ OInv /\ [HistoryNext]_hvars =>
          [\A w \in Workers :
             /\ TellsOwners(w) /\ crashes = 0 /\ log["nonError"] = None
                   => ~Within(ownersAge, GracePeriod)
             /\ SilencedByGrace(w) => Within(ownersAge, GracePeriod)]_hvars
    BY TellsWhenDue
  <1> QED
    BY <1>1, <1>3, <1>4, PTL DEF HistorySpec, OwnersToldOncePerGracePeriod

=============================================================================
