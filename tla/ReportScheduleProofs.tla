------------------------ MODULE ReportScheduleProofs ------------------------
(***************************************************************************)
(* Theorems about ReportSchedule, for any number of workers and            *)
(* recipients, any periods and any number of crashes.                      *)
(***************************************************************************)
EXTENDS ReportSchedule, TLAPS

(* An execution that has read WORKING runs the working class, and one that *)
(* is about to write WORKING has read another state, so that its write is  *)
(* emitted.                                                                *)
LoadedFitsClass ==
    \A w \in Workers : /\ pc[w] = "working" => loaded[w] = "WORKING"
                       /\ pc[w] = "enter" => loaded[w] # "WORKING"

(* An execution whose final write will take the schedule out of WORKING:   *)
(* it has not reloaded the row since it wrote WORKING, or has read WORKING *)
(* from it.                                                                *)
WillLeave(w) ==
    \/ pc[w] = "log_entered"
    \/ Holding(w) /\ loaded[w] = "WORKING"

SomeoneWillLeave ==
    ~deleted /\ last_state = "WORKING"
        => stalled \/ \E w \in Workers : WillLeave(w)

IInv == TypeOK /\ LoadedFitsClass /\ SomeoneWillLeave

LEMMA InitIInv == Init => IInv
  <1> SUFFICES ASSUME Init PROVE IInv
    OBVIOUS
  <1> USE BoundsAssumption, PeriodsAssumption
  <1>1. TypeOK
    <2>1. pending \in 0..MaxPending /\ crashes \in 0..MaxCrashes
      BY DEF Init
    <2>2. pc \in [Workers -> WorkerState] /\ log \in [LogKind -> Age]
      BY DEF Init, WorkerState, Age
    <2>3. /\ loaded \in [Workers -> ReportState] /\ last_state \in ReportState
          /\ editor \in ReportState \cup {None}
      BY DEF Init, ReportState
    <2>4. /\ handler \in [Workers -> {"not_triggered", "success"}]
          /\ delivered \in [Workers -> SUBSET Recipients]
      BY DEF Init
    <2> QED
      BY <2>1, <2>2, <2>3, <2>4 DEF Init, TypeOK
  <1>2. LoadedFitsClass /\ SomeoneWillLeave
    BY DEF Init, LoadedFitsClass, SomeoneWillLeave
  <1> QED
    BY <1>1, <1>2 DEF IInv

(* Ageing, pruning and adding rows keep the log a function to ages.        *)
LEMMA LogTypes ==
    ASSUME log \in [LogKind -> Age]
    PROVE  /\ \A kind : LogWith(kind) \in [LogKind -> Age]
           /\ \A age \in Age : Older(age) \in Age
  <1>1. 0 \in Age /\ None \in Age
    BY PeriodsAssumption DEF Age
  <1>2. ASSUME NEW kind PROVE LogWith(kind) \in [LogKind -> Age]
    <2>1. "nonError" \in LogKind
      BY DEF LogKind
    <2> QED
      BY <1>1, <2>1 DEF LogWith
  <1>3. ASSUME NEW age \in Age PROVE Older(age) \in Age
    BY PeriodsAssumption DEF Older, Age
  <1> QED
    BY <1>2, <1>3

(* A write of last_state by set_state keeps the types.                     *)
LEMMA SetStateTypes ==
    ASSUME TypeOK, NEW w \in Workers, NEW s \in ReportState, set_state(w, s)
    PROVE  last_state' \in ReportState /\ stalled' \in BOOLEAN
  BY DEF TypeOK, set_state

LEMMA EndsInTypes ==
    ASSUME TypeOK, NEW w \in Workers, NEW s \in WorkerState, EndsIn(w, s)
    PROVE  /\ pc' \in [Workers -> WorkerState]
           /\ delivered' \in [Workers -> SUBSET Recipients]
  BY DEF TypeOK, EndsIn

(* Type correctness: every step keeps every variable in its type.          *)
LEMMA TypeStep ==
    ASSUME TypeOK, [Next]_vars
    PROVE  TypeOK'
  <1> USE BoundsAssumption, PeriodsAssumption
  <1> USE DEF WorkerState, LogStates
  <1>0. {"NOOP", "WORKING", "SUCCESS", "ERROR", "GRACE"} = ReportState
    BY DEF ReportState
  <1>1. CASE scheduler
    BY <1>1 DEF TypeOK, scheduler, workerVars
  <1>2. CASE \E w \in Workers : Start(w)
    <2>1. PICK w \in Workers : Start(w)
      BY <1>2
    <2>2. CASE deleted
      BY <2>1, <2>2 DEF TypeOK, Start, workerVars
    <2>3. CASE ~deleted /\ StateClass(last_state) = "working"
      BY <2>1, <2>3 DEF TypeOK, Start
    <2>4. CASE ~deleted /\ StateClass(last_state) # "working"
      <3>1. StateClass(last_state) \in {"not_triggered", "success"}
        BY <2>4 DEF TypeOK, ReportState, StateClass
      <3> QED
        BY <2>1, <2>4, <3>1 DEF TypeOK, Start
    <2> QED
      BY <2>2, <2>3, <2>4
  <1>3. CASE \E w \in Workers : Execute(w)
    <2>1. PICK w \in Workers : Execute(w)
      BY <1>3
    <2>2. CASE WorkingNext(w)
      BY <2>2, <1>0, SetStateTypes, EndsInTypes DEF TypeOK, WorkingNext
    <2>3. CASE EnterWorking(w)
      BY <2>3, <1>0, SetStateTypes, EndsInTypes DEF TypeOK, EnterWorking
    <2>4. CASE create_log(w)
      <3>1. AfterLog(w) \in WorkerState
        BY DEF AfterLog
      <3> QED
        BY <2>4, <3>1, LogTypes, EndsInTypes DEF TypeOK, create_log
    <2>5. CASE EvaluateAlert(w)
      BY <2>5, <1>0, SetStateTypes, EndsInTypes DEF TypeOK, EvaluateAlert
    <2>6. CASE SuccessAlert(w)
      BY <2>6, <1>0, SetStateTypes, EndsInTypes DEF TypeOK, SuccessAlert
    <2>7. CASE RunReport(w)
      BY <2>7, EndsInTypes DEF TypeOK, RunReport
    <2>8. CASE send(w)
      <3>1. CASE EndsIn(w, "failed")
        BY <2>8, <3>1, EndsInTypes DEF TypeOK, send
      <3>2. CASE ~EndsIn(w, "failed")
        BY <2>8, <3>2 DEF TypeOK, send, AfterSend
      <3> QED
        BY <3>1, <3>2
    <2>9. CASE Succeed(w)
      BY <2>9, <1>0, SetStateTypes, EndsInTypes DEF TypeOK, Succeed
    <2>10. CASE Fail(w)
      BY <2>10, <1>0, SetStateTypes, EndsInTypes DEF TypeOK, Fail
    <2>11. CASE send_error(w)
      BY <2>11, <1>0, SetStateTypes, EndsInTypes DEF TypeOK, send_error
    <2>12. CASE MarkNotified(w)
      BY <2>12, <1>0, SetStateTypes, EndsInTypes DEF TypeOK, MarkNotified
    <2>13. CASE RowGone(w)
      BY <2>13, EndsInTypes DEF TypeOK, RowGone
    <2> QED
      BY <2>1, <2>2, <2>3, <2>4, <2>5, <2>6, <2>7, <2>8, <2>9, <2>10, <2>11,
         <2>12, <2>13 DEF Execute
  <1>4. CASE \E w \in Workers : Crash(w)
    BY <1>4, EndsInTypes DEF TypeOK, Crash
  <1>5. CASE ValidateDeactivation \/ CommitDeactivation \/ Activate
    BY <1>5, <1>0 DEF TypeOK, ValidateDeactivation, CommitDeactivation,
                      Activate, workerVars
  <1>6. CASE Delete
    BY <1>6 DEF TypeOK, Delete, workerVars, Age
  <1>7. CASE prune_log
    BY <1>7 DEF TypeOK, prune_log, workerVars, Age
  <1>8. CASE Tick
    BY <1>8, LogTypes DEF TypeOK, Tick, workerVars
  <1>9. CASE UNCHANGED vars
    BY <1>9 DEF TypeOK, vars, workerVars
  <1> QED
    BY <1>1, <1>2, <1>3, <1>4, <1>5, <1>6, <1>7, <1>8, <1>9
       DEF Next, NextButTick

(***************************************************************************)
(* Every variable keeps its type in every behaviour.                       *)
(***************************************************************************)
THEOREM TypeCorrect == Spec => []TypeOK
  <1>1. Init => TypeOK
    BY InitIInv DEF IInv
  <1>2. TypeOK /\ [Next]_vars => TypeOK'
    BY TypeStep
  <1> QED
    BY <1>1, <1>2, PTL DEF Spec

-----------------------------------------------------------------------------
(* An execution that takes a message picks its class by what it read.      *)
LEMMA StartStep ==
    ASSUME IInv, NEW w \in Workers, Start(w)
    PROVE  LoadedFitsClass' /\ SomeoneWillLeave'
  <1>1. CASE deleted
    BY <1>1 DEF IInv, Start, LoadedFitsClass, SomeoneWillLeave, workerVars
  <1>2. CASE ~deleted /\ last_state = "WORKING"
    BY <1>2 DEF IInv, TypeOK, Start, LoadedFitsClass, SomeoneWillLeave,
                WillLeave, Holding, HoldingStates, StateClass
  <1>3. CASE ~deleted /\ last_state # "WORKING"
    <2>1. StateClass(last_state) # "working"
      BY <1>3 DEF StateClass
    <2> QED
      BY <1>3, <2>1 DEF IInv, TypeOK, Start, LoadedFitsClass, SomeoneWillLeave
  <1> QED
    BY <1>1, <1>2, <1>3

(* A write of another state than WORKING: if it is emitted the schedule    *)
(* leaves WORKING, and if it is not the writer had not read WORKING and    *)
(* was not the one that will leave it.                                     *)
LEMMA FinalWrite ==
    ASSUME IInv, NEW w \in Workers, NEW s \in ReportState \ {"WORKING"},
           pc[w] # "log_entered", set_state(w, s),
           UNCHANGED <<loaded, deleted>>,
           NEW t \in WorkerState \ {"working", "enter"},
           pc' = [pc EXCEPT ![w] = t]
    PROVE  LoadedFitsClass' /\ SomeoneWillLeave'
  <1>1. LoadedFitsClass'
    BY DEF IInv, TypeOK, LoadedFitsClass
  <1>2. CASE s # loaded[w]
    BY <1>1, <1>2 DEF set_state, SomeoneWillLeave
  <1>3. CASE s = loaded[w]
    <2>1. ~WillLeave(w)
      BY <1>3 DEF WillLeave
    <2>2. \A v \in Workers : WillLeave(v) => WillLeave(v)'
      BY <2>1 DEF IInv, TypeOK, WillLeave, Holding
    <2>3. UNCHANGED <<last_state, stalled>>
      BY <1>3 DEF set_state
    <2> QED
      BY <1>1, <2>2, <2>3 DEF IInv, SomeoneWillLeave
  <1> QED
    BY <1>2, <1>3

(* A step of one execution that writes no state, and after which it holds  *)
(* WORKING if it did before.                                               *)
LEMMA SilentStep ==
    ASSUME IInv, NEW w \in Workers, NEW t \in WorkerState \ {"working", "enter"},
           pc' = [pc EXCEPT ![w] = t], pc[w] # "log_entered",
           Holding(w) => t \in HoldingStates,
           UNCHANGED <<loaded, deleted, last_state, stalled>>
    PROVE  LoadedFitsClass' /\ SomeoneWillLeave'
  <1>1. LoadedFitsClass'
    BY DEF IInv, TypeOK, LoadedFitsClass
  <1>2. \A v \in Workers : WillLeave(v) => WillLeave(v)'
    BY DEF IInv, TypeOK, WillLeave, Holding
  <1> QED
    BY <1>1, <1>2 DEF IInv, SomeoneWillLeave

LEMMA ExecuteStep ==
    ASSUME IInv, NEW w \in Workers, Execute(w)
    PROVE  LoadedFitsClass' /\ SomeoneWillLeave'
  <1> USE DEF EndsIn, AtRow, WorkerState, LogStates, HoldingStates, Holding,
              ReportState
  <1>1. CASE WorkingNext(w)
    <2>1. CASE is_on_working_timeout
      BY <1>1, <2>1, FinalWrite DEF WorkingNext
    <2>2. CASE ~is_on_working_timeout
      <3>1. UNCHANGED <<last_state, stalled>>
        BY <1>1, <2>2 DEF WorkingNext, set_state, IInv, LoadedFitsClass
      <3> QED
        BY <1>1, <3>1, SilentStep DEF WorkingNext
    <2> QED
      BY <2>1, <2>2
  <1>2. CASE EnterWorking(w)
    <2>1. WillLeave(w)'
      BY <1>2 DEF EnterWorking, WillLeave, IInv, TypeOK
    <2>2. LoadedFitsClass'
      BY <1>2 DEF EnterWorking, IInv, TypeOK, LoadedFitsClass
    <2> QED
      BY <2>1, <2>2 DEF SomeoneWillLeave
  <1>3. CASE create_log(w)
    <2>1. AfterLog(w) \in {"run", "notify_owners", "idle"}
      BY DEF AfterLog
    <2>2. LoadedFitsClass'
      BY <1>3, <2>1 DEF create_log, IInv, TypeOK, LoadedFitsClass
    <2>3. ASSUME NEW v \in Workers, WillLeave(v), last_state = "WORKING"
          PROVE  WillLeave(v)'
      <3>1. CASE v = w
        BY <1>3, <2>3, <3>1 DEF create_log, AfterLog, IInv, TypeOK, WillLeave
      <3>2. CASE v # w
        BY <1>3, <2>3, <3>2 DEF create_log, IInv, TypeOK, WillLeave
      <3> QED
        BY <3>1, <3>2
    <2> QED
      BY <1>3, <2>2, <2>3 DEF create_log, IInv, SomeoneWillLeave
  <1>4. CASE EvaluateAlert(w)
    <2>1. CASE EndsIn(w, "send") /\ UNCHANGED <<last_state, stalled>>
      BY <1>4, <2>1, SilentStep DEF EvaluateAlert
    <2>2. CASE EndsIn(w, "failed") /\ UNCHANGED <<last_state, stalled>>
      BY <1>4, <2>2, SilentStep DEF EvaluateAlert
    <2>3. CASE set_state(w, "NOOP") /\ EndsIn(w, "log_noop")
      BY <1>4, <2>3, FinalWrite DEF EvaluateAlert
    <2> QED
      BY <1>4, <2>1, <2>2, <2>3 DEF EvaluateAlert
  <1>5. CASE SuccessAlert(w)
    BY <1>5, FinalWrite DEF SuccessAlert
  <1>6. CASE RunReport(w)
    BY <1>6, SilentStep DEF RunReport
  <1>7. CASE send(w)
    <2>1. PICK t \in {"sent", "failed"} : pc' = [pc EXCEPT ![w] = t]
      BY <1>7 DEF send, AfterSend
    <2> QED
      BY <1>7, <2>1, SilentStep DEF send
  <1>8. CASE Succeed(w)
    BY <1>8, FinalWrite DEF Succeed
  <1>9. CASE Fail(w)
    BY <1>9, FinalWrite DEF Fail
  <1>10. CASE send_error(w)
    <2>1. CASE set_state(w, "ERROR") /\ EndsIn(w, "idle")
      BY <1>10, <2>1, FinalWrite DEF send_error
    <2>2. CASE UNCHANGED <<last_state, stalled>>
      BY <1>10, <2>2, SilentStep DEF send_error
    <2> QED
      BY <1>10, <2>1, <2>2 DEF send_error
  <1>11. CASE MarkNotified(w)
    BY <1>11, FinalWrite DEF MarkNotified
  <1>12. CASE RowGone(w)
    <2>1. LoadedFitsClass'
      BY <1>12 DEF RowGone, IInv, TypeOK, LoadedFitsClass
    <2> QED
      BY <1>12, <2>1 DEF RowGone, SomeoneWillLeave
  <1> QED
    BY <1>1, <1>2, <1>3, <1>4, <1>5, <1>6, <1>7, <1>8, <1>9, <1>10, <1>11,
       <1>12 DEF Execute

(* The death of an execution that held WORKING is what stalled records.    *)
LEMMA CrashStep ==
    ASSUME IInv, NEW w \in Workers, Crash(w)
    PROVE  LoadedFitsClass' /\ SomeoneWillLeave'
  <1>1. LoadedFitsClass'
    BY DEF Crash, EndsIn, IInv, TypeOK, LoadedFitsClass
  <1>2. CASE stalled'
    BY <1>1, <1>2 DEF SomeoneWillLeave
  <1>3. CASE ~stalled'
    <2>1. SUFFICES ASSUME ~deleted, last_state = "WORKING"
                   PROVE  \E v \in Workers : WillLeave(v)'
      BY <1>1 DEF SomeoneWillLeave, Crash
    <2>2. ~Holding(w) /\ ~stalled
      BY <1>3, <2>1 DEF Crash
    <2>3. PICK v \in Workers : WillLeave(v)
      BY <2>1, <2>2 DEF IInv, SomeoneWillLeave
    <2>4. v # w
      BY <2>2, <2>3 DEF WillLeave, Holding, HoldingStates
    <2> QED
      BY <2>3, <2>4 DEF Crash, EndsIn, IInv, TypeOK, WillLeave, Holding
  <1> QED
    BY <1>2, <1>3

LEMMA NextIInv == IInv /\ [Next]_vars => IInv'
  <1> SUFFICES ASSUME IInv, [Next]_vars PROVE IInv'
    OBVIOUS
  <1>1. TypeOK'
    BY TypeStep DEF IInv
  <1>2. LoadedFitsClass' /\ SomeoneWillLeave'
    <2>1. CASE \E w \in Workers : Start(w) \/ Execute(w) \/ Crash(w)
      BY <2>1, StartStep, ExecuteStep, CrashStep
    <2>2. CASE CommitDeactivation
      BY <2>2 DEF CommitDeactivation, workerVars, IInv, LoadedFitsClass,
                  SomeoneWillLeave, WillLeave, Holding
    <2>3. CASE Delete
      BY <2>3 DEF Delete, workerVars, IInv, LoadedFitsClass, SomeoneWillLeave
    <2>4. CASE UNCHANGED <<deleted, last_state, workerVars, stalled>>
      BY <2>4 DEF workerVars, IInv, LoadedFitsClass, SomeoneWillLeave,
                  WillLeave, Holding
    <2>5. CASE scheduler \/ ValidateDeactivation \/ Activate \/ prune_log \/ Tick
      BY <2>4, <2>5 DEF scheduler, ValidateDeactivation, Activate, prune_log,
                        Tick
    <2>6. CASE UNCHANGED vars
      BY <2>4, <2>6 DEF vars
    <2> QED
      BY <2>1, <2>2, <2>3, <2>5, <2>6 DEF Next, NextButTick
  <1> QED
    BY <1>1, <1>2 DEF IInv

(***************************************************************************)
(* Whatever executions, timeouts and deactivations overlap, a schedule is  *)
(* WORKING only while an execution holds it, or after one died holding it. *)
(***************************************************************************)
THEOREM StallsOnlyAfterCrash == Spec => []StallOnlyAfterCrash
  <1>1. IInv => StallOnlyAfterCrash
    BY DEF IInv, SomeoneWillLeave, WillLeave, StallOnlyAfterCrash, Holding,
           HoldingStates
  <1> QED
    BY <1>1, InitIInv, NextIInv, PTL DEF Spec
-----------------------------------------------------------------------------
(* A step that leaves the log alone and moves no worker away from the      *)
(* commit of a SUCCESS row, and that writes SUCCESS or GRACE only where    *)
(* the promise is kept.                                                    *)
LEMMA KeepsSuccess ==
    ASSUME TypeOK, GraceHasItsSuccess, NEW w \in Workers, pc[w] # "log_success",
           NEW t, pc' = [pc EXCEPT ![w] = t],
           UNCHANGED <<deleted, log, crashes, pruned>>,
           \/ last_state' \notin {"SUCCESS", "GRACE"}
           \/ last_state' = last_state
           \/ log["success"] # None
           \/ t = "log_success"
    PROVE  GraceHasItsSuccess'
  <1>1. (\E v \in Workers : pc[v] = "log_success")
           => \E v \in Workers : pc'[v] = "log_success"
    BY DEF TypeOK
  <1>2. t = "log_success" => \E v \in Workers : pc'[v] = "log_success"
    BY DEF TypeOK
  <1> QED
    BY <1>1, <1>2 DEF GraceHasItsSuccess

LEMMA ExecuteKeepsSuccess ==
    ASSUME TypeOK, GraceHasItsSuccess, NEW w \in Workers, Execute(w)
    PROVE  GraceHasItsSuccess'
  <1> USE DEF EndsIn, AtRow, set_state
  <1>1. CASE WorkingNext(w)
    BY <1>1, KeepsSuccess DEF WorkingNext
  <1>2. CASE EnterWorking(w)
    BY <1>2, KeepsSuccess DEF EnterWorking
  <1>3. CASE create_log(w)
    <2>1. "success" \in LogKind /\ 0 # None
      BY NoneAssumption DEF LogKind
    <2>2. CASE pc[w] = "log_success"
      <3>1. log'["success"] = 0
        BY <1>3, <2>1, <2>2 DEF create_log, LogWith, LogKindOf
      <3> QED
        BY <2>1, <3>1 DEF GraceHasItsSuccess
    <2>3. CASE pc[w] # "log_success"
      <3>1. log["success"] # None => log'["success"] # None
        BY <1>3, <2>1 DEF create_log, LogWith
      <3>2. \A v \in Workers : pc[v] = "log_success" => pc'[v] = "log_success"
        BY <1>3, <2>3 DEF create_log, TypeOK
      <3>3. pruned => pruned'
        BY <1>3, <2>3 DEF create_log, LogKindOf, LogStates
      <3> QED
        BY <1>3, <3>1, <3>2, <3>3 DEF create_log, GraceHasItsSuccess
    <2> QED
      BY <2>2, <2>3
  <1>4. CASE EvaluateAlert(w)
    BY <1>4, KeepsSuccess DEF EvaluateAlert
  <1>5. CASE SuccessAlert(w)
    <2>1. is_in_grace_period => log["success"] # None
      BY DEF is_in_grace_period, Within
    <2> QED
      BY <1>5, <2>1, KeepsSuccess DEF SuccessAlert
  <1>6. CASE RunReport(w)
    BY <1>6, KeepsSuccess DEF RunReport
  <1>7. CASE send(w)
    BY <1>7, KeepsSuccess DEF send
  <1>8. CASE Succeed(w)
    BY <1>8, KeepsSuccess DEF Succeed
  <1>9. CASE Fail(w)
    BY <1>9, KeepsSuccess DEF Fail
  <1>10. CASE send_error(w)
    BY <1>10, KeepsSuccess DEF send_error
  <1>11. CASE MarkNotified(w)
    BY <1>11, KeepsSuccess DEF MarkNotified
  <1>12. CASE RowGone(w)
    BY <1>12 DEF RowGone, GraceHasItsSuccess
  <1> QED
    BY <1>1, <1>2, <1>3, <1>4, <1>5, <1>6, <1>7, <1>8, <1>9, <1>10, <1>11,
       <1>12 DEF Execute

(* Time forgets no success, and pruning only one it is known to forget.    *)
LEMMA LogKeepsSuccess ==
    ASSUME TypeOK, GraceHasItsSuccess, prune_log \/ Tick
    PROVE  GraceHasItsSuccess'
  <1>1. "success" \in LogKind
    BY DEF LogKind
  <1>2. CASE prune_log
    <2>1. /\ pruned => pruned'
          /\ log["success"] # None => log'["success"] # None \/ pruned'
      BY <1>2, ZenonT(30) DEF prune_log
    <2>2. UNCHANGED <<deleted, last_state, crashes, pc>>
      BY <1>2 DEF prune_log, workerVars
    <2> QED
      BY <2>1, <2>2 DEF GraceHasItsSuccess
  <1>3. CASE Tick
    <2>1. log["success"] \in Age
      BY <1>1 DEF TypeOK
    <2>2. log["success"] # None => log'["success"] # None
      BY <1>1, <1>3, <2>1, NoneAssumption, PeriodsAssumption
         DEF Tick, Older, Age
    <2> QED
      BY <1>3, <2>2 DEF Tick, workerVars, GraceHasItsSuccess
  <1> QED
    BY <1>2, <1>3

LEMMA NextKeepsSuccess ==
    ASSUME TypeOK, GraceHasItsSuccess, [Next]_vars
    PROVE  GraceHasItsSuccess'
  <1>1. CASE \E w \in Workers : Start(w)
    <2>1. PICK w \in Workers : Start(w)
      BY <1>1
    <2>2. CASE deleted
      BY <2>1, <2>2 DEF Start, GraceHasItsSuccess
    <2>3. CASE ~deleted
      <3>1. PICK t : pc' = [pc EXCEPT ![w] = t]
        BY <2>1, <2>3 DEF Start
      <3> QED
        BY <2>1, <3>1, KeepsSuccess DEF Start
    <2> QED
      BY <2>2, <2>3
  <1>2. CASE \E w \in Workers : Execute(w)
    BY <1>2, ExecuteKeepsSuccess
  <1>3. CASE \E w \in Workers : Crash(w)
    BY <1>3, BoundsAssumption DEF Crash, TypeOK, GraceHasItsSuccess
  <1>4. CASE CommitDeactivation
    BY <1>4 DEF CommitDeactivation, workerVars, GraceHasItsSuccess
  <1>5. CASE Delete
    BY <1>5 DEF Delete, GraceHasItsSuccess
  <1>6. CASE prune_log \/ Tick
    BY <1>6, LogKeepsSuccess
  <1>7. CASE UNCHANGED <<deleted, last_state, log, workerVars, crashes, pruned>>
    BY <1>7 DEF workerVars, GraceHasItsSuccess
  <1>8. CASE scheduler \/ ValidateDeactivation \/ Activate \/ UNCHANGED vars
    BY <1>7, <1>8 DEF scheduler, ValidateDeactivation, Activate, vars
  <1> QED
    BY <1>1, <1>2, <1>3, <1>4, <1>5, <1>6, <1>8 DEF Next, NextButTick

(***************************************************************************)
(* A schedule in SUCCESS or GRACE has the SUCCESS row that its grace       *)
(* period is computed from, or an execution about to add it                *)
(* (is_in_grace_period reads the log; set_state and create_log are two     *)
(* commits), as long as nothing died and that row was not pruned.          *)
(***************************************************************************)
THEOREM GraceIsKnown == Spec => []GraceHasItsSuccess
  <1>1. Init => TypeOK /\ GraceHasItsSuccess
    BY InitIInv DEF IInv, Init, GraceHasItsSuccess
  <1>2. TypeOK /\ GraceHasItsSuccess /\ [Next]_vars
          => (TypeOK /\ GraceHasItsSuccess)'
    BY TypeStep, NextKeepsSuccess
  <1> QED
    BY <1>1, <1>2, PTL DEF Spec
=============================================================================
