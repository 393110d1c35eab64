-------------------------- MODULE ReportRefinement --------------------------
(***************************************************************************)
(* ReportSchedule implements ReportLifecycle when one worker executes the  *)
(* schedule and no owner edits it: what is between two commits, the log    *)
(* and the owners' notifications are hidden.  With two workers it does     *)
(* not, for two executions that read last_state before either commits      *)
(* WORKING both notify; nor with a deactivation that read WORKING and      *)
(* writes NOOP over the final state committed since.                       *)
(***************************************************************************)
EXTENDS ReportHistory

ASSUME OneWorker == \E w \in Workers : Workers = {w}

ASSUME NobodyEdits == ~Editing

W == CHOOSE w \in Workers : TRUE

Lifecycle == INSTANCE ReportLifecycle WITH
    state <- last_state,
    origin <- IF last_state = "WORKING" THEN handler[W] ELSE "none",
    notified <- IF Holding(W) THEN delivered[W] ELSE {}

(***************************************************************************)
(* Every step of an execution, its crashes and timeouts included, is a     *)
(* step of the lifecycle or hidden.                                        *)
(***************************************************************************)
ImplementsLifecycle == Lifecycle!Spec
=============================================================================
