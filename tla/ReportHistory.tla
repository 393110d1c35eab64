---------------------------- MODULE ReportHistory ----------------------------
(***************************************************************************)
(* ReportSchedule with what its users have seen of it: when a recipient    *)
(* was last reached by the alert, and when the owners were last told of an *)
(* error.  The code keeps none of this; it is added to state what the      *)
(* grace period promises.                                                  *)
(***************************************************************************)
EXTENDS ReportSchedule

VARIABLES
    nagAge,      \* time since each recipient was last reached, or None
    ownersAge,   \* time since the owners were last told of an error or, when that
                 \* is done, since it was recorded in the log; or None
    onlyErrors,  \* no NOOP, GRACE or SUCCESS was logged since then
    partly       \* an execution reached a recipient and failed to reach another

seen == <<nagAge, ownersAge, onlyErrors, partly>>
hvars == <<vars, seen>>

HistoryInit ==
    /\ Init
    /\ nagAge = [r \in Recipients |-> None]
    /\ ownersAge = None
    /\ onlyErrors = TRUE
    /\ partly = FALSE

Reaches(w, r) == r \in delivered'[w] \ delivered[w]

TellsOwners(w) == pc[w] = "notify_owners" /\ pc'[w] = "owners_notified"

RecordsEmail(w) == pc[w] = "log_marker" /\ create_log(w)

SilencedByGrace(w) ==
    send_error(w) /\ is_in_error_grace_period

LogsOutcome(w) ==
    create_log(w) /\ pc[w] \in {"log_noop", "log_grace", "log_success"}

FailsPartly(w) == pc[w] = "send" /\ pc'[w] = "failed" /\ delivered'[w] # {}

Record ==
    /\ nagAge' = [r \in Recipients |->
                    IF \E w \in Workers : Reaches(w, r) THEN 0 ELSE nagAge[r]]
    /\ ownersAge' = IF \E w \in Workers : TellsOwners(w) \/ RecordsEmail(w) THEN 0
                    ELSE ownersAge
    /\ onlyErrors' = IF \E w \in Workers : TellsOwners(w) THEN TRUE
                     ELSE onlyErrors /\ ~\E w \in Workers : LogsOutcome(w)
    /\ partly' = (partly \/ \E w \in Workers : FailsPartly(w))

GrowOlder ==
    /\ nagAge' = [r \in Recipients |-> Older(nagAge[r])]
    /\ ownersAge' = Older(ownersAge)
    /\ UNCHANGED <<onlyErrors, partly>>

HistoryNext ==
    \/ NextButTick /\ Record
    \/ Tick /\ GrowOlder

HistorySpec == HistoryInit /\ [][HistoryNext]_hvars

HistoryFairSpec == HistorySpec /\ Fairness

-----------------------------------------------------------------------------
(***************************************************************************)
(* schemas.py:79 grace_period: "Once an alert is triggered, how long [...] *)
(* before Superset nags you again".  An execution reaches nobody who was   *)
(* reached less than a grace period ago, whatever path of NOOP, GRACE,     *)
(* ERROR and timeouts lies between the two executions, as long as none of  *)
(* them died or reached only some of the recipients: both end in ERROR,    *)
(* from which the next execution evaluates and sends again.                *)
(***************************************************************************)
NagsOncePerGracePeriod ==
    [][\A w \in Workers, r \in Recipients :
          type = "Alert" /\ crashes = 0 /\ ~partly /\ Reaches(w, r)
             => ~Within(nagAge[r], GracePeriod)]_hvars

(***************************************************************************)
(* While errors are all that the schedule ever logged, its owners are told *)
(* at most once per grace period, counted from the row that records the    *)
(* email; the period outlives timeouts and failed attempts to tell them,   *)
(* though not an execution that dies after it told them and before it logs *)
(* that it did.  And an error is kept from them because of the grace       *)
(* period only when, less than a grace period ago, they were told of one   *)
(* or an execution that had really told them recorded so: the email itself *)
(* may be older, by the time that it took to record it.                    *)
(***************************************************************************)
OwnersToldOncePerGracePeriod ==
    [][\A w \in Workers :
          /\ TellsOwners(w) /\ crashes = 0 /\ log["nonError"] = None
                => ~Within(ownersAge, GracePeriod)
          /\ SilencedByGrace(w) => Within(ownersAge, GracePeriod)]_hvars

(***************************************************************************)
(* dao.py:267 "Checks that only errors have occurred since the last email".*)
(* Owners are not told of an error only when nothing but errors has been   *)
(* logged since they last were (commands_tests.py:1348: "assert that after *)
(* a success, when back to error we send the error notification again").   *)
(***************************************************************************)
OnlyErrorsSinceLastEmail ==
    [][\A w \in Workers : SilencedByGrace(w) => onlyErrors]_hvars
=============================================================================
