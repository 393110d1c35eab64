--------------------------- MODULE ReportLifecycle ---------------------------
(***************************************************************************)
(* What the executions of one schedule amount to: an execution enters      *)
(* WORKING from a final state, notifies each recipient at most once, and   *)
(* leaves WORKING for one of the final states that its starting state      *)
(* allows, SUCCESS only when every recipient was notified.  One that dies  *)
(* leaves WORKING to be timed out.                                         *)
(***************************************************************************)
CONSTANTS Recipients, Types

VARIABLES type, state, origin, notified

vars == <<type, state, origin, notified>>

Init ==
    /\ type \in Types
    /\ state = "NOOP"
    /\ origin = "none"
    /\ notified = {}

Enter ==
    /\ state # "WORKING"
    /\ state' = "WORKING"
    /\ origin' = IF state \in {"NOOP", "ERROR"} THEN "not_triggered" ELSE "success"
    /\ notified' = {}
    /\ UNCHANGED type

Notify ==
    /\ state = "WORKING" /\ notified = {}
    /\ type = "Alert" => origin = "not_triggered"
    /\ notified' \in SUBSET Recipients
    /\ UNCHANGED <<type, state, origin>>

Final(s) ==
    \/ s = "NOOP" /\ type = "Alert" /\ notified = {}
    \/ s = "GRACE" /\ type = "Alert" /\ origin = "success"
    \/ s = "SUCCESS" /\ notified = Recipients
                      /\ (type = "Alert" => origin = "not_triggered")
    \/ s = "ERROR"

Leave ==
    /\ state = "WORKING"
    /\ state' \in {"NOOP", "GRACE", "SUCCESS", "ERROR"}
    /\ Final(state')
    /\ origin' = "none" /\ notified' = {}
    /\ UNCHANGED type

Die ==
    /\ state = "WORKING"
    /\ notified' = {}
    /\ UNCHANGED <<type, state, origin>>

Next == Enter \/ Notify \/ Leave \/ Die

Spec == Init /\ [][Next]_vars
=============================================================================
