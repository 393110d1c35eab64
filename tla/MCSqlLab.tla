------------------------------- MODULE MCSqlLab -------------------------------
(***************************************************************************)
(* Small instances of both sides of SQL Lab for TLC: one query on the      *)
(* server (SqlLabQuery), and the page that runs, polls and stops queries   *)
(* and validates their text (SqlLabClient).  The client's module has its   *)
(* own, coarser server, so that the two are explored each by itself:       *)
(* `side` says which one runs, and the other one rests.                    *)
(***************************************************************************)
EXTENDS MCSqlLabQuery, SqlLabClient

VARIABLE side

bothVars == <<side, vars, labVars>>

\* Two queries that are polled for, by a clock that is ahead; one, by a clock that is
\* right, that is stopped; one that runs in its request and is stopped; and validations
\* of the text.
Setting(async, runs, stoppable, answers, edits, skew) ==
    [runAsync |-> async, runs |-> runs, stoppable |-> stoppable, polls |-> answers,
     validations |-> edits, skew |-> skew]

Validating == Setting(FALSE, 1, {}, 0, 3, 0)

MCSettings ==
    {Setting(TRUE, 2, {}, 2, 0, 1), Setting(TRUE, 1, {1}, 2, 0, 0),
     Setting(FALSE, 1, {1}, 1, 0, 1), Validating}

BothInit ==
    \/ side = "server" /\ Init /\ LabInit /\ setting = Validating
    \/ /\ side = "client" /\ Init /\ LabInit
       /\ request = [mode |-> "sync", method |-> "force_limit", cancels |-> "connection",
                     statements |-> 1, queryLimit |-> 1, sqlLimit |-> None, size |-> 2]

ServerStep == side = "server" /\ Next /\ UNCHANGED <<side, labVars>>
ClientStep == side = "client" /\ LabNext /\ UNCHANGED <<side, vars>>
BothNext == ServerStep \/ ClientStep

\* The fairness of the side explored.
Server(A) == side = "server" /\ A /\ UNCHANGED <<side, labVars>>
Client(A) == side = "client" /\ A /\ UNCHANGED <<side, vars>>

BothFairness ==
    /\ WF_bothVars(Server(WebStep)) /\ WF_bothVars(Server(WorkerStep))
    /\ WF_bothVars(Server(CancelQuery \/ CancelFails \/ CommitStopped))
    /\ \A q \in Queries : WF_bothVars(Client(QueryStep(q)))
    /\ WF_bothVars(Client(stopwatch))
    /\ SF_bothVars(Client(refreshQueries(Len(polls))))

BothSpec == BothInit /\ [][BothNext]_bothVars /\ BothFairness

\* Both sides keep their types.
BothTypeOK == TypeOK /\ LabTypeOK
===============================================================================
