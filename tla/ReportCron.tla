------------------------------ MODULE ReportCron ------------------------------
(***************************************************************************)
(* When the executions of a schedule are sent (superset/tasks/scheduler.py)*)
(*                                                                         *)
(* The beat fires the task reports.scheduler once a minute; a worker runs  *)
(* it a little later and sends, with its time as eta, one execution for    *)
(* every time of the schedule's cron expression in a window around the     *)
(* moment it runs.  Nothing records what was sent: that consecutive        *)
(* windows neither overlap nor leave a gap is a matter of the delays.      *)
(* Time is counted in units of which Minute make a minute and Margin make  *)
(* the window's margin of one second; beats and cron times are at whole    *)
(* minutes, and the cron expression may be any set of them.                *)
(***************************************************************************)
EXTENDS Integers, FiniteSets

CONSTANTS
    Minute,      \* the beat's period, in units of time
    Margin,      \* the margin of the window, in units of time
    DelayRanges, \* ranges, as pairs, of the delay between beat and task
    Minutes      \* bound: the beats considered are 0..Minutes

ASSUME ClockAssumption ==
    /\ {Minute, Margin, Minutes} \subseteq Nat
    /\ 0 < Margin /\ Margin < Minute
    /\ DelayRanges \subseteq Nat \X Nat

VARIABLES
    delays, \* the least and the greatest delay there will be
    cron,   \* the minutes at which the schedule is due
    now,    \* the time
    fired,  \* beats whose task has not run yet
    ran,    \* beats whose task has run
    sent    \* executions sent, as pairs of the cron time and the sending beat

cronVars == <<delays, cron, now, fired, ran, sent>>

CronTypeOK ==
    /\ delays \in DelayRanges
    /\ cron \subseteq 0..Minutes
    /\ now \in Nat
    /\ fired \subseteq 0..Minutes
    /\ ran \subseteq 0..Minutes
    /\ sent \subseteq cron \X (0..Minutes)

CronInit ==
    /\ delays \in DelayRanges
    /\ cron \in SUBSET (0..Minutes)
    /\ now = 0
    /\ fired = {}
    /\ ran = {}
    /\ sent = {}

(* The beat sends the task at each whole minute.                           *)
Beat(b) ==
    /\ b \notin fired \cup ran
    /\ now = b * Minute
    /\ fired' = fired \cup {b}
    /\ UNCHANGED <<delays, cron, now, ran, sent>>

(* Mutants: windows of a whole minute, without the margin on one side.     *)
window_unsynced ==
    {c \in cron : now - Margin < c * Minute /\ c * Minute < now + Minute}

window_from_now ==
    {c \in cron : now < c * Minute /\ c * Minute < now + (Minute - Margin)}

(* start_at is excluded by croniter, stop_at by the comparison.            *)
cron_schedule_window ==
    {c \in cron : now - Margin < c * Minute /\ c * Minute < now + (Minute - Margin)}

scheduler(b) ==
    /\ b \in fired
    /\ now >= b * Minute + delays[1]
    /\ fired' = fired \ {b}
    /\ ran' = ran \cup {b}
    /\ sent' = sent \cup (cron_schedule_window \X {b})
    /\ UNCHANGED <<delays, cron, now>>

(* Time passes; no beat is skipped and no task is overly late.      *)
Advance ==
    /\ now < Minutes * Minute + delays[2]
    /\ \A b \in 0..Minutes : now = b * Minute => b \in fired \cup ran
    /\ \A b \in fired : now < b * Minute + delays[2]
    /\ now' = now + 1
    /\ UNCHANGED <<delays, cron, fired, ran, sent>>

CronNext ==
    \/ \E b \in 0..Minutes : Beat(b) \/ scheduler(b)
    \/ Advance

CronSpec == CronInit /\ [][CronNext]_cronVars

-----------------------------------------------------------------------------
OneSide ==
    \/ delays[2] < Margin
    \/ Margin < delays[1] /\ delays[2] < Minute + Margin

(***************************************************************************)
(* config.py:973 "should be synced with the celery beat config minus 1     *)
(* second": with that size no cron time is sent by two beats, as long as   *)
(* the delays of the task stay on one side of the margin (OneSide).        *)
(***************************************************************************)
SentOnce ==
    OneSide => \A p, q \in sent : p[1] = q[1] => p = q

(***************************************************************************)
(* Nor is one left out: when the beat of its minute and the one before it  *)
(* have run, a cron time has been sent.                                    *)
(***************************************************************************)
NoneMissed ==
    OneSide => \A c \in cron : c > 0 /\ {c - 1, c} \subseteq ran
        => \E b \in ran : <<c, b>> \in sent
=============================================================================
