------------------------- MODULE MCReportSchedule -------------------------
(* Small instances of ReportSchedule for TLC.                              *)
EXTENDS ReportSchedule, TLC

Symmetry == Permutations(Workers) \cup Permutations(Recipients)

(* Not explored are edits and crashes of reports, and what a crash and the *)
(* pruning or deletion of the schedule's log make together.                *)
Explored ==
    /\ type = "Report" => crashes = 0 /\ active /\ editor = None
    /\ pruned \/ deleted => crashes = 0
=============================================================================
