-------------------------- MODULE MCReportHistory --------------------------
(* Small instances of ReportHistory for TLC.                               *)
EXTENDS ReportHistory, TLC

Symmetry == Permutations(Workers) \cup Permutations(Recipients)
=============================================================================
