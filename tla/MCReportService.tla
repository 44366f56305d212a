-------------------------- MODULE MCReportService --------------------------
(* Instances of ReportService for TLC *)
EXTENDS ReportService, TLC

CONSTANTS r1, r2, r3, p1, p2

ThreeRequests == {r1, r2, r3}
TwoProcesses == {p1, p2}

Symmetric == Permutations(ThreeRequests) \cup Permutations(TwoProcesses)
=============================================================================
