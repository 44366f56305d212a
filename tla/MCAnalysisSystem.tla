-------------------------- MODULE MCAnalysisSystem --------------------------
(***************************************************************************)
(* Instances of AnalysisSystem for TLC.                                    *)
(***************************************************************************)
EXTENDS AnalysisInvariant, TLC

CONSTANTS j1, j2, w1, t1, t2, coffee_lover, nasa

TwoJobs == {j1, j2}
OneJob == {j1}
OneWorker == {w1}
OneTask == {t1}
TwoTasks == {t1, t2}
WorkerAndTask == {w1, t1}
WorkerAndTwoTasks == {w1, t1, t2}
OneName == {coffee_lover}
TwoNames == {coffee_lover, nasa}
OneError == {"RATE_LIMITED"}

(* No action compares two jobs but for equality *)
Symmetry == Permutations(TwoJobs)
=============================================================================
