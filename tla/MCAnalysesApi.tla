--------------------------- MODULE MCAnalysesApi ---------------------------
(* Three jobs on pages of one, and one lost request: enough for a walk that *)
(* sees a job created and one deleted under it, and a page that loses a poll *)
EXTENDS AnalysesApi

MCMaxJobs   == 3
MCPageSize  == 1
MCMaxFaults == 1
=============================================================================
