---------------------------- MODULE ReportService ----------------------------
(***************************************************************************)
(* GET /analyses/{job_id}/report.pdf: the downloads of one job's report,   *)
(* served by several processes (gunicorn --workers 4) that share the       *)
(* directory and the database.  Files and rows are kept per job, so one    *)
(* job is enough.                                                          *)
(*                                                                         *)
(* Rendering runs in the event loop of its process without an await, so    *)
(* the other requests of that process wait, those of the others do not.    *)
(* reportlab opens the file, which empties it, and writes it in the end.   *)
(* The owner check, the layout and the payload are left out.               *)
(***************************************************************************)
EXTENDS Naturals, FiniteSets

CONSTANTS
  Requests,     \* download requests
  Processes,    \* processes that serve them
  ForeignKeys,  \* the database enforces them (PostgreSQL)
  MaxFaults     \* bound on failed writes and crashes

ASSUME ReportAssumption ==
  /\ IsFiniteSet(Requests) /\ ForeignKeys \in BOOLEAN /\ MaxFaults \in Nat

VARIABLES
  job,      \* state of the job, as in JobLifecycle
  file,     \* the PDF: "torn" while it is being written, "mixed" if two
            \* processes wrote over each other
  rows,     \* the rows of reports, each named by the request that added it
  at,       \* Requests -> where a request is, or how it was answered
  force,    \* Requests -> its query parameter
  process,  \* Requests -> the process that serves it
  before,   \* history: Requests -> requests answered when it arrived
  faults    \* history: failed writes and crashes so far

vars == <<job, file, rows, at, force, process, before, faults>>

Handling == {"check", "payload", "render", "write", "select", "insert", "respond"}

(* "raised": rendering failed.  "error": the database refused.  Both are    *)
(* a 500.  "lost": the process died                                         *)
Answers == {"served", "served_broken", "not_found", "conflict", "raised", "error", "lost"}

ReportTypeOK ==
  /\ job \in {"running", "completed", "failed", "deleted"}
  /\ file \in {"none", "torn", "whole", "mixed"}
  /\ rows \subseteq Requests
  /\ at \in [Requests -> {"new"} \cup Handling \cup Answers]
  /\ force \in [Requests -> BOOLEAN]
  /\ process \in [Requests -> Processes]
  /\ before \in [Requests -> SUBSET Requests]
  /\ faults \in 0..MaxFaults

Init ==
  /\ job = "running"
  /\ file = "none"
  /\ rows = {}
  /\ at = [r \in Requests |-> "new"]
  /\ force \in [Requests -> BOOLEAN]
  /\ process \in [Requests -> Processes]
  /\ before = [r \in Requests |-> {}]
  /\ faults = 0

Goto(r, place) == at' = [at EXCEPT ![r] = place]

Writers == {r \in Requests : at[r] = "write"}

(* The event loop of r's process is rendering for another request *)
Blocked(r) == \E w \in Writers : process[w] = process[r]

-----------------------------------------------------------------------------
(* The job *)

Settle ==
  /\ job = "running"
  /\ job' \in {"completed", "failed"}
  /\ UNCHANGED <<file, rows, at, force, process, before, faults>>

(* Mutant: the cascade stops at the job *)
Delete_no_cascade ==
  /\ job # "deleted"
  /\ job' = "deleted"
  /\ UNCHANGED <<file, rows, at, force, process, before, faults>>

(* delete_analysis: the database cascades to the rows; nothing removes the file *)
Delete ==
  /\ job # "deleted"
  /\ job' = "deleted"
  /\ rows' = IF ForeignKeys THEN {} ELSE rows
  /\ UNCHANGED <<file, at, force, process, before, faults>>

(* The result row, which the job's last transaction writes and a delete takes *)
HasResult == job = "completed" \/ (job = "deleted" /\ ~ForeignKeys)

-----------------------------------------------------------------------------
(* A request *)

(* Mutant: the status is not looked at *)
Load_any(r) ==
  /\ at[r] = "new"
  /\ Goto(r, IF job = "deleted" THEN "not_found" ELSE "check")
  /\ before' = [before EXCEPT ![r] = {q \in Requests : at[q] \in Answers}]
  /\ UNCHANGED <<job, file, rows, force, process, faults>>

(* download_report and generate_pdf_for_job read the job once: the second   *)
(* get_job finds it in the session                                          *)
Load(r) ==
  /\ at[r] = "new"
  /\ Goto(r, IF job = "deleted" THEN "not_found"
             ELSE IF job = "completed" THEN "check" ELSE "conflict")
  /\ before' = [before EXCEPT ![r] = {q \in Requests : at[q] \in Answers}]
  /\ UNCHANGED <<job, file, rows, force, process, faults>>

Check(r) ==
  /\ at[r] = "check" /\ ~Blocked(r)
  /\ Goto(r, IF force[r] \/ file = "none" THEN "payload" ELSE "respond")
  /\ UNCHANGED <<job, file, rows, force, process, before, faults>>

(* Mutant: the row is recorded before the file is written *)
Payload_recorded_first(r) ==
  /\ at[r] = "payload"
  /\ Goto(r, IF HasResult THEN "select" ELSE "not_found")
  /\ UNCHANGED <<job, file, rows, force, process, before, faults>>

Payload(r) ==
  /\ at[r] = "payload"
  /\ Goto(r, IF HasResult THEN "render" ELSE "not_found")
  /\ UNCHANGED <<job, file, rows, force, process, before, faults>>

Open(r) ==
  /\ at[r] = "render" /\ ~Blocked(r)
  /\ file' = "torn"
  /\ Goto(r, "write")
  /\ UNCHANGED <<job, rows, force, process, before, faults>>

(* A writer that comes second overwrites what the first has written since *)
Write(r) ==
  /\ at[r] = "write"
  /\ file' \in IF file = "torn" THEN {"whole"} ELSE {"whole", "mixed"}
  /\ Goto(r, "select")
  /\ UNCHANGED <<job, rows, force, process, before, faults>>

(* A paragraph that cannot be laid out, a disk that is full *)
RenderRaises(r) ==
  /\ Goto(r, "raised")
  /\ \/ at[r] = "render" /\ ~Blocked(r) /\ UNCHANGED faults
     \/ at[r] = "write" /\ faults < MaxFaults /\ faults' = faults + 1
  /\ UNCHANGED <<job, file, rows, force, process, before>>

(* Mutant: scalar_one *)
SelectReport_one(r) ==
  /\ at[r] = "select"
  /\ Goto(r, IF Cardinality(rows) # 1 THEN "error" ELSE "respond")
  /\ UNCHANGED <<job, file, rows, force, process, before, faults>>

(* Mutant: always adds *)
SelectReport_none(r) ==
  /\ at[r] = "select"
  /\ Goto(r, "insert")
  /\ UNCHANGED <<job, file, rows, force, process, before, faults>>

(* scalar_one_or_none; a row that is there gets the path it already has, so *)
(* that nothing is written and generated_at stays                           *)
SelectReport(r) ==
  /\ at[r] = "select"
  /\ Goto(r, IF Cardinality(rows) > 1 THEN "error"
             ELSE IF rows = {} THEN "insert" ELSE "respond")
  /\ UNCHANGED <<job, file, rows, force, process, before, faults>>

InsertReport(r) ==
  /\ at[r] = "insert"
  /\ IF job = "deleted" /\ ForeignKeys
     THEN Goto(r, "error") /\ UNCHANGED rows
     ELSE Goto(r, "respond") /\ rows' = rows \cup {r}
  /\ UNCHANGED <<job, file, force, process, before, faults>>

(* FileResponse reads the file in a thread, whatever the event loop does *)
Respond(r) ==
  /\ at[r] = "respond"
  /\ Goto(r, IF file = "none" THEN "not_found"
             ELSE IF file = "whole" THEN "served" ELSE "served_broken")
  /\ UNCHANGED <<job, file, rows, force, process, before, faults>>

(* A process dies with the requests it was serving *)
Crash(p) ==
  /\ faults < MaxFaults
  /\ faults' = faults + 1
  /\ \E r \in Requests : process[r] = p /\ at[r] \in Handling
  /\ at' = [r \in Requests |-> IF process[r] = p /\ at[r] \in Handling
                               THEN "lost" ELSE at[r]]
  /\ UNCHANGED <<job, file, rows, force, process, before>>

Step(r) ==
  \/ Load(r)
  \/ Check(r)
  \/ Payload(r)
  \/ Open(r)
  \/ Write(r)
  \/ RenderRaises(r)
  \/ SelectReport(r)
  \/ InsertReport(r)
  \/ Respond(r)

Next ==
  \/ Settle
  \/ Delete
  \/ \E r \in Requests : Step(r)
  \/ \E p \in Processes : Crash(p)

Spec == Init /\ [][Next]_vars

-----------------------------------------------------------------------------
(* With foreign keys a deleted job keeps no row, whatever downloads of it   *)
(* are still under way.                                                     *)
RowsCascade == ForeignKeys /\ job = "deleted" => rows = {}

(* "points at a generated PDF artifact" (models/report.py): where there is  *)
(* a row there is a file, and it is torn only while somebody writes it or   *)
(* after a fault.                                                           *)
RecordedIsWritten ==
  rows # {} =>
    /\ file # "none"
    /\ file = "torn" => Writers # {} \/ faults > 0

(* A file is made of a job that has completed, so no download of a job that *)
(* is running or has failed finds one.                                      *)
CompletedOnly == file # "none" \/ rows # {} => job \in {"completed", "deleted"}

(* A download is answered 404 only when the job is gone: that of a          *)
(* completed job finds the result, and the file it has generated.           *)
MissingMeansGone == \A r \in Requests : at[r] = "not_found" => job = "deleted"

(* The database refuses a download only if the job was deleted under it, or *)
(* if two earlier downloads have both added a row.                          *)
ErrorsExplained ==
  \A r \in Requests : at[r] = "error" => job = "deleted" \/ Cardinality(rows) > 1

(* Two rows come of downloads that overlap: a download never adds a row     *)
(* when one that was answered before it arrived has added one.              *)
DuplicatesOverlap == \A q, r \in rows : q \notin before[r]

(* One row per job: what scalar_one_or_none in _record_report takes for     *)
(* granted.                                                                 *)
OneReportRow == Cardinality(rows) <= 1

(* What is downloaded is a PDF: the test of the endpoint looks at its first *)
(* bytes.                                                                   *)
ServedWhole == \A r \in Requests : at[r] # "served_broken"

(* Where a request is says what it has found *)
PlaceOK(r) ==
  /\ at[r] = "new" => before[r] = {}
  /\ at[r] \in Handling \cup {"error"} => job \in {"completed", "deleted"}
  /\ at[r] \in {"write", "select", "insert", "respond"} => file # "none"
  /\ r \in rows => at[r] \in {"respond"} \cup Answers
  /\ at[r] = "insert" => rows \cap before[r] = {}
  /\ \A q \in before[r] : at[q] \in Answers

(* The inductive invariant *)
ReportInv ==
  /\ ReportTypeOK
  /\ RowsCascade
  /\ RecordedIsWritten
  /\ file = "torn" => Writers # {} \/ faults > 0
  /\ CompletedOnly
  /\ MissingMeansGone
  /\ ErrorsExplained
  /\ DuplicatesOverlap
  /\ \A r \in Requests : PlaceOK(r)
=============================================================================
