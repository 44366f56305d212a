------------------------------ MODULE JobStore ------------------------------
(***************************************************************************)
(* The rows of the database: analysis_jobs, analysis_results, x_profiles,  *)
(* and the committed effect of each operation of services/job_service.py.  *)
(*                                                                         *)
(* A job row is its status, current_stage, error_code, username and        *)
(* data_source.  progress is written together with current_stage by every  *)
(* statement that writes either, always as STAGE_PROGRESS[stage], so it is *)
(* the operator Progress of the stage and no variable.  The profile rows   *)
(* of a username are counted; what they hold is not told apart.            *)
(*                                                                         *)
(* Each operator is one committed transaction.  Who may call it, and with  *)
(* which stale copy of the row, is the business of AnalysisRunner.         *)
(***************************************************************************)
EXTENDS Naturals, FiniteSets

CONSTANTS
  Jobs,            \* the ids create_job can hand out
  Usernames,       \* normalised usernames
  ProviderErrors,  \* codes of the AppErrors a provider raises
  ForeignKeys      \* TRUE: ON DELETE CASCADE is enforced (PostgreSQL);
                   \* FALSE: it is not (SQLite without PRAGMA foreign_keys)

None == "none"     \* SQL NULL, and the value of a column of an absent row

ASSUME StoreAssumption ==
  /\ None \notin Jobs
  /\ None \notin Usernames
  /\ None \notin ProviderErrors
  /\ ForeignKeys \in BOOLEAN

VARIABLES
  status,       \* Jobs -> status of the row, "absent" or "deleted"
  stage,        \* Jobs -> current_stage
  error,        \* Jobs -> error_code
  username,     \* Jobs -> username
  data_source,  \* Jobs -> data_source
  result,       \* job_ids of the rows of analysis_results
  profiles      \* Usernames -> number of rows of x_profiles

rows == <<status, stage, error, username, data_source, result, profiles>>

JobStatus == {"pending", "running", "completed", "failed"}

(* stages.py: the percentage stored with each stage; NULL is the default 0 *)
STAGE_PROGRESS ==
  [none |-> 0, validating |-> 5, retrieving_profile |-> 20,
   retrieving_posts |-> 40, activity |-> 55, content |-> 70, sentiment |-> 82,
   engagement |-> 92, patterns |-> 97, generating_report |-> 99, done |-> 100]

Stages == DOMAIN STAGE_PROGRESS

Progress(j) == STAGE_PROGRESS[stage[j]]

Providers == {"mock", "x_api"}
Sources   == Providers \cup {"import"}

NoPosts        == "NO_POSTS_AVAILABLE"
AnalysisFailed == "ANALYSIS_FAILED"
ErrorCodes     == ProviderErrors \cup {NoPosts, AnalysisFailed}

StoreTypeOK ==
  /\ status \in [Jobs -> JobStatus \cup {"absent", "deleted"}]
  /\ stage \in [Jobs -> Stages]
  /\ error \in [Jobs -> ErrorCodes \cup {None}]
  /\ username \in [Jobs -> Usernames \cup {None}]
  /\ data_source \in [Jobs -> Sources \cup {None}]
  /\ result \in SUBSET Jobs
  /\ profiles \in [Usernames -> Nat]

StoreInit ==
  /\ status = [j \in Jobs |-> "absent"]
  /\ stage = [j \in Jobs |-> None]
  /\ error = [j \in Jobs |-> None]
  /\ username = [j \in Jobs |-> None]
  /\ data_source = [j \in Jobs |-> None]
  /\ result = {}
  /\ profiles = [n \in Usernames |-> 0]

(* A SELECT of the row finds it *)
Stored(j) == status[j] \in JobStatus
Settled(j) == status[j] \in {"completed", "failed"}

-----------------------------------------------------------------------------
(* Mutant: username and data_source swapped *)
create_job_swapped(j, name, source) ==
  /\ status[j] = "absent"
  /\ status' = [status EXCEPT ![j] = "pending"]
  /\ username' = [username EXCEPT ![j] = source]
  /\ data_source' = [data_source EXCEPT ![j] = name]
  /\ UNCHANGED <<stage, error, result, profiles>>

create_job(j, name, source) ==
  /\ status[j] = "absent"
  /\ status' = [status EXCEPT ![j] = "pending"]
  /\ username' = [username EXCEPT ![j] = name]
  /\ data_source' = [data_source EXCEPT ![j] = source]
  /\ UNCHANGED <<stage, error, result, profiles>>

(* The job cascades to its result where the database enforces foreign keys *)
delete_job(j) ==
  /\ status' = [status EXCEPT ![j] = "deleted"]
  /\ result' = IF ForeignKeys THEN result \ {j} ELSE result
  /\ UNCHANGED <<stage, error, username, data_source, profiles>>

(* Mutant: the job is never marked running *)
update_progress_stage_only(j, seen, s) ==
  /\ stage' = [stage EXCEPT ![j] = s]
  /\ UNCHANGED <<status, error, username, data_source, result, profiles>>

(* The status is written only by a session whose copy of it is "pending" *)
update_progress(j, seen, s) ==
  /\ stage' = [stage EXCEPT ![j] = s]
  /\ status' = IF seen = "pending" THEN [status EXCEPT ![j] = "running"] ELSE status
  /\ UNCHANGED <<error, username, data_source, result, profiles>>

(* Mutant: the error code is forgotten *)
mark_failed_no_code(j, code) ==
  /\ status' = [status EXCEPT ![j] = "failed"]
  /\ UNCHANGED <<stage, error, username, data_source, result, profiles>>

mark_failed(j, code) ==
  /\ status' = [status EXCEPT ![j] = "failed"]
  /\ error' = [error EXCEPT ![j] = code]
  /\ UNCHANGED <<stage, username, data_source, result, profiles>>

(* upsert_profile, after its SELECT found no row / found one: the INSERT   *)
(* has no unique constraint on username to stop it                         *)
insert_profile(name) ==
  /\ profiles' = [profiles EXCEPT ![name] = @ + 1]
  /\ UNCHANGED <<status, stage, error, username, data_source, result>>

(* Mutant: the job keeps the source it was created with *)
set_source_kept(j, source) == UNCHANGED rows

(* run_job and _compute_and_store: profile_id and data_source of the job   *)
set_source(j, source) ==
  /\ data_source' = [data_source EXCEPT ![j] = source]
  /\ UNCHANGED <<status, stage, error, username, result, profiles>>

(* Mutants: the result row is not added; the stage is not set *)
store_result_no_row(j) ==
  /\ status' = [status EXCEPT ![j] = "completed"]
  /\ stage' = [stage EXCEPT ![j] = "done"]
  /\ UNCHANGED <<error, username, data_source, result, profiles>>

store_result_no_stage(j) ==
  /\ j \notin result
  /\ result' = result \cup {j}
  /\ status' = [status EXCEPT ![j] = "completed"]
  /\ UNCHANGED <<stage, error, username, data_source, profiles>>

(* The last transaction of a run: the result row and the finished job row, *)
(* under the unique constraint on analysis_results.job_id                  *)
store_result(j) ==
  /\ j \notin result
  /\ result' = result \cup {j}
  /\ status' = [status EXCEPT ![j] = "completed"]
  /\ stage' = [stage EXCEPT ![j] = "done"]
  /\ UNCHANGED <<error, username, data_source, profiles>>
=============================================================================
