--------------------------- MODULE AnalysisRunner ---------------------------
(***************************************************************************)
(* services/analysis_runner.py: run_job (kind "provider") and              *)
(* complete_supplied_job with _compute_and_store (kind "supplied"), run by *)
(* any number of executors at once.  An executor is a coroutine: a worker  *)
(* process or a task of the API.                                           *)
(*                                                                         *)
(* pc names the transaction the executor commits next; between two of them *)
(* it is suspended in an await and every other executor may step.  A step  *)
(* that writes a stage is named after the stage.                           *)
(*                                                                         *)
(* A session never re-reads a row it holds (expire_on_commit=False), so a  *)
(* run works with `copy`, the status it has loaded, and learns that its    *)
(* row is gone only when an UPDATE matches no row (StaleDataError).  The   *)
(* handlers never roll the session back, so after a failed flush their     *)
(* mark_failed raises too: the run ends without another write.             *)
(***************************************************************************)
EXTENDS JobStore

CONSTANTS
  Executors,   \* the coroutines that can run a job
  Provider     \* name of the configured provider

ASSUME RunnerAssumption == Provider \in Providers

VARIABLES
  pc,     \* Executors -> the executor's next step
  cur,    \* Executors -> the job it has in hand
  kind,   \* Executors -> "provider" or "supplied", the kind of its run
  copy    \* Executors -> the status in its session's copy of the row

control == <<pc, cur, kind, copy>>

(* Mutant: sentiment before content *)
Next_step_swapped ==
  [validating |-> "retrieving_profile", retrieving_profile |-> "select_profile",
   link |-> "retrieving_posts", retrieving_posts |-> "count_posts",
   count_posts |-> "activity", activity |-> "sentiment", sentiment |-> "content",
   content |-> "engagement", engagement |-> "patterns",
   patterns |-> "generating_report", generating_report |-> "done"]

(* The step after each step of run_job *)
Next_step ==
  [validating |-> "retrieving_profile", retrieving_profile |-> "select_profile",
   link |-> "retrieving_posts", retrieving_posts |-> "count_posts",
   count_posts |-> "activity", activity |-> "content", content |-> "sentiment",
   sentiment |-> "engagement", engagement |-> "patterns",
   patterns |-> "generating_report", generating_report |-> "done"]

EngineSteps == {"activity", "content", "sentiment", "engagement", "patterns",
                "generating_report"}
StageSteps  == EngineSteps \cup {"validating", "retrieving_profile", "retrieving_posts"}
ProfileSteps == {"select_profile", "insert_profile", "update_profile"}
RunSteps == StageSteps \cup ProfileSteps \cup {"load", "link", "count_posts", "done"}

RunnerTypeOK(OtherSteps) ==
  /\ pc \in [Executors -> RunSteps \cup OtherSteps]
  /\ cur \in [Executors -> Jobs \cup {None}]
  /\ kind \in [Executors -> {"provider", "supplied", None}]
  /\ copy \in [Executors -> JobStatus \cup {None}]

RunnerInit ==
  /\ pc = [e \in Executors |-> "idle"]
  /\ cur = [e \in Executors |-> None]
  /\ kind = [e \in Executors |-> None]
  /\ copy = [e \in Executors |-> None]

Goto(e, step) == pc' = [pc EXCEPT ![e] = step]

(* The coroutine takes job j in hand, its session still empty *)
Take(e, j, k, step) ==
  /\ Goto(e, step)
  /\ cur' = [cur EXCEPT ![e] = j]
  /\ kind' = [kind EXCEPT ![e] = k]
  /\ copy' = [copy EXCEPT ![e] = None]

Finish(e) == Take(e, None, None, "idle")

(* The executor holds the row in its session and the row still exists *)
Holds(e) == Stored(cur[e])

-----------------------------------------------------------------------------
(* run_job: the row is missing, or another run has it or has completed it.  *)
(* A failed row is run again.                                               *)
Skip(e) ==
  /\ pc[e] = "load"
  /\ status[cur[e]] \notin {"pending", "failed"}
  /\ Finish(e)
  /\ UNCHANGED rows

Load(e) ==
  /\ pc[e] = "load"
  /\ status[cur[e]] \in {"pending", "failed"}
  /\ copy' = [copy EXCEPT ![e] = status[cur[e]]]
  /\ Goto(e, "validating")
  /\ UNCHANGED <<cur, kind, rows>>

(* complete_supplied_job has no row in its session yet: a deleted job is    *)
(* not noticed here.  The copy is dropped with the call and read again by   *)
(* LinkSupplied.                                                            *)
ValidateSupplied(e) ==
  /\ pc[e] = "validating"
  /\ kind[e] = "supplied"
  /\ IF Holds(e) THEN update_progress(cur[e], status[cur[e]], "validating")
                 ELSE UNCHANGED rows
  /\ Goto(e, "select_profile")
  /\ UNCHANGED <<cur, kind, copy>>

(* update_progress for the stage the step is named after *)
UpdateProgress(e) ==
  /\ pc[e] \in StageSteps
  /\ pc[e] = "validating" => kind[e] = "provider"
  /\ Holds(e)
  /\ update_progress(cur[e], copy[e], pc[e])
  /\ copy' = [copy EXCEPT ![e] = IF @ = "pending" THEN "running" ELSE @]
  /\ Goto(e, Next_step[pc[e]])
  /\ UNCHANGED <<cur, kind>>

(* upsert_profile: the SELECT, and the INSERT or UPDATE an await later.     *)
(* The username was fixed when the job was created.                         *)
SelectProfile(e) ==
  /\ pc[e] = "select_profile"
  /\ \/ profiles[username[cur[e]]] = 0 /\ Goto(e, "insert_profile")
     \/ profiles[username[cur[e]]] = 1 /\ Goto(e, "update_profile")
     \* two rows: scalar_one_or_none raises, see Raises
  /\ UNCHANGED <<cur, kind, copy, rows>>

InsertProfile(e) ==
  /\ pc[e] = "insert_profile"
  /\ insert_profile(username[cur[e]])
  /\ Goto(e, "link")
  /\ UNCHANGED <<cur, kind, copy>>

UpdateProfile(e) ==
  /\ pc[e] = "update_profile"
  /\ Goto(e, "link")
  /\ UNCHANGED <<cur, kind, copy, rows>>

(* profile_id and data_source of the job *)
Link(e) ==
  /\ pc[e] = "link"
  /\ kind[e] = "provider"
  /\ Holds(e)
  /\ set_source(cur[e], Provider)
  /\ Goto(e, Next_step["link"])
  /\ UNCHANGED <<cur, kind, copy>>

(* _compute_and_store reads the row, and writes the post counts as well *)
LinkSupplied(e) ==
  /\ pc[e] = "link"
  /\ kind[e] = "supplied"
  /\ Holds(e)
  /\ set_source(cur[e], "import")
  /\ copy' = [copy EXCEPT ![e] = status[cur[e]]]
  /\ Goto(e, "activity")
  /\ UNCHANGED <<cur, kind>>

(* get_user_posts has answered: actual_post_count and the period *)
CountPosts(e) ==
  /\ pc[e] = "count_posts"
  /\ Holds(e)
  /\ Goto(e, Next_step["count_posts"])
  /\ UNCHANGED <<cur, kind, copy, rows>>

(* Mutant: the result is inserted whether or not the job still exists *)
Complete_unchecked(e) ==
  /\ pc[e] = "done"
  /\ IF Holds(e) THEN store_result(cur[e])
     ELSE /\ result' = result \cup {cur[e]}
          /\ UNCHANGED <<status, stage, error, username, data_source, profiles>>
  /\ Finish(e)

Complete(e) ==
  /\ pc[e] = "done"
  /\ Holds(e)
  /\ store_result(cur[e])
  /\ Finish(e)

-----------------------------------------------------------------------------
(* The codes of what each await can raise: the provider its own errors, the *)
(* engines anything, and the SELECT of upsert_profile MultipleResultsFound  *)
(* among others.  None of these leaves the session unusable.                *)
Raises(e) ==
  CASE pc[e] = "select_profile" ->
         IF kind[e] = "provider" THEN ProviderErrors \cup {AnalysisFailed} ELSE {AnalysisFailed}
    [] pc[e] = "count_posts" -> ProviderErrors \cup {NoPosts, AnalysisFailed}
    [] pc[e] \in (EngineSteps \cup {"done"}) \ {"activity"} -> {AnalysisFailed}
    [] OTHER -> {}

(* Mutants: the run goes on after it was marked failed; the error is lost *)
Fail_goes_on(e) ==
  /\ Raises(e) # {}
  /\ Holds(e)
  /\ \E code \in Raises(e) : mark_failed(cur[e], code)
  /\ Goto(e, "done")
  /\ UNCHANGED <<cur, kind, copy>>

Fail_silent(e) ==
  /\ Raises(e) # {}
  /\ Holds(e)
  /\ Finish(e)
  /\ UNCHANGED rows

(* except AppError / except Exception: mark_failed, and the end of the run *)
Fail(e) ==
  /\ Raises(e) # {}
  /\ Holds(e)
  /\ \E code \in Raises(e) : mark_failed(cur[e], code)
  /\ Finish(e)

(* The steps whose transaction updates the job row *)
WritesJob(e) ==
  \/ pc[e] \in StageSteps /\ ~(pc[e] = "validating" /\ kind[e] = "supplied")
  \/ pc[e] \in {"link", "count_posts", "done"}

(* The row was deleted under the run: StaleDataError from the flush, again  *)
(* from mark_failed, and the run is over.  LinkSupplied's read returns None *)
(* to the same effect.                                                      *)
Stale(e) ==
  /\ WritesJob(e) \/ Raises(e) # {}
  /\ ~Holds(e)
  /\ Finish(e)
  /\ UNCHANGED rows

(* The unique constraint on analysis_results.job_id refuses a second        *)
(* result; the flush takes the update of the job back with it               *)
ResultRefused(e) ==
  /\ pc[e] = "done"
  /\ Holds(e)
  /\ cur[e] \in result
  /\ Finish(e)
  /\ UNCHANGED rows

Run(e) ==
  \/ Skip(e)
  \/ Load(e)
  \/ ValidateSupplied(e)
  \/ UpdateProgress(e)
  \/ SelectProfile(e)
  \/ InsertProfile(e)
  \/ UpdateProfile(e)
  \/ Link(e)
  \/ LinkSupplied(e)
  \/ CountPosts(e)
  \/ Complete(e)
  \/ Fail(e)
  \/ Stale(e)
  \/ ResultRefused(e)
=============================================================================
