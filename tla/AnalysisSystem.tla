--------------------------- MODULE AnalysisSystem ---------------------------
(***************************************************************************)
(* The API handlers that create, refresh and delete jobs (api/analyses.py),*)
(* the Redis list and its inline fallback (services/queue.py) and the      *)
(* worker loop (workers/run_worker.py), composed with AnalysisRunner.      *)
(*                                                                         *)
(* Faults: a process dies, a reply of Redis is lost after the command took *)
(* effect, the database fails under a run.  `dup` and `lost` record which  *)
(* jobs a fault has delivered twice or taken away, so that a property can  *)
(* say what holds of the others; no action but the faults' budgets reads   *)
(* them.                                                                   *)
(***************************************************************************)
EXTENDS AnalysisRunner, Sequences

CONSTANTS
  Workers,         \* worker processes
  Tasks,           \* coroutines of the API: handlers and inline runs
  DemoUsernames,   \* is_demo_username
  AllowArbitrary,  \* settings.allow_arbitrary_mock_profiles
  MaxDups,         \* bound on jobs delivered twice
  MaxLost,         \* bound on jobs taken away by a fault
  MaxSignals       \* bound on SIGTERMs sent to workers

ASSUME SystemAssumption ==
  /\ Executors = Workers \cup Tasks
  /\ Workers \cap Tasks = {}
  /\ DemoUsernames \subseteq Usernames
  /\ AllowArbitrary \in BOOLEAN
  /\ MaxDups \in Nat /\ MaxLost \in Nat /\ MaxSignals \in Nat

VARIABLES
  queue,     \* the list xba:jobs, head popped first
  stop,      \* workers whose _shutdown event is set
  signals,   \* number of signals sent
  dup,       \* jobs a lost LPUSH reply delivered both by Redis and inline
  lost       \* jobs whose delivery or run a fault has cut short

faults == <<signals, dup, lost>>
vars == <<rows, control, queue, stop, faults>>

LoopSteps == {"idle", "enqueue", "polling", "exited"}

TypeOK ==
  /\ StoreTypeOK
  /\ RunnerTypeOK(LoopSteps)
  /\ queue \in Seq(Jobs)
  /\ stop \in SUBSET Workers
  /\ signals \in 0..MaxSignals
  /\ dup \in SUBSET Jobs
  /\ lost \in SUBSET Jobs

Init ==
  /\ StoreInit
  /\ RunnerInit
  /\ queue = <<>>
  /\ stop = {}
  /\ signals = 0
  /\ dup = {}
  /\ lost = {}

-----------------------------------------------------------------------------
(* API handlers.  A handler occupies an idle coroutine. *)

(* The guard of create_analysis: invented profiles only for demo usernames *)
MayCreate(name) ==
  \/ Provider # "mock"
  \/ AllowArbitrary
  \/ name \in DemoUsernames

CreateAnalysis(t, j, name) ==
  /\ pc[t] = "idle"
  /\ MayCreate(name)
  /\ create_job(j, name, Provider)
  /\ Take(t, j, "provider", "enqueue")
  /\ UNCHANGED <<queue, stop, faults>>

(* create_imported_analysis runs the job in the handler *)
CreateImported(t, j, name) ==
  /\ pc[t] = "idle"
  /\ create_job(j, name, "import")
  /\ Take(t, j, "supplied", "validating")
  /\ UNCHANGED <<queue, stop, faults>>

RefreshAnalysis(t, old, j) ==
  /\ pc[t] = "idle"
  /\ Stored(old)
  /\ create_job(j, username[old], data_source[old])
  /\ Take(t, j, "provider", "enqueue")
  /\ UNCHANGED <<queue, stop, faults>>

DeleteAnalysis(j) ==
  /\ Stored(j)
  /\ delete_job(j)
  /\ UNCHANGED <<control, queue, stop, faults>>

Handle(t) ==
  \E j \in Jobs :
    \/ \E name \in Usernames : CreateAnalysis(t, j, name) \/ CreateImported(t, j, name)
    \/ \E old \in Jobs : RefreshAnalysis(t, old, j)

-----------------------------------------------------------------------------
(* enqueue: ping, LPUSH and close in one try; any exception runs it inline *)

(* Mutant: falls through to the inline run after a push *)
Push_and_run(t) ==
  /\ pc[t] = "enqueue"
  /\ queue' = Append(queue, cur[t])
  /\ Goto(t, "load")
  /\ UNCHANGED <<cur, kind, copy, rows, stop, faults>>

Push(t) ==
  /\ pc[t] = "enqueue"
  /\ queue' = Append(queue, cur[t])
  /\ Finish(t)
  /\ UNCHANGED <<rows, stop, faults>>

RunInline(t) ==
  /\ pc[t] = "enqueue"
  /\ Goto(t, "load")
  /\ UNCHANGED <<cur, kind, copy, rows, queue, stop, faults>>

(* The LPUSH took effect, its reply or the close did not arrive *)
PushReplyLost(t) ==
  /\ pc[t] = "enqueue"
  /\ Cardinality(dup) < MaxDups
  /\ queue' = Append(queue, cur[t])
  /\ Goto(t, "load")
  /\ dup' = dup \cup {cur[t]}
  /\ UNCHANGED <<cur, kind, copy, rows, stop, signals, lost>>

Enqueue(t) == Push(t) \/ RunInline(t) \/ PushReplyLost(t)

-----------------------------------------------------------------------------
(* The worker loop.  "idle" is the top of the loop; "polling" is BRPOP,     *)
(* which a signal does not interrupt: it can still return a job.            *)

Poll(w) ==
  /\ pc[w] = "idle"
  /\ w \notin stop
  /\ Goto(w, "polling")
  /\ UNCHANGED <<cur, kind, copy, rows, queue, stop, faults>>

Exit(w) ==
  /\ pc[w] = "idle"
  /\ w \in stop
  /\ Goto(w, "exited")
  /\ UNCHANGED <<cur, kind, copy, rows, queue, stop, faults>>

(* Mutant: the shutdown event is looked at again after the pop *)
Pop_then_stop(w) ==
  /\ pc[w] = "polling"
  /\ queue # <<>>
  /\ queue' = Tail(queue)
  /\ IF w \in stop THEN Goto(w, "idle") /\ UNCHANGED <<cur, kind, copy>>
                    ELSE Take(w, Head(queue), "provider", "load")
  /\ UNCHANGED <<rows, stop, faults>>

Pop(w) ==
  /\ pc[w] = "polling"
  /\ queue # <<>>
  /\ queue' = Tail(queue)
  /\ Take(w, Head(queue), "provider", "load")
  /\ UNCHANGED <<rows, stop, faults>>

(* The timeout, or an error of Redis: back to the top of the loop *)
PopNothing(w) ==
  /\ pc[w] = "polling"
  /\ Goto(w, "idle")
  /\ UNCHANGED <<cur, kind, copy, rows, queue, stop, faults>>

(* Mutant: the queue keeps the job until its reply has arrived *)
PopReplyLost_kept(w) ==
  /\ pc[w] = "polling"
  /\ queue # <<>>
  /\ Cardinality(lost) < MaxLost
  /\ lost' = lost \cup {Head(queue)}
  /\ Goto(w, "idle")
  /\ UNCHANGED <<cur, kind, copy, rows, queue, stop, signals, dup>>

(* BRPOP took effect and its reply did not arrive *)
PopReplyLost(w) ==
  /\ pc[w] = "polling"
  /\ queue # <<>>
  /\ Cardinality(lost) < MaxLost
  /\ lost' = lost \cup {Head(queue)}
  /\ queue' = Tail(queue)
  /\ Goto(w, "idle")
  /\ UNCHANGED <<cur, kind, copy, rows, stop, signals, dup>>

Signal(w) ==
  /\ pc[w] # "exited"
  /\ w \notin stop
  /\ signals < MaxSignals
  /\ signals' = signals + 1
  /\ stop' = stop \cup {w}
  /\ UNCHANGED <<rows, control, queue, dup, lost>>

(* restart: unless-stopped *)
Restart(w) ==
  /\ pc[w] = "exited"
  /\ Goto(w, "idle")
  /\ stop' = stop \ {w}
  /\ UNCHANGED <<cur, kind, copy, rows, queue, faults>>

-----------------------------------------------------------------------------
(* Faults of a run *)

Lose(e) ==
  /\ cur[e] # None
  /\ Cardinality(lost) < MaxLost
  /\ lost' = lost \cup {cur[e]}
  /\ UNCHANGED <<rows, queue, stop, signals, dup>>

Crash(e) ==
  /\ Lose(e)
  /\ Take(e, None, None, IF e \in Workers THEN "exited" ELSE "idle")

(* A statement of the run fails: mark_failed fails on the same session *)
DatabaseFails(e) ==
  /\ pc[e] \in RunSteps
  /\ Lose(e)
  /\ Finish(e)

-----------------------------------------------------------------------------
RunStep(e) == Run(e) /\ UNCHANGED <<queue, stop, faults>>

Loop(w) == Poll(w) \/ Exit(w) \/ PopNothing(w) \/ Restart(w)

Next ==
  \/ \E t \in Tasks : Handle(t) \/ Enqueue(t)
  \/ \E j \in Jobs : DeleteAnalysis(j)
  \/ \E w \in Workers : Loop(w) \/ Pop(w) \/ PopReplyLost(w) \/ Signal(w)
  \/ \E e \in Executors : RunStep(e) \/ Crash(e) \/ DatabaseFails(e)

Spec == Init /\ [][Next]_vars

(* The event loops run every ready coroutine, the container is restarted    *)
(* when it has exited, and Redis answers a worker that asks again and again *)
Fairness ==
  /\ \A t \in Tasks : WF_vars(Enqueue(t))
  /\ \A w \in Workers : WF_vars(Loop(w)) /\ SF_vars(Pop(w))
  /\ \A e \in Executors : WF_vars(RunStep(e))

FairSpec == Spec /\ Fairness

-----------------------------------------------------------------------------
(* Who still owes job j a run: executors with it in hand, places in the queue *)
Holders(j) == {e \in Executors : cur[e] = j}
Places(j) == {i \in DOMAIN queue : queue[i] = j}

(* A job that no reply of Redis has delivered twice is never owed to two    *)
(* coroutines, or twice to one: enqueue, BRPOP and the inline fallback hand *)
(* it on, they do not copy it.                                              *)
SingleRunner ==
  \A j \in Jobs \ dup :
    /\ Holders(j) = {} \/ Places(j) = {}
    /\ \A d, e \in Holders(j) : d = e
    /\ \A h, i \in Places(j) : h = i

(* A job a client still sees pending or running is in somebody's hands,     *)
(* unless a fault took it: no path through the handlers, the queue, the     *)
(* shutdown of a worker or the error handlers of a run drops it.            *)
NoneStranded ==
  \A j \in Jobs \ (dup \cup lost) :
    status[j] \in {"pending", "running"} => Holders(j) \cup Places(j) # {}

(* get_results finds the result row of a job whose status says completed,   *)
(* whatever was delivered twice, deleted or crashed on the way.             *)
CompletedHasResult ==
  \A j \in Jobs : status[j] = "completed" => j \in result

(* The columns of a job row tell one story: results are kept for completed  *)
(* jobs alone, completed is stage done at 100 percent, and an error code    *)
(* is there exactly when the job has failed.                                *)
OutcomeAgrees ==
  \A j \in Jobs \ dup : Stored(j) =>
    /\ j \in result <=> status[j] = "completed"
    /\ Progress(j) = 100 <=> status[j] = "completed"
    /\ error[j] # None <=> status[j] = "failed"

(* A job deleted while a run still has it leaves nothing behind: the late   *)
(* writes of the run neither bring the row back nor store a result for it.  *)
DeletedIsGone ==
  ForeignKeys => \A j \in Jobs : status[j] = "deleted" => j \notin result

(* What a run reports as its source is what it read: a refreshed import is  *)
(* relabelled before any engine works on the posts of the provider.         *)
SourceMatchesRun ==
  \A e \in Executors : pc[e] \in EngineSteps \cup {"done"} /\ Holds(e) =>
    data_source[cur[e]] = IF kind[e] = "supplied" THEN "import" ELSE Provider

-----------------------------------------------------------------------------
(* useProgress of the frontend stops polling at completed or failed: the    *)
(* status and the progress it showed last never change afterwards, except   *)
(* that the job may be deleted.                                             *)
Unmoved(j) ==
  status'[j] = "deleted" \/ (status'[j] = status[j] /\ Progress(j)' = Progress(j))

Frozen(j) == Settled(j) => Unmoved(j)

TerminalIsFinal == [][\A j \in Jobs \ dup' : Frozen(j)]_vars

(* The progress bar never moves back *)
ProgressMonotone == [][\A j \in Jobs \ dup' : Progress(j)' >= Progress(j)]_vars

(* At most once: what a fault has taken away - a reply to BRPOP that did not *)
(* arrive, a process that died, a database that failed under the run - is   *)
(* taken up by nobody, not by another worker and not after a restart. Its   *)
(* page shows the status and the progress it had until it is deleted.        *)
LostIsFinal == [][\A j \in lost \ dup : Unmoved(j)]_vars

(* Every job settles or is deleted, unless a fault hit it *)
EventuallySettled ==
  \A j \in Jobs :
    status[j] \in {"pending", "running"}
      ~> (Settled(j) \/ status[j] = "deleted" \/ j \in dup \cup lost)

Lifecycle == INSTANCE JobLifecycle WITH
  state <- status, percent <- [j \in Jobs |-> Progress(j)], results <- result

(* With foreign keys and no job delivered twice, the system is JobLifecycle *)
ImplementsLifecycle == Lifecycle!Spec

-----------------------------------------------------------------------------
(* What the repository says of the program and the program does not keep *)

(* tests/test_api_analyses.py:157: a job the progress endpoint calls        *)
(* completed is at 100 percent.                                             *)
CompletedAt100 == \A j \in Jobs : status[j] = "completed" => Progress(j) = 100

(* job_service.py:127: scalar_one_or_none, which raises if it finds two, is *)
(* how upsert_profile reads the profile of a username.                      *)
OneProfilePerUsername == \A n \in Usernames : profiles[n] <= 1

(* README.md:78: without credentials the app reports that they are missing  *)
(* instead of generating real-looking synthetic data; mock mode is for demo *)
(* usernames only.                                                          *)
MockOnlyForDemo ==
  AllowArbitrary \/ \A j \in Jobs :
    status[j] = "completed" /\ data_source[j] = "mock" => username[j] \in DemoUsernames

(* docs/API.md:59: deleting a job deletes its results (cascade). *)
DeleteTakesResult == \A j \in Jobs : status[j] = "deleted" => j \notin result
=============================================================================
