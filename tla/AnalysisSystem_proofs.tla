------------------------ MODULE AnalysisSystem_proofs -----------------------
(***************************************************************************)
(* SystemInv is inductive, and what follows from it, for any sets of jobs, *)
(* workers, API tasks and usernames and any budgets of faults.             *)
(*                                                                         *)
(* The proof has three layers.  Base: types, control and known rows.       *)
(* Single: at most one owner of a job.  RowsOK: what a row is allowed      *)
(* to be, given where its only owner is.  Each is preserved by every step  *)
(* given the ones before it.  The action properties and the refinement of  *)
(* JobLifecycle need the invariant and no further induction.               *)
(***************************************************************************)
EXTENDS AnalysisInvariant, FiniteSetTheorems, TLAPS

(* What the other layers take for granted *)
Base == TypeOK /\ ControlOK /\ KnownOK

(* A non-empty queue, its head and its tail *)
LEMMA QueueParts ==
  ASSUME queue \in Seq(Jobs), queue # <<>>
  PROVE  /\ 1 \in DOMAIN queue
         /\ Head(queue) = queue[1]
         /\ Head(queue) \in Jobs
         /\ Tail(queue) \in Seq(Jobs)
         /\ \A i \in DOMAIN Tail(queue) : i+1 \in DOMAIN queue /\ i+1 # 1 /\ Tail(queue)[i] = queue[i+1]
         /\ \A i \in DOMAIN queue : i # 1 => i-1 \in DOMAIN Tail(queue) /\ Tail(queue)[i-1] = queue[i]
  OBVIOUS

(* What Append leaves and adds *)
LEMMA QueuePush ==
  ASSUME queue \in Seq(Jobs), NEW j \in Jobs
  PROVE  /\ Append(queue, j) \in Seq(Jobs)
         /\ DOMAIN Append(queue, j) = DOMAIN queue \cup {Len(queue) + 1}
         /\ Len(queue) + 1 \notin DOMAIN queue
         /\ Append(queue, j)[Len(queue) + 1] = j
         /\ \A i \in DOMAIN queue : Append(queue, j)[i] = queue[i]
  OBVIOUS

(* The stages, spelled out *)
LEMMA StageNames ==
  Stages = {"none", "validating", "retrieving_profile", "retrieving_posts", "activity", "content",
            "sentiment", "engagement", "patterns", "generating_report", "done"}
  BY DEF Stages, STAGE_PROGRESS

(* update_progress keeps the rows well typed *)
LEMMA UpdateProgressType ==
  ASSUME StoreTypeOK, NEW j, NEW seen, NEW s \in Stages, update_progress(j, seen, s)
  PROVE  StoreTypeOK'
  BY DEF StoreTypeOK, update_progress, JobStatus

(* Types, control and known rows: they hold initially ... *)
LEMMA BaseInit == Init => Base
  BY StoreAssumption, SystemAssumption
  DEF Init, StoreInit, RunnerInit, Base, TypeOK, StoreTypeOK, RunnerTypeOK, ControlOK,
      KnownOK,
      LoopSteps, Stages, STAGE_PROGRESS, None, StoreAssumption, SystemAssumption

(* ... a handler that creates a job preserves them ... *)
LEMMA BaseHandle ==
  ASSUME Base, NEW t \in Tasks, Handle(t)
  PROVE  Base'
<1> USE SystemAssumption DEF SystemAssumption, Base, TypeOK, StoreTypeOK, RunnerTypeOK,
    ControlOK, KnownOK, LoopSteps, create_job, Take, Goto,
   rows, faults, RunSteps, SuppliedSteps, ProfileSteps, StageSteps, EngineSteps, Sources,
       Providers, None,
   JobStatus
<1>1. ASSUME NEW j \in Jobs, NEW name \in Usernames, CreateAnalysis(t, j, name) PROVE Base'
  BY <1>1, RunnerAssumption DEF CreateAnalysis, RunnerAssumption
<1>2. ASSUME NEW j \in Jobs, NEW name \in Usernames, CreateImported(t, j, name) PROVE Base'
  BY <1>2 DEF CreateImported
<1>3. ASSUME NEW j \in Jobs, NEW old \in Jobs, RefreshAnalysis(t, old, j) PROVE Base'
  BY <1>3 DEF RefreshAnalysis, Stored
<1> QED BY <1>1, <1>2, <1>3 DEF Handle

(* ... and a delete ... *)
LEMMA BaseDelete ==
  ASSUME Base, NEW j \in Jobs, DeleteAnalysis(j)
  PROVE  Base'
  BY DEF DeleteAnalysis, Stored, JobStatus, delete_job, Base, TypeOK, StoreTypeOK,
      RunnerTypeOK, ControlOK, KnownOK, control, faults

(* ... and enqueue, whether it pushes, runs inline or both ... *)
LEMMA BaseEnqueue ==
  ASSUME Base, NEW t \in Tasks, Enqueue(t)
  PROVE  Base'
<1> USE SystemAssumption, StoreAssumption DEF SystemAssumption, StoreAssumption, Base,
    TypeOK, StoreTypeOK, RunnerTypeOK, ControlOK, KnownOK, LoopSteps, Take, Goto, Finish,
   rows, faults, RunSteps, SuppliedSteps, ProfileSteps, StageSteps, EngineSteps,  None
<1>1. CASE Push(t) BY <1>1 DEF Push
<1>2. CASE RunInline(t) BY <1>2 DEF RunInline
<1>3. CASE PushReplyLost(t) BY <1>3 DEF PushReplyLost
<1> QED BY <1>1, <1>2, <1>3 DEF Enqueue

(* ... and every step of the worker loop, pops included ... *)
LEMMA BaseLoop ==
  ASSUME Base, NEW w \in Workers, Loop(w) \/ Pop(w) \/ PopReplyLost(w) \/ Signal(w)
  PROVE  Base'
<1> USE SystemAssumption, StoreAssumption DEF SystemAssumption, StoreAssumption, Base,
    TypeOK, StoreTypeOK, RunnerTypeOK, ControlOK, KnownOK, LoopSteps, Take, Goto, Finish,
   rows, faults, RunSteps, SuppliedSteps, ProfileSteps, StageSteps, EngineSteps,  None
<1>1. CASE Poll(w) BY <1>1 DEF Poll
<1>2. CASE Exit(w) BY <1>2, Zenon DEF Exit
<1>3. CASE PopNothing(w) BY <1>3, Zenon DEF PopNothing
<1>4. CASE Restart(w) BY <1>4, Zenon DEF Restart
<1>5. CASE Pop(w) BY <1>5 DEF Pop
<1>6. CASE PopReplyLost(w)
  <2> USE <1>6, QueueParts DEF PopReplyLost
  <2>1. TypeOK' OBVIOUS
  <2>2. ControlOK' OBVIOUS
  <2>3. KnownOK' OBVIOUS
  <2> QED BY <2>1, <2>2, <2>3
<1>7. CASE Signal(w) BY <1>7 DEF Signal, control
<1> QED BY <1>1, <1>2, <1>3, <1>4, <1>5, <1>6, <1>7 DEF Loop

(* ... and a crash or a database error ... *)
LEMMA BaseFault ==
  ASSUME Base, NEW e \in Executors, Crash(e) \/ DatabaseFails(e)
  PROVE  Base'
<1> USE SystemAssumption, StoreAssumption DEF SystemAssumption, StoreAssumption, Base,
    TypeOK, StoreTypeOK, RunnerTypeOK, ControlOK, KnownOK, LoopSteps, Take, Goto, Finish,
   rows, faults, RunSteps, SuppliedSteps, ProfileSteps, StageSteps, EngineSteps,  None
<1>1. CASE Crash(e) BY <1>1 DEF Crash, Lose
<1>2. CASE DatabaseFails(e) BY <1>2 DEF DatabaseFails, Lose
<1> QED BY <1>1, <1>2

(* ... and every step of a run. *)
LEMMA BaseRun ==
  ASSUME Base, NEW e \in Executors, RunStep(e)
  PROVE  Base'
<1> USE StoreAssumption DEF StoreAssumption, Base, TypeOK, StoreTypeOK, RunnerTypeOK,
    ControlOK, KnownOK, LoopSteps, Take, Goto, Finish, Holds, Stored, JobStatus,
   rows, faults, RunSteps, SuppliedSteps, ProfileSteps, StageSteps, EngineSteps,  None,
       RunStep
<1>1. CASE Skip(e) BY <1>1 DEF Skip
<1>2. CASE Load(e) BY <1>2 DEF Load
<1>3. CASE ValidateSupplied(e)
  <2>1. CASE Holds(e)
    <3> USE <1>3, <2>1, StageNames DEF ValidateSupplied, update_progress
    <3>1. TypeOK'
      <4>1. StoreTypeOK' BY UpdateProgressType
      <4> QED BY <4>1
    <3>2. ControlOK' OBVIOUS
    <3>3. KnownOK' OBVIOUS
    <3> QED BY <3>1, <3>2, <3>3
  <2>2. CASE ~Holds(e) BY <1>3, <2>2 DEF ValidateSupplied
  <2> QED BY <2>1, <2>2
<1>4. CASE UpdateProgress(e) BY <1>4, StageNames DEF UpdateProgress, update_progress,
    Next_step
<1>5. CASE SelectProfile(e)
  <2>1. ASSUME NEW s \in {"insert_profile", "update_profile"}, Goto(e, s),
      UNCHANGED <<cur, kind, copy, rows>>,
               pc[e] = "select_profile" PROVE Base'
    BY <1>5, <2>1
  <2> QED BY <1>5, <2>1 DEF SelectProfile
<1>6. CASE InsertProfile(e) BY <1>6 DEF InsertProfile, insert_profile
<1>7. CASE UpdateProfile(e) BY <1>7 DEF UpdateProfile
<1>8. CASE Link(e)
  <2> USE <1>8, RunnerAssumption DEF Link, RunnerAssumption, set_source, Next_step, Sources
  <2>1. TypeOK' OBVIOUS
  <2>2. ControlOK' OBVIOUS
  <2>3. KnownOK' OBVIOUS
  <2> QED BY <2>1, <2>2, <2>3
<1>9. CASE LinkSupplied(e)
  <2> USE <1>9 DEF LinkSupplied, set_source, Sources
  <2>1. TypeOK' OBVIOUS
  <2>2. ControlOK' OBVIOUS
  <2>3. KnownOK' OBVIOUS
  <2> QED BY <2>1, <2>2, <2>3
<1>10. CASE CountPosts(e) BY <1>10 DEF CountPosts, Next_step
<1>11. CASE Complete(e)
  <2> USE <1>11, StageNames DEF Complete, store_result
  <2>1. TypeOK' OBVIOUS
  <2>2. ControlOK' OBVIOUS
  <2>3. KnownOK' OBVIOUS
  <2> QED BY <2>1, <2>2, <2>3
<1>12. CASE Fail(e) BY <1>12 DEF Fail, Raises, mark_failed, ErrorCodes
<1>13. CASE Stale(e) BY <1>13 DEF Stale, WritesJob, Raises
<1>14. CASE ResultRefused(e) BY <1>14 DEF ResultRefused
<1> QED BY <1>1, <1>2, <1>3, <1>4, <1>5, <1>6, <1>7, <1>8, <1>9, <1>10, <1>11, <1>12, <1>13,
    <1>14 DEF Run

(* Base is inductive on its own *)
LEMMA BaseStep == Base /\ [Next]_vars => Base'
<1> SUFFICES ASSUME Base, [Next]_vars PROVE Base'
  OBVIOUS
<1>1. CASE Next
  BY <1>1, BaseHandle, BaseEnqueue, BaseDelete, BaseLoop, BaseRun, BaseFault DEF Next
<1>2. CASE UNCHANGED vars
  BY <1>2 DEF Base, TypeOK, StoreTypeOK, RunnerTypeOK, ControlOK, KnownOK, vars, rows,
      control, faults
<1> QED BY <1>1, <1>2
-----------------------------------------------------------------------------
(* SingleRunner without its set abstractions *)
Single ==
  /\ \A d, e \in Executors : cur[d] = cur[e] /\ cur[d] \in Jobs \ dup => d = e
  /\ \A e \in Executors, i \in DOMAIN queue : cur[e] = queue[i] => queue[i] \in dup
  /\ \A h, i \in DOMAIN queue : queue[h] = queue[i] /\ queue[h] \notin dup => h = i

(* Single is SingleRunner executor by executor, place by place *)
LEMMA SingleIsSingleRunner == TypeOK => (Single <=> SingleRunner)
<1> SUFFICES ASSUME TypeOK PROVE Single <=> SingleRunner
  OBVIOUS
<1> USE DEF TypeOK, Holders, Places
<1>1. ASSUME Single PROVE SingleRunner
  BY <1>1 DEF Single, SingleRunner
<1>2. ASSUME SingleRunner PROVE Single
  <2>1. ASSUME NEW d \in Executors, NEW e \in Executors, cur[d] = cur[e],
      cur[d] \in Jobs \ dup PROVE d = e
    BY <1>2, <2>1 DEF SingleRunner
  <2>2. ASSUME NEW e \in Executors, NEW i \in DOMAIN queue, cur[e] = queue[i],
      queue[i] \notin dup PROVE FALSE
    <3>1. queue[i] \in Jobs \ dup BY <2>2
    <3>2. e \in Holders(queue[i]) /\ i \in Places(queue[i]) BY <2>2
    <3> QED BY <1>2, <3>1, <3>2 DEF SingleRunner
  <2>3. ASSUME NEW h \in DOMAIN queue, NEW i \in DOMAIN queue, queue[h] = queue[i],
      queue[h] \notin dup PROVE h = i
    <3>1. queue[h] \in Jobs \ dup BY <2>3
    <3> QED BY <1>2, <2>3, <3>1 DEF SingleRunner
  <2> QED BY <2>1, <2>2, <2>3 DEF Single
<1> QED BY <1>1, <1>2

(* What a step of a run does outside its own job and executor: nothing *)
RunFrame(e) ==
  /\ UNCHANGED <<queue, dup, lost>>
  /\ cur' = cur \/ cur' = [cur EXCEPT ![e] = None]
  /\ \A d \in Executors \ {e} : pc'[d] = pc[d] /\ kind'[d] = kind[d] /\ copy'[d] = copy[d]
  /\ \A j \in Jobs \ {cur[e]} : /\ status'[j] = status[j]
                                /\ stage'[j] = stage[j]
                                /\ error'[j] = error[j]
                                /\ j \in result' <=> j \in result

(* Every step of a run stays within its frame *)
LEMMA RunFrames ==
  ASSUME Base, NEW e \in Executors, RunStep(e)
  PROVE  RunFrame(e)
<1> USE DEF RunFrame, Base, TypeOK, StoreTypeOK, RunnerTypeOK, Take, Goto, Finish, rows,
    faults, RunStep
<1>1. CASE Skip(e) BY <1>1 DEF Skip
<1>2. CASE Load(e) BY <1>2 DEF Load
<1>3. CASE ValidateSupplied(e) BY <1>3 DEF ValidateSupplied, update_progress
<1>4. CASE UpdateProgress(e) BY <1>4 DEF UpdateProgress, update_progress
<1>5. CASE SelectProfile(e) BY <1>5 DEF SelectProfile
<1>6. CASE InsertProfile(e) BY <1>6 DEF InsertProfile, insert_profile
<1>7. CASE UpdateProfile(e) BY <1>7 DEF UpdateProfile
<1>8. CASE Link(e) BY <1>8 DEF Link, set_source
<1>9. CASE LinkSupplied(e) BY <1>9 DEF LinkSupplied, set_source
<1>10. CASE CountPosts(e) BY <1>10 DEF CountPosts
<1>11. CASE Complete(e) BY <1>11 DEF Complete, store_result
<1>12. CASE Fail(e) BY <1>12 DEF Fail, mark_failed
<1>13. CASE Stale(e) BY <1>13 DEF Stale
<1>14. CASE ResultRefused(e) BY <1>14 DEF ResultRefused
<1> QED BY <1>1, <1>2, <1>3, <1>4, <1>5, <1>6, <1>7, <1>8, <1>9, <1>10, <1>11, <1>12, <1>13,
    <1>14 DEF Run

(* Handing a job on never leaves it with two owners, but for a lost reply  *)
(* of LPUSH, which puts it in dup                                          *)
LEMMA SingleStep == Base /\ Single /\ [Next]_vars => Single'
<1> SUFFICES ASSUME Base, Single, [Next]_vars PROVE Single'
  OBVIOUS
<1> USE StoreAssumption, SystemAssumption DEF StoreAssumption, SystemAssumption, Base,
    TypeOK, RunnerTypeOK, Single, KnownOK
<1>1. ASSUME NEW t \in Tasks, Handle(t) PROVE Single'
  <2> USE DEF create_job, Take, faults
  <2>1. ASSUME NEW j \in Jobs, NEW name \in Usernames, CreateAnalysis(t, j, name)
      PROVE Single'
    BY <2>1 DEF CreateAnalysis
  <2>2. ASSUME NEW j \in Jobs, NEW name \in Usernames, CreateImported(t, j, name)
      PROVE Single'
    BY <2>2 DEF CreateImported
  <2>3. ASSUME NEW j \in Jobs, NEW old \in Jobs, RefreshAnalysis(t, old, j) PROVE Single'
    BY <2>3 DEF RefreshAnalysis
  <2> QED BY <1>1, <2>1, <2>2, <2>3 DEF Handle
<1>2. ASSUME NEW t \in Tasks, Push(t) PROVE Single'
  BY <1>2, QueuePush DEF Push, Finish, Take, ControlOK, LoopSteps, faults
<1>3. ASSUME NEW t \in Tasks, RunInline(t) PROVE Single'
  BY <1>3 DEF RunInline, faults
<1>4. ASSUME NEW t \in Tasks, PushReplyLost(t) PROVE Single'
  BY <1>4, QueuePush DEF PushReplyLost, ControlOK, LoopSteps
<1>5. ASSUME NEW j \in Jobs, DeleteAnalysis(j) PROVE Single'
  BY <1>5 DEF DeleteAnalysis, control, faults
<1>6. ASSUME NEW w \in Workers, Loop(w) PROVE Single'
  BY <1>6 DEF Loop, Poll, Exit, PopNothing, Restart, faults
<1>7. ASSUME NEW w \in Workers, Pop(w) PROVE Single'
  BY <1>7, QueueParts DEF Pop, Take, ControlOK, LoopSteps, faults
<1>8. ASSUME NEW w \in Workers, PopReplyLost(w) PROVE Single'
  BY <1>8, QueueParts DEF PopReplyLost
<1>9. ASSUME NEW w \in Workers, Signal(w) PROVE Single'
  BY <1>9 DEF Signal, control
<1>10. ASSUME NEW e \in Executors, RunStep(e) PROVE Single'
  BY <1>10, RunFrames DEF RunFrame
<1>11. ASSUME NEW e \in Executors, Crash(e) \/ DatabaseFails(e) PROVE Single'
  BY <1>11 DEF Crash, DatabaseFails, Lose, Take, Finish
<1>12. CASE UNCHANGED vars
  BY <1>12 DEF vars, control, faults
<1> QED
  BY <1>1, <1>2, <1>3, <1>4, <1>5, <1>6, <1>7, <1>8, <1>9, <1>10, <1>11, <1>12 DEF Next,
      Enqueue
-----------------------------------------------------------------------------
(* The rest of SystemInv, job by job, executor by executor, place by place *)
RowOK(j) ==
  /\ j \notin dup /\ Stored(j) =>
       /\ j \in result <=> status[j] = "completed"
       /\ Progress(j) = 100 <=> status[j] = "completed"
       /\ error[j] # None <=> status[j] = "failed"
       /\ status[j] = "pending" => Progress(j) = 0
  /\ status[j] = "completed" => j \in result
  /\ ForeignKeys /\ status[j] = "deleted" => j \notin result

ExecOK(e) ==
  cur[e] \in Jobs \ dup /\ Holds(e) =>
    /\ status[cur[e]] = IF pc[e] \in Waiting THEN "pending" ELSE "running"
    /\ Progress(cur[e]) < Ahead[pc[e]]
    /\ pc[e] = "validating" /\ kind[e] = "provider" => copy[e] = "pending"

PlaceOK(i) == queue[i] \notin dup /\ Stored(queue[i]) => status[queue[i]] = "pending"

Carried(j) ==
  j \notin dup \cup lost /\ status[j] \in {"pending", "running"} =>
    \/ \E e \in Executors : cur[e] = j
    \/ \E i \in DOMAIN queue : queue[i] = j

RowsOK ==
  /\ \A j \in Jobs : RowOK(j) /\ Carried(j)
  /\ \A e \in Executors : ExecOK(e)
  /\ \A i \in DOMAIN queue : PlaceOK(i)

(* RowsOK is the rest of SystemInv *)
LEMMA RowsOKIsInv ==
  TypeOK => (RowsOK <=> RunOK /\ QueueOK /\ NoneStranded /\ CompletedHasResult
                             /\ OutcomeAgrees /\ DeletedIsGone)
<1> SUFFICES ASSUME TypeOK
             PROVE  RowsOK <=> RunOK /\ QueueOK /\ NoneStranded /\ CompletedHasResult
                                    /\ OutcomeAgrees /\ DeletedIsGone
  OBVIOUS
<1>1. (\A j \in Jobs : Carried(j)) <=> NoneStranded
  BY DEF Carried, NoneStranded, Holders, Places
<1>2. (\A e \in Executors : ExecOK(e)) <=> RunOK
  BY DEF ExecOK, RunOK
<1>3. (\A j \in Jobs : RowOK(j)) /\ (\A i \in DOMAIN queue : PlaceOK(i))
        <=> QueueOK /\ CompletedHasResult /\ OutcomeAgrees /\ DeletedIsGone
  BY DEF RowOK, PlaceOK, QueueOK, CompletedHasResult, OutcomeAgrees, DeletedIsGone, Stored,
      JobStatus
<1> QED BY <1>1, <1>2, <1>3 DEF RowsOK

(* The numbers the proofs need of the two tables *)
LEMMA ProgressTable ==
  /\ STAGE_PROGRESS["none"] = 0
  /\ STAGE_PROGRESS["validating"] = 5
  /\ STAGE_PROGRESS["done"] = 100
  /\ \A s \in Stages : STAGE_PROGRESS[s] \in 0..100
  BY DEF STAGE_PROGRESS, Stages

(* The progress ahead of the steps that write no stage *)
LEMMA AheadTable ==
  /\ Ahead["enqueue"] = 5 /\ Ahead["load"] = 5 /\ Ahead["validating"] = 5
  /\ Ahead["select_profile"] = 40 /\ Ahead["insert_profile"] = 40
  /\ Ahead["update_profile"] = 40 /\ Ahead["link"] = 40
  /\ Next_step["link"] = "retrieving_posts" /\ Ahead["retrieving_posts"] = 40
  /\ Next_step["count_posts"] = "activity"
  /\ Ahead["count_posts"] = 55 /\ Ahead["activity"] = 55
  /\ Ahead["done"] = 100
  BY DEF Ahead, Next_step

(* The step after a stage is a later one, and has more progress ahead *)
LEMMA StageThenNext ==
  ASSUME NEW s \in StageSteps
  PROVE  /\ STAGE_PROGRESS[s] = Ahead[s]
         /\ STAGE_PROGRESS[s] # 0
         /\ STAGE_PROGRESS[s] # 100
         /\ STAGE_PROGRESS[s] < Ahead[Next_step[s]]
         /\ Next_step[s] \in RunSteps \ Waiting
  BY DEF Ahead, STAGE_PROGRESS, Next_step, StageSteps, EngineSteps, Waiting, RunSteps,
      ProfileSteps

(* LinkSupplied skips the stages of the provider: it still moves forward *)
LEMMA BelowActivity ==
  ASSUME NEW s \in Stages, STAGE_PROGRESS[s] < 40
  PROVE  STAGE_PROGRESS[s] < Ahead["activity"]
  BY ProgressTable, AheadTable

(* A step of a run preserves RowsOK if its own job and executor keep theirs *)
LEMMA RunPreserves ==
  ASSUME Base, Single, RowsOK, NEW e \in Executors, RunFrame(e), Base',
         NEW j \in Jobs, cur[e] = j,
         RowOK(j)', j \notin dup => ExecOK(e)',
         j \notin dup => cur'[e] = j \/ status'[j] \notin {"pending", "running"}
  PROVE  RowsOK'
<1> USE DEF RunFrame, Base, TypeOK, StoreTypeOK, RunnerTypeOK
<1>1. ASSUME NEW k \in Jobs PROVE RowOK(k)'
  <2>1. CASE k = j BY <2>1
  <2>2. CASE k # j BY <2>2 DEF RowsOK, RowOK, Stored, Progress
  <2> QED BY <2>1, <2>2
<1>2. ASSUME NEW k \in Jobs PROVE Carried(k)'
  <2>1. CASE k = j BY <2>1 DEF RowsOK, Carried
  <2>2. CASE k # j
    <3>1. Carried(k) /\ status'[k] = status[k] BY <2>2 DEF RowsOK
    <3>2. ASSUME NEW d \in Executors, cur[d] = k PROVE cur'[d] = k BY <2>2, <3>2
    <3> QED BY <3>1, <3>2 DEF Carried
  <2> QED BY <2>1, <2>2
<1>3. ASSUME NEW d \in Executors PROVE ExecOK(d)'
  <2>1. CASE d = e BY <2>1, StoreAssumption DEF ExecOK, StoreAssumption
  <2>2. CASE d # e
    <3>1. cur'[d] = cur[d] BY <2>2
    <3>2. CASE cur[d] = j BY <2>2, <3>1, <3>2 DEF Single, ExecOK
    <3>3. CASE cur[d] # j
      BY <2>2, <3>1, <3>3 DEF RowsOK, ExecOK, Holds, Stored, Progress
    <3> QED BY <3>2, <3>3
  <2> QED BY <2>1, <2>2
<1>4. ASSUME NEW i \in DOMAIN queue PROVE PlaceOK(i)'
  <2>1. queue[i] # j \/ queue[i] \in dup BY DEF Single
  <2> QED BY <2>1 DEF RowsOK, PlaceOK, Stored
<1> QED BY <1>1, <1>2, <1>3, <1>4 DEF RowsOK

(* A step of a run writes what its place in run_job says, on a row that its *)
(* only run has brought to the stage before                                *)
LEMMA RunRowsOK ==
  ASSUME Base, Single, RowsOK, NEW e \in Executors, RunStep(e)
  PROVE  RowsOK'
<1>1. RunFrame(e) /\ Base' BY RunFrames, BaseRun
<1>2. pc[e] \in RunSteps
  BY DEF RunStep, Run, Skip, Load, ValidateSupplied, UpdateProgress, SelectProfile,
      InsertProfile,
         UpdateProfile, Link, LinkSupplied, CountPosts, Complete, Fail, Stale,
             ResultRefused,
         WritesJob, Raises, RunSteps, ProfileSteps, StageSteps, EngineSteps
<1>3. PICK j \in Jobs : cur[e] = j
  BY <1>2 DEF Base, ControlOK, TypeOK, RunnerTypeOK, LoopSteps, RunSteps, ProfileSteps,
      StageSteps, EngineSteps
<1>4. RowOK(j) /\ ExecOK(e)
  BY DEF RowsOK
<1> SUFFICES /\ RowOK(j)'
             /\ j \notin dup => ExecOK(e)'
             /\ j \notin dup => cur'[e] = j \/ status'[j] \notin {"pending", "running"}
  BY <1>1, <1>3, RunPreserves
<1> USE <1>1, <1>2, <1>3, <1>4, ProgressTable, AheadTable, StoreAssumption
    DEF RunFrame, RowOK, ExecOK, Holds, Stored, Progress, Base, TypeOK, StoreTypeOK,
        RunnerTypeOK, JobStatus,
        Take, Goto, Finish, Waiting, rows, faults, RunStep, None, StoreAssumption
<1>5. CASE Skip(e) BY <1>5 DEF Skip
<1>6. CASE Load(e) BY <1>6 DEF Load
<1>7. CASE ValidateSupplied(e) BY <1>7 DEF ValidateSupplied, update_progress
<1>8. CASE UpdateProgress(e)
  <2>1. /\ pc[e] \in StageSteps /\ stage'[j] = pc[e]
        /\ pc'[e] = Next_step[pc[e]] /\ cur'[e] = j
        /\ error'[j] = error[j] /\ result' = result
        /\ Stored(j)
        /\ pc[e] = "validating" => kind[e] = "provider"
    BY <1>8 DEF UpdateProgress, update_progress
  <2>2. status'[j] = IF copy[e] = "pending" THEN "running" ELSE status[j]
    BY <1>8 DEF UpdateProgress, update_progress
  <2>3. /\ pc'[e] \notin Waiting
        /\ STAGE_PROGRESS[pc[e]] < Ahead[pc'[e]]
        /\ STAGE_PROGRESS[pc[e]] # 100
    BY <2>1, StageThenNext
  <2>4. j \notin dup => status[j] \in {"pending", "running"} /\ status'[j] = "running"
    BY <2>1, <2>2 DEF StageSteps, EngineSteps
  <2>5. RowOK(j)' BY <2>1, <2>2, <2>3, <2>4
  <2>6. j \notin dup => ExecOK(e)' BY <2>1, <2>3, <2>4
  <2> QED BY <2>1, <2>5, <2>6
<1>9. CASE SelectProfile(e) BY <1>9 DEF SelectProfile
<1>10. CASE InsertProfile(e) BY <1>10 DEF InsertProfile, insert_profile
<1>11. CASE UpdateProfile(e) BY <1>11 DEF UpdateProfile
<1>12. CASE Link(e) BY <1>12 DEF Link, set_source
<1>13. CASE LinkSupplied(e)
  <2>1. /\ pc[e] = "link" /\ pc'[e] = "activity" /\ cur'[e] = j
        /\ status' = status /\ stage' = stage /\ error' = error /\ result' = result
    BY <1>13 DEF LinkSupplied, set_source
  <2>2. RowOK(j)' BY <2>1
  <2>3. j \notin dup => ExecOK(e)'
    <3> SUFFICES ASSUME j \notin dup, Stored(j)'
                 PROVE  /\ status'[j] = "running"
                        /\ STAGE_PROGRESS[stage'[j]] < Ahead["activity"]
      BY <2>1
    <3>1. status[j] = "running" /\ STAGE_PROGRESS[stage[j]] < 40
      BY <2>1
    <3>2. STAGE_PROGRESS[stage[j]] < Ahead["activity"]
      BY <3>1, BelowActivity
    <3> QED BY <2>1, <3>1, <3>2
  <2> QED BY <2>1, <2>2, <2>3
<1>14. CASE CountPosts(e) BY <1>14 DEF CountPosts
<1>15. CASE Complete(e) BY <1>15 DEF Complete, store_result
<1>16. CASE Fail(e)
  <2>1. PICK code \in Raises(e) : mark_failed(j, code)
    BY <1>16 DEF Fail
  <2>2. code \in ErrorCodes /\ code # None /\ pc[e] \notin Waiting
    BY DEF Raises, ErrorCodes, NoPosts, AnalysisFailed, EngineSteps
  <2>3. /\ status'[j] = "failed" /\ error'[j] = code /\ stage' = stage /\ result' = result
        /\ cur'[e] = None /\ Stored(j)
    BY <1>16, <2>1 DEF Fail, mark_failed
  <2>4. RowOK(j)' BY <2>2, <2>3
  <2> QED BY <2>3, <2>4
<1>17. CASE Stale(e) BY <1>17 DEF Stale
<1>18. CASE ResultRefused(e) BY <1>18 DEF ResultRefused
<1> QED BY <1>5, <1>6, <1>7, <1>8, <1>9, <1>10, <1>11, <1>12, <1>13, <1>14, <1>15, <1>16,
    <1>17, <1>18 DEF Run

(* A created row is pending, blank and in the hands of its handler *)
LEMMA CreateRowsOK ==
  ASSUME Base, Single, RowsOK, Base', Single', NEW t \in Tasks, NEW j \in Jobs,
         NEW name \in Usernames, NEW source \in Sources,
         create_job(j, name, source), pc[t] = "idle",
         Take(t, j, "provider", "enqueue") \/ Take(t, j, "supplied", "validating"),
         UNCHANGED <<queue, stop, faults>>
  PROVE  RowsOK'
<1> USE SystemAssumption, StoreAssumption DEF SystemAssumption, StoreAssumption, Base,
    TypeOK, StoreTypeOK, RunnerTypeOK, create_job, Take, Goto, faults
<1>1. ASSUME NEW k \in Jobs PROVE RowOK(k)'
  BY ProgressTable DEF RowsOK, RowOK, Stored, Progress, KnownOK, JobStatus, None
<1>2. ASSUME NEW k \in Jobs PROVE Carried(k)'
  <2>1. CASE k = j BY <2>1 DEF Carried
  <2>2. CASE k # j
    <3>1. Carried(k) /\ status'[k] = status[k] BY <2>2 DEF RowsOK
    <3>2. ASSUME NEW d \in Executors, cur[d] = k PROVE cur'[d] = k
      BY <3>2 DEF ControlOK, LoopSteps
    <3> QED BY <3>1, <3>2 DEF Carried
  <2> QED BY <2>1, <2>2
<1>3. ASSUME NEW d \in Executors PROVE ExecOK(d)'
  <2>1. CASE d = t
    BY <2>1, ProgressTable, AheadTable DEF ExecOK, Holds, Stored, Progress, KnownOK,
        JobStatus, None, Waiting
  <2>2. CASE d # t
    <3>1. cur[d] # j BY DEF KnownOK
    <3> QED BY <2>2, <3>1 DEF RowsOK, ExecOK, Holds, Stored, Progress
  <2> QED BY <2>1, <2>2
<1>4. ASSUME NEW i \in DOMAIN queue PROVE PlaceOK(i)'
  BY DEF RowsOK, PlaceOK, Stored, KnownOK
<1> QED BY <1>1, <1>2, <1>3, <1>4 DEF RowsOK

(* The three handlers create a row that way *)
LEMMA HandleRowsOK ==
  ASSUME Base, Single, RowsOK, Base', Single', NEW t \in Tasks, Handle(t)
  PROVE  RowsOK'
<1>1. ASSUME NEW j \in Jobs, NEW name \in Usernames, CreateAnalysis(t, j, name)
    PROVE RowsOK'
  BY <1>1, CreateRowsOK, RunnerAssumption DEF CreateAnalysis, RunnerAssumption, Sources
<1>2. ASSUME NEW j \in Jobs, NEW name \in Usernames, CreateImported(t, j, name)
    PROVE RowsOK'
  BY <1>2, CreateRowsOK DEF CreateImported, Sources
<1>3. ASSUME NEW j \in Jobs, NEW old \in Jobs, RefreshAnalysis(t, old, j) PROVE RowsOK'
  <2>1. username[old] \in Usernames /\ data_source[old] \in Sources
    BY <1>3 DEF RefreshAnalysis, Stored, JobStatus, Base, KnownOK
  <2> QED BY <1>3, <2>1, CreateRowsOK DEF RefreshAnalysis
<1> QED BY <1>1, <1>2, <1>3 DEF Handle

(* A deleted row takes its result with it; late writes are no part of this step *)
LEMMA DeleteRowsOK ==
  ASSUME Base, Single, RowsOK, NEW j \in Jobs, DeleteAnalysis(j)
  PROVE  RowsOK'
<1> USE DEF Base, TypeOK, StoreTypeOK, RunnerTypeOK, DeleteAnalysis, delete_job, control,
    faults
<1>1. ASSUME NEW k \in Jobs PROVE RowOK(k)'
  BY DEF RowsOK, RowOK, Stored, Progress, JobStatus
<1>2. ASSUME NEW k \in Jobs PROVE Carried(k)'
  BY DEF RowsOK, Carried
<1>3. ASSUME NEW d \in Executors PROVE ExecOK(d)'
  BY DEF RowsOK, ExecOK, Holds, Stored, Progress, JobStatus
<1>4. ASSUME NEW i \in DOMAIN queue PROVE PlaceOK(i)'
  BY DEF RowsOK, PlaceOK, Stored, JobStatus
<1> QED BY <1>1, <1>2, <1>3, <1>4 DEF RowsOK

(* A step that moves jobs between queue and executors and writes no row *)
LEMMA MoveRowsOK ==
  ASSUME Base, Single, RowsOK, UNCHANGED rows, dup \subseteq dup', lost \subseteq lost',
         \A j \in Jobs \ (dup' \cup lost') :
            (\E e \in Executors : cur[e] = j) \/ (\E i \in DOMAIN queue : queue[i] = j)
              => (\E e \in Executors : cur'[e] = j) \/ (\E i \in DOMAIN queue' : queue'[i] = j),
         \A e \in Executors : cur'[e] \in Jobs \ dup' => 
            \/ cur'[e] = cur[e] /\ pc'[e] = pc[e] /\ kind'[e] = kind[e] /\ copy'[e] = copy[e]
            \/ /\ pc'[e] = "load"
               /\ \/ cur'[e] = cur[e] /\ pc[e] = "enqueue"
                  \/ \E i \in DOMAIN queue : queue[i] = cur'[e],
         \A i \in DOMAIN queue' : queue'[i] \in Jobs \ dup' =>
            \/ \E h \in DOMAIN queue : queue'[i] = queue[h]
            \/ \E e \in Executors : queue'[i] = cur[e] /\ pc[e] = "enqueue",
         Base'
  PROVE  RowsOK'
<1> USE DEF Base, TypeOK, rows
<1>1. ASSUME NEW j \in Jobs PROVE RowOK(j)'
  BY DEF RowsOK, RowOK, Stored, Progress
<1>2. ASSUME NEW j \in Jobs PROVE Carried(j)'
  BY DEF RowsOK, Carried
<1>3. ASSUME NEW e \in Executors PROVE ExecOK(e)'
  <2> SUFFICES ASSUME cur'[e] \in Jobs \ dup', Holds(e)' PROVE ExecOK(e)'
    BY DEF ExecOK
  <2>1. CASE cur'[e] = cur[e] /\ pc'[e] = pc[e] /\ kind'[e] = kind[e] /\ copy'[e] = copy[e]
    BY <2>1 DEF RowsOK, ExecOK, Holds, Stored, Progress
  <2>2. CASE pc'[e] = "load" /\ cur'[e] = cur[e] /\ pc[e] = "enqueue"
    BY <2>2, AheadTable DEF RowsOK, ExecOK, Holds, Stored, Progress, Waiting
  <2>3. CASE pc'[e] = "load" /\ \E i \in DOMAIN queue : queue[i] = cur'[e]
    <3>1. PICK i \in DOMAIN queue : queue[i] = cur'[e] BY <2>3
    <3>2. status[queue[i]] = "pending" /\ Progress(queue[i]) = 0
      BY <3>1 DEF RowsOK, PlaceOK, RowOK, Holds, Stored
    <3> QED BY <2>3, <3>1, <3>2, AheadTable DEF ExecOK, Progress, Waiting
  <2> QED BY <2>1, <2>2, <2>3
<1>4. ASSUME NEW i \in DOMAIN queue' PROVE PlaceOK(i)'
  <2> SUFFICES ASSUME queue'[i] \in Jobs \ dup', Stored(queue'[i])
      PROVE status[queue'[i]] = "pending"
    BY DEF PlaceOK, Stored
  <2>1. CASE \E h \in DOMAIN queue : queue'[i] = queue[h]
    BY <2>1 DEF RowsOK, PlaceOK
  <2>2. CASE \E e \in Executors : queue'[i] = cur[e] /\ pc[e] = "enqueue"
    BY <2>2 DEF RowsOK, ExecOK, Holds, Waiting
  <2> QED BY <2>1, <2>2
<1> QED BY <1>1, <1>2, <1>3, <1>4 DEF RowsOK

(* Together: every step preserves RowsOK *)
LEMMA RowsOKStep ==
  ASSUME Base, Single, RowsOK, [Next]_vars, Base', Single'
  PROVE  RowsOK'
<1> USE SystemAssumption, StoreAssumption DEF SystemAssumption, StoreAssumption, Base,
    TypeOK, RunnerTypeOK
<1>1. ASSUME NEW t \in Tasks, Handle(t) PROVE RowsOK'
  BY <1>1, HandleRowsOK
<1>2. ASSUME NEW t \in Tasks, Push(t) PROVE RowsOK'
  BY <1>2, QueuePush, MoveRowsOK DEF Push, Finish, Take, Goto, ControlOK, LoopSteps,
      faults
<1>3. ASSUME NEW t \in Tasks, RunInline(t) PROVE RowsOK'
  BY <1>3, MoveRowsOK DEF RunInline, Goto, faults
<1>4. ASSUME NEW t \in Tasks, PushReplyLost(t) PROVE RowsOK'
  BY <1>4, QueuePush, MoveRowsOK DEF PushReplyLost, Goto
<1>5. ASSUME NEW j \in Jobs, DeleteAnalysis(j) PROVE RowsOK'
  BY <1>5, DeleteRowsOK
<1>6. ASSUME NEW w \in Workers, Loop(w) PROVE RowsOK'
  BY <1>6, MoveRowsOK DEF Loop, Poll, Exit, PopNothing, Restart, Goto, faults, ControlOK,
      LoopSteps
<1>7. ASSUME NEW w \in Workers, Pop(w) PROVE RowsOK'
  <2> USE <1>7 DEF Pop, Take, Goto, faults
  <2>1. cur[w] = None BY DEF ControlOK, LoopSteps
  <2>2. ASSUME NEW j \in Jobs, NEW e \in Executors, cur[e] = j
        PROVE  cur'[e] = j
    BY <2>1, <2>2
  <2>3. ASSUME NEW i \in DOMAIN queue
        PROVE  cur'[w] = queue[i] \/ \E h \in DOMAIN queue' : queue'[h] = queue[i]
    <3>1. CASE i = 1 BY <3>1, QueueParts
    <3>2. CASE i # 1 BY <3>2, QueueParts
    <3> QED BY <3>1, <3>2
  <2>4. ASSUME NEW e \in Executors
        PROVE  \/ cur'[e] = cur[e] /\ pc'[e] = pc[e] /\ kind'[e] = kind[e] /\ copy'[e] = copy[e]
               \/ pc'[e] = "load" /\ \E i \in DOMAIN queue : queue[i] = cur'[e]
    <3>1. CASE e = w BY <3>1, QueueParts
    <3>2. CASE e # w BY <3>2
    <3> QED BY <3>1, <3>2
  <2>5. ASSUME NEW i \in DOMAIN queue' PROVE \E h \in DOMAIN queue : queue'[i] = queue[h]
    BY QueueParts
  <2>6. UNCHANGED <<rows, dup, lost>> OBVIOUS
  <2> HIDE <1>7 DEF Pop, Take, Goto, faults
  <2> QED BY <2>2, <2>3, <2>4, <2>5, <2>6, MoveRowsOK
<1>8. ASSUME NEW w \in Workers, PopReplyLost(w) PROVE RowsOK'
  BY <1>8, QueueParts, MoveRowsOK DEF PopReplyLost, Goto, ControlOK, LoopSteps
<1>9. ASSUME NEW w \in Workers, Signal(w) PROVE RowsOK'
  BY <1>9, MoveRowsOK DEF Signal, control
<1>10. ASSUME NEW e \in Executors, RunStep(e) PROVE RowsOK'
  BY <1>10, RunRowsOK
<1>11. ASSUME NEW e \in Executors, Crash(e) \/ DatabaseFails(e) PROVE RowsOK'
  BY <1>11, MoveRowsOK DEF Crash, DatabaseFails, Lose, Take, Goto, Finish
<1>12. CASE UNCHANGED vars
  BY <1>12, MoveRowsOK DEF vars, control, faults
<1> QED
  BY <1>1, <1>2, <1>3, <1>4, <1>5, <1>6, <1>7, <1>8, <1>9, <1>10, <1>11, <1>12 DEF Next,
      Enqueue
-----------------------------------------------------------------------------
(* The job of an import's handler is in no other hands *)
LEMMA ImportIsAlone ==
  ASSUME Base, Single, SourceOK, NEW d \in Executors, NEW e \in Executors,
         cur[d] = cur[e], kind[e] = "supplied"
  PROVE  d = e /\ cur[e] \in Jobs \ dup
<1>1. cur[e] \in Jobs
  BY DEF Base, TypeOK, RunnerTypeOK, ControlOK, SuppliedSteps, LoopSteps, ProfileSteps, EngineSteps
<1> QED BY <1>1 DEF Single, SourceOK

(* A step that leaves data_source alone, brings no run behind link and      *)
(* takes no import in hand                                                  *)
LEMMA SourceKept ==
  ASSUME Base, Base', SourceOK, UNCHANGED <<data_source, dup>>,
         \A j \in Jobs : Stored(j)' => Stored(j),
         \A e \in Executors :
           \/ pc'[e] \notin Linked /\ kind'[e] # "supplied"
           \/ cur'[e] = cur[e] /\ kind'[e] = kind[e] /\ (pc'[e] \in Linked => pc[e] \in Linked)
  PROVE  SourceOK'
<1> SUFFICES ASSUME NEW e \in Executors
             PROVE  /\ kind'[e] = "supplied" => cur'[e] \notin dup'
                    /\ pc'[e] \in Linked /\ Holds(e)' =>
                         data_source'[cur'[e]] = IF kind'[e] = "supplied" THEN "import" ELSE Provider
  BY DEF SourceOK
<1>1. pc'[e] \in Linked => cur'[e] \in Jobs
  BY DEF Base, ControlOK, TypeOK, RunnerTypeOK, Linked, LoopSteps, EngineSteps
<1> QED BY <1>1 DEF SourceOK, Holds, Stored

(* A handler takes a new row in hand, which nobody else has *)
LEMMA SourceHandle ==
  ASSUME Base, Base', SourceOK, NEW t \in Tasks, Handle(t)
  PROVE  SourceOK'
<1>1. PICK j \in Jobs : /\ status[j] = "absent"
                        /\ \A k \in Jobs \ {j} : data_source'[k] = data_source[k] /\ status'[k] = status[k]
                        /\ pc' = [pc EXCEPT ![t] = pc'[t]] /\ pc'[t] \notin Linked
                        /\ cur' = [cur EXCEPT ![t] = j]
                        /\ kind' = [kind EXCEPT ![t] = kind'[t]]
                        /\ dup' = dup
  BY SystemAssumption
  DEF SystemAssumption, Handle, CreateAnalysis, CreateImported, RefreshAnalysis, create_job, Take, Goto, faults,
      Base, TypeOK, StoreTypeOK, RunnerTypeOK, Linked, EngineSteps
<1>2. j \notin dup /\ \A e \in Executors : cur[e] # j BY <1>1 DEF Base, KnownOK
<1> SUFFICES ASSUME NEW e \in Executors
             PROVE  /\ kind'[e] = "supplied" => cur'[e] \notin dup'
                    /\ pc'[e] \in Linked /\ Holds(e)' =>
                         data_source'[cur'[e]] = IF kind'[e] = "supplied" THEN "import" ELSE Provider
  BY DEF SourceOK
<1>3. CASE e = t BY <1>1, <1>2, <1>3 DEF Base, TypeOK, RunnerTypeOK
<1>4. CASE e # t
  <2>1. pc'[e] = pc[e] /\ cur'[e] = cur[e] /\ kind'[e] = kind[e]
    BY <1>1, <1>4 DEF Base, TypeOK, RunnerTypeOK
  <2>2. pc'[e] \in Linked => cur[e] \in Jobs \ {j}
    BY <1>2, <2>1 DEF Base, ControlOK, TypeOK, RunnerTypeOK, Linked, LoopSteps, EngineSteps
  <2> QED BY <1>1, <2>1, <2>2 DEF SourceOK, Holds, Stored
<1> QED BY <1>3, <1>4

(* A lost reply doubles a queued job, never an import *)
LEMMA SourcePushReplyLost ==
  ASSUME Base, Single, SourceOK, NEW t \in Tasks, PushReplyLost(t)
  PROVE  SourceOK'
<1>1. /\ pc[t] = "enqueue" /\ pc' = [pc EXCEPT ![t] = "load"] /\ dup' = dup \cup {cur[t]}
      /\ UNCHANGED <<cur, kind, rows>> /\ t \in Executors
  BY SystemAssumption DEF PushReplyLost, Goto, SystemAssumption
<1> SUFFICES ASSUME NEW e \in Executors
             PROVE  /\ kind[e] = "supplied" => cur[e] \notin dup'
                    /\ pc'[e] \in Linked /\ Holds(e)' =>
                         data_source'[cur[e]] = IF kind[e] = "supplied" THEN "import" ELSE Provider
  BY <1>1 DEF SourceOK
<1>2. ASSUME kind[e] = "supplied" PROVE cur[e] # cur[t]
  <2>1. e # t BY <1>1, <1>2 DEF Base, ControlOK, SuppliedSteps, ProfileSteps, EngineSteps
  <2> QED BY <1>1, <1>2, <2>1, ImportIsAlone
<1>3. pc'[e] \in Linked => pc[e] \in Linked
  BY <1>1 DEF Base, TypeOK, RunnerTypeOK, Linked, EngineSteps
<1> QED BY <1>1, <1>2, <1>3 DEF SourceOK, Holds, Stored, rows

(* A step of a run other than link neither writes a source nor passes link *)
LEMMA SourceRun ==
  ASSUME Base, Base', SourceOK, NEW e \in Executors, RunStep(e), ~Link(e), ~LinkSupplied(e)
  PROVE  SourceOK'
<1> USE DEF Base, TypeOK, StoreTypeOK, RunnerTypeOK, Take, Goto, Finish, Holds, Stored, JobStatus, rows, faults, RunStep
<1>1. UNCHANGED <<data_source, dup>>
  BY DEF Run, Skip, Load, ValidateSupplied, UpdateProgress, update_progress, SelectProfile, InsertProfile,
         insert_profile, UpdateProfile, CountPosts, Complete, store_result, Fail, mark_failed, Stale, ResultRefused
<1>2. ASSUME NEW j \in Jobs, Stored(j)' PROVE Stored(j)
  <2>1. CASE ValidateSupplied(e) BY <1>2, <2>1 DEF ValidateSupplied, update_progress
  <2>2. CASE UpdateProgress(e) BY <1>2, <2>2 DEF UpdateProgress, update_progress
  <2>3. CASE Complete(e) \/ Fail(e)
    BY <1>2, <2>3 DEF Complete, store_result, Fail, mark_failed
  <2>4. CASE InsertProfile(e) BY <1>2, <2>4 DEF InsertProfile, insert_profile
  <2>5. CASE Skip(e) \/ Load(e) \/ SelectProfile(e) \/ UpdateProfile(e) \/ CountPosts(e) \/ Stale(e) \/ ResultRefused(e)
    BY <1>2, <2>5 DEF Skip, Load, SelectProfile, UpdateProfile, CountPosts, Stale, ResultRefused
  <2> QED BY <2>1, <2>2, <2>3, <2>4, <2>5 DEF Run
<1>3. \A d \in Executors \ {e} : pc'[d] = pc[d] /\ cur'[d] = cur[d] /\ kind'[d] = kind[d]
  BY DEF Run, Skip, Load, ValidateSupplied, UpdateProgress, SelectProfile, InsertProfile,
         UpdateProfile, CountPosts, Complete, Fail, Stale, ResultRefused
<1>4. \/ pc'[e] \notin Linked /\ kind'[e] # "supplied"
      \/ cur'[e] = cur[e] /\ kind'[e] = kind[e] /\ (pc'[e] \in Linked => pc[e] \in Linked)
  <2> USE DEF Linked, EngineSteps
  <2>1. CASE Skip(e) \/ Complete(e) \/ Fail(e) \/ Stale(e) \/ ResultRefused(e)
    BY <2>1 DEF Skip, Complete, Fail, Stale, ResultRefused, None
  <2>2. CASE Load(e) \/ ValidateSupplied(e) \/ SelectProfile(e) \/ InsertProfile(e) \/ UpdateProfile(e)
    BY <2>2 DEF Load, ValidateSupplied, SelectProfile, InsertProfile, UpdateProfile
  <2>3. CASE UpdateProgress(e) BY <2>3 DEF UpdateProgress, Next_step, StageSteps
  <2>4. CASE CountPosts(e) BY <2>4 DEF CountPosts, Next_step
  <2> QED BY <2>1, <2>2, <2>3, <2>4 DEF Run
<1> HIDE DEF Base, TypeOK, StoreTypeOK, RunnerTypeOK, Take, Goto, Finish, Holds, Stored, JobStatus, rows, faults, RunStep
<1> QED BY <1>1, <1>2, <1>3, <1>4, SourceKept

(* link gives the row the run's source; whoever else has the row in hand    *)
(* reads the same source                                                    *)
LEMMA SourceLink ==
  ASSUME Base, Single, SourceOK, NEW e \in Executors, Link(e) \/ LinkSupplied(e), dup' = dup
  PROVE  SourceOK'
<1> DEFINE source == IF kind[e] = "supplied" THEN "import" ELSE Provider
<1>1. /\ cur[e] \in Jobs
      /\ data_source' = [data_source EXCEPT ![cur[e]] = source]
      /\ UNCHANGED <<cur, kind, status>>
      /\ \A d \in Executors \ {e} : pc'[d] = pc[d]
  BY DEF Base, ControlOK, TypeOK, RunnerTypeOK, LoopSteps, Link, LinkSupplied, set_source, Goto
<1> SUFFICES ASSUME NEW d \in Executors
             PROVE  /\ kind[d] = "supplied" => cur[d] \notin dup
                    /\ pc'[d] \in Linked /\ Stored(cur[d]) =>
                         data_source'[cur[d]] = IF kind[d] = "supplied" THEN "import" ELSE Provider
  BY <1>1 DEF SourceOK, Holds, Stored
<1>2. CASE cur[d] = cur[e]
  <2>1. kind[d] = "supplied" <=> kind[e] = "supplied" BY <1>2, ImportIsAlone
  <2>2. data_source'[cur[d]] = source BY <1>1, <1>2 DEF Base, TypeOK, StoreTypeOK
  <2> QED BY <2>1, <2>2 DEF SourceOK
<1>3. CASE cur[d] # cur[e]
  <2>1. pc'[d] = pc[d] BY <1>1, <1>3
  <2>2. pc[d] \in Linked => cur[d] \in Jobs
    BY DEF Base, ControlOK, TypeOK, RunnerTypeOK, Linked, LoopSteps, EngineSteps
  <2> QED BY <1>1, <1>3, <2>1, <2>2 DEF SourceOK, Holds, Base, TypeOK, StoreTypeOK
<1> QED BY <1>2, <1>3

(* No step of the system separates a run from the source of its row *)
LEMMA SourceOKStep == Base /\ Single /\ SourceOK /\ [Next]_vars => SourceOK'
<1> SUFFICES ASSUME Base, Single, SourceOK, [Next]_vars PROVE SourceOK'
  OBVIOUS
<1>1. Base' BY BaseStep
<1>2. ASSUME NEW t \in Tasks, Push(t) \/ RunInline(t) PROVE SourceOK'
  <2>1. /\ UNCHANGED <<data_source, status, dup>>
        /\ \A e \in Executors : \/ pc'[e] \notin Linked /\ kind'[e] # "supplied"
                                \/ cur'[e] = cur[e] /\ kind'[e] = kind[e] /\ (pc'[e] \in Linked => pc[e] \in Linked)
    BY <1>2 DEF Push, RunInline, Finish, Take, Goto, rows, faults, Base, TypeOK, RunnerTypeOK, Linked, EngineSteps, None
  <2> QED BY <1>1, <2>1, SourceKept DEF Stored
<1>3. ASSUME NEW j \in Jobs, DeleteAnalysis(j) PROVE SourceOK'
  <2>1. /\ UNCHANGED <<data_source, dup, pc, cur, kind>>
        /\ \A k \in Jobs : Stored(k)' => Stored(k)
    BY <1>3 DEF DeleteAnalysis, delete_job, control, faults, Stored, JobStatus, Base, TypeOK, StoreTypeOK
  <2> QED BY <1>1, <2>1, SourceKept
<1>4. ASSUME NEW w \in Workers, Loop(w) \/ Pop(w) \/ PopReplyLost(w) \/ Signal(w) PROVE SourceOK'
  <2>1. /\ UNCHANGED <<data_source, status, dup>>
        /\ \A e \in Executors : \/ pc'[e] \notin Linked /\ kind'[e] # "supplied"
                                \/ cur'[e] = cur[e] /\ kind'[e] = kind[e] /\ (pc'[e] \in Linked => pc[e] \in Linked)
    BY <1>4 DEF Loop, Poll, Exit, PopNothing, Restart, Pop, PopReplyLost, Signal, Take, Goto, control, rows, faults,
                Base, TypeOK, RunnerTypeOK, Linked, EngineSteps
  <2> QED BY <1>1, <2>1, SourceKept DEF Stored
<1>5. ASSUME NEW e \in Executors, Crash(e) \/ DatabaseFails(e) PROVE SourceOK'
  <2>1. /\ UNCHANGED <<data_source, status, dup>>
        /\ \A d \in Executors : \/ pc'[d] \notin Linked /\ kind'[d] # "supplied"
                                \/ cur'[d] = cur[d] /\ kind'[d] = kind[d] /\ (pc'[d] \in Linked => pc[d] \in Linked)
    BY <1>5 DEF Crash, DatabaseFails, Lose, Finish, Take, Goto, rows, Base, TypeOK, RunnerTypeOK, Linked, EngineSteps, None
  <2> QED BY <1>1, <2>1, SourceKept DEF Stored
<1>6. ASSUME NEW e \in Executors, RunStep(e) PROVE SourceOK'
  BY <1>1, <1>6, SourceRun, SourceLink DEF RunStep, faults
<1>7. CASE UNCHANGED vars
  BY <1>7, <1>1, SourceKept DEF vars, rows, control, faults, Stored
<1> QED
  BY <1>1, <1>2, <1>3, <1>4, <1>5, <1>6, <1>7, SourceHandle, SourcePushReplyLost DEF Next, Enqueue
-----------------------------------------------------------------------------
(* LostOK executor by executor, place by place *)
Gone ==
  /\ \A e \in Executors : cur[e] \notin lost \ dup
  /\ \A i \in DOMAIN queue : queue[i] \notin lost \ dup

(* Nobody has what a fault took away: its only owner lost it, and only an    *)
(* owner hands a job on                                                      *)
LEMMA GoneStep == Base /\ Single /\ Gone /\ [Next]_vars => Gone'
<1> SUFFICES ASSUME Base, Single, Gone, [Next]_vars PROVE Gone'
  OBVIOUS
<1> USE StoreAssumption, SystemAssumption DEF StoreAssumption, SystemAssumption, Base,
    TypeOK, RunnerTypeOK, Gone
<1>1. ASSUME NEW t \in Tasks, Handle(t) PROVE Gone'
  BY <1>1 DEF Handle, CreateAnalysis, CreateImported, RefreshAnalysis, create_job, Take, faults,
     KnownOK
<1>2. ASSUME NEW t \in Tasks, Push(t) PROVE Gone'
  BY <1>2, QueuePush DEF Push, Finish, Take, ControlOK, LoopSteps, KnownOK, faults
<1>3. ASSUME NEW t \in Tasks, RunInline(t) PROVE Gone'
  BY <1>3 DEF RunInline, faults
<1>4. ASSUME NEW t \in Tasks, PushReplyLost(t) PROVE Gone'
  BY <1>4, QueuePush DEF PushReplyLost, ControlOK, LoopSteps
<1>5. ASSUME NEW j \in Jobs, DeleteAnalysis(j) PROVE Gone'
  BY <1>5 DEF DeleteAnalysis, control, faults
<1>6. ASSUME NEW w \in Workers, Loop(w) PROVE Gone'
  BY <1>6 DEF Loop, Poll, Exit, PopNothing, Restart, faults
<1>7. ASSUME NEW w \in Workers, Pop(w) PROVE Gone'
  BY <1>7, QueueParts DEF Pop, Take, faults
<1>8. ASSUME NEW w \in Workers, PopReplyLost(w) PROVE Gone'
  BY <1>8, QueueParts DEF PopReplyLost, Single
<1>9. ASSUME NEW w \in Workers, Signal(w) PROVE Gone'
  BY <1>9 DEF Signal, control
<1>10. ASSUME NEW e \in Executors, RunStep(e) PROVE Gone'
  BY <1>10, RunFrames DEF RunFrame, KnownOK
<1>11. ASSUME NEW e \in Executors, Crash(e) \/ DatabaseFails(e) PROVE Gone'
  BY <1>11 DEF Crash, DatabaseFails, Lose, Take, Finish, Single, KnownOK
<1>12. CASE UNCHANGED vars
  BY <1>12 DEF vars, control, faults
<1> QED
  BY <1>1, <1>2, <1>3, <1>4, <1>5, <1>6, <1>7, <1>8, <1>9, <1>10, <1>11, <1>12 DEF Next,
      Enqueue
-----------------------------------------------------------------------------
(* The invariant as stated and the parts it was proved in *)
LEMMA SystemInvParts == SystemInv <=> Base /\ Single /\ RowsOK /\ SourceOK /\ Gone
<1>1. TypeOK => (LostOK <=> Gone) BY DEF LostOK, Gone, Holders, Places, TypeOK
<1> QED BY <1>1, SingleIsSingleRunner, RowsOKIsInv DEF SystemInv, Base

(* The empty database satisfies the invariant *)
LEMMA SystemInvInit == Init => SystemInv
<1> SUFFICES ASSUME Init PROVE Base /\ Single /\ RowsOK /\ SourceOK /\ Gone
  BY SystemInvParts
<1>1. Base BY BaseInit
<1>2. Single BY StoreAssumption DEF Init, RunnerInit, Single, StoreAssumption
<1>3. RowsOK
  BY StoreAssumption
  DEF Init, StoreInit, RunnerInit, RowsOK, RowOK, Carried, ExecOK, PlaceOK, Stored,
      JobStatus, StoreAssumption
<1>4. SourceOK BY DEF Init, RunnerInit, SourceOK, Linked, EngineSteps, None
<1>5. Gone BY DEF Init, Gone
<1> QED BY <1>1, <1>2, <1>3, <1>4, <1>5

(* Every step of handlers, queue, workers, runs and faults preserves it *)
LEMMA SystemInvStep == SystemInv /\ [Next]_vars => SystemInv'
<1> SUFFICES ASSUME SystemInv, [Next]_vars PROVE SystemInv'
  OBVIOUS
<1>1. Base /\ Single /\ RowsOK /\ SourceOK /\ Gone BY SystemInvParts
<1>2. Base' BY <1>1, BaseStep
<1>3. Single' BY <1>1, SingleStep
<1>4. RowsOK' BY <1>1, <1>2, <1>3, RowsOKStep
<1>5. SourceOK' BY <1>1, SourceOKStep
<1>6. Gone' BY <1>1, GoneStep
<1> HIDE DEF Base, Single, RowsOK, SourceOK, Gone
<1>7. (SystemInv <=> Base /\ Single /\ RowsOK /\ SourceOK /\ Gone)' BY SystemInvParts, PTL
<1> QED BY <1>2, <1>3, <1>4, <1>5, <1>6, <1>7

(* The inductive invariant holds in every state the handlers, the queue,   *)
(* the workers and any number of faults can reach.                         *)
THEOREM Invariance == Spec => []SystemInv
  BY SystemInvInit, SystemInvStep, PTL DEF Spec

(* Every column keeps the values the models declare for it, and every      *)
(* coroutine is at a step of the code.                                     *)
THEOREM TypeCorrect == Spec => []TypeOK
<1>1. SystemInv => TypeOK BY DEF SystemInv
<1> QED BY <1>1, Invariance, PTL

(* enqueue, BRPOP and the inline fallback hand a job on and never copy it, *)
(* unless the reply of an LPUSH is lost.                                   *)
THEOREM RunsAreSingle == Spec => []SingleRunner
<1>1. SystemInv => SingleRunner BY DEF SystemInv
<1> QED BY <1>1, Invariance, PTL

(* No job is left pending or running with nobody to run it, unless a crash *)
(* or a database error took it: not by the shutdown of a worker, not by an *)
(* error path of run_job, not by an empty pop.                             *)
THEOREM NothingStranded == Spec => []NoneStranded
<1>1. SystemInv => NoneStranded BY DEF SystemInv
<1> QED BY <1>1, Invariance, PTL

(* get_results finds the result of every job it is told is completed, even *)
(* of jobs delivered twice.                                                *)
THEOREM CompletedReadable == Spec => []CompletedHasResult
<1>1. SystemInv => CompletedHasResult BY DEF SystemInv
<1> QED BY <1>1, Invariance, PTL

(* Status, progress, error code and result row of a job always tell the    *)
(* same outcome, although different transactions write them.               *)
THEOREM OutcomesAgree == Spec => []OutcomeAgrees
<1>1. SystemInv => OutcomeAgrees BY DEF SystemInv
<1> QED BY <1>1, Invariance, PTL

(* A run that still has a deleted job writes nothing for it: its updates   *)
(* match no row and its result is never stored.                            *)
THEOREM DeletedStaysGone == Spec => []DeletedIsGone
<1>1. SystemInv => DeletedIsGone BY DEF SystemInv
<1> QED BY <1>1, Invariance, PTL

(* The source a job shows is the one its run has read, also when a refresh  *)
(* sends an import to the provider, and when two runs of a job overlap: an  *)
(* import, the only run that would disagree, is never run twice.            *)
THEOREM SourceIsTold == Spec => []SourceMatchesRun
<1>1. SystemInv => SourceMatchesRun
  BY DEF SystemInv, SourceOK, SourceMatchesRun, Linked
<1> QED BY <1>1, Invariance, PTL

-----------------------------------------------------------------------------
(* The stages a step of a run can write *)
LEMMA RunStage ==
  ASSUME Base, NEW e \in Executors, RunStep(e), NEW j \in Jobs, cur[e] = j
  PROVE  \/ stage'[j] = stage[j]
         \/ Stored(j) /\ pc[e] \in StageSteps \cup {"done"} /\ stage'[j] = pc[e]
<1> USE DEF Base, TypeOK, StoreTypeOK, rows, RunStep, Holds
<1>1. CASE ValidateSupplied(e) BY <1>1 DEF ValidateSupplied, update_progress, StageSteps
<1>2. CASE UpdateProgress(e) BY <1>2 DEF UpdateProgress, update_progress
<1>3. CASE Complete(e) BY <1>3 DEF Complete, store_result
<1>4. CASE InsertProfile(e) \/ Link(e) \/ LinkSupplied(e) \/ Fail(e)
  BY <1>4 DEF InsertProfile, insert_profile, Link, LinkSupplied, set_source, Fail,
      mark_failed
<1>5. CASE Skip(e) \/ Load(e) \/ SelectProfile(e) \/ UpdateProfile(e) \/ CountPosts(e) \/ Stale(e) \/ ResultRefused(e)
  BY <1>5 DEF Skip, Load, SelectProfile, UpdateProfile, CountPosts, Stale, ResultRefused
<1> QED BY <1>1, <1>2, <1>3, <1>4, <1>5 DEF Run

(* Outside Handle, Delete and the runs no step writes a row *)
LEMMA OtherSteps ==
  ASSUME [Next]_vars,
         \A t \in Tasks : ~Handle(t), \A j \in Jobs : ~DeleteAnalysis(j),
             \A e \in Executors : ~RunStep(e)
  PROVE  UNCHANGED rows
  BY DEF Next, Enqueue, Push, RunInline, PushReplyLost, Loop, Poll, Exit, PopNothing,
      Restart, Pop,
         PopReplyLost, Signal, Crash, DatabaseFails, Lose, vars

(* The percentage of a row whose stage stays *)
LEMMA SameStage ==
  ASSUME StoreTypeOK, NEW j \in Jobs, stage'[j] = stage[j]
  PROVE  Progress(j)' = Progress(j) /\ Progress(j)' >= Progress(j)
<1>1. Progress(j) \in 0..100 BY ProgressTable DEF StoreTypeOK, Progress
<1>2. Progress(j)' = Progress(j) BY DEF Progress
<1> QED BY <1>1, <1>2

(* The only run of a job is ahead of its row, and a settled job has no run *)
LEMMA Forward ==
  ASSUME SystemInv, [Next]_vars, NEW j \in Jobs \ dup'
  PROVE  Frozen(j) /\ Progress(j)' >= Progress(j)
<1> USE DEF Unmoved
<1>1. Base /\ Single /\ RowsOK BY SystemInvParts
<1>2. StoreTypeOK BY <1>1 DEF Base, TypeOK
<1>3. Progress(j) \in 0..100 BY <1>2, ProgressTable DEF Progress, StoreTypeOK
<1>4. ASSUME NEW t \in Tasks, Handle(t)
      PROVE  stage'[j] = stage[j] /\ (status'[j] = status[j] \/ ~Settled(j))
  BY <1>2, <1>4 DEF Handle, CreateAnalysis, CreateImported, RefreshAnalysis, create_job,
      Settled, StoreTypeOK
<1>5. ASSUME NEW k \in Jobs, DeleteAnalysis(k)
      PROVE  stage'[j] = stage[j] /\ (status'[j] = status[j] \/ status'[j] = "deleted")
  BY <1>2, <1>5 DEF DeleteAnalysis, delete_job, StoreTypeOK
<1>6. CASE UNCHANGED rows
  BY <1>2, <1>6, SameStage DEF rows, Frozen
<1>7. ASSUME NEW e \in Executors, RunStep(e) PROVE Frozen(j) /\ Progress(j)' >= Progress(j)
  <2>1. RunFrame(e) BY <1>1, <1>7, RunFrames
  <2>2. CASE cur[e] # j
    <3>1. stage'[j] = stage[j] /\ status'[j] = status[j] BY <2>1, <2>2 DEF RunFrame
    <3> QED BY <1>2, <3>1, SameStage DEF Frozen
  <2>3. CASE cur[e] = j
    <3>1. j \notin dup BY <2>1 DEF RunFrame
    <3>2. ~Settled(j)
      BY <1>1, <2>3, <3>1 DEF RowsOK, ExecOK, Holds, Stored, Settled, JobStatus
    <3>3. CASE stage'[j] = stage[j] BY <1>2, <3>2, <3>3, SameStage DEF Frozen
    <3>4. CASE Stored(j) /\ pc[e] \in StageSteps \cup {"done"} /\ stage'[j] = pc[e]
      <4>1. Progress(j) < Ahead[pc[e]]
        BY <1>1, <2>3, <3>1, <3>4 DEF RowsOK, ExecOK, Holds
      <4>2. Progress(j)' = Ahead[pc[e]] BY <3>4, StageThenNext, AheadTable, ProgressTable
          DEF Progress
      <4>3. Progress(j)' \in 0..100 BY <3>4, ProgressTable, StageNames DEF Progress,
          StageSteps, EngineSteps
      <4>4. Progress(j)' >= Progress(j) BY <1>3, <4>1, <4>2, <4>3
      <4> QED BY <3>2, <4>4 DEF Frozen
    <3> QED BY <1>1, <1>7, <2>3, <3>3, <3>4, RunStage
  <2> QED BY <2>2, <2>3
<1> QED BY <1>2, <1>4, <1>5, <1>6, <1>7, OtherSteps, SameStage DEF Frozen

(* What useProgress saw when it stopped polling is what the job keeps: no  *)
(* late write of a run changes a completed or failed job.                  *)
THEOREM FinalIsFinal == Spec => TerminalIsFinal
<1>1. SystemInv /\ [Next]_vars => [\A j \in Jobs \ dup' : Frozen(j)]_vars
  BY Forward
<1> QED BY <1>1, Invariance, PTL DEF Spec, TerminalIsFinal

(* The stages run_job and complete_supplied_job write never move the       *)
(* progress bar back, whoever else is running.                             *)
THEOREM ProgressNeverFalls == Spec => ProgressMonotone
<1>1. SystemInv /\ [Next]_vars => [\A j \in Jobs \ dup' : Progress(j)' >= Progress(j)]_vars
  BY Forward
<1> QED BY <1>1, Invariance, PTL DEF Spec, ProgressMonotone

(* No step moves a job that a fault took away, but for a delete: whoever     *)
(* writes has its job in hand                                                *)
LEMMA LostStays ==
  ASSUME SystemInv, [Next]_vars, NEW j \in lost \ dup
  PROVE  Unmoved(j)
<1>1. Base /\ Gone BY SystemInvParts
<1>2. StoreTypeOK /\ j \in Jobs /\ status[j] # "absent" BY <1>1 DEF Base, TypeOK, KnownOK
<1>3. ASSUME NEW t \in Tasks, Handle(t) PROVE status'[j] = status[j] /\ stage'[j] = stage[j]
  BY <1>2, <1>3 DEF Handle, CreateAnalysis, CreateImported, RefreshAnalysis, create_job, StoreTypeOK
<1>4. ASSUME NEW k \in Jobs, DeleteAnalysis(k)
      PROVE  stage'[j] = stage[j] /\ (status'[j] = status[j] \/ status'[j] = "deleted")
  BY <1>2, <1>4 DEF DeleteAnalysis, delete_job, StoreTypeOK
<1>5. CASE UNCHANGED rows BY <1>5 DEF rows, Unmoved, Progress
<1>6. ASSUME NEW e \in Executors, RunStep(e) PROVE status'[j] = status[j] /\ stage'[j] = stage[j]
  <2>1. cur[e] # j BY <1>1 DEF Gone
  <2> QED BY <1>1, <1>2, <1>6, <2>1, RunFrames DEF RunFrame
<1> QED BY <1>2, <1>3, <1>4, <1>5, <1>6, OtherSteps, SameStage DEF Unmoved

(* Whoever takes a job off the queue is its last hope: what a lost reply,    *)
(* a crash or a database error has taken away stays as it was, whatever the  *)
(* workers, the handlers and their restarts do afterwards.                    *)
THEOREM LostForGood == Spec => LostIsFinal
<1>1. SystemInv /\ [Next]_vars => [\A j \in lost \ dup : Unmoved(j)]_vars
  BY LostStays
<1> QED BY <1>1, Invariance, PTL DEF Spec, LostIsFinal
-----------------------------------------------------------------------------
(* What a committed transaction may do to the status of a job that has been *)
(* delivered once, and to that of any job                                    *)
OnceMoves(j) ==
  \/ status'[j] = status[j]
  \/ status[j] = "absent" /\ status'[j] = "pending"
  \/ status[j] = "pending" /\ status'[j] = "running"
  \/ status[j] = "running" /\ status'[j] \in {"completed", "failed"}
  \/ Stored(j) /\ status'[j] = "deleted"

AnyMoves(j) ==
  \/ status'[j] = status[j]
  \/ status[j] = "absent" /\ status'[j] = "pending"
  \/ Stored(j) /\ status'[j] \in {"running", "completed", "failed", "deleted"}

(* The statuses a step of a run can write *)
LEMMA RunStatus ==
  ASSUME Base, NEW e \in Executors, RunStep(e), NEW j \in Jobs, cur[e] = j
  PROVE  \/ status'[j] = status[j]
         \/ Holds(e) /\ ValidateSupplied(e) /\ status'[j] = "running"
         \/ Holds(e) /\ UpdateProgress(e) /\ copy[e] = "pending" /\ status'[j] = "running"
         \/ Holds(e) /\ pc[e] \notin Waiting /\ status'[j] \in {"completed", "failed"}
<1> USE DEF Base, TypeOK, StoreTypeOK, rows, RunStep
<1>1. CASE ValidateSupplied(e) BY <1>1 DEF ValidateSupplied, update_progress
<1>2. CASE UpdateProgress(e) BY <1>2 DEF UpdateProgress, update_progress
<1>3. CASE Complete(e) BY <1>3 DEF Complete, store_result, Waiting
<1>4. CASE Fail(e)
  <2>1. pc[e] \notin Waiting
    BY <1>4 DEF Fail, Raises, StageSteps, EngineSteps, Waiting
  <2> QED BY <1>4, <2>1 DEF Fail, mark_failed
<1>5. CASE \/ Skip(e) \/ Load(e) \/ SelectProfile(e) \/ InsertProfile(e) \/ UpdateProfile(e)
           \/ Link(e) \/ LinkSupplied(e) \/ CountPosts(e) \/ Stale(e) \/ ResultRefused(e)
  BY <1>5 DEF Skip, Load, SelectProfile, InsertProfile, insert_profile, UpdateProfile, Link,
     LinkSupplied, set_source, CountPosts, Stale, ResultRefused
<1> QED BY <1>1, <1>2, <1>3, <1>4, <1>5 DEF Run

(* A step moves a status as it may *)
LEMMA Moves ==
  ASSUME SystemInv, [Next]_vars, NEW j \in Jobs
  PROVE  AnyMoves(j) /\ (j \notin dup' => OnceMoves(j))
<1>1. Base /\ Single /\ RowsOK BY SystemInvParts
<1>2. StoreTypeOK BY <1>1 DEF Base, TypeOK
<1> USE DEF AnyMoves, OnceMoves
<1>3. ASSUME NEW t \in Tasks, Handle(t) PROVE AnyMoves(j) /\ OnceMoves(j)
  BY <1>2, <1>3 DEF Handle, CreateAnalysis, CreateImported, RefreshAnalysis, create_job, StoreTypeOK
<1>4. ASSUME NEW k \in Jobs, DeleteAnalysis(k) PROVE AnyMoves(j) /\ OnceMoves(j)
  BY <1>2, <1>4 DEF DeleteAnalysis, delete_job, StoreTypeOK
<1>5. CASE UNCHANGED rows BY <1>5 DEF rows
<1>6. ASSUME NEW e \in Executors, RunStep(e)
      PROVE  AnyMoves(j) /\ (j \notin dup' => OnceMoves(j))
  <2>1. RunFrame(e) BY <1>1, <1>6, RunFrames
  <2>2. CASE cur[e] # j BY <2>1, <2>2 DEF RunFrame
  <2>3. CASE cur[e] = j
    <3>1. j \notin dup' => j \notin dup BY <2>1 DEF RunFrame
    <3>2. ASSUME j \notin dup, Holds(e)
          PROVE  /\ status[j] = IF pc[e] \in Waiting THEN "pending" ELSE "running"
                 /\ pc[e] = "validating" /\ kind[e] = "provider" => copy[e] = "pending"
      BY <1>1, <2>3, <3>2 DEF RowsOK, ExecOK, Holds
    <3>3. CASE Holds(e) /\ ValidateSupplied(e) /\ status'[j] = "running"
      BY <2>3, <3>1, <3>2, <3>3 DEF ValidateSupplied, Waiting, Holds
    <3>4. CASE Holds(e) /\ UpdateProgress(e) /\ status'[j] = "running"
      BY <2>3, <3>1, <3>2, <3>4 DEF Holds
    <3>5. CASE Holds(e) /\ pc[e] \notin Waiting /\ status'[j] \in {"completed", "failed"}
      BY <2>3, <3>1, <3>2, <3>5 DEF Holds
    <3> QED BY <1>1, <1>6, <2>3, <3>3, <3>4, <3>5, RunStatus
  <2> QED BY <2>2, <2>3
<1> QED BY <1>3, <1>4, <1>5, <1>6, OtherSteps

(* What the rest of the application may rely on, the results page of        *)
(* AnalysesApi among it: a job delivered once goes from pending to running  *)
(* to completed or failed and nowhere else (run_job, complete_supplied_job),*)
(* and no job, however often it is run, turns pending again or comes back   *)
(* after it was deleted.                                                     *)
THEOREM StatusSteps ==
  Spec => [][\A j \in Jobs : AnyMoves(j) /\ (j \notin dup' => OnceMoves(j))]_vars
<1>1. SystemInv /\ [Next]_vars
        => [\A j \in Jobs : AnyMoves(j) /\ (j \notin dup' => OnceMoves(j))]_vars
  BY Moves
<1> QED BY <1>1, Invariance, PTL DEF Spec

-----------------------------------------------------------------------------
(* The refinement mapping for the percentages *)
percent == [j \in Jobs |-> Progress(j)]

(* Without a budget of lost LPUSH replies no job is delivered twice *)
LEMMA NoDup ==
  ASSUME MaxDups = 0
  PROVE  Spec => [](dup = {})
<1>1. Init => dup = {} BY DEF Init
<1>2. dup = {} /\ [Next]_vars => (dup = {})'
  BY FS_EmptySet
  DEF Next, Handle, CreateAnalysis, CreateImported, RefreshAnalysis, DeleteAnalysis,
      Enqueue, Push, RunInline,
      PushReplyLost, Loop, Poll, Exit, PopNothing, Restart, Pop, PopReplyLost, Signal,
          RunStep, Crash,
      DatabaseFails, Lose, faults, vars
<1> QED BY <1>1, <1>2, PTL DEF Spec

(* What one update of a stage does to the percentages *)
LEMMA Reported ==
  ASSUME StoreTypeOK, NEW j \in Jobs, NEW s \in Stages, stage' = [stage EXCEPT ![j] = s]
  PROVE  percent' = [percent EXCEPT ![j] = STAGE_PROGRESS[s]]
  BY DEF StoreTypeOK, percent, Progress

(* No stage written, no percentage changed *)
LEMMA SamePercent ==
  ASSUME stage' = stage
  PROVE  percent' = percent
  BY DEF percent, Progress

(* A step of a run starts, advances, completes or fails its job, or a client *)
(* sees nothing of it                                                      *)
LEMMA RunImplements ==
  ASSUME SystemInv, dup = {}, NEW e \in Executors, RunStep(e)
  PROVE  [Lifecycle!Next]_(Lifecycle!view)
<1>1. Base /\ Single /\ RowsOK BY SystemInvParts
<1>2. StoreTypeOK BY <1>1 DEF Base, TypeOK
<1>3. ASSUME UNCHANGED <<status, stage, result>> PROVE [Lifecycle!Next]_(Lifecycle!view)
  BY <1>3, SamePercent DEF Lifecycle!view, percent
<1>4. ASSUME NEW j \in Jobs,
             Lifecycle!Start(j) \/ Lifecycle!Advance(j) \/ Lifecycle!Complete(j) \/ Lifecycle!Fail(j)
      PROVE  [Lifecycle!Next]_(Lifecycle!view)
  BY <1>4 DEF Lifecycle!Next
<1>5. ASSUME pc[e] \in RunSteps
      PROVE  cur[e] \in Jobs
  BY <1>1, <1>5
  DEF Base, ControlOK, TypeOK, RunnerTypeOK, LoopSteps, RunSteps, ProfileSteps, StageSteps,
      EngineSteps
<1>6. ASSUME NEW j \in Jobs, cur[e] = j, Holds(e)
      PROVE  /\ status[j] = IF pc[e] \in Waiting THEN "pending" ELSE "running"
             /\ Progress(j) < Ahead[pc[e]]
             /\ pc[e] = "validating" /\ kind[e] = "provider" => copy[e] = "pending"
             /\ percent[j] = Progress(j) /\ Progress(j) \in 0..100
  BY <1>1, <1>2, <1>6, ProgressTable DEF RowsOK, ExecOK, percent, StoreTypeOK, Progress
<1>7. CASE ValidateSupplied(e)
  <2>1. CASE ~Holds(e) BY <1>3, <1>7, <2>1 DEF ValidateSupplied, rows
  <2>2. CASE Holds(e)
    <3>1. PICK j \in Jobs : cur[e] = j BY <1>5, <1>7 DEF ValidateSupplied, RunSteps,
        StageSteps
    <3>2. status[j] = "pending" BY <1>6, <1>7, <2>2, <3>1 DEF ValidateSupplied, Waiting
    <3>3. /\ status' = [status EXCEPT ![j] = "running"] /\ result' = result
          /\ stage' = [stage EXCEPT ![j] = "validating"]
      BY <1>7, <2>2, <3>1, <3>2 DEF ValidateSupplied, update_progress
    <3>4. percent' = [percent EXCEPT ![j] = 5] BY <1>2, <3>3, Reported, StageNames,
        ProgressTable
    <3>5. Lifecycle!Start(j) BY <3>2, <3>3, <3>4 DEF Lifecycle!Start, Lifecycle!Move,
        Lifecycle!Report, percent
    <3> QED BY <1>4, <3>5
  <2> QED BY <2>1, <2>2
<1>8. CASE UpdateProgress(e)
  <2>1. PICK j \in Jobs : cur[e] = j BY <1>5, <1>8 DEF UpdateProgress, RunSteps
  <2>2. /\ pc[e] \in StageSteps /\ Holds(e) /\ result' = result
        /\ stage' = [stage EXCEPT ![j] = pc[e]]
        /\ status' = IF copy[e] = "pending" THEN [status EXCEPT ![j] = "running"] ELSE status
        /\ pc[e] = "validating" => kind[e] = "provider"
    BY <1>8, <2>1 DEF UpdateProgress, update_progress
  <2>3. /\ percent' = [percent EXCEPT ![j] = STAGE_PROGRESS[pc[e]]]
        /\ STAGE_PROGRESS[pc[e]] \in 1..99
        /\ STAGE_PROGRESS[pc[e]] = Ahead[pc[e]]
    <3>1. pc[e] \in Stages BY <2>2, StageNames DEF StageSteps, EngineSteps
    <3>2. STAGE_PROGRESS[pc[e]] \in 0..100 BY <3>1, ProgressTable
    <3>3. percent' = [percent EXCEPT ![j] = STAGE_PROGRESS[pc[e]]] BY <1>2, <2>2, <3>1,
        Reported
    <3>4. /\ STAGE_PROGRESS[pc[e]] # 0 /\ STAGE_PROGRESS[pc[e]] # 100
          /\ STAGE_PROGRESS[pc[e]] = Ahead[pc[e]]
      BY <2>2, StageThenNext
    <3> QED BY <3>2, <3>3, <3>4
  <2>4. CASE pc[e] = "validating"
    <3>1. status[j] = "pending" /\ status' = [status EXCEPT ![j] = "running"]
      BY <1>6, <2>1, <2>2, <2>4 DEF Waiting
    <3>2. Lifecycle!Start(j) BY <2>2, <2>3, <3>1 DEF Lifecycle!Start, Lifecycle!Move,
        Lifecycle!Report, percent
    <3> QED BY <1>4, <3>2
  <2>5. CASE pc[e] # "validating"
    <3>1. status[j] = "running" BY <1>6, <2>1, <2>2, <2>5 DEF Waiting, StageSteps,
        EngineSteps
    <3>2. status' = status BY <1>2, <2>2, <3>1 DEF StoreTypeOK
    <3>3. STAGE_PROGRESS[pc[e]] \in percent[j]..99
      <4>1. percent[j] \in 0..100 /\ percent[j] < Ahead[pc[e]] BY <1>6, <2>1, <2>2
      <4> QED BY <2>3, <4>1, SMTT(30)
    <3>4. Lifecycle!Advance(j)
      BY <2>2, <2>3, <3>1, <3>2, <3>3 DEF Lifecycle!Advance, Lifecycle!Report, percent
    <3> QED BY <1>4, <3>4
  <2> QED BY <2>4, <2>5
<1>9. CASE Complete(e)
  <2>1. PICK j \in Jobs : cur[e] = j BY <1>5, <1>9 DEF Complete, RunSteps
  <2>2. /\ result' = result \cup {j} /\ status' = [status EXCEPT ![j] = "completed"]
        /\ stage' = [stage EXCEPT ![j] = "done"]
    BY <1>9, <2>1 DEF Complete, store_result
  <2>3. status[j] = "running" BY <1>6, <1>9, <2>1 DEF Complete, Waiting
  <2>4. percent' = [percent EXCEPT ![j] = 100] BY <1>2, <2>2, Reported, StageNames,
      ProgressTable
  <2>5. Lifecycle!Complete(j)
    BY <2>2, <2>3, <2>4 DEF Lifecycle!Complete, Lifecycle!Move, Lifecycle!Report, percent
  <2> QED BY <1>4, <2>5
<1>10. CASE Fail(e)
  <2>1. pc[e] \in RunSteps \ Waiting
    BY <1>10 DEF Fail, Raises, RunSteps, ProfileSteps, StageSteps, EngineSteps, Waiting
  <2>2. PICK j \in Jobs : cur[e] = j BY <1>5, <2>1
  <2>3. status' = [status EXCEPT ![j] = "failed"] /\ UNCHANGED <<stage, result>>
    BY <1>10, <2>2 DEF Fail, mark_failed
  <2>4. status[j] = "running" BY <1>6, <1>10, <2>1, <2>2 DEF Fail
  <2>5. Lifecycle!Fail(j)
    BY <2>3, <2>4, SamePercent DEF Lifecycle!Fail, Lifecycle!Move, percent
  <2> QED BY <1>4, <2>5
<1>11. CASE Skip(e) \/ Load(e) \/ SelectProfile(e) \/ InsertProfile(e) \/ UpdateProfile(e) \/ Link(e)
            \/ LinkSupplied(e) \/ CountPosts(e) \/ Stale(e) \/ ResultRefused(e)
  BY <1>3, <1>11 DEF Skip, Load, SelectProfile, InsertProfile, insert_profile,
      UpdateProfile, Link,
    LinkSupplied, set_source, CountPosts, Stale, ResultRefused, rows
<1> QED BY <1>7, <1>8, <1>9, <1>10, <1>11 DEF RunStep, Run

(* A creating handler is Create *)
LEMMA HandleImplements ==
  ASSUME NEW t \in Tasks, Handle(t)
  PROVE  Lifecycle!Next
<1>1. PICK j \in Jobs : /\ status[j] = "absent" /\ status' = [status EXCEPT ![j] = "pending"]
                        /\ UNCHANGED <<stage, result>>
  BY DEF Handle, CreateAnalysis, CreateImported, RefreshAnalysis, create_job
<1>2. Lifecycle!Create(j) BY <1>1, SamePercent DEF Lifecycle!Create, Lifecycle!Move, percent
<1> QED BY <1>2 DEF Lifecycle!Next

(* A delete that cascades is Delete *)
LEMMA DeleteImplements ==
  ASSUME ForeignKeys, NEW j \in Jobs, DeleteAnalysis(j)
  PROVE  Lifecycle!Next
<1>1. Lifecycle!Delete(j)
  BY SamePercent DEF DeleteAnalysis, delete_job, Stored, JobStatus, Lifecycle!Delete,
      Lifecycle!Move, percent
<1> QED BY <1>1 DEF Lifecycle!Next

(* What a client sees of the whole system, with foreign keys enforced and   *)
(* no job delivered twice, is the life cycle JobLifecycle promises, through *)
(* crashes, shutdowns and deletes at any moment.                            *)
THEOREM Refinement ==
  ASSUME MaxDups = 0, ForeignKeys
  PROVE  Spec => ImplementsLifecycle
<1>1. Init => Lifecycle!Init
  BY ProgressTable DEF Init, StoreInit, Lifecycle!Init, Progress, None
<1>2. SystemInv /\ dup = {} /\ [Next]_vars => [Lifecycle!Next]_(Lifecycle!view)
  <2> SUFFICES ASSUME SystemInv, dup = {}, [Next]_vars
      PROVE [Lifecycle!Next]_(Lifecycle!view)
    OBVIOUS
  <2>1. CASE UNCHANGED rows BY <2>1, SamePercent DEF rows, Lifecycle!view, percent
  <2> QED BY <2>1, OtherSteps, HandleImplements, DeleteImplements, RunImplements
<1> QED BY <1>1, <1>2, Invariance, NoDup, PTL DEF Spec, ImplementsLifecycle, Lifecycle!Spec
=============================================================================
