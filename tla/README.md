# X Behavior Analyzer in TLA+

Models, model-checking runs and proofs for the job pipeline of the X Behavior
Analyzer: the FastAPI backend, the Redis queue and its worker, the database
they share, and what the polling frontend relies on. Paths below are relative
to `src/backend/app/` unless they start with another directory.

## The system

A client asks for the analysis of a username. The API writes a row of
`analysis_jobs`, pushes its id on a Redis list (or, when Redis does not answer,
starts the run as a task of its own process) and answers at once. A worker pops
the id and runs the pipeline: profile, posts, five engines, summary, result
row. Every stage is a transaction on the job row; the frontend polls status and
progress until the job has completed or failed, then reads the result.

| Component | State | Operations | Talks to |
|---|---|---|---|
| Job store (`services/job_service.py`, `models/`, `database/session.py`) | rows of jobs, results, profiles; the session's copy of a row | create, delete, update_progress, mark_failed, upsert_profile, result + completion | called by API and runner, from separate sessions |
| Analysis runner (`services/analysis_runner.py`, `services/stages.py`) | where each run is | `run_job`, `complete_supplied_job` | store, provider, engines |
| Queue and worker (`services/queue.py`, `workers/run_worker.py`) | the list `xba:jobs`, the shutdown event | enqueue, inline fallback, BRPOP loop, signals | Redis, runner |
| Analyses API (`api/analyses.py`) | none of its own | create, import, refresh, delete, progress, results, list, report | store, queue, runner, report service |
| X API provider (`providers/x_api.py`) | attempts, pagination cursor | profile, posts, retrying request | HTTP service |
| Mock provider, factory (`providers/`) | none | deterministic demo data | runner |
| Report service (`services/report_service.py`, `reports/pdf.py`) | PDF files, rows of `reports` | generate, record, serve | store, disk |
| Engines (`analytics/`) | none; figures handed from one to the next | activity, content, sentiment, engagement, patterns, scoring, summary | runner |
| Auth and ownership (`api/auth.py`, `api/deps.py`, `core/security.py`) | users; tokens | register, login, refresh, authorize | API |
| Frontend (`src/frontend/src/`) | query cache | poll, show, refresh, delete | API |

Hard behaviours: runs of one job or of one username at the same time; sessions
that never re-read a row (`expire_on_commit=False`), so that decisions are
taken on stale copies; a delete under a run; a queue without acknowledgement,
so that a crash loses work and a lost reply duplicates it; error handlers that
use the session which has just failed; a shutdown between pop and run.

What makes each component correct: the *store* tells one story in its columns
and leaves nothing behind when a job is deleted; the *runner* moves a job
forward only, and settles it once; *queue and worker* hand every job to exactly
one run; the *API* creates only what its guard allows; the *provider* returns a
gapless prefix of the timeline, bounded by the limit, or one of its error codes
after a bounded number of attempts; the *report service* serves whole files of
existing jobs; the *engines* meet their declarative definitions; *ownership*
never widens; the *frontend* may stop polling at the first final answer.

## Modules

| Module | Models |
|---|---|
| `JobStore` | the three tables, and each committed write of `job_service` and of the last transaction of a run |
| `AnalysisRunner` | the two pipelines, transaction by transaction, for any number of concurrent executors, with their error paths |
| `AnalysisSystem` | API handlers, queue, worker loop, signals, restarts, faults; the composition and its properties |
| `JobLifecycle` | abstract specification: what a client is promised of a job |
| `AnalysisInvariant` | the inductive invariant `SystemInv` |
| `MCAnalysisSystem` | instances for TLC |
| `AnalysisSystem_proofs` | theorems, checked by TLAPS |
| `XApiProvider`, `XApiProvider_proofs`, `MCXApiProvider` | the provider's requests and pagination (see "Provider") |
| `ReportService`, `ReportService_proofs`, `MCReportService` | downloads of a job's PDF (see "Reports") |
| `BurstDetector`, `BurstDetector_proofs` | the sliding window of the activity engine (see "Bursts") |
| `Posts` | posts, time zones and the arithmetic the engines share |
| `PostSources` | where posts come from: files, tweets, the demo's draws |
| `Engines`, `PatternScore` | the five engines as functions of the posts |
| `Posts_proofs`, `Engines_proofs` | lemmas about sums, counters, ranks and divisions; what the engines compute of any posts |
| `AnalyticsPipeline`, `MCBurstDetector` | from a batch of posts to its figures, `BurstDetector` included (see "Analytics pipeline") |
| `AnalyticsPipeline_proofs` | every property of the pipeline, for all batches |
| `AnalysesApi`, `AnalysesApi_proofs`, `MCAnalysesApi` | one client: account, tokens, history, results page (see "Clients") |

`AnalysisSystem` EXTENDS `AnalysisRunner`, which EXTENDS `JobStore`, so that the
whole system is one state machine over shared rows.

### Correspondence

*Rows.* `status`, `stage`, `error`, `username`, `data_source` are columns of
`analysis_jobs`; `"absent"` is an id not handed out yet, `"deleted"` a row that
is gone. Ids are never reused. The column `progress` is written together with
`current_stage` by every statement that writes either, always with
`STAGE_PROGRESS[stage]`, so it is the operator `Progress(j)`. `result` is the
set of jobs with a row in `analysis_results`; the unique constraint on `job_id`
makes a set enough. `profiles[n]` counts the rows of `x_profiles` of a username.

*Atomicity.* A coroutine can be suspended at every `await`; what other sessions
can see changes only at a commit. One action is one committed transaction, with
the reads that precede it in the same session. An action whose name is a stage
(`pc[e] = "content"`, say) is the `update_progress` of that stage followed by
the engine that runs before the next commit. `upsert_profile` is two steps, its
SELECT and its INSERT or UPDATE, because nothing protects the row in between.

*Stale copies.* `copy[e]` is the status in the session of a run.
`update_progress` decides on it, not on the row, exactly as SQLAlchemy's
identity map does. A run finds out that its row was deleted when an UPDATE
matches no row (`Stale`): the flush raises, and the `mark_failed` of the handler
raises on the same session. `complete_supplied_job` opens its session without
the row and reads it later, which is why `ValidateSupplied` silently does
nothing for a deleted job and `LinkSupplied` reads the status anew.

*Errors.* `Raises(e)` gives the error codes the awaits of a step can produce.
`Fail` is raise and `mark_failed` in one step: between the two nothing but the
deletion of the row could change the outcome, and `Stale` covers that. Errors
of the database are `DatabaseFails`: the handlers do not roll back, so the job
stays as it is.

*Faults.* `Crash` ends a coroutine at any step (a process that dies ends several
of them at once, which is several `Crash` steps); `PopReplyLost` is a BRPOP that
Redis carried out for a client that is gone; `PushReplyLost` is the LPUSH whose
reply, or whose `aclose`, raised: the job is queued *and* run inline. `dup` and
`lost` name the jobs hit. They are history: no action but the budgets of the
faults reads them, and properties use them to say what holds of the others.

*Left out here.* Users and `_authorize`, which are in "Clients" (a handler is
modelled for a request that is allowed); what engines compute, which is in
"Analytics pipeline"; the text of errors; timestamps; the branch
`if not posts` of `complete_supplied_job`, which the CSV parser makes
unreachable; `session.refresh` in the import handler, which only reads. Refresh
reads the old row and creates the new one in one step: the old row's two columns
it copies change only under a run, and either value is one the read can return.

## Runs

| Run | Question | Result |
|---|---|---|
| `system_faults` | Does the job table stay consistent, and is no job dropped or doubled but by a fault, under one duplicate, one loss and one SIGTERM? | holds, 2 247 848 states |
| `system_exact` | Without duplicates: does the system implement `JobLifecycle`, and does every job settle? | holds, 268 592 states |
| `delivered_twice` | Is a completed job at 100 percent? | no, after a lost LPUSH reply |
| `profile_race` | Is there one profile per username? | no, two runs that start together |
| `refreshed_import` | Does mock data exist for demo usernames only? | no, after import and refresh |
| `sqlite_delete` | Does a delete take the results with it? | not on SQLite |
| `provider` | Does pagination under retries return a bounded, gapless prefix, within the attempts allowed? | holds |
| `reports` | Do file, row and answers of a report agree under overlapping downloads, a delete and a fault? | holds, 144 626 states |
| `torn_report` | Is what is downloaded a PDF? | no, while another process writes it |
| `two_report_rows` | Is there one report row per job? | no, after two first downloads that overlap |
| `bursts` | Does the sliding window report separate bursts, miss none and end? Do the engines account for every post, agree with each other, depend on the order of arrival in ties only, and contradict each other in known bands only? | holds, 146 193 states |
| `clients` | Does a client get at its own and nobody's jobs only, see its history once and whole, and does its results page come to an end, if no fault takes its job away? | holds, 611 396 states |

The six negative answers are disagreements between the code and what the
repository says of it; `PROJECT.json` quotes both sides.

**`system_faults`.** `SingleRunner`: one owner per job. `NoneStranded`: a pending
or running job has an owner. `CompletedHasResult`, `OutcomeAgrees`: result row,
stage, error code and status agree in every state, though they are written in
different transactions. `DeletedIsGone`: a run that outlives its job leaves
nothing. `SourceMatchesRun`: what a run reports as source is what it reads.
`TerminalIsFinal`: what the frontend saw when it stopped polling stays true.
`ProgressMonotone`: the bar never moves back. `LostIsFinal`: a job that a fault
has taken away is taken up by nobody, so that its row keeps its status and
progress, pending or running if it had not settled, until it is deleted. `SystemInv`: the inductive invariant, checked before it was
proved.

Several of these except jobs that a fault has hit, and so say nothing of what
becomes of those: `SingleRunner`, `OutcomeAgrees`, `TerminalIsFinal`,
`ProgressMonotone` and `LostIsFinal` except what was delivered twice (`dup`), `NoneStranded` and
`EventuallySettled` that and what was lost (`lost`). What a second delivery does
is shown by `delivered_twice`, what a loss does by `LostIsFinal`. `DeletedIsGone`
is about databases that enforce foreign keys; `sqlite_delete` is about the other.

**`system_exact`.** `ImplementsLifecycle` is refinement with the mapping
`state <- status`, `percent <- Progress`, `results <- result`: Create, Start,
Advance, Complete, Fail, Delete and nothing else. It does not hold with
duplicates or without foreign keys, as the negative runs show.
`EventuallySettled`: every pending or running job settles, is deleted, or is one
a fault has hit.

### Bounds

Two jobs, since nothing relates three: the interactions are two runs of one job
(duplicate), two runs of one username (profiles), a job and its refresh, a job
and its deletion. One worker and one API coroutine give two executors that
interleave; a job can be in the queue while another runs inline and a third
party deletes both. One username in the passing runs, two where the guard has
to tell them apart. One provider error, as codes are not compared. `MaxDups`,
`MaxLost`, `MaxSignals` bound the faults at one each: with two jobs a second
fault of a kind leaves no undamaged job to say anything about. Jobs are
symmetric in the run without liveness. The theorems need none of these bounds.

### Fairness

* `WF(Enqueue)`, `WF(RunStep)`, `WF(Loop)`: an event loop resumes every
  coroutine whose await is done; engine and provider calls return (the HTTP
  client has a timeout); `restart: unless-stopped` in `docker-compose.yml:70`
  restarts a worker that has exited.
* `SF(Pop)`: the worker's polls come and go (`PopNothing`), so BRPOP is enabled
  again and again and not continuously; a Redis that is asked infinitely often
  with a non-empty list answers in the end.
* No fairness for handlers, deletes, signals or faults.

## Provider

`XApiProvider` models the two calls of a run, `get_user_by_username` and then
`get_user_posts`, with the `_request` loop inside each request, against a
service that owns a timeline of posts `1..Timeline`, newest first.

*Correspondence.* `attempt` is `_request`'s counter; `asleep` is the sleep
before its next attempt, whose length matters to no property. `Timeout`,
`TooManyRequests`, `ServerError` and `Refuse` are the branches of `_request` in
the order of the code, so that 429 raises at once when the reset is more than
five seconds away and the others only when the attempts are used up. `Page` is
one turn of the `while` of `get_user_posts` from the answer on: the posts kept,
the token, and either the return or the first attempt for the next page. The
service may answer with fewer posts than `max_results`, with none although there
are more, and with a token behind the last post; posts do not appear or vanish
while they are paged through. The runner calls one method after the other on one
provider, so there is nothing concurrent here: what is hard is the sequence of
answers.

*Properties.* `Gapless`: the posts are the newest ones, each once, in order,
within the limit, although the last page asks for at least `PageFloor`.
`ReturnsAll`: no short or empty page ends the paging early. `RetryBudget`: each
request has `MaxRetries` retries of its own, whatever mixture of failures, and
`NETWORK_ERROR` comes only after the last of them (of the other codes it says
nothing: a 429 may give up early). `Answered`: the calls end.

*Bounds and fairness.* Pages of 2 to 4 posts with a limit of 7 out of 9 end
inside a page and inside a minimum page; a limit of 8 is cut by
`max_post_limit`. Two retries make mixtures of three answers. `ResetSeconds`
has a reset that is missing, at the boundary and beyond it. `MaxEmpty` bounds
the empty pages: `Answered` is not true of a service that sends them for ever,
and nothing in the code stops that. `WF(Next)` stands for the request timeout of
the HTTP client and for sleeps that end. The run allows a state without
successor because the calls end.

## Reports

`ReportService` models `GET /report.pdf` for one job: files and rows are keyed by
the job, so jobs do not meet. Every request has its place `at`, the process that
serves it (gunicorn runs four) and its `force` parameter.

*Correspondence.* One action per piece between two awaits: `Load` (the handler's
`get_job`; the one in `generate_pdf_for_job` hits the session's identity map and
reads nothing new), `Check` (`os.path.exists`), `Payload` (`get_result`),
`Open` and `Write` (`generate_report_pdf`, which never awaits: `Blocked` keeps
the rest of its process out of the file system meanwhile), `SelectReport` and
`InsertReport` (`_record_report`), `Respond`. reportlab is not in the repository;
what is used of it is that `doc.build` creates the file at its path and fills it.
`FileResponse` reads in a thread, so `Respond` is not `Blocked`. The job is
`JobLifecycle`'s without its percentage; `HasResult` is what `CompletedHasResult`
and `DeletedIsGone` say of it. `Crash` ends all requests of a process.

*Properties.* `RowsCascade`, `RecordedIsWritten`: rows, file and job agree,
whatever is under way when the job is deleted. `MissingMeansGone`,
`ErrorsExplained`: a 404 and a 500 of the database have their reasons.
`DuplicatesOverlap`: a second row comes only of downloads that overlap; `before`
is the history that says so. `OneReportRow` and `ServedWhole` are what the code
and its tests take for granted, and do not hold.

*Bounds.* Three downloads: two make the duplicate, the third meets it. Two
processes: the one that writes and the one that reads. One fault. Requests and
processes are symmetric. The run allows a state without successor because the
requests are finite. Nothing is said of liveness here: a request only waits for
a writer of its own process, which always goes on.

## Bursts

`BurstDetector` is the double loop of `_detect_bursts`: `Extend` is a turn of the
inner `while`, `Burst` and `NoBurst` are the two branches behind it, and `j = i`
at the head of the outer loop is part of the step that gets there. The timeline
is any ascending sequence (`compute_activity_metrics` sorts it); the model counts
posts from 1 and keeps a burst by its first and last post.

`BurstsSeparate` is the docstring's "non-overlapping", with what makes a burst
well formed; `NoneMissed` is its ">= burst_min_posts within the window", and is
not obvious, as the search leaps over what a burst has covered; `Finishes` says
that the loop ends (`WF(Next)`: sequential code). TLC runs every timeline of up
to six posts, which is two bursts of three, in times 0 to 5 with a window of 2:
posts at one instant, at exactly the window's width and just beyond it. A state
without successor is the end of the loop.

## Analytics pipeline

`AnalyticsPipeline` takes a batch through the engines in the order of
`_compute_and_store`: `Activity` (whose burst search is `BurstDetector`, turn by
turn), `Content`, `Sentiment`, `Engagement`, `Patterns`. Each is one step, since
an engine does not await; what one hands to a later one is in the variables. A
batch without posts, or a file that is refused, ends in the stage `"failed"`.

*Correspondence.* `PostSources` gives posts as `ProviderPost`s: the rows of a file
with what `_choice` and `_to_int` make of them, tweets with the precedence of
`_classify_type` and `_classify_media`, and the demo's posts as a function of the
random draws, which are inputs. A time is a count of ticks, a tick is three
minutes in the run (`Hour = 20`); a zone is an offset that changes once. What the
source gets from regular expressions, VADER, langdetect and `urlparse` are
constants (`UrlsIn`, `TagsIn`, `Compound`, `DetectedLang`, `Normalized`,
`DomainOf`). Figures are scaled integers: ratios and posts per day in
thousandths, averages and points in hundredths. Rounding to even makes a tie come
out as Python's does on exact halves; where the code's binary fraction lies
beside the tie, the last digit may differ, and no property depends on it. A
coefficient of variation is rounded down to a hundredth, which moves the points
for regularity by a quarter of a point at most. Lists the code cuts to the
first ten, fifteen or twenty are whole in the model; which of several equally
frequent entries the code keeps at the cut depends on the order of arrival, and
is outside it.

*Properties.* `Accounted`: no post drops out of a distribution, whatever the
source put in its type. `EnginesAgree`: the engagement engine's own conversion of
times gives the activity engine's hours and weekdays. `OrderFree`: newest first,
oldest first and shuffled deliveries yield the same figures, but where arrival
breaks a tie: `detected_language` is the first to arrive of the languages most
posts are in, and of posts with the same engagement those listed at the top are
the first. The property says that the language named has as many posts either
way, and that the top posts have the same engagements. Beyond the model, arrival
also decides, in the code, the order of equally frequent entries and which of
them a cut list keeps or an indicator names, and the last bit of a sum of floats. `RatioNearCalendar`: `active_day_ratio` compares local
dates with elapsed days; a ratio of 1 hides one silent day at most, two where
the clocks have gone forward, and one more per 2000 days, which rounding to
thousandths hides. `ScoreIsSum`: the score is
its components, each within its maximum. `ContradictionsConfined`: where the indicators of
`patterns.py` and the signals of `scoring.py`, which have thresholds of their own
for the same observations, contradict each other (below). `ForeignPostsIgnored`: skipped posts leave no trace in the
sentiment. `CountersMean`: what the duplicate and tag counters amount to.
`BotsAreRegular`: whatever the jitter, a demo bot has all points for regularity.

*Bounds.* Three sets of timelines: all of up to six posts at times 0 to 5, for
two bursts of three; all of up to five posts at instants around midnights of UTC
and of zones whose clocks change, back and forward, with silent days between; and
five long ones, which reach round-the-clock activity, a post a day for ten days,
more posts per day than the scale has, two midnights a silent day apart when
the clocks go forward, and 22 posts a day. With the file `"mixed"` of twenty posts,
every band of `ContradictionsConfined` is reached; ties of `detected_language` are
reached by tweets. Files are plain, made of copies, or odd in
what they hold (unknown types, junk and negative counts, repeated tags, foreign
and unknown languages); short ones are broken. Bots get every sequence of six
jitters out of three: one tick is the whole of the code's three minutes.
`PipelineInv`, which says that every figure is what its engine says of the posts of
this run and of the figures computed before it, holds by the way the model is
written; no run checks it, and the proofs use it.

*Where a report contradicts itself.* `patterns.py` and `scoring.py` look at the same
figures with different thresholds. An indicator says "present" while the signal
of the same observation is not triggered, or the other way round, exactly here:

| Observation | Band | Who reports it |
|---|---|---|
| posts per day | 20 to 22.988 | `high_frequency` only |
| duplicates | more than 10, less than 20 percent | `duplicate_posts` only |
| most frequent link or tag | 20 to 30 percent of the posts | `repeated_links_hashtags` only |
| reposts | 40 to 50 percent | `reply_repost_concentration` only |
| days and hours covered | 40 percent in the mean, less than 90 percent of the days and less than 20 hours | `continuous_daily_activity` only |

`ContradictionsConfined` says that these are all: the bands are stated to the last
digit the rounding leaves (22.988 is the last rate whose points, rounded, miss
the signal's share), so the signals' bands begin a little below 20 and 40 percent.

*What reading the code for this showed*, besides the properties: the trend of
the sentiment engine is by days of UTC (`analytics/sentiment.py`), while
`README.md:47` of the repository says that all timezone-sensitive metrics honour
the report's zone; an unknown zone name is shown as the label of figures computed
in UTC; a single post scores 7.81 of 15 points for continuous activity; two
posts a second apart are 48 a day; a share of links or tags can exceed 100
percent when a post repeats one; the indicator for regular intervals looks at
posts per day, the signal of that name at gaps, so that neither follows from the
other, and they are left out of `ContradictionsConfined`; a tweet without a readable date counts as posted now; a count
of `inf` in a file is answered 500.

## Clients

`AnalysesApi` follows one client with one e-mail address through the awaits of
its requests, while others register, create, refresh and delete.

*Correspondence.* `owner[k]` is the column `user_id` of job `k`; jobs are numbered
by `created_at`. `RegisterLookup` and `RegisterInsert` are the two transactions
of `/auth/register`. `Caller` is `get_optional_user`: a token that is missing,
expired or malformed makes a request anonymous. `Load` is the read and the
`_authorize` of delete and refresh, `DeleteJob` and `RefreshJob` are what follows
their awaits. `Count` and `Rows` are the two queries of `list_jobs`; `walk` is the
history page going through its pages. On the results page, `Poll` is
`useProgress` with its `refetchInterval`, `GetResults` is `useResults` (asked once,
with `retry: false`), and `View` is what `AnalysisPage` renders.
The frontend sends no token, so `Answers` is about anonymous jobs only.

*Abstracted.* The job on the results page is run by `Work`, which does to its
status what the theorem `StatusSteps` of `AnalysisSystem_proofs` allows. `RunAgain`
is the second run of a job delivered twice: it may leave the job running for
ever, as its result is refused. `Lose` is a fault that takes the job away before it
has settled, after which no `Work` is left. `delivered` is the history that tells
the two from a job run once. `OpenPage` may meet the job in any status and after
either. A walk goes forward only. React Query's cache and the "Previous"
button are left out: they save or repeat requests that are modelled.

*Properties.* `OwnershipConfined`: whoever wins a registration, whenever tokens
expire and whatever becomes of a job between its check and its use, the client
touches and lists its own and nobody's jobs only. `NoneSkipped` and `NoneTwice`:
offsets into a table that changes lose no job unless one is deleted, and repeat
none unless one is created; a skip of as many as came between the two queries of
the last page is what the code allows. `PageSettles`: the results page of a job
that is run once and not lost ends, and does not stop at an error. The page of a
job that was lost polls for ever: `LostIsFinal` says that its status stays, and the
frontend has no limit of its own. `NoneSkipped` and `NoneTwice` assume that no two
jobs have the same `created_at`, by which `list_jobs` orders them
(`services/job_service.py:77`) and nothing else.

*Bounds and fairness.* Three jobs and pages of one: a walk has a first, a middle
and a last page, with room for a job that comes in between. One lost poll or
answer. The fairness is that of a run that ends
(`WF(delivered = "once" /\ Work)`, which is `EventuallySettled` of `AnalysisSystem`
with the same exceptions: what was delivered twice or lost) and of a browser whose timer fires
(`WF(Poll)`, `WF(GetResults)`); requests are not lost for ever (`MaxFaults`).
The user and other clients have none.

*What reading the code for this showed*: a refresh by a logged-in user of a job
nobody owns stays nobody's and does not enter the user's history; a history page
whose last item is deleted says there are no analyses yet; the frontend sends no
tokens at all, so a job created with one cannot be seen in it.

## Proofs

`AnalysisSystem_proofs` proves, for all sets of jobs, workers, tasks and
usernames, all budgets of faults and both settings of `ForeignKeys`, from the
assumptions `StoreAssumption`, `RunnerAssumption` and `SystemAssumption` alone:

* `Invariance`: `Spec => []SystemInv`, and from it `TypeCorrect`, `RunsAreSingle`,
  `NothingStranded`, `CompletedReadable`, `OutcomesAgree`, `DeletedStaysGone`,
  `SourceIsTold`;
* `FinalIsFinal`, `ProgressNeverFalls`, `LostForGood`: the action properties;
* `StatusSteps`: what any step may do to a status, duplicates and missing foreign
  keys included. It is what "Clients" takes the worker for;
* `Refinement`: with `MaxDups = 0` and `ForeignKeys`, `Spec => ImplementsLifecycle`.

*Why the invariant is what it is.* `NoneStranded` and `OutcomeAgrees` talk of
rows; a step of a run preserves them only because the row is where this run has
brought it. `RunOK` says so: the row of a job in hand is pending before the
run's first write and running after it, with less progress than the step will
report (`Ahead`). That holds only if no one else has the job: `SingleRunner`. A
queued job must be untouched (`QueueOK`) for the pop to establish `RunOK`. A
created job must not already be in someone's hands: `KnownOK` says that only
created rows are in the queue, in hand or marked. `ControlOK` ties `cur` and
`kind` to `pc`. `SourceOK` carries `SourceMatchesRun`: an import is never queued, so
its handler is its only run, and two runs of one job by a provider both write the
same source.

*Layout.* `Base` (types, control, known rows) is inductive alone; `Single` is
preserved given `Base`; `RowsOK`, the rest taken row by row, executor by
executor and place by place, is preserved given both. `RunFrames` confines every
step of a run to its own job and executor and `MoveRowsOK` handles all steps
that only move jobs between queue and executors, so that each action is looked
at once per layer. The action properties and the refinement use the invariant
and one case analysis of `Next`.

`XApiProvider_proofs` proves `ProviderInvariance`, `PostsAreGapless`,
`NothingLeftOut` and `RetriesBounded` from `ProviderAssumption`, for every
timeline, limit, page size and number of retries, and however many empty pages.
`CallOK` is what makes the invariant inductive: a page is asked for where the
last one ended (`pagination_token = Len(collected)` while paging, which is true
only because the loop stops as soon as a post is dropped), and the counter of
attempts is the number of requests sent. `PageAdds` says what a page adds;
`CountingConcat` that sequences which count on from each other concatenate to one
that counts.

`ReportService_proofs` proves `ReportInv` and each property of the `reports` run
for any number of downloads, processes and faults, with and without foreign
keys, from `ReportAssumption`. `PlaceOK` carries the argument: a request past
`Write` has a file, one about to insert has found no row, and no row of a request
that was answered before it came. `MoveStep` covers the steps that only move a
request.

`BurstDetector_proofs` proves `BurstInv`, `BurstsSeparate` and `NoneMissed` from
`BurstAssumption`, for every timeline, window and threshold. The loop invariant
adds to the two properties that the current window fits (`Within(i, j)`) and that
all bursts lie before `i`. `ShortWindow` is the step that matters: a full window
with too few posts contains every post the window of `i` could reach, because
the timeline ascends (`NearerPosts`).

`AnalysesApi_proofs` proves `ApiInvariance`, `AccountsAreConfined`, `NoJobTwice` and
`NothingSkipped` from `ApiAssumption`, for any number of jobs, any size of page
and any number of lost requests. Ownership is inductive once a refresh is known
to have an earlier original (`origin[k] < k`) and what is loaded to be a job.
`WalkOK` carries `NoneTwice`: what was seen and is still there stands above the
next offset (`Position`), as nothing is created and a deletion only moves jobs up
(`PositionsFall`). `RestOK` carries `NoneSkipped`: what was not seen stands below
it, as a creation only moves jobs down, and the rows exceed the count by what
came after it (`walk.late`). `FewBeyond` closes the argument: when the last page
ends at or behind the count, those below it are at most `walk.late` in number,
since each has more than `walk.total` jobs at or above it.

`AnalyticsPipeline_proofs` proves every invariant of the `bursts` run, and `PipelineInv`, for all
batches, of any length and over any zones. From the code itself come all but
these assumptions: `PostsAssumption` (an hour has ticks, "UTC" is a zone, clocks
move by a day at most), `SourcesAssumption` and `EnginesAssumption` (`None` is no
code and no language), `BatchAssumption` (rows are what their source can hold;
VADER's scores lie between -1 and 1; a bot's jitter is at most three of sixty
minutes, `mock_x.py`) and `BurstAssumption`.

* `PipelineInvariance`: `PipelineInv` is inductive, given that the batch is one of
  `Batches`. It reduces the rest to what the engines, as functions, compute of
  posts: `PostsOK` is what `SuppliedOK` shows of the posts of every source.
* `PipelineBurstsSeparate`, `PipelineNoneMissed`: the theorems of `BurstDetector`,
  for the sorted times of posts (`SortedAscends`).
* `EveryPostAccounted`: a distribution is a count over the fibres of a function
  that is total on posts, so its total is their number (`CountOfFibres`).
* `EnginesAlwaysAgree`: both engines put a post in the same fibre (`EngagementParts`);
  an average times its count is off by half a unit per post (`RoundNear`), and the
  sums over fibres add up (`FibredSum`, `SumSwap`).
* `RatioStaysNear`: quotients are as far apart as their difference is long
  (`QuotientsApart`), local times as far apart as times of UTC but for the change of
  the clocks (`LocalApart`), and a ratio of 1000 thousandths leaves out a day in
  2000 (`FullRatio`).
* `ScoreIsTheSum`: a coefficient of variation is a natural number since a variance
  is not negative (`VarianceNotNegative`), and each component is clamped.
* `ContradictionsInBands`: each share that is rounded reaches a threshold exactly from
  a bound on (`RoundReaches`, `ShareReaches`), which turns every pair of thresholds
  into a pair of bounds.
* `SentimentIgnoresForeignPosts`, `CountersAreMeant`: the English posts alone are the ones analysed; the groups of equal
  texts less one of each are the redundant posts (`RedundantTexts`).
* `BotsLookRegular`: jitter within a twentieth of an hour leaves gaps that fall
  (`StepsDescend`), hence are in order when reversed, and vary by a tenth at most
  (`CloseNumbersVaryLittle`), which is under the threshold.
* `FiguresOrderFree`: an instance of `AnyOrder` of `Engines_proofs`, which is about
  every permutation. `Along(b, f, g)` says that `g` is `f` in another order; sizes,
  counters, totals, sorted times and averages are shown to be the same along it.
  The language detected is one that no other exceeds (`DetectedIsTop`), so that it
  has as many posts in every order; that, and the engagements of the top posts, is
  what the theorems say of the two fields that are not the same.

The community modules' fold is a choice among the functions that satisfy its
recursion; `SumsExist` and `SumsAgree` show that they exist and agree on finite sets,
which gives sums their laws, and `SubsetInduction` stands for the induction
theorems of the library, which take an operator.

Every safety invariant and action property of the passing runs is proved, and the
refinement. Model-checked only: `EventuallySettled`, `Answered`, `Finishes` and
`PageSettles`, as liveness under fairness is out of the prover's reach.

## Not modelled, and the plan

Left to do:

1. Which profile a result is shown with, once a later run of its username has
   rewritten the shared row of `x_profiles` (`api/analyses.py:183`).
2. `generated_at` of a report that is made again (`services/report_service.py:84`).

Left out for good: the layout of the PDF; words, phrases and topics of the content
engine, the wording of summaries and the texts the demo draws; charts and forms
of the frontend; the window of the rate limiter, which is slowapi's, in a
library that is not in the repository; validation of request bodies and the
mapping of exceptions to answers, which keep no state; health and admin
endpoints, which only read; migrations, seeding, logging and deployment files.
