---------------------------- MODULE AnalysesApi ----------------------------
(***************************************************************************)
(* One client of the API, followed through the awaits of its requests:     *)
(* registration and tokens (api/auth.py, api/deps.py), ownership of jobs   *)
(* and their listing (api/analyses.py, services/job_service.py), and the   *)
(* history and results pages (src/frontend). Whatever other clients and    *)
(* the worker commit in between are steps of their own.                    *)
(*                                                                         *)
(* Jobs are numbered in the order of created_at. The client has one e-mail  *)
(* address and does one thing at a time; others may register that address   *)
(* before it does, and it may have other windows open.                      *)
(***************************************************************************)
EXTENDS Naturals, Sequences, FiniteSets

CONSTANTS
  MaxJobs,     \* bound on the jobs created
  PageSize,    \* page_size
  MaxFaults    \* bound on the requests of the results page that get lost

ASSUME ApiAssumption ==
  /\ MaxJobs \in Nat /\ PageSize \in Nat \ {0} /\ MaxFaults \in Nat

VARIABLES
  owner,       \* of each job created: "anyone" if it has no user_id
  origin,      \* history: the job it is a refresh of, or 0
  stored,      \* the jobs with a row
  account,     \* whose password the row of users for the address has
  session,     \* the client's tokens
  at, job,     \* what the client is doing, and with which job
  walk,        \* the client's way through its history
  status,      \* of the job on the results page
  data,        \* the status the page got last
  failing,     \* its last poll brought none
  results,     \* what became of its request for the results
  delivered,   \* history: how its job has reached the worker
  faults

jobs   == <<owner, origin, stored>>
user   == <<account, session>>
place  == <<at, job>>
page   == <<status, data, failing, results, delivered, faults>>
vars   == <<jobs, user, place, walk, page>>

Owners   == {"anyone", "me", "other"}
Statuses == {"pending", "running", "completed", "failed"}
Deliveries == {"once", "twice", "lost"}
NoWalk   == [page |-> 0, total |-> 0, scope |-> "none", start |-> {}, seen |-> {},
             twice |-> FALSE, created |-> FALSE, late |-> 0, deleted |-> FALSE, moved |-> FALSE]

ApiTypeOK ==
  /\ owner \in Seq(Owners) /\ Len(owner) <= MaxJobs
  /\ origin \in Seq(0..MaxJobs) /\ Len(origin) = Len(owner)
  /\ stored \subseteq DOMAIN owner
  /\ account \in {"nobody", "me", "other"}
  /\ session \in {"none", "live", "expired"}
  /\ at \in {"idle", "register", "count", "rows", "listed", "delete", "refresh", "page"}
  /\ job \in 0..Len(owner)
  /\ walk \in [page: Nat, total: Nat, scope: {"none", "anyone", "me"},
              start: SUBSET DOMAIN owner, seen: SUBSET DOMAIN owner,
              twice: BOOLEAN, created: BOOLEAN, late: Nat, deleted: BOOLEAN, moved: BOOLEAN]
  /\ status \in Statuses /\ data \in Statuses \cup {"none"}
  /\ failing \in BOOLEAN /\ delivered \in Deliveries /\ results \in {"none", "here", "lost"}
  /\ faults \in 0..MaxFaults

Init ==
  /\ owner = <<>> /\ origin = <<>> /\ stored = {}
  /\ account = "nobody" /\ session = "none"
  /\ at = "idle" /\ job = 0
  /\ walk = NoWalk
  /\ status = "pending" /\ data = "none" /\ failing = FALSE /\ results = "none"
  /\ delivered = "once" /\ faults = 0

(* get_optional_user: without a valid access token, whatever the reason, a  *)
(* request is anonymous                                                     *)
Caller == IF session = "live" THEN "me" ELSE "anyone"

(* _authorize *)
Open(k) == owner[k] \in {"anyone", Caller}

(* What list_jobs selects from *)
Visible(scope) == {k \in stored : owner[k] = scope}

-----------------------------------------------------------------------------
(* Writes of jobs, with what they mean to a walk under way *)

Create(o, from) ==
  /\ Len(owner) < MaxJobs
  /\ owner' = Append(owner, o)
  /\ origin' = Append(origin, from)
  /\ stored' = stored \cup {Len(owner) + 1}

Remove(k) ==
  /\ stored' = stored \ {k}
  /\ UNCHANGED <<owner, origin>>

(* Another client or window creates a job or refreshes one it may open *)
OthersCreate ==
  /\ \E o \in Owners, from \in {0} \cup stored :
       /\ at = "refresh" => Len(owner) + 1 < MaxJobs  \* the bound leaves room for the refresh
       /\ o = "me" => account = "me"
       /\ from # 0 => o = owner[from]
       /\ Create(o, from)
       /\ walk' = IF o = walk.scope
                  THEN [walk EXCEPT !.created = TRUE, !.late = @ + (IF at = "rows" THEN 1 ELSE 0)]
                  ELSE walk
  /\ UNCHANGED <<user, place, page>>

OthersDelete ==
  /\ \E k \in stored :
       /\ Remove(k)
       /\ walk' = [walk EXCEPT !.deleted = @ \/ owner[k] = walk.scope]
  /\ UNCHANGED <<user, place, page>>

-----------------------------------------------------------------------------
(* The account *)

OthersRegister ==
  /\ account = "nobody"
  /\ account' = "other"
  /\ UNCHANGED <<session, jobs, place, walk, page>>

(* get_by_email; the answer is 409 if there is a row *)
RegisterLookup ==
  /\ at = "idle" /\ account = "nobody"
  /\ at' = "register"
  /\ UNCHANGED <<job, user, jobs, walk, page>>

(* register_user: the unique constraint refuses the second row of an        *)
(* address, which is a 500                                                  *)
RegisterInsert ==
  /\ at = "register"
  /\ at' = "idle"
  /\ \/ account = "nobody" /\ account' = "me" /\ session' = "live"
     \/ account # "nobody" /\ UNCHANGED user
  /\ UNCHANGED <<job, jobs, walk, page>>

(* The password decides *)
Login ==
  /\ at = "idle" /\ account = "me" /\ session # "live"
  /\ session' = "live"
  /\ UNCHANGED <<account, jobs, place, walk, page>>

(* POST /auth/refresh with a refresh token that is still valid *)
RefreshTokens ==
  /\ session = "expired"
  /\ session' = "live"
  /\ UNCHANGED <<account, jobs, place, walk, page>>

(* The access token expires, and at last the refresh token *)
Expire ==
  /\ session # "none"
  /\ session' = IF session = "live" THEN "expired" ELSE "none"
  /\ UNCHANGED <<account, jobs, place, walk, page>>

-----------------------------------------------------------------------------
(* Jobs of the client *)

CreateAnalysis ==
  /\ at = "idle"
  /\ Create(Caller, 0)
  /\ UNCHANGED <<user, place, walk, page>>

(* delete_analysis and refresh_analysis load the job and check the owner *)
Load ==
  /\ at = "idle"
  /\ \E k \in stored : Open(k) /\ job' = k
  /\ at' \in {"delete"} \cup (IF Len(owner) < MaxJobs THEN {"refresh"} ELSE {})
  /\ UNCHANGED <<user, jobs, walk, page>>

Done == at' = "idle" /\ job' = 0

DeleteJob ==
  /\ at = "delete"
  /\ Done /\ Remove(job)
  /\ UNCHANGED <<user, walk, page>>

(* Mutant: the new job belongs to the caller *)
RefreshJob_callers ==
  /\ at = "refresh"
  /\ Done /\ Create(Caller, job)
  /\ UNCHANGED <<user, walk, page>>

(* The new job is made from the one loaded, deleted meanwhile or not *)
RefreshJob ==
  /\ at = "refresh"
  /\ Done /\ Create(owner[job], job)
  /\ UNCHANGED <<user, walk, page>>

-----------------------------------------------------------------------------
(* The history, page by page, newest job first *)

OpenHistory ==
  /\ at = "idle"
  /\ at' = "count"
  /\ walk' = [NoWalk EXCEPT !.page = 1]
  /\ UNCHANGED <<job, user, jobs, page>>

(* list_jobs first counts the jobs in the scope of the request *)
Count ==
  /\ at = "count"
  /\ at' = "rows"
  /\ walk' = [walk EXCEPT !.total = Cardinality(Visible(Caller)), !.scope = Caller, !.late = 0,
                          !.start = IF walk.scope = "none" THEN Visible(Caller) ELSE @,
                          !.moved = @ \/ walk.scope \notin {"none", Caller}]
  /\ UNCHANGED <<job, user, jobs, page>>

Position(k) == Cardinality({l \in Visible(walk.scope) : l >= k})

(* Mutant: the first page is numbered 0 *)
Offset_from_0 == walk.page * PageSize

(* Mutant: the offset falls one row short *)
Offset_short == IF walk.page = 1 THEN 0 ELSE (walk.page - 1) * PageSize - 1

Offset == (walk.page - 1) * PageSize

Slice == {k \in Visible(walk.scope) : Position(k) \in Offset + 1 .. Offset + PageSize}

(* and then selects those of the page *)
Rows ==
  /\ at = "rows"
  /\ at' = "listed"
  /\ walk' = [walk EXCEPT !.seen = @ \cup Slice, !.twice = @ \/ Slice \cap walk.seen # {}]
  /\ UNCHANGED <<job, user, jobs, page>>

LastPage == walk.page * PageSize >= walk.total

NextPage ==
  /\ at = "listed" /\ ~LastPage
  /\ at' = "count"
  /\ walk' = [walk EXCEPT !.page = @ + 1]
  /\ UNCHANGED <<job, user, jobs, page>>

LeaveHistory ==
  /\ at = "listed"
  /\ Done /\ walk' = NoWalk
  /\ UNCHANGED <<user, jobs, page>>

-----------------------------------------------------------------------------
(* The results page. The frontend sends no token: it sees what anyone sees  *)

Blank == data' = "none" /\ failing' = FALSE /\ results' = "none"

(* Whatever has become of the job by then: what a fault took away is not    *)
(* settled                                                                   *)
OpenPage ==
  /\ at = "idle"
  /\ at' = "page" /\ job' \in DOMAIN owner
  /\ status' \in Statuses /\ delivered' \in Deliveries /\ Blank
  /\ delivered' = "lost" => status' \in {"pending", "running"}
  /\ UNCHANGED <<faults, user, jobs, walk>>

(* The run of the job goes on: StatusSteps of AnalysisSystem_proofs *)
Work ==
  /\ at = "page" /\ delivered # "lost"
  /\ \/ status = "pending" /\ status' = "running"
     \/ status = "running" /\ status' \in {"completed", "failed"}
  /\ UNCHANGED <<data, failing, results, delivered, faults, user, jobs, place, walk>>

(* The job goes out of everybody's hands before it has settled: the process *)
(* that had it dies, a reply to BRPOP does not arrive, the database fails    *)
(* under the run. Nobody takes it up again (LostIsFinal of AnalysisSystem).  *)
Lose ==
  /\ at = "page" /\ delivered = "once" /\ status \in {"pending", "running"}
  /\ delivered' = "lost"
  /\ UNCHANGED <<status, data, failing, results, faults, user, jobs, place, walk>>

(* A job that was delivered twice is run once more. Its second result is    *)
(* refused, so that it may stay running for ever.                           *)
RunAgain ==
  /\ at = "page" /\ status \in {"completed", "failed"}
  /\ status' \in {"running", "completed", "failed"} /\ delivered' = "twice"
  /\ UNCHANGED <<data, failing, results, faults, user, jobs, place, walk>>

Answers == job \in stored /\ owner[job] = "anyone"

(* refetchInterval: the last status decides, whether the last poll brought  *)
(* one or not                                                               *)
Polling == at = "page" /\ data \notin {"completed", "failed"}

(* Mutant: an error ends the polling *)
Poll_once ==
  /\ Polling /\ ~failing
  /\ IF Answers THEN data' = status /\ failing' = FALSE
                ELSE failing' = TRUE /\ UNCHANGED data
  /\ UNCHANGED <<status, results, delivered, faults, user, jobs, place, walk>>

(* get_progress *)
Poll ==
  /\ Polling
  /\ IF Answers THEN data' = status /\ failing' = FALSE
                ELSE failing' = TRUE /\ UNCHANGED data
  /\ UNCHANGED <<status, results, delivered, faults, user, jobs, place, walk>>

(* The poll and its retry get lost *)
LosePoll ==
  /\ Polling /\ faults < MaxFaults
  /\ failing' = TRUE /\ faults' = faults + 1
  /\ UNCHANGED <<status, data, results, delivered, user, jobs, place, walk>>

(* get_results, asked for once when the job is known to be completed *)
GetResults ==
  /\ at = "page" /\ data = "completed" /\ results = "none"
  /\ results' = IF Answers /\ status = "completed" THEN "here" ELSE "lost"
  /\ UNCHANGED <<status, data, failing, delivered, faults, user, jobs, place, walk>>

LoseResults ==
  /\ at = "page" /\ data = "completed" /\ results = "none" /\ faults < MaxFaults
  /\ results' = "lost" /\ faults' = faults + 1
  /\ UNCHANGED <<status, data, failing, delivered, user, jobs, place, walk>>

LeavePage ==
  /\ at = "page"
  /\ Done /\ status' = "pending" /\ delivered' = "once" /\ Blank
  /\ UNCHANGED <<faults, user, jobs, walk>>

(* What AnalysisPage renders *)
View ==
  CASE failing                                -> "error"
    [] ~failing /\ data = "none"              -> "loading"
    [] ~failing /\ data = "failed"            -> "failed"
    [] ~failing /\ data \in {"pending", "running"} -> "progress"
    [] OTHER -> CASE results = "none" -> "building" [] results = "here" -> "dashboard"
                  [] results = "lost" -> "no results"

-----------------------------------------------------------------------------
Next ==
  \/ OthersCreate \/ OthersDelete \/ OthersRegister
  \/ RegisterLookup \/ RegisterInsert \/ Login \/ RefreshTokens \/ Expire
  \/ CreateAnalysis \/ Load \/ DeleteJob \/ RefreshJob
  \/ OpenHistory \/ Count \/ Rows \/ NextPage \/ LeaveHistory
  \/ OpenPage \/ Work \/ Lose \/ RunAgain \/ Poll \/ LosePoll \/ GetResults \/ LoseResults
  \/ LeavePage

ApiSpec == Init /\ [][Next]_vars

(* The worker ends what is delivered once (EventuallySettled of             *)
(* AnalysisSystem, which excepts what was delivered twice or lost), and the *)
(* page polls                                                                *)
FairSpec == ApiSpec /\ WF_vars(delivered = "once" /\ Work) /\ WF_vars(Poll) /\ WF_vars(GetResults)

-----------------------------------------------------------------------------
(* Nobody gets at a job of another account: tokens are only held by the one *)
(* who set the password, whoever won the registration; a job refreshed      *)
(* stays with its owner, whoever refreshed it and whatever became of the     *)
(* original; what is about to be deleted or refreshed, and what was listed   *)
(* under any of the scopes a walk went through, is nobody's or the client's. *)
OwnershipConfined ==
  /\ session # "none" => account = "me"
  /\ \A k \in DOMAIN owner :
       /\ owner[k] = "me" => account = "me"
       /\ origin[k] # 0 => owner[k] = owner[origin[k]]
  /\ at \in {"delete", "refresh"} => owner[job] \in {"anyone", "me"}
  /\ \A k \in walk.seen : owner[k] # "other"

(* Who pages to the end while nothing is deleted sees every job there was,  *)
(* however many are created: all but as many as come between the count and   *)
(* the rows of the last page, which push the oldest off it (list_jobs).      *)
NoneSkipped ==
  at = "listed" /\ LastPage /\ ~walk.deleted /\ ~walk.moved
    => Cardinality(walk.start \ walk.seen) <= walk.late

(* Who pages on while nothing is created sees no job twice, whatever is     *)
(* deleted (list_jobs).                                                      *)
NoneTwice == walk.twice => walk.created \/ walk.moved

(* A results page left open comes to an end - the report of the failure,    *)
(* the dashboard or the message that there is none - through any polls lost, *)
(* as long as its job is there to be read and is neither delivered twice nor *)
(* lost. The page of a job that is lost polls for ever (useProgress,         *)
(* AnalysisPage).                                                           *)
PageSettles ==
  at = "page" ~> \/ at # "page" \/ ~Answers \/ delivered # "once"
                 \/ View \in {"failed", "dashboard", "no results"}

-----------------------------------------------------------------------------
(* What makes OwnershipConfined, NoneTwice and NoneSkipped inductive *)

Browsing == at \in {"count", "rows", "listed"}

(* The rows of the pages shown: what was seen stays among them *)
Shown == IF at = "listed" THEN Offset + PageSize ELSE Offset

WalkOK ==
  /\ Browsing => walk.page > 0
  /\ Browsing /\ walk.scope = "none" => walk.page = 1 /\ at = "count"
  /\ ~Browsing \/ walk.scope = "none" => walk.seen = {} /\ ~walk.twice
  /\ Browsing /\ ~walk.created /\ ~walk.moved =>
       /\ ~walk.twice
       /\ \A k \in walk.seen \cap Visible(walk.scope) : Position(k) <= Shown

(* What was not seen is still to come, while nothing is deleted; it is more *)
(* than the count said only by what came after the count                     *)
RestOK ==
  Browsing /\ walk.scope # "none" /\ ~walk.deleted /\ ~walk.moved =>
    /\ walk.start \subseteq Visible(walk.scope)
    /\ \A k \in walk.start \ walk.seen : Position(k) > Shown
    /\ at = "rows" => Cardinality(Visible(walk.scope)) = walk.total + walk.late
    /\ at = "listed" /\ LastPage => Cardinality(walk.start \ walk.seen) <= walk.late

ApiInv ==
  /\ ApiTypeOK
  /\ OwnershipConfined
  /\ \A k \in DOMAIN owner : origin[k] < k
  /\ at \in {"delete", "refresh"} => job > 0
  /\ WalkOK
  /\ RestOK
=============================================================================
