---------------------------- MODULE XApiProvider ----------------------------
(***************************************************************************)
(* providers/x_api.py: get_user_by_username and get_user_posts of one run, *)
(* each request of which goes through the retrying _request.               *)
(*                                                                         *)
(* The service keeps a timeline of posts 1..Timeline, newest first, and    *)
(* hands out tokens that say where the next page starts.  It may answer    *)
(* with fewer posts than asked for, with none at all though it has more,   *)
(* and with a token behind the last post; how often it sends an empty page *)
(* is bounded by MaxEmpty.  Mapping of a post to a ProviderPost and the    *)
(* length of the sleep between attempts are left out.                      *)
(***************************************************************************)
EXTENDS Integers, Sequences

CONSTANTS
  Timeline,        \* number of posts of the user
  post_limit,      \* number of posts the job asks for
  max_post_limit,  \* settings.x_max_post_limit
  MaxRetries,      \* settings.x_max_retries
  PageCap,         \* _MAX_PAGE
  PageFloor,       \* the API's minimum page size
  ResetSeconds,    \* what _reset_seconds can return
  MaxEmpty         \* bound on empty pages

ASSUME ProviderAssumption ==
  /\ Timeline \in Nat /\ post_limit \in Int /\ MaxRetries \in Nat /\ MaxEmpty \in Nat
  /\ max_post_limit \in Nat \ {0}
  /\ PageCap \in Nat \ {0} /\ PageFloor \in 1..PageCap
  /\ ResetSeconds \subseteq Nat

None == "none"

VARIABLES
  call,              \* the method under way, or how the calls ended
  attempt,           \* attempt of _request
  asleep,            \* _request sleeps before its next attempt
  pagination_token,  \* where the page asked for starts
  collected,         \* the posts collected, in order
  code,              \* code of the AppError raised
  sent,              \* history: requests sent by the current _request,
                     \* counted up to one more than is allowed
  empties            \* history: empty pages received

vars == <<call, attempt, asleep, pagination_token, collected, code, sent, empties>>

SmallerOf(a, b) == IF a < b THEN a ELSE b
LargerOf(a, b) == IF a < b THEN b ELSE a

limit == LargerOf(1, SmallerOf(post_limit, max_post_limit))

PageSize == LargerOf(PageFloor, SmallerOf(PageCap, limit - Len(collected)))

(* A request is out *)
Calling == call \in {"profile", "posts"} /\ ~asleep

Codes == {"NETWORK_ERROR", "RATE_LIMITED", "CREDENTIALS_MISSING", "PROFILE_PROTECTED",
          "PROFILE_NOT_FOUND", "PROFILE_SUSPENDED", "PROVIDER_ERROR", "ANALYSIS_FAILED"}

ProviderTypeOK ==
  /\ call \in {"profile", "posts", "returned", "raised"}
  /\ attempt \in 1..(MaxRetries + 1)
  /\ asleep \in BOOLEAN
  /\ pagination_token \in 0..Timeline
  /\ collected \in Seq(1..Timeline)
  /\ code \in Codes \cup {None}
  /\ sent \in 1..(MaxRetries + 2)
  /\ empties \in 0..MaxEmpty

(* get_user_by_username has sent its first request *)
Init ==
  /\ call = "profile"
  /\ attempt = 1
  /\ asleep = FALSE
  /\ pagination_token = 0
  /\ collected = <<>>
  /\ code = None
  /\ sent = 1
  /\ empties = 0

-----------------------------------------------------------------------------
(* _request *)

Retry ==
  /\ attempt <= MaxRetries
  /\ asleep' = TRUE
  /\ UNCHANGED <<call, attempt, pagination_token, collected, code, sent, empties>>

(* Mutant: the attempts are not counted *)
Wake_uncounted ==
  /\ asleep
  /\ asleep' = FALSE
  /\ sent' = SmallerOf(sent + 1, MaxRetries + 2)
  /\ UNCHANGED <<call, attempt, pagination_token, collected, code, empties>>

Wake ==
  /\ asleep
  /\ asleep' = FALSE
  /\ attempt' = attempt + 1
  /\ sent' = SmallerOf(sent + 1, MaxRetries + 2)
  /\ UNCHANGED <<call, pagination_token, collected, code, empties>>

Raise(c) ==
  /\ call' = "raised"
  /\ code' = c
  /\ UNCHANGED <<attempt, asleep, pagination_token, collected, sent, empties>>

Timeout ==
  /\ Calling
  /\ Retry \/ (attempt > MaxRetries /\ Raise("NETWORK_ERROR"))

(* 429: waits for a reset that is near, and only while attempts are left *)
TooManyRequests ==
  /\ Calling
  /\ \E retry_after \in ResetSeconds :
       IF attempt <= MaxRetries /\ retry_after <= 5 THEN Retry ELSE Raise("RATE_LIMITED")

ServerError ==
  /\ Calling
  /\ Retry \/ (attempt > MaxRetries /\ Raise("PROVIDER_ERROR"))

(* 401, 403, 404 and the other 4xx; an answer below 400 whose body is not   *)
(* what the code expects raises no AppError, which the runner reports as    *)
(* ANALYSIS_FAILED                                                          *)
Refuse ==
  /\ Calling
  /\ \E c \in {"CREDENTIALS_MISSING", "PROFILE_PROTECTED", "PROFILE_NOT_FOUND",
               "PROVIDER_ERROR", "ANALYSIS_FAILED"} : Raise(c)

-----------------------------------------------------------------------------
(* get_user_by_username: a body with errors or without data, a protected    *)
(* profile, or the profile; the runner goes on to ask for the posts         *)
NoProfile ==
  /\ Calling /\ call = "profile"
  /\ \E c \in {"PROFILE_SUSPENDED", "PROFILE_NOT_FOUND", "PROFILE_PROTECTED"} : Raise(c)

Profile ==
  /\ Calling /\ call = "profile"
  /\ call' = "posts"
  /\ attempt' = 1
  /\ sent' = 1
  /\ UNCHANGED <<asleep, pagination_token, collected, code, empties>>

-----------------------------------------------------------------------------
(* get_user_posts *)

(* The service: k posts from the place asked for, with or without a token   *)
Served(k, token) ==
  /\ k \in 0..SmallerOf(PageSize, Timeline - pagination_token)
  /\ token \in BOOLEAN
  /\ token \/ pagination_token + k = Timeline
  /\ k = 0 /\ token => empties < MaxEmpty
  /\ empties' = IF k = 0 /\ token THEN empties + 1 ELSE empties

(* The posts of a page that are kept: the loop stops at the limit *)
Kept(k) == SmallerOf(k, limit - Len(collected))
Posts(k) == [i \in 1..Kept(k) |-> pagination_token + i]

Return ==
  /\ call' = "returned"
  /\ UNCHANGED <<attempt, pagination_token, sent>>

(* Mutant: an empty page is taken for the last *)
NextPage_not_empty(k) ==
  IF k = 0 THEN Return
  ELSE /\ pagination_token' = pagination_token + k
       /\ attempt' = 1
       /\ sent' = 1
       /\ UNCHANGED call

(* Mutants: the token is not passed on; the attempts of all pages add up *)
NextPage_no_token(k) ==
  /\ attempt' = 1
  /\ sent' = 1
  /\ UNCHANGED <<call, pagination_token>>

NextPage_no_reset(k) ==
  /\ pagination_token' = pagination_token + k
  /\ sent' = 1
  /\ UNCHANGED <<call, attempt>>

NextPage(k) ==
  /\ pagination_token' = pagination_token + k
  /\ attempt' = 1
  /\ sent' = 1
  /\ UNCHANGED call

(* Another page if there is a token and room for more *)
Page(k, token) ==
  /\ Calling /\ call = "posts"
  /\ Served(k, token)
  /\ collected' = collected \o Posts(k)
  /\ UNCHANGED <<asleep, code>>
  /\ IF token /\ Len(collected') < limit THEN NextPage(k) ELSE Return

Next ==
  \/ Wake
  \/ Timeout
  \/ TooManyRequests
  \/ ServerError
  \/ Refuse
  \/ NoProfile
  \/ Profile
  \/ \E k \in 0..LargerOf(PageFloor, PageCap), token \in BOOLEAN : Page(k, token)

Spec == Init /\ [][Next]_vars

(* Every request is answered or times out (x_request_timeout_seconds), and  *)
(* sleeps end                                                               *)
FairSpec == Spec /\ WF_vars(Next)

-----------------------------------------------------------------------------
(* However the service cuts the timeline into pages, and however often a    *)
(* page had to be asked for again, the posts collected are the newest ones, *)
(* each once and in order, and never more than the job asked for.           *)
Gapless ==
  /\ Len(collected) <= limit
  /\ collected = [i \in 1..Len(collected) |-> i]

(* get_user_posts returns only with the limit or the whole timeline: a      *)
(* short or an empty page does not end it.                                  *)
ReturnsAll ==
  call = "returned" => Len(collected) = SmallerOf(limit, Timeline)

(* Every request of every page has MaxRetries retries of its own, and no    *)
(* mixture of timeouts, 429 and 5xx gets it more, or has it give up early.  *)
RetryBudget ==
  /\ sent <= MaxRetries + 1
  /\ code = "NETWORK_ERROR" => sent = MaxRetries + 1

(* A run does not hang in the provider: it gets posts or an error *)
Answered == <>(call \in {"returned", "raised"})

(* A page is asked for where the last one ended *)
CallOK ==
  /\ attempt = sent
  /\ asleep => attempt <= MaxRetries /\ call \in {"profile", "posts"}
  /\ code # None => call = "raised"
  /\ call = "profile" => collected = <<>> /\ pagination_token = 0
  /\ call = "posts" => pagination_token = Len(collected) /\ Len(collected) < limit

(* The inductive invariant *)
ProviderInv ==
  /\ ProviderTypeOK
  /\ Gapless
  /\ ReturnsAll
  /\ RetryBudget
  /\ CallOK
=============================================================================
