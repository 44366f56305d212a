---------------------------- MODULE BurstDetector ----------------------------
(***************************************************************************)
(* _detect_bursts of analytics/activity.py, turn by turn: the window that  *)
(* starts at post i is extended to post j; if it holds enough posts it is  *)
(* a burst and the search goes on behind it, otherwise at the next post.   *)
(* Posts are numbered from 1 here, and a burst is kept by its first and    *)
(* last post in place of their timestamps.                                 *)
(***************************************************************************)
EXTENDS Integers, Sequences

CONSTANTS
  Timelines,        \* what utc_times may be: ascending
  window,           \* burst_window_minutes
  burst_min_posts

Ascending(times) == \A a, b \in 1..Len(times) : a <= b => times[a] <= times[b]

ASSUME BurstAssumption ==
  /\ Timelines \subseteq Seq(Int) /\ \A times \in Timelines : Ascending(times)
  /\ window \in Nat /\ burst_min_posts \in Int

VARIABLES utc_times, i, j, bursts

vars == <<utc_times, i, j, bursts>>

n == Len(utc_times)

Within(a, b) == utc_times[b] - utc_times[a] <= window

BurstTypeOK ==
  /\ utc_times \in Seq(Int) /\ Ascending(utc_times)
  /\ i \in 1..(n + 1)
  /\ j \in i..(n + 1)
  /\ bursts \in Seq([start : 1..n, end : 1..n])

Init ==
  /\ utc_times \in Timelines
  /\ i = 1
  /\ j = 1
  /\ bursts = <<>>

Extend ==
  /\ j < n /\ Within(i, j + 1)
  /\ j' = j + 1
  /\ UNCHANGED <<utc_times, i, bursts>>

(* The window of i is as long as it gets *)
Full == i <= n /\ ~(j < n /\ Within(i, j + 1))

count == j - i + 1

GoTo(k) == i' = k /\ j' = k

(* Mutant: the next window starts at the burst's last post *)
Burst_overlapping ==
  /\ Full /\ count >= burst_min_posts
  /\ bursts' = Append(bursts, [start |-> i, end |-> j])
  /\ GoTo(IF j > i THEN j ELSE j + 1)
  /\ UNCHANGED utc_times

Burst ==
  /\ Full /\ count >= burst_min_posts
  /\ bursts' = Append(bursts, [start |-> i, end |-> j])
  /\ GoTo(j + 1)
  /\ UNCHANGED utc_times

(* Mutant: the search goes on behind the window, burst or not *)
NoBurst_behind ==
  /\ Full /\ count < burst_min_posts
  /\ GoTo(j + 1)
  /\ UNCHANGED <<utc_times, bursts>>

(* Mutant: i is left where it is *)
NoBurst_stays ==
  /\ Full /\ count < burst_min_posts
  /\ GoTo(i)
  /\ UNCHANGED <<utc_times, bursts>>

NoBurst ==
  /\ Full /\ count < burst_min_posts
  /\ GoTo(i + 1)
  /\ UNCHANGED <<utc_times, bursts>>

Next == Extend \/ Burst \/ NoBurst

Spec == Init /\ [][Next]_vars

(* The loop is sequential code *)
FairSpec == Spec /\ WF_vars(Next)

-----------------------------------------------------------------------------
In(s, b) == s \in b.start..b.end

(* "Returns non-overlapping bursts": in order, no post in two, each as long *)
(* as its window allows, with no post left out that shares the last one's   *)
(* timestamp, and with enough posts.                                        *)
BurstsSeparate ==
  /\ \A k \in 1..Len(bursts) : LET b == bursts[k] IN
       /\ b.start <= b.end /\ b.end - b.start + 1 >= burst_min_posts
       /\ Within(b.start, b.end)
       /\ b.end < n => ~Within(b.start, b.end + 1)
  /\ \A k, l \in 1..Len(bursts) : k < l => bursts[k].end < bursts[l].start

(* ">= burst_min_posts within the window": posts enough for a burst, from   *)
(* any post s on, are never passed over, though the search skips what a     *)
(* burst has covered.                                                       *)
NoneMissed ==
  \A s \in 1..n :
    LET last == s + burst_min_posts - 1 IN
    s < i /\ last \in s..n /\ Within(s, last) => \E k \in 1..Len(bursts) : In(s, bursts[k])

(* The loop ends behind the last post *)
Finishes == <>(i = n + 1)

(* The inductive invariant *)
BurstInv ==
  /\ BurstTypeOK
  /\ BurstsSeparate
  /\ NoneMissed
  /\ i <= n => j <= n /\ Within(i, j)
  /\ \A k \in 1..Len(bursts) : bursts[k].end < i
=============================================================================
