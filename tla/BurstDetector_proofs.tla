------------------------ MODULE BurstDetector_proofs ------------------------
(***************************************************************************)
(* BurstInv is a loop invariant for every timeline, window and threshold.  *)
(***************************************************************************)
EXTENDS BurstDetector, TLAPS

(* An element of a sequence is of the sequence's set *)
LEMMA ElementType ==
  ASSUME NEW S, NEW s \in Seq(S), NEW k \in 1..Len(s)
  PROVE  s[k] \in S
  OBVIOUS

(* What is known of the bursts found so far *)
LEMMA FoundBurst ==
  ASSUME BurstInv, NEW k \in 1..Len(bursts)
  PROVE  bursts[k].end \in 1..n /\ bursts[k].end < i
<1>1. bursts \in Seq([start : 1..n, end : 1..n]) /\ bursts[k].end < i
  BY DEF BurstInv, BurstTypeOK
<1>2. bursts[k] \in [start : 1..n, end : 1..n] BY <1>1, ElementType
<1> QED BY <1>1, <1>2

(* Nothing has been looked at yet *)
LEMMA NothingSearched ==
  ASSUME utc_times \in Seq(Int), Ascending(utc_times), i = 1, j = 1, bursts = <<>>
  PROVE  BurstInv
<1>1. n \in Nat BY DEF n
<1>2. BurstTypeOK BY <1>1 DEF BurstTypeOK
<1>3. Len(bursts) = 0 OBVIOUS
<1>4. BurstsSeparate BY <1>3 DEF BurstsSeparate
<1>5. NoneMissed BY <1>1 DEF NoneMissed
<1>6. i <= n => j <= n /\ Within(i, j)
  <2>1. SUFFICES ASSUME 1 <= n PROVE Within(1, 1) BY <1>1
  <2>2. utc_times[1] \in Int BY <1>1, <2>1 DEF n
  <2> QED BY <2>2, BurstAssumption DEF Within, BurstAssumption
<1> QED BY <1>2, <1>3, <1>4, <1>5, <1>6 DEF BurstInv

(* The loop starts so, on any timeline *)
LEMMA BurstInvInit == Init => BurstInv
  BY NothingSearched, BurstAssumption DEF Init, BurstAssumption

(* The timeline does not change, so what is said of it stays *)
LEMMA SameTimeline ==
  ASSUME UNCHANGED utc_times
  PROVE  n' = n /\ (\A a, b : Within(a, b)' <=> Within(a, b))
  BY DEF n, Within

(* An ascending timeline spreads no more between nearer posts *)
LEMMA NearerPosts ==
  ASSUME BurstTypeOK, NEW a \in 1..n, NEW b \in a..n, NEW c \in b..n, Within(a, c)
  PROVE  Within(a, b)
<1>1. utc_times[a] \in Int /\ utc_times[b] \in Int /\ utc_times[c] \in Int
  BY DEF BurstTypeOK, n
<1>2. utc_times[b] <= utc_times[c] BY DEF BurstTypeOK, n, Ascending
<1> QED BY <1>1, <1>2, BurstAssumption DEF Within, BurstAssumption

(* A window that holds too few posts starts no burst *)
LEMMA ShortWindow ==
  ASSUME BurstInv, Full, count < burst_min_posts,
         NEW last \in i..n, Within(i, last)
  PROVE  last < i + burst_min_posts - 1
<1>1. i \in 1..n /\ j \in i..n /\ n \in Nat
  BY DEF BurstInv, BurstTypeOK, Full, n
<1>2. CASE last <= j BY <1>1, <1>2, BurstAssumption DEF count, BurstAssumption
<1>3. CASE last > j
  <2>1. j + 1 \in i..n /\ last \in (j + 1)..n BY <1>1, <1>3
  <2>2. Within(i, j + 1) BY <1>1, <2>1, NearerPosts DEF BurstInv
  <2> QED BY <1>1, <2>1, <2>2 DEF Full
<1> QED BY <1>1, <1>2, <1>3

(* The window grows; it still fits *)
LEMMA ExtendStep == BurstInv /\ Extend => BurstInv'
<1> SUFFICES ASSUME BurstInv, Extend PROVE BurstInv'
  OBVIOUS
<1>1. /\ UNCHANGED <<utc_times, i, bursts>> /\ j' = j + 1 /\ j < n /\ Within(i, j + 1)
      /\ n' = n /\ \A a, b : Within(a, b)' <=> Within(a, b)
  BY SameTimeline DEF Extend
<1>2. BurstTypeOK /\ n \in Nat /\ i \in 1..(n + 1) /\ j \in i..(n + 1)
  BY DEF BurstInv, BurstTypeOK, n
<1>3. j' \in i..n BY <1>1, <1>2
<1>4. BurstTypeOK' BY <1>1, <1>2, <1>3 DEF BurstTypeOK, Ascending
<1>5. BurstsSeparate' BY <1>1 DEF BurstInv, BurstsSeparate
<1>6. NoneMissed' BY <1>1 DEF BurstInv, NoneMissed, In
<1>7. Within(i, j)' BY <1>1 DEF Within
<1>8. \A k \in 1..Len(bursts') : bursts'[k].end < i' BY <1>1 DEF BurstInv
<1> QED BY <1>1, <1>3, <1>4, <1>5, <1>6, <1>7, <1>8 DEF BurstInv

(* The next window, from post k on *)
LEMMA NextWindow ==
  ASSUME BurstTypeOK', NEW k \in 1..(n + 1), GoTo(k), UNCHANGED utc_times
  PROVE  i' <= n' => j' <= n' /\ Within(i, j)'
<1>1. n' = n /\ n \in Nat /\ i' = k /\ j' = k BY DEF n, GoTo, BurstTypeOK
<1>2. SUFFICES ASSUME k <= n PROVE Within(i, j)' BY <1>1
<1>3. utc_times'[k] \in Int BY <1>1, <1>2 DEF BurstTypeOK, n
<1>4. utc_times'[i'] - utc_times'[j'] = 0 BY <1>1, <1>3
<1> QED BY <1>1, <1>3, BurstAssumption DEF Within, BurstAssumption

(* A post with too few others behind it is left *)
LEMMA NoBurstStep == BurstInv /\ NoBurst => BurstInv'
<1> SUFFICES ASSUME BurstInv, NoBurst PROVE BurstInv'
  OBVIOUS
<1>1. /\ UNCHANGED <<utc_times, bursts>> /\ i' = i + 1 /\ j' = i + 1
      /\ n' = n /\ \A a, b : Within(a, b)' <=> Within(a, b)
  BY SameTimeline DEF NoBurst, GoTo
<1>2. BurstTypeOK /\ n \in Nat /\ i \in 1..n BY DEF BurstInv, BurstTypeOK, n, NoBurst, Full
<1>3. BurstTypeOK' BY <1>1, <1>2 DEF BurstTypeOK, Ascending
<1>4. BurstsSeparate' BY <1>1 DEF BurstInv, BurstsSeparate
<1>5. NoneMissed'
  <2> SUFFICES ASSUME NEW s \in 1..n, s < i + 1, s + burst_min_posts - 1 \in s..n,
                      Within(s, s + burst_min_posts - 1)
               PROVE  \E k \in 1..Len(bursts) : In(s, bursts[k])
    BY <1>1 DEF NoneMissed, In
  <2>1. CASE s < i BY <2>1 DEF BurstInv, NoneMissed
  <2>2. CASE s = i
    BY <1>2, <2>2, ShortWindow, BurstAssumption DEF NoBurst, BurstAssumption
  <2> QED BY <1>2, <2>1, <2>2
<1>6. i' <= n' => j' <= n' /\ Within(i, j)'
  BY <1>1, <1>2, <1>3, NextWindow DEF GoTo
<1>7. \A k \in 1..Len(bursts') : bursts'[k].end < i'
  <2>1. ASSUME NEW k \in 1..Len(bursts) PROVE bursts[k].end < i + 1
    <3>1. bursts[k].end \in 1..n /\ bursts[k].end < i BY FoundBurst
    <3> QED BY <1>2, <3>1
  <2> QED BY <1>1, <2>1
<1> QED BY <1>3, <1>4, <1>5, <1>6, <1>7 DEF BurstInv

(* A burst is recorded and left behind *)
LEMMA BurstStep == BurstInv /\ Burst => BurstInv'
<1> SUFFICES ASSUME BurstInv, Burst PROVE BurstInv'
  OBVIOUS
<1> DEFINE b == [start |-> i, end |-> j]
<1>1. /\ UNCHANGED utc_times /\ bursts' = Append(bursts, b) /\ i' = j + 1 /\ j' = j + 1
      /\ n' = n /\ \A x, y : Within(x, y)' <=> Within(x, y)
  BY SameTimeline DEF Burst, GoTo
<1>2. /\ BurstTypeOK /\ n \in Nat /\ i \in 1..n /\ j \in i..n /\ Within(i, j)
      /\ j < n => ~Within(i, j + 1)
      /\ j - i + 1 >= burst_min_posts
      /\ bursts \in Seq([start : 1..n, end : 1..n])
  BY BurstAssumption DEF BurstInv, BurstTypeOK, n, Burst, Full, count, BurstAssumption
<1>3. b \in [start : 1..n, end : 1..n] BY <1>2
<1>4. /\ Len(bursts') = Len(bursts) + 1 /\ Len(bursts) \in Nat
      /\ \A k \in 1..Len(bursts) : bursts'[k] = bursts[k]
      /\ bursts'[Len(bursts) + 1] = b
      /\ bursts' \in Seq([start : 1..n, end : 1..n])
  BY <1>1, <1>2, <1>3
<1>5. BurstTypeOK' BY <1>1, <1>2, <1>4 DEF BurstTypeOK, Ascending
<1>6. \A k \in 1..Len(bursts) : bursts[k].end < i BY DEF BurstInv
<1>7. BurstsSeparate'
  <2>1. ASSUME NEW k \in 1..Len(bursts')
        PROVE  /\ bursts'[k].start <= bursts'[k].end
               /\ bursts'[k].end - bursts'[k].start + 1 >= burst_min_posts
               /\ Within(bursts'[k].start, bursts'[k].end)
               /\ bursts'[k].end < n => ~Within(bursts'[k].start, bursts'[k].end + 1)
    <3>1. CASE k \in 1..Len(bursts) BY <1>4, <3>1 DEF BurstInv, BurstsSeparate
    <3>2. CASE k = Len(bursts) + 1 BY <1>2, <1>4, <3>2
    <3> QED BY <1>4, <3>1, <3>2
  <2>2. ASSUME NEW k \in 1..Len(bursts'), NEW l \in 1..Len(bursts'), k < l
        PROVE  bursts'[k].end < bursts'[l].start
    <3>1. k \in 1..Len(bursts) BY <1>4, <2>2
    <3>2. CASE l \in 1..Len(bursts)
      BY <1>4, <2>2, <3>1, <3>2 DEF BurstInv, BurstsSeparate
    <3>3. CASE l = Len(bursts) + 1 BY <1>4, <1>6, <3>1, <3>3
    <3> QED BY <1>4, <3>2, <3>3
  <2> QED BY <1>1, <2>1, <2>2 DEF BurstsSeparate
<1>8. NoneMissed'
  <2> SUFFICES ASSUME NEW s \in 1..n, s < j + 1, s + burst_min_posts - 1 \in s..n,
                      Within(s, s + burst_min_posts - 1)
               PROVE  \E k \in 1..Len(bursts') : In(s, bursts'[k])
    BY <1>1 DEF NoneMissed, In
  <2>1. CASE s < i
    <3>1. PICK k \in 1..Len(bursts) : In(s, bursts[k]) BY <2>1 DEF BurstInv, NoneMissed
    <3>2. Len(bursts') = Len(bursts) + 1 /\ Len(bursts) \in Nat BY <1>4
    <3>3. k \in 1..Len(bursts') BY <3>2
    <3>4. bursts'[k] = bursts[k] BY <1>4
    <3> QED BY <3>1, <3>3, <3>4
  <2>2. CASE s >= i
    <3>1. In(s, b) BY <1>2, <2>2 DEF In
    <3> QED BY <1>4, <3>1
  <2> QED BY <1>2, <2>1, <2>2
<1>9. i' <= n' => j' <= n' /\ Within(i, j)'
  BY <1>1, <1>2, <1>5, NextWindow DEF GoTo
<1>10. \A k \in 1..Len(bursts') : bursts'[k].end < i'
  <2>1. ASSUME NEW k \in 1..Len(bursts') PROVE bursts'[k].end < j + 1
    <3>1. CASE k \in 1..Len(bursts)
      <4>1. bursts[k].end \in 1..n /\ bursts[k].end < i BY <3>1, FoundBurst
      <4>2. bursts'[k] = bursts[k] BY <1>4, <3>1
      <4> QED BY <1>2, <4>1, <4>2
    <3>2. CASE k = Len(bursts) + 1 BY <1>2, <1>4, <3>2
    <3> QED BY <1>4, <3>1, <3>2
  <2> QED BY <1>1, <2>1
<1> QED BY <1>5, <1>7, <1>8, <1>9, <1>10 DEF BurstInv

(* Every turn of the loop keeps the loop invariant *)
LEMMA BurstInvStep == BurstInv /\ [Next]_vars => BurstInv'
<1>1. BurstInv /\ UNCHANGED vars => BurstInv'
  BY DEF vars, BurstInv, BurstTypeOK, Ascending, BurstsSeparate, NoneMissed, Within, n, In
<1> QED BY <1>1, ExtendStep, BurstStep, NoBurstStep DEF Next

(* The loop invariant holds throughout *)
THEOREM BurstInvariance == Spec => []BurstInv
  BY BurstInvInit, BurstInvStep, PTL DEF Spec

(* Bursts do not overlap, and each is as long as its window allows *)
THEOREM BurstsAreSeparate == Spec => []BurstsSeparate
<1>1. BurstInv => BurstsSeparate BY DEF BurstInv
<1> QED BY <1>1, BurstInvariance, PTL

(* No run of posts that is dense enough is passed over *)
THEOREM NoBurstIsMissed == Spec => []NoneMissed
<1>1. BurstInv => NoneMissed BY DEF BurstInv
<1> QED BY <1>1, BurstInvariance, PTL
=============================================================================
