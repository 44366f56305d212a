------------------------ MODULE XApiProvider_proofs -------------------------
(***************************************************************************)
(* ProviderInv is inductive for every timeline, limit, page size, number   *)
(* of retries and behaviour of the service.                                *)
(***************************************************************************)
EXTENDS XApiProvider, TLAPS

(* What the assumption says of the constants the invariant mentions *)
LEMMA ConstantTypes ==
  /\ Timeline \in Nat /\ MaxRetries \in Nat /\ MaxEmpty \in Nat
  /\ limit \in Nat \ {0}
  BY ProviderAssumption DEF limit, LargerOf, SmallerOf, ProviderAssumption

(* A page has a size *)
LEMMA PageSizeType ==
  ASSUME Len(collected) \in Nat
  PROVE  PageSize \in Nat
  BY ProviderAssumption, ConstantTypes DEF PageSize, LargerOf, SmallerOf, ProviderAssumption

(* Sequences that count from 1 *)
LEMMA CountingConcat ==
  ASSUME NEW S, NEW s \in Seq(S), NEW t \in Seq(S),
         \A i \in 1..Len(s) : s[i] = i,
         \A i \in 1..Len(t) : t[i] = Len(s) + i
  PROVE  \A i \in 1..Len(s \o t) : (s \o t)[i] = i
<1>1. Len(s \o t) = Len(s) + Len(t) /\ Len(s) \in Nat /\ Len(t) \in Nat OBVIOUS
<1>2. SUFFICES ASSUME NEW i \in 1..Len(s \o t) PROVE (s \o t)[i] = i
  OBVIOUS
<1>3. CASE i <= Len(s) BY <1>1, <1>3
<1>4. CASE i > Len(s)
  <2>1. i - Len(s) \in 1..Len(t) BY <1>1, <1>4
  <2>2. (s \o t)[i] = t[i - Len(s)] BY <1>1, <1>4
  <2>3. Len(s) + (i - Len(s)) = i BY <1>1
  <2> QED BY <2>1, <2>2, <2>3
<1> QED BY <1>1, <1>3, <1>4

(* A sequence that counts is the counting function *)
LEMMA SequenceIsFunction ==
  ASSUME NEW S, NEW s \in Seq(S), \A i \in 1..Len(s) : s[i] = i
  PROVE  s = [i \in 1..Len(s) |-> i]
<1>1. s = [i \in 1..Len(s) |-> s[i]] OBVIOUS
<1>2. [i \in 1..Len(s) |-> s[i]] = [i \in 1..Len(s) |-> i] OBVIOUS
<1> QED BY <1>1, <1>2

(* Functions on 1..n are sequences *)
LEMMA FunctionIsSequence ==
  ASSUME NEW S, NEW n \in Nat, NEW f \in [1..n -> S]
  PROVE  f \in Seq(S) /\ Len(f) = n
  OBVIOUS

(* What a page adds: the next posts of the timeline, up to the limit *)
LEMMA PageAdds ==
  ASSUME ProviderInv, call = "posts", NEW k \in Nat, NEW token, Served(k, token)
  PROVE  /\ pagination_token + k <= Timeline
         /\ collected \o Posts(k) \in Seq(1..Timeline)
         /\ Len(collected \o Posts(k)) = Len(collected) + Kept(k)
         /\ Kept(k) \in 0..k
         /\ Len(collected) + Kept(k) <= limit
         /\ Kept(k) = k \/ Len(collected) + Kept(k) = limit
         /\ collected \o Posts(k) = [i \in 1..Len(collected \o Posts(k)) |-> i]
<1>1. /\ collected \in Seq(1..Timeline) /\ Len(collected) \in Nat
      /\ pagination_token = Len(collected) /\ Len(collected) < limit
  BY DEF ProviderInv, ProviderTypeOK, CallOK
<1>2. \A i \in 1..Len(collected) : collected[i] = i
  BY DEF ProviderInv, Gapless
<1>3. pagination_token + k <= Timeline
  <2>1. PageSize \in Nat BY <1>1, PageSizeType
  <2> QED BY <1>1, <2>1, ConstantTypes DEF Served, SmallerOf
<1>4. /\ Kept(k) \in 0..k
      /\ Len(collected) + Kept(k) <= limit
      /\ Kept(k) = k \/ Len(collected) + Kept(k) = limit
  BY <1>1, ConstantTypes DEF Kept, SmallerOf
<1>5. /\ Posts(k) \in Seq(1..Timeline)
      /\ Len(Posts(k)) = Kept(k)
      /\ \A i \in 1..Len(Posts(k)) : Posts(k)[i] = Len(collected) + i
  <2>1. \A i \in 1..Kept(k) : pagination_token + i \in 1..Timeline
    BY <1>1, <1>3, <1>4, ConstantTypes
  <2>2. Kept(k) \in Nat /\ Posts(k) \in [1..Kept(k) -> 1..Timeline]
    BY <1>4, <2>1 DEF Posts
  <2>3. Posts(k) \in Seq(1..Timeline) /\ Len(Posts(k)) = Kept(k)
    BY <2>2, FunctionIsSequence
  <2>4. \A i \in 1..Kept(k) : Posts(k)[i] = Len(collected) + i BY <1>1 DEF Posts
  <2> QED BY <2>3, <2>4
<1>6. /\ collected \o Posts(k) \in Seq(1..Timeline)
      /\ Len(collected \o Posts(k)) = Len(collected) + Kept(k)
  BY <1>1, <1>5
<1>7. collected \o Posts(k) = [i \in 1..Len(collected \o Posts(k)) |-> i]
  <2>1. \A i \in 1..Len(collected \o Posts(k)) : (collected \o Posts(k))[i] = i
    BY <1>1, <1>2, <1>5, CountingConcat
  <2> QED BY <1>6, <2>1, SequenceIsFunction
<1> QED BY <1>3, <1>4, <1>6, <1>7

(* Nothing is collected yet *)
LEMMA ProviderInvInit == Init => ProviderInv
<1> SUFFICES ASSUME Init PROVE ProviderInv
  OBVIOUS
<1> USE ConstantTypes DEF Init
<1>1. ProviderTypeOK
  <2>1. call \in {"profile", "posts", "returned", "raised"} /\ code \in Codes \cup {None}
    OBVIOUS
  <2>2. attempt \in 1..(MaxRetries + 1) /\ sent \in 1..(MaxRetries + 2) OBVIOUS
  <2>3. pagination_token \in 0..Timeline /\ empties \in 0..MaxEmpty OBVIOUS
  <2>4. asleep \in BOOLEAN OBVIOUS
  <2>5. collected \in Seq(1..Timeline) OBVIOUS
  <2> QED BY <2>1, <2>2, <2>3, <2>4, <2>5 DEF ProviderTypeOK
<1>2. Gapless
  <2>1. collected \in Seq(Nat) /\ Len(collected) = 0 OBVIOUS
  <2>2. \A i \in 1..Len(collected) : collected[i] = i BY <2>1
  <2> QED BY <2>1, <2>2, SequenceIsFunction DEF Gapless
<1>3. ReturnsAll BY DEF ReturnsAll
<1>4. RetryBudget BY DEF RetryBudget, None
<1>5. CallOK BY DEF CallOK
<1> QED BY <1>1, <1>2, <1>3, <1>4, <1>5 DEF ProviderInv

(* A step that collects nothing keeps Gapless; what is left is arithmetic *)
LEMMA NothingCollected ==
  ASSUME ProviderInv, UNCHANGED collected, ProviderTypeOK', RetryBudget', CallOK',
         call' = "returned" => call = "returned"
  PROVE  ProviderInv'
<1>1. Gapless' BY DEF ProviderInv, Gapless
<1>2. ReturnsAll' BY DEF ProviderInv, ReturnsAll
<1> QED BY <1>1, <1>2 DEF ProviderInv

(* Going to sleep changes nothing the invariant mentions but asleep *)
LEMMA RetryStep ==
  ASSUME ProviderInv, Calling, Retry
  PROVE  ProviderInv'
<1> USE DEF ProviderInv, Retry
<1>1. ProviderTypeOK' BY DEF ProviderTypeOK
<1>2. RetryBudget' BY DEF RetryBudget
<1>3. CallOK' BY DEF CallOK, Calling
<1> QED BY <1>1, <1>2, <1>3, NothingCollected

(* A call that gives up raises NETWORK_ERROR only when its attempts are used up *)
LEMMA RaiseStep ==
  ASSUME ProviderInv, Calling, NEW c \in Codes, Raise(c),
         c = "NETWORK_ERROR" => attempt > MaxRetries
  PROVE  ProviderInv'
<1> USE DEF ProviderInv, Raise
<1>1. ProviderTypeOK' BY DEF ProviderTypeOK
<1>2. RetryBudget' BY ConstantTypes DEF RetryBudget, CallOK, ProviderTypeOK
<1>3. CallOK' BY DEF CallOK, Calling
<1> QED BY <1>1, <1>2, <1>3, NothingCollected

(* A page that arrives, whether it is the last or not *)
LEMMA PageStep ==
  ASSUME ProviderInv, NEW k \in Nat, NEW token \in BOOLEAN, Page(k, token)
  PROVE  ProviderInv'
<1>1. /\ call = "posts" /\ ~asleep /\ Served(k, token)
      /\ collected' = collected \o Posts(k) /\ asleep' = asleep /\ code' = code
  BY DEF Page, Calling
<1>2. /\ pagination_token = Len(collected) /\ pagination_token \in 0..Timeline
      /\ attempt = sent /\ attempt \in 1..(MaxRetries + 1) /\ code = None
      /\ empties \in 0..MaxEmpty /\ sent <= MaxRetries + 1 /\ Len(collected) \in Nat
  BY <1>1 DEF ProviderInv, CallOK, ProviderTypeOK, RetryBudget
<1>3. /\ pagination_token + k \in 0..Timeline
      /\ collected' \in Seq(1..Timeline)
      /\ Len(collected') = Len(collected) + Kept(k) /\ Kept(k) \in 0..k
      /\ Len(collected') <= limit
      /\ Kept(k) = k \/ Len(collected') = limit
  BY <1>1, <1>2, PageAdds, ConstantTypes
<1>4. empties' \in 0..MaxEmpty BY <1>1, <1>2, ConstantTypes DEF Served
<1>5. Gapless' BY <1>1, <1>3, PageAdds DEF Gapless
<1>6. token \/ pagination_token + k = Timeline BY <1>1 DEF Served
<1>7. CASE token /\ Len(collected') < limit
  <2>1. /\ pagination_token' = pagination_token + k
        /\ attempt' = 1 /\ sent' = 1 /\ call' = call
    BY <1>7 DEF Page, NextPage
  <2>2. ProviderTypeOK'
    <3>1. asleep' \in BOOLEAN /\ code' \in Codes \cup {None}
      BY <1>1 DEF ProviderInv, ProviderTypeOK
    <3>2. attempt' \in 1..(MaxRetries + 1) /\ sent' \in 1..(MaxRetries + 2)
      BY <2>1, ConstantTypes
    <3>3. call' \in {"profile", "posts", "returned", "raised"} BY <1>1, <2>1
    <3>4. pagination_token' \in 0..Timeline BY <1>3, <2>1
    <3> QED BY <1>3, <1>4, <3>1, <3>2, <3>3, <3>4 DEF ProviderTypeOK
  <2>3. RetryBudget' BY <1>1, <1>2, <2>1, ConstantTypes DEF RetryBudget, None
  <2>4. CallOK'
    <3>1. Kept(k) = k BY <1>2, <1>3, <1>7
    <3>2. pagination_token' = Len(collected') BY <1>2, <1>3, <2>1, <3>1
    <3> QED BY <1>1, <1>2, <1>7, <2>1, <3>2 DEF CallOK
  <2>5. ReturnsAll' BY <1>1, <2>1 DEF ReturnsAll
  <2> QED BY <1>5, <2>2, <2>3, <2>4, <2>5 DEF ProviderInv
<1>8. CASE ~(token /\ Len(collected') < limit)
  <2>1. call' = "returned" /\ UNCHANGED <<attempt, pagination_token, sent>>
    BY <1>8 DEF Page, Return
  <2>2. ProviderTypeOK'
    <3>1. asleep' \in BOOLEAN /\ code' \in Codes \cup {None}
      BY <1>1 DEF ProviderInv, ProviderTypeOK
    <3>2. attempt' \in 1..(MaxRetries + 1) /\ sent' \in 1..(MaxRetries + 2)
      BY <1>2, <2>1, ConstantTypes
    <3>3. call' \in {"profile", "posts", "returned", "raised"} BY <2>1
    <3>4. pagination_token' \in 0..Timeline BY <1>2, <2>1
    <3> QED BY <1>3, <1>4, <3>1, <3>2, <3>3, <3>4 DEF ProviderTypeOK
  <2>3. RetryBudget' BY <1>1, <1>2, <2>1, ConstantTypes DEF RetryBudget, None
  <2>4. CallOK' BY <1>1, <1>2, <2>1 DEF CallOK
  <2>5. Len(collected') = SmallerOf(limit, Timeline)
    BY <1>2, <1>3, <1>6, <1>8, ConstantTypes DEF SmallerOf
  <2>6. ReturnsAll' BY <2>5 DEF ReturnsAll, limit, LargerOf, SmallerOf
  <2> QED BY <1>5, <2>2, <2>3, <2>4, <2>6 DEF ProviderInv
<1> QED BY <1>7, <1>8

(* Every step preserves the invariant *)
LEMMA ProviderInvStep == ProviderInv /\ [Next]_vars => ProviderInv'
<1> SUFFICES ASSUME ProviderInv, [Next]_vars PROVE ProviderInv'
  OBVIOUS
<1>1. CASE Wake
  <2> USE <1>1, ConstantTypes DEF Wake, ProviderInv
  <2>1. attempt + 1 \in 1..(MaxRetries + 1) /\ sent' = attempt + 1
    BY DEF CallOK, ProviderTypeOK, SmallerOf
  <2>2. ProviderTypeOK'
    <3>1. asleep' \in BOOLEAN OBVIOUS
    <3>2. attempt' \in 1..(MaxRetries + 1) /\ sent' \in 1..(MaxRetries + 2) BY <2>1
    <3>3. UNCHANGED <<call, pagination_token, collected, code, empties>> OBVIOUS
    <3> QED BY <3>1, <3>2, <3>3 DEF ProviderTypeOK
  <2>3. code # "NETWORK_ERROR" BY DEF CallOK, None
  <2>4. RetryBudget' BY <2>1, <2>3 DEF RetryBudget
  <2>5. CallOK' BY <2>1 DEF CallOK
  <2> QED BY <2>2, <2>4, <2>5, NothingCollected
<1>2. CASE Timeout BY <1>2, RetryStep, RaiseStep DEF Timeout, Codes
<1>3. CASE TooManyRequests BY <1>3, RetryStep, RaiseStep DEF TooManyRequests, Codes
<1>4. CASE ServerError BY <1>4, RetryStep, RaiseStep DEF ServerError, Codes
<1>5. CASE Refuse BY <1>5, RaiseStep DEF Refuse, Codes
<1>6. CASE NoProfile BY <1>6, RaiseStep DEF NoProfile, Codes
<1>7. CASE Profile
  <2> USE <1>7, ConstantTypes DEF Profile, Calling, ProviderInv
  <2>1. ProviderTypeOK' BY DEF ProviderTypeOK
  <2>2. code # "NETWORK_ERROR" BY DEF CallOK, None
  <2>3. RetryBudget' BY <2>2 DEF RetryBudget
  <2>4. CallOK' BY DEF CallOK
  <2> QED BY <2>1, <2>3, <2>4, NothingCollected
<1>8. ASSUME NEW k \in 0..LargerOf(PageFloor, PageCap), NEW token \in BOOLEAN,
             Page(k, token)
      PROVE  ProviderInv'
  <2>1. k \in Nat BY ProviderAssumption DEF ProviderAssumption, LargerOf
  <2> QED BY <1>8, <2>1, PageStep
<1>9. CASE UNCHANGED vars
  BY <1>9 DEF vars, ProviderInv, ProviderTypeOK, Gapless, ReturnsAll, RetryBudget, CallOK
<1> QED BY <1>1, <1>2, <1>3, <1>4, <1>5, <1>6, <1>7, <1>8, <1>9 DEF Next

(* The invariant holds for every service, timeline and setting *)
THEOREM ProviderInvariance == Spec => []ProviderInv
  BY ProviderInvInit, ProviderInvStep, PTL DEF Spec

(* The posts a run gets are the newest ones of the timeline, in order, each *)
(* once, whatever pages and failures they came through.                     *)
THEOREM PostsAreGapless == Spec => []Gapless
<1>1. ProviderInv => Gapless BY DEF ProviderInv
<1> QED BY <1>1, ProviderInvariance, PTL

(* get_user_posts never returns before the limit or the end of the timeline *)
THEOREM NothingLeftOut == Spec => []ReturnsAll
<1>1. ProviderInv => ReturnsAll BY DEF ProviderInv
<1> QED BY <1>1, ProviderInvariance, PTL

(* Every request has x_max_retries retries, not one more or fewer *)
THEOREM RetriesBounded == Spec => []RetryBudget
<1>1. ProviderInv => RetryBudget BY DEF ProviderInv
<1> QED BY <1>1, ProviderInvariance, PTL
=============================================================================
