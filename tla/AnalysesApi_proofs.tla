------------------------- MODULE AnalysesApi_proofs -------------------------
(***************************************************************************)
(* ApiInv is inductive for any number of jobs and any size of page: the    *)
(* client stays within its own and nobody's jobs, and paging shows no job  *)
(* twice while none is created.                                             *)
(***************************************************************************)
EXTENDS AnalysesApi, FiniteSetTheorems, WellFoundedInduction, TLAPS

(* What create_job leaves as it was, and what it adds *)
LEMMA CreateAdds ==
  ASSUME ApiTypeOK, NEW o \in Owners, NEW from \in 0..MaxJobs, Create(o, from)
  PROVE  /\ owner' \in Seq(Owners) /\ Len(owner') = Len(owner) + 1 /\ Len(owner') <= MaxJobs
         /\ origin' \in Seq(0..MaxJobs) /\ Len(origin') = Len(owner')
         /\ stored' = stored \cup {Len(owner) + 1} /\ stored' \subseteq DOMAIN owner'
         /\ DOMAIN owner = 1..Len(owner) /\ DOMAIN owner' = 1..(Len(owner) + 1)
         /\ \A k \in DOMAIN owner : owner'[k] = owner[k] /\ origin'[k] = origin[k]
         /\ owner'[Len(owner) + 1] = o /\ origin'[Len(owner) + 1] = from
<1>1. /\ owner \in Seq(Owners) /\ origin \in Seq(0..MaxJobs)
      /\ Len(origin) = Len(owner) /\ Len(owner) \in Nat /\ stored \subseteq DOMAIN owner
  BY DEF ApiTypeOK
<1>2. /\ owner' = Append(owner, o) /\ origin' = Append(origin, from) /\ Len(owner) < MaxJobs
      /\ stored' = stored \cup {Len(owner) + 1}
  BY DEF Create
<1> HIDE DEF Owners
<1>3. owner' \in Seq(Owners) /\ Len(owner') = Len(owner) + 1 BY <1>1, <1>2
<1>4. origin' \in Seq(0..MaxJobs) /\ Len(origin') = Len(origin) + 1 BY <1>1, <1>2
<1>5. DOMAIN owner = 1..Len(owner) /\ DOMAIN owner' = 1..(Len(owner) + 1) BY <1>1, <1>3
<1>6. \A k \in 1..Len(owner) : owner'[k] = owner[k] /\ origin'[k] = origin[k] BY <1>1, <1>2
<1>7. owner'[Len(owner) + 1] = o /\ origin'[Len(owner) + 1] = from BY <1>1, <1>2
<1> QED BY <1>1, <1>2, <1>3, <1>4, <1>5, <1>6, <1>7, ApiAssumption DEF ApiAssumption

(* The client and the walk are always about jobs there have been *)
LEMMA Known ==
  ASSUME ApiTypeOK
  PROVE  /\ DOMAIN owner = 1..Len(owner) /\ Len(owner) \in Nat /\ Len(owner) <= MaxJobs
         /\ \A k \in DOMAIN owner : owner[k] \in Owners
         /\ Len(origin) = Len(owner) /\ \A k \in DOMAIN owner : origin[k] \in 0..MaxJobs
         /\ stored \subseteq DOMAIN owner /\ IsFiniteSet(stored)
         /\ Caller \in {"anyone", "me"}
<1>1. owner \in Seq(Owners) /\ origin \in Seq(0..MaxJobs) BY DEF ApiTypeOK
<1>2. DOMAIN owner = 1..Len(owner) /\ Len(owner) \in Nat
      /\ \A k \in DOMAIN owner : owner[k] \in Owners
  BY <1>1
<1>3. Len(origin) = Len(owner) /\ stored \subseteq DOMAIN owner /\ Len(owner) <= MaxJobs BY DEF ApiTypeOK
<1>4. \A k \in 1..Len(origin) : origin[k] \in 0..MaxJobs
  <2> DEFINE Origins == 0..MaxJobs
  <2>1. origin \in Seq(Origins) BY <1>1
  <2> HIDE DEF Origins
  <2>2. \A k \in 1..Len(origin) : origin[k] \in Origins BY <2>1
  <2> QED BY <2>2 DEF Origins
<1>5. IsFiniteSet(1..Len(owner)) BY <1>2, FS_Interval
<1>6. IsFiniteSet(stored) BY <1>2, <1>3, <1>5, FS_Subset
<1> QED BY <1>2, <1>3, <1>4, <1>6 DEF Caller

(* Sets of jobs that have a row can be counted, and fewer count less *)
LEMMA StoredCardinality ==
  ASSUME ApiTypeOK, NEW R \in SUBSET stored, NEW T \in SUBSET R
  PROVE  /\ IsFiniteSet(R) /\ Cardinality(R) \in Nat /\ Cardinality(T) \in Nat
         /\ Cardinality(T) <= Cardinality(R)
<1>1. IsFiniteSet(R) BY Known, FS_Subset
<1>2. IsFiniteSet(T) /\ Cardinality(T) <= Cardinality(R) BY <1>1, FS_Subset
<1> QED BY <1>1, <1>2, FS_CardinalityType

-----------------------------------------------------------------------------
(* Initially there is nothing to be confined or seen *)
LEMMA ApiInvInit == Init => ApiInv
<1> SUFFICES ASSUME Init PROVE ApiInv
  OBVIOUS
<1> USE DEF Init
<1>1. owner \in Seq(Owners) /\ Len(owner) = 0 /\ DOMAIN owner = {} BY DEF Owners
<1>2. origin \in Seq(0..MaxJobs) /\ Len(origin) = 0 OBVIOUS
<1>3. ApiTypeOK
  <2>1. /\ walk.page \in Nat /\ walk.total \in Nat /\ walk.late \in Nat
        /\ walk.start \subseteq DOMAIN owner /\ walk.seen \subseteq DOMAIN owner
    BY DEF NoWalk
  <2>2. walk \in [page: Nat, total: Nat, scope: {"none", "anyone", "me"},
                  start: SUBSET DOMAIN owner, seen: SUBSET DOMAIN owner, twice: BOOLEAN,
                  created: BOOLEAN, late: Nat, deleted: BOOLEAN, moved: BOOLEAN]
    BY DEF NoWalk
  <2>3. MaxJobs \in Nat /\ MaxFaults \in Nat BY ApiAssumption DEF ApiAssumption
  <2>4. stored \subseteq DOMAIN owner /\ job \in 0..Len(owner) /\ faults \in 0..MaxFaults BY <1>1, <2>3
  <2>5. /\ owner \in Seq(Owners) /\ Len(owner) <= MaxJobs
        /\ origin \in Seq(0..MaxJobs) /\ Len(origin) = Len(owner)
    BY <1>1, <1>2, <2>3
  <2>6. /\ account = "nobody" /\ session = "none" /\ at = "idle"
        /\ status \in Statuses /\ data = "none" /\ failing \in BOOLEAN /\ results = "none"
        /\ delivered \in Deliveries
    BY DEF Statuses, Deliveries
  <2> HIDE DEF Init
  <2> QED BY <2>2, <2>4, <2>5, <2>6 DEF ApiTypeOK
<1>4. OwnershipConfined BY <1>1 DEF OwnershipConfined, NoWalk
<1>5. WalkOK /\ RestOK BY DEF WalkOK, RestOK, Browsing, NoWalk
<1>6. \A k \in DOMAIN owner : origin[k] < k BY <1>1
<1> QED BY <1>3, <1>4, <1>5, <1>6 DEF ApiInv

(* A step that leaves the jobs alone *)
LEMMA TypeUser ==
  ASSUME ApiTypeOK, UNCHANGED <<jobs, walk>>,
         \/ OthersRegister \/ RegisterLookup \/ RegisterInsert \/ Login \/ RefreshTokens
         \/ Expire \/ Load
  PROVE  ApiTypeOK'
<1>1. \A k \in stored : k \in 0..Len(owner) BY Known
<1> QED BY <1>1 DEF ApiTypeOK, OthersRegister, RegisterLookup, RegisterInsert, Login,
     RefreshTokens, Expire, Load, jobs, user, place, page

(* A step of the results page *)
LEMMA TypePage ==
  ASSUME ApiTypeOK, UNCHANGED <<jobs, user, walk>>,
         \/ OpenPage \/ Work \/ Lose \/ RunAgain \/ Poll \/ LosePoll \/ GetResults \/ LoseResults
         \/ LeavePage
  PROVE  ApiTypeOK'
<1>1. \A k \in DOMAIN owner : k \in 0..Len(owner) BY Known
<1>2. Len(owner) \in Nat /\ MaxFaults \in Nat BY Known, ApiAssumption DEF ApiAssumption
<1> USE DEF ApiTypeOK, jobs, user, place, page, Statuses, Deliveries
<1>3. CASE OpenPage BY <1>1, <1>3 DEF OpenPage, Blank
<1>4. CASE Work BY <1>4 DEF Work
<1>10. CASE RunAgain BY <1>10 DEF RunAgain
<1>11. CASE Lose BY <1>11 DEF Lose
<1>5. CASE Poll BY <1>5, ZenonT(30) DEF Poll, Polling
<1>6. CASE LosePoll BY <1>2, <1>6 DEF LosePoll, Polling
<1>7. CASE GetResults BY <1>7 DEF GetResults
<1>8. CASE LoseResults BY <1>2, <1>8 DEF LoseResults
<1>9. CASE LeavePage
  <2>1. /\ at' = "idle" /\ job' = 0 /\ status' = "pending" /\ data' = "none"
        /\ failing' = FALSE /\ results' = "none" /\ delivered' = "once" /\ faults' = faults
    BY <1>9 DEF LeavePage, Blank, Done
  <2>2. job' \in 0..Len(owner') BY <1>2, <2>1
  <2> QED BY <2>1, <2>2
<1> QED BY <1>3, <1>4, <1>5, <1>6, <1>7, <1>8, <1>9, <1>10, <1>11

(* A step of the walk, which only reads the jobs *)
LEMMA TypeWalk ==
  ASSUME ApiTypeOK, UNCHANGED <<jobs, user, page>>,
         OpenHistory \/ Count \/ Rows \/ NextPage \/ LeaveHistory
  PROVE  ApiTypeOK'
<1> USE DEF jobs, user, page
<1> DEFINE Walks == [page: Nat, total: Nat, scope: {"none", "anyone", "me"},
                     start: SUBSET DOMAIN owner, seen: SUBSET DOMAIN owner, twice: BOOLEAN,
                     created: BOOLEAN, late: Nat, deleted: BOOLEAN, moved: BOOLEAN]
<1>1. walk \in Walks BY DEF ApiTypeOK
<1>2. NoWalk \in Walks BY DEF NoWalk
<1>3. \A scope : Visible(scope) \subseteq stored /\ Cardinality(Visible(scope)) \in Nat
  BY StoredCardinality DEF Visible
<1>4. Slice \subseteq stored BY DEF Slice, Visible
<1>5. stored \subseteq DOMAIN owner /\ Caller \in {"anyone", "me"} /\ 0 \in 0..Len(owner) BY Known
<1>6. at' \in {"idle", "count", "rows", "listed"} /\ job' \in 0..Len(owner)
  BY <1>5 DEF OpenHistory, Count, Rows, NextPage, LeaveHistory, Done, ApiTypeOK
<1>7. walk' \in Walks
  <2>1. CASE OpenHistory BY <1>2, <2>1 DEF OpenHistory
  <2>2. CASE Count
    <3>1. walk' = [walk EXCEPT !.total = Cardinality(Visible(Caller)), !.scope = Caller, !.late = 0,
                     !.start = IF walk.scope = "none" THEN Visible(Caller) ELSE @,
                     !.moved = @ \/ walk.scope \notin {"none", Caller}]
      BY <2>2 DEF Count
    <3>2. /\ Cardinality(Visible(Caller)) \in Nat /\ Visible(Caller) \subseteq DOMAIN owner
          /\ (walk.moved \/ walk.scope \notin {"none", Caller}) \in BOOLEAN
      BY <1>3, <1>5
    <3> HIDE DEF Visible, Caller
    <3> QED BY <1>1, <1>5, <3>1, <3>2
  <2>3. CASE Rows
    <3>1. walk' = [walk EXCEPT !.seen = @ \cup Slice, !.twice = @ \/ Slice \cap walk.seen # {}]
      BY <2>3 DEF Rows
    <3>2. Slice \subseteq DOMAIN owner /\ (walk.twice \/ Slice \cap walk.seen # {}) \in BOOLEAN
      BY <1>4, <1>5
    <3> QED BY <1>1, <3>1, <3>2
  <2>4. CASE NextPage BY <1>1, <2>4 DEF NextPage
  <2>5. CASE LeaveHistory BY <1>2, <2>5 DEF LeaveHistory
  <2> QED BY <2>1, <2>2, <2>3, <2>4, <2>5
<1> QED BY <1>6, <1>7 DEF ApiTypeOK

(* A job created: by others at any time, by the client when it is not       *)
(* browsing                                                                  *)
LEMMA TypeCreate ==
  ASSUME ApiInv, OthersCreate \/ CreateAnalysis \/ RefreshJob
  PROVE  ApiTypeOK'
<1> USE DEF user, place, page
<1>1. ApiTypeOK /\ (at = "refresh" => job \in DOMAIN owner)
  BY Known DEF ApiInv, ApiTypeOK
<1>2. \E o \in Owners, from \in 0..MaxJobs : Create(o, from)
  <2>1. stored \subseteq 0..MaxJobs /\ DOMAIN owner \subseteq 0..MaxJobs /\ 0 \in 0..MaxJobs
    BY <1>1, Known, ApiAssumption DEF ApiAssumption
  <2>2. CASE OthersCreate BY <2>1, <2>2 DEF OthersCreate
  <2>3. CASE CreateAnalysis BY <1>1, <2>1, <2>3, Known DEF CreateAnalysis, Owners
  <2>4. CASE RefreshJob BY <1>1, <2>1, <2>4, Known DEF RefreshJob
  <2> QED BY <2>2, <2>3, <2>4
<1>3. /\ owner' \in Seq(Owners) /\ Len(owner') <= MaxJobs
      /\ origin' \in Seq(0..MaxJobs) /\ Len(origin') = Len(owner')
      /\ stored' \subseteq DOMAIN owner' /\ DOMAIN owner \subseteq DOMAIN owner'
      /\ Len(owner') = Len(owner) + 1 /\ Len(owner) \in Nat
  BY <1>1, <1>2, CreateAdds, Known
<1>4. /\ walk'.start = walk.start /\ walk'.seen = walk.seen
      /\ walk' \in [page: Nat, total: Nat, scope: {"none", "anyone", "me"},
                  start: SUBSET DOMAIN owner, seen: SUBSET DOMAIN owner, twice: BOOLEAN,
                  created: BOOLEAN, late: Nat, deleted: BOOLEAN, moved: BOOLEAN]
  <2>1. walk \in [page: Nat, total: Nat, scope: {"none", "anyone", "me"},
                  start: SUBSET DOMAIN owner, seen: SUBSET DOMAIN owner, twice: BOOLEAN,
                  created: BOOLEAN, late: Nat, deleted: BOOLEAN, moved: BOOLEAN]
    BY <1>1 DEF ApiTypeOK
  <2>2. CASE OthersCreate
    <3>1. \/ walk' = walk
          \/ \E m \in {0, 1} : walk' = [walk EXCEPT !.created = TRUE, !.late = @ + m]
      BY <2>2 DEF OthersCreate
    <3>2. ASSUME NEW m \in {0, 1}, walk' = [walk EXCEPT !.created = TRUE, !.late = @ + m]
          PROVE  /\ walk'.start = walk.start /\ walk'.seen = walk.seen
                 /\ walk' \in [page: Nat, total: Nat, scope: {"none", "anyone", "me"},
                      start: SUBSET DOMAIN owner, seen: SUBSET DOMAIN owner, twice: BOOLEAN,
                      created: BOOLEAN, late: Nat, deleted: BOOLEAN, moved: BOOLEAN]
      <4>1. walk.late + m \in Nat BY <2>1
      <4>2. walk' = [walk EXCEPT !.created = TRUE, !.late = walk.late + m] BY <2>1, <3>2
      <4> QED BY <2>1, <4>1, <4>2
    <3> QED BY <2>1, <3>1, <3>2
  <2>3. CASE CreateAnalysis \/ RefreshJob BY <2>1, <2>3 DEF CreateAnalysis, RefreshJob
  <2> QED BY <2>2, <2>3
<1>5. /\ UNCHANGED <<account, session, status, data, failing, results, delivered, faults>>
      /\ UNCHANGED <<at, job>> \/ (at' = "idle" /\ job' = 0)
  BY DEF OthersCreate, CreateAnalysis, RefreshJob, Done
<1>6. job' \in 0..Len(owner') BY <1>1, <1>3, <1>5 DEF ApiTypeOK
<1> QED BY <1>1, <1>3, <1>4, <1>5, <1>6 DEF ApiTypeOK

(* A job deleted *)
LEMMA TypeDelete ==
  ASSUME ApiTypeOK, OthersDelete \/ DeleteJob
  PROVE  ApiTypeOK'
<1> USE DEF user, place, page, Remove
<1>1. stored' \subseteq DOMAIN owner' /\ UNCHANGED <<owner, origin>>
  BY DEF OthersDelete, DeleteJob, ApiTypeOK
<1>2. walk' \in [page: Nat, total: Nat, scope: {"none", "anyone", "me"},
                 start: SUBSET DOMAIN owner, seen: SUBSET DOMAIN owner, twice: BOOLEAN,
                 created: BOOLEAN, late: Nat, deleted: BOOLEAN, moved: BOOLEAN]
  <2>1. CASE OthersDelete
    <3>1. PICK k \in stored : walk' = [walk EXCEPT !.deleted = @ \/ owner[k] = walk.scope]
      BY <2>1 DEF OthersDelete
    <3> QED BY <3>1 DEF ApiTypeOK
  <2>2. CASE DeleteJob BY <2>2 DEF DeleteJob, ApiTypeOK
  <2> QED BY <2>1, <2>2
<1>3. /\ UNCHANGED <<account, session, status, data, failing, results, delivered, faults>>
      /\ UNCHANGED <<at, job>> \/ (at' = "idle" /\ job' = 0)
  BY DEF OthersDelete, DeleteJob, Done
<1>4. job' \in 0..Len(owner') BY <1>1, <1>3, Known DEF ApiTypeOK
<1> QED BY <1>1, <1>2, <1>3, <1>4 DEF ApiTypeOK

(* Every step keeps the types *)
LEMMA TypeStep == ApiInv /\ [Next]_vars => ApiTypeOK'
<1> SUFFICES ASSUME ApiInv, [Next]_vars PROVE ApiTypeOK'
  OBVIOUS
<1>1. ApiTypeOK BY DEF ApiInv
<1>2. CASE UNCHANGED vars BY <1>1, <1>2 DEF vars, jobs, user, place, page, ApiTypeOK
<1>3. CASE OthersCreate \/ CreateAnalysis \/ RefreshJob BY <1>3, TypeCreate
<1>4. CASE OthersDelete \/ DeleteJob BY <1>1, <1>4, TypeDelete
<1>5. CASE \/ OthersRegister \/ RegisterLookup \/ RegisterInsert \/ Login \/ RefreshTokens
           \/ Expire \/ Load
  <2>1. UNCHANGED <<jobs, walk>>
    BY <1>5 DEF OthersRegister, RegisterLookup, RegisterInsert, Login, RefreshTokens, Expire, Load
  <2> QED BY <1>1, <1>5, <2>1, TypeUser
<1>6. CASE OpenHistory \/ Count \/ Rows \/ NextPage \/ LeaveHistory
  <2>1. UNCHANGED <<jobs, user, page>>
    BY <1>6 DEF OpenHistory, Count, Rows, NextPage, LeaveHistory
  <2> QED BY <1>1, <1>6, <2>1, TypeWalk
<1>7. CASE \/ OpenPage \/ Work \/ Lose \/ RunAgain \/ Poll \/ LosePoll \/ GetResults \/ LoseResults
           \/ LeavePage
  <2>1. UNCHANGED <<jobs, user, walk>>
    BY <1>7 DEF OpenPage, Work, Lose, RunAgain, Poll, LosePoll, GetResults, LoseResults, LeavePage
  <2> QED BY <1>1, <1>7, <2>1, TypePage
<1> QED BY <1>2, <1>3, <1>4, <1>5, <1>6, <1>7 DEF Next

-----------------------------------------------------------------------------
(* What is confined *)
Confined ==
  /\ OwnershipConfined
  /\ \A k \in DOMAIN owner : origin[k] < k
  /\ at \in {"delete", "refresh"} => job > 0

(* Who creates a job can only give it to nobody, to itself, or to the owner *)
(* of the job it is a refresh of                                             *)
LEMMA ConfinedCreate ==
  ASSUME ApiInv, OthersCreate \/ CreateAnalysis \/ RefreshJob
  PROVE  Confined'
<1> USE DEF user, place, page
<1>1. ApiTypeOK /\ OwnershipConfined /\ (at = "refresh" => job \in DOMAIN owner)
  BY Known DEF ApiInv, ApiTypeOK
<1>2. PICK o \in Owners, from \in 0..MaxJobs :
        /\ Create(o, from) /\ (o = "me" => account = "me")
        /\ from # 0 => from \in DOMAIN owner /\ o = owner[from]
  <2>1. /\ stored \subseteq 0..MaxJobs /\ DOMAIN owner \subseteq 0..MaxJobs /\ 0 \in 0..MaxJobs
        /\ stored \subseteq DOMAIN owner
    BY <1>1, Known, ApiAssumption DEF ApiAssumption
  <2>2. CASE OthersCreate BY <2>1, <2>2 DEF OthersCreate
  <2>3. CASE CreateAnalysis
    <3>1. Caller = "me" => account = "me" BY <1>1 DEF Caller, OwnershipConfined
    <3> QED BY <1>1, <2>1, <2>3, <3>1, Known DEF CreateAnalysis, Owners
  <2>4. CASE RefreshJob BY <1>1, <2>1, <2>4, Known DEF RefreshJob, OwnershipConfined
  <2> QED BY <2>2, <2>3, <2>4
<1>3. /\ DOMAIN owner = 1..Len(owner) /\ DOMAIN owner' = 1..(Len(owner) + 1) /\ Len(owner) \in Nat
      /\ \A k \in DOMAIN owner : owner'[k] = owner[k] /\ origin'[k] = origin[k]
      /\ owner'[Len(owner) + 1] = o /\ origin'[Len(owner) + 1] = from
  BY <1>1, <1>2, CreateAdds, Known
<1>4. walk'.seen = walk.seen /\ walk.seen \subseteq DOMAIN owner
  <2>1. \/ walk' = walk
        \/ \E m \in {0, 1} : walk' = [walk EXCEPT !.created = TRUE, !.late = @ + m]
    BY DEF OthersCreate, CreateAnalysis, RefreshJob
  <2> QED BY <1>1, <2>1 DEF ApiTypeOK
<1>5. UNCHANGED <<account, session>>
      /\ (UNCHANGED <<at, job>> \/ at' = "idle")
  BY DEF OthersCreate, CreateAnalysis, RefreshJob, Done
<1>6. \A k \in DOMAIN owner :
        origin[k] < k /\ origin[k] \in 0..MaxJobs /\ (origin[k] # 0 => origin[k] \in DOMAIN owner)
  BY <1>1, <1>3, Known DEF ApiInv
<1>7. \A k \in DOMAIN owner' :
        /\ owner'[k] = "me" => account' = "me"
        /\ origin'[k] # 0 => owner'[k] = owner'[origin'[k]]
        /\ origin'[k] < k
  BY <1>1, <1>2, <1>3, <1>5, <1>6 DEF OwnershipConfined
<1>8. /\ session' # "none" => account' = "me"
      /\ at' \in {"delete", "refresh"} => owner'[job'] \in {"anyone", "me"} /\ job' > 0
      /\ \A k \in walk'.seen : owner'[k] # "other"
  BY <1>1, <1>3, <1>4, <1>5, Known DEF OwnershipConfined, ApiInv, ApiTypeOK
<1> QED BY <1>7, <1>8 DEF Confined, OwnershipConfined

(* The other steps change no owner. The client only turns to jobs it may    *)
(* open, and only lists what is in the scope of its request                  *)
LEMMA ConfinedStep ==
  ASSUME ApiInv, [Next]_vars, ~(OthersCreate \/ CreateAnalysis \/ RefreshJob)
  PROVE  Confined'
<1> USE DEF jobs, user, place, page
<1>1. ApiTypeOK /\ OwnershipConfined BY DEF ApiInv
<1>2. UNCHANGED <<owner, origin>>
  BY DEF Next, vars, OthersDelete, DeleteJob, Remove, OthersRegister, RegisterLookup,
     RegisterInsert, Login, RefreshTokens, Expire, Load, OpenHistory, Count, Rows, NextPage,
     LeaveHistory, OpenPage, Work, Lose, RunAgain, Poll, LosePoll, GetResults, LoseResults, LeavePage
<1>3. /\ session' # "none" => account' = "me"
      /\ account = "me" => account' = "me"
  <2>1. CASE OthersRegister BY <1>1, <2>1 DEF OthersRegister, OwnershipConfined
  <2>2. CASE RegisterInsert BY <1>1, <2>2 DEF RegisterInsert, OwnershipConfined
  <2>3. CASE Login BY <1>1, <2>3 DEF Login, OwnershipConfined
  <2>4. CASE RefreshTokens \/ Expire BY <1>1, <2>4 DEF RefreshTokens, Expire, OwnershipConfined
  <2>5. CASE ~(OthersRegister \/ RegisterInsert \/ Login \/ RefreshTokens \/ Expire)
    <3>1. UNCHANGED user
      BY <2>5 DEF Next, vars, OthersDelete, DeleteJob, RegisterLookup, Load, OpenHistory, Count,
         Rows, NextPage, LeaveHistory, OpenPage, Work, Lose, RunAgain, Poll, LosePoll, GetResults,
         LoseResults, LeavePage
    <3> QED BY <1>1, <3>1 DEF OwnershipConfined
  <2> QED BY <2>1, <2>2, <2>3, <2>4, <2>5
<1>4. at' \in {"delete", "refresh"} => owner[job'] \in {"anyone", "me"} /\ job' > 0
  <2>1. CASE Load
    <3>1. PICK k \in stored : Open(k) /\ job' = k BY <2>1 DEF Load
    <3>2. owner[k] \in {"anyone", "me"} BY <3>1 DEF Open, Caller
    <3>3. k \in 1..Len(owner) BY <1>1, Known
    <3>4. k > 0 BY <1>1, <3>3, Known
    <3> QED BY <3>1, <3>2, <3>4
  <2>2. CASE ~Load
    <3>1. UNCHANGED <<at, job>> \/ at' \notin {"delete", "refresh"}
      BY <2>2 DEF Next, vars, OthersDelete, DeleteJob, RegisterLookup, RegisterInsert, Login,
         RefreshTokens, Expire, OthersRegister, OpenHistory, Count, Rows, NextPage, LeaveHistory,
         OpenPage, Work, Lose, RunAgain, Poll, LosePoll, GetResults, LoseResults, LeavePage, Done
    <3> QED BY <3>1 DEF ApiInv, OwnershipConfined
  <2> QED BY <2>1, <2>2
<1>5. \A k \in walk'.seen : owner[k] # "other"
  <2>1. CASE Rows
    <3>1. walk'.seen = walk.seen \cup Slice BY <1>1, <2>1 DEF Rows, ApiTypeOK
    <3>2. \A k \in Slice : owner[k] = walk.scope BY DEF Slice, Visible
    <3>3. walk.scope # "other" BY <1>1 DEF ApiTypeOK
    <3> QED BY <1>1, <3>1, <3>2, <3>3 DEF OwnershipConfined
  <2>2. CASE ~Rows
    <3>1. walk'.seen \in {walk.seen, {}}
      <4>1. CASE OthersDelete BY <1>1, <4>1 DEF OthersDelete, ApiTypeOK
      <4>2. CASE OpenHistory \/ LeaveHistory BY <4>2 DEF OpenHistory, LeaveHistory, NoWalk
      <4>3. CASE Count \/ NextPage BY <1>1, <4>3 DEF Count, NextPage, ApiTypeOK
      <4>4. CASE ~(OthersDelete \/ OpenHistory \/ LeaveHistory \/ Count \/ NextPage)
        BY <2>2, <4>4 DEF Next, vars, DeleteJob, OthersRegister, RegisterLookup, RegisterInsert,
           Login, RefreshTokens, Expire, Load, OpenPage, Work, Lose, RunAgain, Poll, LosePoll,
           GetResults, LoseResults, LeavePage
      <4> QED BY <4>1, <4>2, <4>3, <4>4
    <3> QED BY <1>1, <3>1 DEF OwnershipConfined
  <2> QED BY <2>1, <2>2
<1> QED BY <1>1, <1>2, <1>3, <1>4, <1>5 DEF ApiInv, Confined, OwnershipConfined

-----------------------------------------------------------------------------
(* Pages *)

(* Where a walk under way starts a page is where the page before it ended   *)
LEMMA PageBorders ==
  ASSUME NEW p \in Nat, p > 0
  PROVE  /\ (p - 1) * PageSize + PageSize = p * PageSize
         /\ (p - 1) * PageSize \in Nat /\ ((p + 1) - 1) * PageSize = p * PageSize
<1>1. PageSize \in Nat BY ApiAssumption DEF ApiAssumption
<1>2. PICK q \in Nat : p = q + 1
  <2>1. p - 1 \in Nat /\ p = (p - 1) + 1 OBVIOUS
  <2> QED BY <2>1
<1>3. q * PageSize \in Nat /\ (q + 1) * PageSize = q * PageSize + PageSize BY <1>1
<1>4. p - 1 = q /\ (p + 1) - 1 = p BY <1>2
<1> QED BY <1>2, <1>3, <1>4

(* A job does not go further down the list when others leave it *)
LEMMA PositionsFall ==
  ASSUME ApiTypeOK, ApiTypeOK', walk'.scope = walk.scope,
         Visible(walk.scope)' \subseteq Visible(walk.scope), NEW k
  PROVE  /\ Position(k) \in Nat /\ Position(k)' \in Nat /\ Position(k)' <= Position(k)
<1> DEFINE Before == {l \in Visible(walk.scope) : l >= k}
<1>1. Before \subseteq stored BY DEF Visible
<1>2. Before' \subseteq Before OBVIOUS
<1>3. Position(k) = Cardinality(Before) /\ Position(k)' = Cardinality(Before') BY DEF Position
<1> HIDE DEF Before
<1> QED BY <1>1, <1>2, <1>3, StoredCardinality

(* A walk that is over, or has not begun, has seen nothing *)
LEMMA WalkOver ==
  ASSUME ApiInv, [Next]_vars, ~Browsing'
  PROVE  WalkOK'
<1> USE DEF jobs, user, place, page
<1>1. ApiTypeOK /\ WalkOK BY DEF ApiInv
<1>2. walk'.seen = {} /\ ~walk'.twice
  <2>1. CASE Browsing
    <3>1. LeaveHistory
      BY <2>1 DEF Browsing, Next, vars, OthersCreate, OthersDelete, OthersRegister,
         RegisterLookup, RegisterInsert, Login, RefreshTokens, Expire, CreateAnalysis, Load,
         DeleteJob, RefreshJob, OpenHistory, Count, Rows, NextPage, OpenPage, Work, Lose, RunAgain,
         Poll, Polling, LosePoll, GetResults, LoseResults, LeavePage
    <3> QED BY <3>1 DEF LeaveHistory, NoWalk
  <2>2. CASE ~Browsing
    <3>1. walk.seen = {} /\ ~walk.twice BY <1>1, <2>2 DEF WalkOK
    <3>2. walk'.seen = walk.seen /\ walk'.twice = walk.twice
      <4>1. CASE OthersCreate BY <1>1, <4>1 DEF OthersCreate, ApiTypeOK
      <4>2. CASE OthersDelete BY <1>1, <4>2 DEF OthersDelete, ApiTypeOK
      <4>3. CASE ~(OthersCreate \/ OthersDelete)
        BY <2>2, <4>3 DEF Browsing, Next, vars, OthersRegister, RegisterLookup, RegisterInsert,
           Login, RefreshTokens, Expire, CreateAnalysis, Load, DeleteJob, RefreshJob,
           OpenHistory, Count, Rows, NextPage, LeaveHistory, OpenPage, Work, Lose, RunAgain, Poll,
           LosePoll, GetResults, LoseResults, LeavePage
      <4> QED BY <4>1, <4>2, <4>3
    <3> QED BY <3>1, <3>2
  <2> QED BY <2>1, <2>2
<1> QED BY <1>2 DEF WalkOK

(* Others change the list under a walk: what they create in its scope is    *)
(* noted, what they delete only brings the rest up                           *)
LEMMA WalkDisturbed ==
  ASSUME ApiInv, ApiTypeOK', Browsing', OthersCreate \/ OthersDelete
  PROVE  WalkOK'
<1> USE DEF jobs, user, place, page
<1>1. ApiTypeOK /\ WalkOK /\ Browsing /\ UNCHANGED at
  BY DEF ApiInv, Browsing, OthersCreate, OthersDelete
<1>2. /\ walk'.page = walk.page /\ walk'.scope = walk.scope /\ walk'.seen = walk.seen
      /\ walk'.twice = walk.twice /\ walk'.moved = walk.moved
  <2>1. CASE OthersCreate BY <1>1, <2>1 DEF OthersCreate, ApiTypeOK
  <2>2. CASE OthersDelete BY <1>1, <2>2 DEF OthersDelete, ApiTypeOK
  <2> QED BY <2>1, <2>2
<1>3. ~walk'.created => ~walk.created /\ Visible(walk.scope)' \subseteq Visible(walk.scope)
  <2>1. CASE OthersCreate
    <3>1. PICK o \in Owners, from \in {0} \cup stored :
            /\ Create(o, from)
            /\ walk' = IF o = walk.scope
                       THEN [walk EXCEPT !.created = TRUE, !.late = @ + (IF at = "rows" THEN 1 ELSE 0)]
                       ELSE walk
      BY <2>1 DEF OthersCreate
    <3>2. o = walk.scope => walk'.created BY <1>1, <3>1 DEF ApiTypeOK
    <3>3. from \in 0..MaxJobs BY <1>1, Known, ApiAssumption DEF ApiAssumption
    <3>4. /\ stored' = stored \cup {Len(owner) + 1} /\ owner'[Len(owner) + 1] = o
          /\ \A k \in DOMAIN owner : owner'[k] = owner[k]
      BY <1>1, <3>1, <3>3, CreateAdds
    <3>5. o # walk.scope => Visible(walk.scope)' \subseteq Visible(walk.scope)
      BY <1>1, <1>2, <3>4, Known DEF Visible
    <3> QED BY <3>1, <3>2, <3>5
  <2>2. CASE OthersDelete
    <3>1. stored' \subseteq stored /\ owner' = owner BY <2>2 DEF OthersDelete, Remove
    <3>2. walk'.created = walk.created BY <1>1, <2>2 DEF OthersDelete, ApiTypeOK
    <3> QED BY <1>2, <3>1, <3>2 DEF Visible
  <2> QED BY <2>1, <2>2
<1>4. Shown' = Shown BY <1>1, <1>2 DEF Shown, Offset
<1>5. Shown \in Nat
  <2>1. walk.page > 0 /\ walk.page \in Nat /\ PageSize \in Nat
    BY <1>1, ApiAssumption DEF WalkOK, ApiTypeOK, ApiAssumption
  <2>2. Offset \in Nat BY <2>1, PageBorders DEF Offset
  <2> QED BY <2>1, <2>2 DEF Shown
<1>6. ASSUME ~walk'.created, ~walk'.moved, NEW k \in (walk.seen \cap Visible(walk.scope))'
      PROVE  Position(k)' <= Shown'
  <2>1. Visible(walk.scope)' \subseteq Visible(walk.scope) /\ ~walk.created /\ ~walk.moved
    BY <1>2, <1>3, <1>6
  <2>2. k \in walk.seen \cap Visible(walk.scope) BY <1>2, <1>6, <2>1
  <2>3. Position(k) <= Shown BY <1>1, <2>1, <2>2 DEF WalkOK
  <2>4. Position(k) \in Nat /\ Position(k)' \in Nat /\ Position(k)' <= Position(k)
    BY <1>1, <1>2, <2>1, PositionsFall
  <2> QED BY <1>4, <1>5, <2>3, <2>4
<1>7. /\ Browsing' => walk'.page > 0
      /\ walk'.scope = "none" => walk'.seen = {} /\ ~walk'.twice /\ walk'.page = 1 /\ at' = "count"
  BY <1>1, <1>2 DEF WalkOK
<1>8. ~walk'.created /\ ~walk'.moved => ~walk'.twice BY <1>1, <1>2, <1>3 DEF WalkOK
<1> QED BY <1>6, <1>7, <1>8 DEF WalkOK

(* The rows of a page come after all that was seen and is still there *)
LEMMA RowsNext ==
  ASSUME ApiInv, Rows
  PROVE  WalkOK'
<1> USE DEF jobs, user, page
<1>1. ApiTypeOK /\ WalkOK /\ at = "rows" /\ at' = "listed" BY DEF ApiInv, Rows
<1>2. /\ walk'.seen = walk.seen \cup Slice /\ walk'.twice = (walk.twice \/ Slice \cap walk.seen # {})
      /\ walk'.page = walk.page /\ walk'.scope = walk.scope
      /\ walk'.created = walk.created /\ walk'.moved = walk.moved
      /\ UNCHANGED <<owner, stored>>
  BY <1>1 DEF Rows, ApiTypeOK
<1>3. walk.page > 0 /\ walk.page \in Nat /\ PageSize \in Nat
  BY <1>1, ApiAssumption DEF WalkOK, Browsing, ApiTypeOK, ApiAssumption
<1>4. Offset \in Nat /\ Shown = Offset /\ Shown' = Offset + PageSize
  BY <1>1, <1>2, <1>3, PageBorders DEF Shown, Offset
<1>5. \A k \in Slice : Position(k) \in Offset + 1 .. Offset + PageSize /\ k \in Visible(walk.scope)
  BY DEF Slice
<1>6. walk.scope # "none" BY <1>1 DEF WalkOK, Browsing
<1>7. CASE walk.created \/ walk.moved BY <1>1, <1>2, <1>3, <1>6, <1>7 DEF WalkOK, Browsing
<1>8. CASE ~walk.created /\ ~walk.moved
  <2>1. /\ ~walk.twice
        /\ \A k \in walk.seen \cap Visible(walk.scope) : Position(k) <= Offset
    BY <1>1, <1>4, <1>8 DEF WalkOK, Browsing
  <2>2. \A k : Position(k) \in Nat
    <3>1. \A k : {l \in Visible(walk.scope) : l >= k} \subseteq stored BY DEF Visible
    <3> QED BY <1>1, <3>1, StoredCardinality DEF Position
  <2>3. Slice \cap walk.seen = {} BY <1>4, <1>5, <2>1, <2>2
  <2>4. \A k \in (walk.seen \cup Slice) \cap Visible(walk.scope) : Position(k) <= Offset + PageSize
    BY <1>3, <1>4, <1>5, <2>1, <2>2
  <2>5. \A k : Position(k)' = Position(k) BY <1>2 DEF Position, Visible
  <2>6. Visible(walk.scope)' = Visible(walk.scope) BY <1>2 DEF Visible
  <2>7. \A k \in (walk.seen \cap Visible(walk.scope))' : Position(k)' <= Shown'
    BY <1>2, <1>4, <2>4, <2>5, <2>6
  <2> QED BY <1>1, <1>2, <1>3, <1>6, <2>1, <2>3, <2>7 DEF WalkOK, Browsing
<1> QED BY <1>7, <1>8

(* Every step keeps the walk in order *)
LEMMA WalkStep ==
  ASSUME ApiInv, [Next]_vars, ApiTypeOK'
  PROVE  WalkOK'
<1> USE DEF jobs, user, place, page
<1>1. ApiTypeOK /\ WalkOK BY DEF ApiInv
<1>2. CASE ~Browsing' BY <1>2, WalkOver
<1>3. CASE Browsing' /\ (OthersCreate \/ OthersDelete) BY <1>3, WalkDisturbed
<1>4. CASE Rows BY <1>4, RowsNext
<1>5. CASE OpenHistory
  <2>1. walk'.page = 1 /\ walk'.seen = {} /\ ~walk'.twice /\ walk'.scope = "none" /\ at' = "count"
    BY <1>5 DEF OpenHistory, NoWalk
  <2> QED BY <2>1 DEF WalkOK
<1>6. CASE Count
  <2>1. /\ walk'.seen = walk.seen /\ walk'.twice = walk.twice /\ walk'.page = walk.page
        /\ walk'.scope = Caller /\ walk'.created = walk.created
        /\ walk'.moved = (walk.moved \/ walk.scope \notin {"none", Caller})
        /\ UNCHANGED <<owner, stored>> /\ at = "count" /\ at' = "rows"
    BY <1>1, <1>6 DEF Count, ApiTypeOK
  <2>2. Caller # "none" BY <1>1, Known
  <2>3. walk.page > 0 BY <1>1, <2>1 DEF WalkOK, Browsing
  <2>4. CASE walk.scope = "none" BY <1>1, <2>1, <2>2, <2>3, <2>4 DEF WalkOK
  <2>5. CASE walk.scope = Caller
    <3>1. Visible(walk.scope)' = Visible(walk.scope) /\ Shown' = Shown /\ \A k : Position(k)' = Position(k)
      BY <2>1, <2>5 DEF Visible, Shown, Offset, Position
    <3>2. walk'.moved = walk.moved BY <1>1, <2>1, <2>5 DEF ApiTypeOK
    <3> QED BY <1>1, <2>1, <2>2, <2>3, <3>1, <3>2 DEF WalkOK, Browsing
  <2>6. CASE walk.scope \notin {"none", Caller} BY <2>1, <2>2, <2>3, <2>6 DEF WalkOK, Browsing
  <2> QED BY <2>4, <2>5, <2>6
<1>7. CASE NextPage
  <2>1. /\ walk'.seen = walk.seen /\ walk'.twice = walk.twice /\ walk'.page = walk.page + 1
        /\ walk'.scope = walk.scope /\ walk'.created = walk.created /\ walk'.moved = walk.moved
        /\ UNCHANGED <<owner, stored>> /\ at = "listed" /\ at' = "count"
    BY <1>1, <1>7 DEF NextPage, ApiTypeOK
  <2>2. walk.page > 0 /\ walk.page \in Nat /\ walk.scope # "none"
    BY <1>1, <2>1 DEF WalkOK, Browsing, ApiTypeOK
  <2>3. Shown' = Shown BY <2>1, <2>2, PageBorders DEF Shown, Offset
  <2>4. Visible(walk.scope)' = Visible(walk.scope) /\ \A k : Position(k)' = Position(k)
    BY <2>1 DEF Visible, Position
  <2> QED BY <1>1, <2>1, <2>2, <2>3, <2>4 DEF WalkOK, Browsing
<1>8. CASE Browsing' /\ ~(OthersCreate \/ OthersDelete \/ Rows \/ OpenHistory \/ Count \/ NextPage)
  <2>1. UNCHANGED <<owner, stored, at, walk>>
    BY <1>8 DEF Browsing, Next, vars, OthersRegister, RegisterLookup, RegisterInsert, Login,
       RefreshTokens, Expire, CreateAnalysis, Load, DeleteJob, RefreshJob, LeaveHistory, Done,
       OpenPage, Work, Lose, RunAgain, Poll, LosePoll, GetResults, LoseResults, LeavePage
  <2>2. /\ Visible(walk.scope)' = Visible(walk.scope) /\ Shown' = Shown /\ Browsing' = Browsing
        /\ \A k : Position(k)' = Position(k)
    BY <2>1 DEF Visible, Shown, Offset, Position, Browsing
  <2> QED BY <1>1, <2>1, <2>2 DEF WalkOK
<1> QED BY <1>2, <1>3, <1>4, <1>5, <1>6, <1>7, <1>8

-----------------------------------------------------------------------------
(* What is still to come *)

(* A set of naturals with a bound has a greatest element *)
LEMMA Greatest ==
  ASSUME NEW n \in Nat, NEW U \in SUBSET (1..n), U # {}
  PROVE  \E m \in U : \A k \in U : k <= m
<1> DEFINE Less == {ss \in Nat \X Nat : ss[1] < ss[2]}
           Below == {n - k : k \in U}
<1>1. IsWellFoundedOn(Less, Nat) BY NatLessThanWellFounded DEF OpToRel
<1>2. Below \subseteq Nat /\ Below # {}
  <2>1. \A k \in U : n - k \in Nat OBVIOUS
  <2> QED BY <2>1
<1> HIDE DEF Less, Below
<1>3. PICK b \in Below : \A c \in Below : ~(<<c, b>> \in Less) BY <1>1, <1>2, WFMin
<1>4. PICK m \in U : b = n - m BY DEF Below
<1>5. ASSUME NEW k \in U PROVE k <= m
  <2>1. n - k \in Below /\ n - k \in Nat /\ b \in Nat BY <1>2 DEF Below
  <2>2. ~(n - k < b) BY <1>3, <2>1 DEF Less
  <2> QED BY <1>4, <2>1, <2>2
<1> QED BY <1>5

(* Of the jobs listed beyond a position there are no more than come after   *)
(* it                                                                        *)
LEMMA FewBeyond ==
  ASSUME ApiTypeOK, NEW scope, NEW U \in SUBSET Visible(scope),
         NEW total \in Nat, NEW late \in Nat, Cardinality(Visible(scope)) = total + late,
         \A k \in U : Cardinality({l \in Visible(scope) : l >= k}) > total
  PROVE  Cardinality(U) <= late
<1>1. CASE U = {} BY <1>1, FS_EmptySet
<1>2. CASE U # {}
  <2> DEFINE n == Len(owner)
             V == Visible(scope)
  <2>1. V \subseteq stored /\ V \subseteq 1..n /\ n \in Nat BY Known DEF Visible
  <2>2. PICK m \in U : \A k \in U : k <= m BY <1>2, <2>1, Greatest
  <2> DEFINE From == {l \in V : l >= m}
             Rest == V \ From
  <2>3. /\ IsFiniteSet(V) /\ IsFiniteSet(From) /\ IsFiniteSet(Rest) /\ IsFiniteSet(U)
        /\ Cardinality(V) \in Nat /\ Cardinality(From) \in Nat /\ Cardinality(Rest) \in Nat
        /\ Cardinality(U) \in Nat
    BY <2>1, StoredCardinality
  <2>4. Cardinality(Rest) = Cardinality(V) - Cardinality(From)
    <3>1. V \cap From = From OBVIOUS
    <3> HIDE DEF From, V
    <3> QED BY <2>3, <3>1, FS_Difference, ZenonT(30)
  <2>5. U \subseteq Rest \cup {m}
    <3>1. \A k \in U : k \in 1..n /\ k \in V BY <2>1
    <3> QED BY <2>2, <3>1
  <2>6. IsFiniteSet(Rest \cup {m}) /\ Cardinality(Rest \cup {m}) <= Cardinality(Rest) + 1
        /\ Cardinality(Rest \cup {m}) \in Nat
    <3> HIDE DEF Rest
    <3>1. /\ IsFiniteSet(Rest \cup {m})
          /\ Cardinality(Rest \cup {m}) =
               IF m \in Rest THEN Cardinality(Rest) ELSE Cardinality(Rest) + 1
      BY <2>3, FS_AddElement
    <3> QED BY <2>3, <3>1
  <2>7. Cardinality(U) <= Cardinality(Rest \cup {m})
    <3> HIDE DEF Rest
    <3> QED BY <2>5, <2>6, FS_Subset
  <2>8. Cardinality(From) > total /\ Cardinality(V) = total + late BY <2>2
  <2> HIDE DEF From, Rest, V
  <2> QED BY <2>3, <2>4, <2>6, <2>7, <2>8
<1> QED BY <1>1, <1>2

(* A job created by others goes to the top of the list, and pushes down     *)
(* what is to come                                                            *)
LEMMA RestCreate ==
  ASSUME ApiInv, ApiTypeOK', OthersCreate
  PROVE  RestOK'
<1> USE DEF jobs, user, place, page
<1>1. ApiTypeOK /\ WalkOK /\ RestOK /\ UNCHANGED at BY DEF ApiInv, OthersCreate
<1>2. PICK o \in Owners, from \in {0} \cup stored :
        /\ Create(o, from)
        /\ walk' = IF o = walk.scope
                   THEN [walk EXCEPT !.created = TRUE, !.late = @ + (IF at = "rows" THEN 1 ELSE 0)]
                   ELSE walk
  BY DEF OthersCreate
<1> DEFINE new == Len(owner) + 1
           V == Visible(walk.scope)
<1>3. /\ stored' = stored \cup {new} /\ owner'[new] = o /\ new \notin stored
      /\ \A k \in DOMAIN owner : owner'[k] = owner[k]
  <2>1. from \in 0..MaxJobs BY <1>1, Known, ApiAssumption DEF ApiAssumption
  <2>2. new \notin stored BY <1>1, Known
  <2> QED BY <1>1, <1>2, <2>1, <2>2, CreateAdds
<1>4. /\ walk'.scope = walk.scope /\ walk'.start = walk.start /\ walk'.seen = walk.seen
      /\ walk'.page = walk.page /\ walk'.total = walk.total
      /\ walk'.deleted = walk.deleted /\ walk'.moved = walk.moved
      /\ walk'.late = IF o = walk.scope /\ at = "rows" THEN walk.late + 1 ELSE walk.late
  BY <1>1, <1>2 DEF ApiTypeOK
<1>5. V' = IF o = walk.scope THEN V \cup {new} ELSE V
  BY <1>1, <1>3, <1>4, Known DEF Visible
<1>6. V \subseteq stored /\ IsFiniteSet(V) /\ Cardinality(V) \in Nat /\ new \notin V
  BY <1>1, <1>3, StoredCardinality DEF Visible
<1>7. IsFiniteSet(V') /\ Cardinality(V') = IF o = walk.scope THEN Cardinality(V) + 1 ELSE Cardinality(V)
  <2> HIDE DEF V, new
  <2> QED BY <1>5, <1>6, FS_AddElement
<1>8. ASSUME NEW k PROVE Position(k) \in Nat /\ Position(k)' \in Nat /\ Position(k)' >= Position(k)
  <2> DEFINE After == {l \in V : l >= k}
  <2>1. After \subseteq After' /\ After' \subseteq V' BY <1>5
  <2>2. Position(k) = Cardinality(After) /\ Position(k)' = Cardinality(After') BY DEF Position
  <2> HIDE DEF After, V
  <2>3. IsFiniteSet(After') BY <1>7, <2>1, FS_Subset
  <2>4. IsFiniteSet(After) /\ Cardinality(After) <= Cardinality(After') BY <2>1, <2>3, FS_Subset
  <2> QED BY <2>2, <2>3, <2>4, FS_CardinalityType
<1>9. Shown' = Shown /\ LastPage' = LastPage BY <1>1, <1>4 DEF Shown, Offset, LastPage
<1>10. Browsing' = Browsing BY <1>1 DEF Browsing
<1>11. SUFFICES ASSUME Browsing, walk.scope # "none", ~walk.deleted, ~walk.moved
       PROVE  /\ walk.start \subseteq V'
              /\ \A k \in walk.start \ walk.seen : Position(k)' > Shown
              /\ at = "rows" => Cardinality(V') = walk.total + walk'.late
              /\ at = "listed" /\ LastPage => Cardinality(walk.start \ walk.seen) <= walk'.late
  BY <1>1, <1>4, <1>9, <1>10 DEF RestOK
<1>12. /\ walk.start \subseteq V
       /\ \A k \in walk.start \ walk.seen : Position(k) > Shown
       /\ at = "rows" => Cardinality(V) = walk.total + walk.late
       /\ at = "listed" /\ LastPage => Cardinality(walk.start \ walk.seen) <= walk.late
  BY <1>1, <1>11 DEF RestOK
<1>13. Shown \in Nat /\ walk.total \in Nat /\ walk.late \in Nat
  <2>1. walk.page > 0 /\ walk.page \in Nat /\ PageSize \in Nat /\ walk.total \in Nat /\ walk.late \in Nat
    BY <1>1, <1>11, ApiAssumption DEF WalkOK, ApiTypeOK, ApiAssumption
  <2>2. Offset \in Nat BY <2>1, PageBorders DEF Offset
  <2> QED BY <2>1, <2>2 DEF Shown
<1>14. \A k \in walk.start \ walk.seen : Position(k)' > Shown BY <1>8, <1>12, <1>13
<1>15. at = "rows" => Cardinality(V') = walk.total + walk'.late
  <2> HIDE DEF V
  <2> QED BY <1>4, <1>6, <1>7, <1>12, <1>13
<1>16. at = "listed" => walk'.late = walk.late BY <1>4
<1> QED BY <1>5, <1>12, <1>14, <1>15, <1>16

(* The rows of a page are what is to come up to its end *)
LEMMA RestRows ==
  ASSUME ApiInv, ApiTypeOK', Rows
  PROVE  RestOK'
<1> USE DEF jobs, user, page
<1>1. ApiTypeOK /\ WalkOK /\ RestOK /\ at = "rows" /\ at' = "listed" BY DEF ApiInv, Rows
<1>2. /\ walk'.seen = walk.seen \cup Slice /\ walk'.start = walk.start
      /\ walk'.page = walk.page /\ walk'.scope = walk.scope /\ walk'.total = walk.total
      /\ walk'.late = walk.late /\ walk'.deleted = walk.deleted /\ walk'.moved = walk.moved
      /\ UNCHANGED <<owner, stored>>
  BY <1>1 DEF Rows, ApiTypeOK
<1>3. walk.page > 0 /\ walk.page \in Nat /\ PageSize \in Nat /\ walk.total \in Nat /\ walk.late \in Nat
  BY <1>1, ApiAssumption DEF WalkOK, Browsing, ApiTypeOK, ApiAssumption
<1>4. /\ Offset \in Nat /\ Shown = Offset /\ Shown' = Offset + PageSize
      /\ Offset + PageSize = walk.page * PageSize
  BY <1>1, <1>2, <1>3, PageBorders DEF Shown, Offset
<1>5. /\ \A k : Position(k)' = Position(k)
      /\ Visible(walk.scope)' = Visible(walk.scope) /\ LastPage' = LastPage
  BY <1>2 DEF Position, Visible, LastPage
<1>6. SUFFICES ASSUME walk.scope # "none", ~walk.deleted, ~walk.moved
      PROVE  /\ walk.start \subseteq Visible(walk.scope)
             /\ \A k \in walk.start \ (walk.seen \cup Slice) : Position(k) > Offset + PageSize
             /\ LastPage => Cardinality(walk.start \ (walk.seen \cup Slice)) <= walk.late
  BY <1>1, <1>2, <1>4, <1>5 DEF RestOK
<1>7. /\ walk.start \subseteq Visible(walk.scope)
      /\ \A k \in walk.start \ walk.seen : Position(k) > Offset
      /\ Cardinality(Visible(walk.scope)) = walk.total + walk.late
  BY <1>1, <1>4, <1>6 DEF RestOK, Browsing
<1>8. ASSUME NEW k \in walk.start \ (walk.seen \cup Slice)
      PROVE  Position(k) > Offset + PageSize
  <2>1. Position(k) \in Nat
    <3>1. {l \in Visible(walk.scope) : l >= k} \subseteq stored BY DEF Visible
    <3> QED BY <1>1, <3>1, StoredCardinality DEF Position
  <2>2. Position(k) > Offset /\ k \in Visible(walk.scope) BY <1>7, <1>8
  <2>3. Position(k) \notin Offset + 1 .. Offset + PageSize BY <1>8, <2>2 DEF Slice
  <2> QED BY <1>3, <1>4, <2>1, <2>2, <2>3
<1>9. ASSUME LastPage PROVE Cardinality(walk.start \ (walk.seen \cup Slice)) <= walk.late
  <2> DEFINE U == walk.start \ (walk.seen \cup Slice)
  <2>1. walk.page * PageSize >= walk.total BY <1>9 DEF LastPage
  <2>2. \A k \in U : Cardinality({l \in Visible(walk.scope) : l >= k}) > walk.total
    <3>1. ASSUME NEW k \in U PROVE Cardinality({l \in Visible(walk.scope) : l >= k}) > walk.total
      <4>1. Position(k) > walk.page * PageSize BY <1>4, <1>8
      <4>2. Position(k) \in Nat
        <5>1. {l \in Visible(walk.scope) : l >= k} \subseteq stored BY DEF Visible
        <5> QED BY <1>1, <5>1, StoredCardinality DEF Position
      <4>3. walk.page * PageSize \in Nat BY <1>3
      <4>4. Position(k) > walk.total BY <1>3, <2>1, <4>1, <4>2, <4>3
      <4> QED BY <4>4 DEF Position
    <3> QED BY <3>1
  <2>3. U \subseteq Visible(walk.scope) BY <1>7
  <2> HIDE DEF U
  <2>4. Cardinality(U) <= walk.late BY <1>1, <1>3, <1>7, <2>2, <2>3, FewBeyond
  <2> QED BY <2>4 DEF U
<1> QED BY <1>7, <1>8, <1>9
(* A count begins a walk, goes on with it, or finds it moved to another     *)
(* scope                                                                     *)
LEMMA RestCount ==
  ASSUME ApiInv, ApiTypeOK', Count
  PROVE  RestOK'
<1> USE DEF jobs, user, page
<1>1. ApiTypeOK /\ WalkOK /\ RestOK /\ at = "count" /\ at' = "rows" BY DEF ApiInv, Count
<1>2. /\ walk'.seen = walk.seen /\ walk'.page = walk.page /\ walk'.scope = Caller
      /\ walk'.start = (IF walk.scope = "none" THEN Visible(Caller) ELSE walk.start)
      /\ walk'.total = Cardinality(Visible(Caller)) /\ walk'.late = 0
      /\ walk'.deleted = walk.deleted
      /\ walk'.moved = (walk.moved \/ walk.scope \notin {"none", Caller})
      /\ UNCHANGED <<owner, stored>>
  BY <1>1 DEF Count, ApiTypeOK
<1>3. walk.page > 0 /\ walk.page \in Nat /\ PageSize \in Nat /\ Caller # "none"
  BY <1>1, Known, ApiAssumption DEF WalkOK, Browsing, ApiTypeOK, ApiAssumption
<1>4. Shown = Offset /\ Shown' = Offset BY <1>1, <1>2 DEF Shown, Offset
<1>5. Visible(walk.scope)' = Visible(Caller) BY <1>2 DEF Visible
<1>6. Cardinality(Visible(Caller)) \in Nat
  <2>1. Visible(Caller) \subseteq stored BY DEF Visible
  <2> QED BY <1>1, <2>1, StoredCardinality
<1>7. SUFFICES ASSUME ~walk.deleted, ~walk.moved, walk.scope \in {"none", Caller}
      PROVE  /\ walk'.start \subseteq Visible(Caller)
             /\ \A k \in walk'.start \ walk.seen : Position(k)' > Offset
  <2>1. walk'.moved \in BOOLEAN /\ walk.moved \in BOOLEAN BY <1>1 DEF ApiTypeOK
  <2>2. ~walk'.moved => ~walk.moved /\ walk.scope \in {"none", Caller} BY <1>2, <2>1
  <2>3. Cardinality(Visible(walk.scope)') = walk'.total + walk'.late BY <1>2, <1>5, <1>6
  <2> HIDE DEF Visible, Position, Shown, Offset, LastPage, Caller
  <2>4. \A k \in walk'.start \ walk.seen : Position(k)' > Offset => Position(k)' > Shown'
    BY <1>4
  <2> QED BY <1>1, <1>2, <1>4, <1>5, <2>2, <2>3, <2>4 DEF RestOK
<1>8. CASE walk.scope = Caller
  <2>1. \A k : Position(k)' = Position(k) BY <1>2, <1>8 DEF Position, Visible
  <2> QED BY <1>1, <1>2, <1>3, <1>4, <1>7, <1>8, <2>1 DEF RestOK, Browsing
<1>9. CASE walk.scope = "none"
  <2>1. walk'.start = Visible(Caller) BY <1>2, <1>9
  <2>2. Offset = 0
    <3>1. walk.page = 1 BY <1>1, <1>9 DEF WalkOK, Browsing
    <3> QED BY <1>3, <3>1 DEF Offset
  <2>3. ASSUME NEW k \in Visible(Caller) PROVE Position(k)' > 0
    <3> DEFINE From == {l \in Visible(Caller) : l >= k}
    <3>1. Position(k)' = Cardinality(From) BY <1>2 DEF Position, Visible
    <3>2. From \subseteq stored /\ k \in stored BY DEF Visible
    <3>3. k \in 1..Len(owner) /\ Len(owner) \in Nat BY <1>1, <3>2, Known
    <3>4. k \in From BY <3>3
    <3> HIDE DEF From
    <3>5. IsFiniteSet(From) /\ Cardinality(From) \in Nat BY <1>1, <3>2, StoredCardinality
    <3>6. Cardinality(From) # 0 BY <3>4, <3>5, FS_EmptySet
    <3> QED BY <3>1, <3>5, <3>6
  <2> QED BY <1>1, <2>1, <2>2, <2>3
<1> QED BY <1>7, <1>8, <1>9

(* Every step leaves the rest to come *)
LEMMA RestStep ==
  ASSUME ApiInv, [Next]_vars, ApiTypeOK'
  PROVE  RestOK'
<1> USE DEF jobs, user, place, page
<1>1. ApiTypeOK /\ WalkOK /\ RestOK BY DEF ApiInv
<1>2. CASE ~Browsing' BY <1>2 DEF RestOK
<1>3. CASE OthersCreate BY <1>3, RestCreate
<1>4. CASE OthersDelete
  <2>1. PICK k \in stored :
          /\ stored' = stored \ {k} /\ owner' = owner /\ at' = at
          /\ walk' = [walk EXCEPT !.deleted = @ \/ owner[k] = walk.scope]
    BY <1>4 DEF OthersDelete, Remove
  <2>2. /\ walk'.scope = walk.scope /\ walk'.start = walk.start /\ walk'.seen = walk.seen
        /\ walk'.page = walk.page /\ walk'.total = walk.total /\ walk'.late = walk.late
        /\ walk'.moved = walk.moved
        /\ walk'.deleted = (walk.deleted \/ owner[k] = walk.scope)
    BY <1>1, <2>1 DEF ApiTypeOK
  <2>3. CASE owner[k] = walk.scope BY <2>2, <2>3 DEF RestOK
  <2>4. CASE owner[k] # walk.scope
    <3>1. Visible(walk.scope)' = Visible(walk.scope) BY <2>1, <2>2, <2>4 DEF Visible
    <3>2. /\ \A l : Position(l)' = Position(l)
          /\ Shown' = Shown /\ LastPage' = LastPage /\ Browsing' = Browsing
      BY <2>1, <2>2, <3>1 DEF Position, Shown, Offset, LastPage, Browsing
    <3> QED BY <1>1, <2>1, <2>2, <2>4, <3>1, <3>2 DEF RestOK
  <2> QED BY <2>3, <2>4
<1>5. CASE Rows BY <1>5, RestRows
<1>6. CASE Count BY <1>6, RestCount
<1>7. CASE OpenHistory
  <2>1. walk'.scope = "none" BY <1>7 DEF OpenHistory, NoWalk
  <2> QED BY <2>1 DEF RestOK
<1>8. CASE NextPage
  <2>1. /\ walk'.seen = walk.seen /\ walk'.start = walk.start /\ walk'.page = walk.page + 1
        /\ walk'.scope = walk.scope /\ walk'.deleted = walk.deleted /\ walk'.moved = walk.moved
        /\ UNCHANGED <<owner, stored>> /\ at = "listed" /\ at' = "count"
    BY <1>1, <1>8 DEF NextPage, ApiTypeOK
  <2>2. walk.page > 0 /\ walk.page \in Nat BY <1>1, <2>1 DEF WalkOK, Browsing, ApiTypeOK
  <2>3. Shown' = Shown BY <2>1, <2>2, PageBorders DEF Shown, Offset
  <2>4. Visible(walk.scope)' = Visible(walk.scope) /\ \A k : Position(k)' = Position(k)
    BY <2>1 DEF Visible, Position
  <2> QED BY <1>1, <2>1, <2>3, <2>4 DEF RestOK, Browsing
<1>9. CASE Browsing' /\ ~(OthersCreate \/ OthersDelete \/ Rows \/ OpenHistory \/ Count \/ NextPage)
  <2>1. UNCHANGED <<owner, stored, at, walk>>
    BY <1>9 DEF Browsing, Next, vars, OthersRegister, RegisterLookup, RegisterInsert, Login,
       RefreshTokens, Expire, CreateAnalysis, Load, DeleteJob, RefreshJob, LeaveHistory, Done,
       OpenPage, Work, Lose, RunAgain, Poll, LosePoll, GetResults, LoseResults, LeavePage
  <2>2. /\ Visible(walk.scope)' = Visible(walk.scope) /\ Shown' = Shown /\ Browsing' = Browsing
        /\ LastPage' = LastPage /\ \A k : Position(k)' = Position(k)
    BY <2>1 DEF Visible, Shown, Offset, Position, Browsing, LastPage
  <2> QED BY <1>1, <2>1, <2>2 DEF RestOK
<1> QED BY <1>2, <1>3, <1>4, <1>5, <1>6, <1>7, <1>8, <1>9

-----------------------------------------------------------------------------
(* The inductive invariant of the client holds for any number of jobs and    *)
(* any size of page (ApiInv, AnalysesApi).                                    *)
THEOREM ApiInvariance == ApiSpec => []ApiInv
<1>1. ApiInv /\ [Next]_vars => ApiInv'
  <2> SUFFICES ASSUME ApiInv, [Next]_vars PROVE ApiInv'
    OBVIOUS
  <2>1. ApiTypeOK' BY TypeStep
  <2>2. Confined' BY ConfinedCreate, ConfinedStep
  <2>3. WalkOK' BY <2>1, WalkStep
  <2>4. RestOK' BY <2>1, RestStep
  <2> QED BY <2>1, <2>2, <2>3, <2>4 DEF ApiInv, Confined
<1> QED BY ApiInvInit, <1>1, PTL DEF ApiSpec

(* Whatever is registered, refreshed, deleted or expires meanwhile, the     *)
(* client only gets at its own jobs and at nobody's (_authorize,             *)
(* refresh_analysis, register, list_jobs).                                    *)
THEOREM AccountsAreConfined == ApiSpec => []OwnershipConfined
<1>1. ApiInv => OwnershipConfined BY DEF ApiInv
<1> QED BY <1>1, ApiInvariance, PTL

(* A walk under which no job is created shows no job twice, whatever is      *)
(* deleted (list_jobs).                                                        *)
THEOREM NoJobTwice == ApiSpec => []NoneTwice
<1>1. ApiInv => NoneTwice BY DEF ApiInv, WalkOK, NoneTwice
<1> QED BY <1>1, ApiInvariance, PTL

(* A walk to the last page under which no job is deleted has shown every    *)
(* job there was, but for as many as came between the last count and its     *)
(* rows (list_jobs).                                                           *)
THEOREM NothingSkipped == ApiSpec => []NoneSkipped
<1>1. ApiInv => NoneSkipped BY DEF ApiInv, WalkOK, RestOK, Browsing, NoneSkipped
<1> QED BY <1>1, ApiInvariance, PTL
=============================================================================
