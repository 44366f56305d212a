------------------------ MODULE ReportService_proofs ------------------------
(***************************************************************************)
(* ReportInv is inductive for any number of downloads, processes and       *)
(* faults, with and without foreign keys.                                  *)
(***************************************************************************)
EXTENDS ReportService, FiniteSetTheorems, TLAPS

(* What Cardinality says of sets of requests *)
LEMMA RowsCardinality ==
  ASSUME NEW R \in SUBSET Requests
  PROVE  /\ Cardinality(R) \in Nat
         /\ \A r \in Requests : Cardinality(R \cup {r}) >= Cardinality(R)
<1>1. IsFiniteSet(R) BY ReportAssumption, FS_Subset DEF ReportAssumption
<1>2. Cardinality(R) \in Nat BY <1>1, FS_CardinalityType
<1>3. \A r \in Requests : \/ Cardinality(R \cup {r}) = Cardinality(R)
                          \/ Cardinality(R \cup {r}) = Cardinality(R) + 1
  BY <1>1, FS_AddElement
<1> QED BY <1>2, <1>3

(* The invariant holds when there is no file, no row and no request yet *)
LEMMA ReportInvInit == Init => ReportInv
<1> SUFFICES ASSUME Init PROVE ReportInv
  OBVIOUS
<1> USE DEF Init
<1>1. ReportTypeOK BY ReportAssumption DEF ReportTypeOK, ReportAssumption
<1>2. \A r \in Requests : PlaceOK(r) BY DEF PlaceOK, Handling, Answers
<1> QED BY <1>1, <1>2 DEF ReportInv, RowsCascade, RecordedIsWritten, CompletedOnly,
     MissingMeansGone, ErrorsExplained, DuplicatesOverlap

(* A step of one request that touches neither job, file nor rows *)
LEMMA MoveStep ==
  ASSUME ReportInv, NEW r \in Requests, NEW place,
         at[r] \in Handling, Goto(r, place),
         UNCHANGED <<job, file, rows, force, process, before>>,
         faults' \in {faults, faults + 1}, faults' <= MaxFaults,
         at[r] = "write" => faults' > 0,
         place \in (Handling \ {"write"}) \cup Answers,
         place = "not_found" => job = "deleted",
         place = "error" => job = "deleted" \/ Cardinality(rows) > 1,
         place \in {"select", "insert", "respond"} => file # "none",
         place = "insert" => rows = {},
         r \in rows => place \in {"respond"} \cup Answers
  PROVE  ReportInv'
<1> USE DEF ReportInv
<1>1. /\ at \in [Requests -> {"new"} \cup Handling \cup Answers]
      /\ at' = [at EXCEPT ![r] = place] /\ faults \in 0..MaxFaults
  BY DEF Goto, ReportTypeOK
<1>2. at' \in [Requests -> {"new"} \cup Handling \cup Answers] BY <1>1
<1>3. faults' \in 0..MaxFaults BY <1>1, ReportAssumption DEF ReportAssumption
<1>4. ReportTypeOK' BY <1>2, <1>3 DEF ReportTypeOK
<1>5. Writers' = Writers \/ faults' > 0
  BY <1>1, <1>2 DEF Writers, Answers
<1>6. faults' >= faults BY <1>1, ReportAssumption DEF ReportAssumption
<1>7. RecordedIsWritten' /\ (file' = "torn" => Writers' # {} \/ faults' > 0)
  BY <1>1, <1>3, <1>5, <1>6, ReportAssumption DEF RecordedIsWritten, ReportAssumption
<1>8. RowsCascade' /\ CompletedOnly' /\ DuplicatesOverlap'
  BY DEF RowsCascade, CompletedOnly, DuplicatesOverlap
<1>9. MissingMeansGone' BY <1>1 DEF MissingMeansGone
<1>10. ErrorsExplained' BY <1>1 DEF ErrorsExplained
<1>11. ASSUME NEW q \in Requests PROVE PlaceOK(q)'
  <2>1. PlaceOK(q) /\ PlaceOK(r) OBVIOUS
  <2>2. \A x \in before[q] : at'[x] \in Answers
    <3>1. \A x \in before[q] : at[x] \in Answers BY <2>1 DEF PlaceOK
    <3>2. r \notin before[q] BY <3>1 DEF Answers, Handling
    <3>3. before[q] \subseteq Requests BY DEF ReportTypeOK
    <3> QED BY <1>1, <3>1, <3>2, <3>3
  <2>3. CASE q = r
    BY <1>1, <2>1, <2>2, <2>3 DEF PlaceOK, Handling, Answers
  <2>4. CASE q # r
    <3>1. at'[q] = at[q] BY <1>1, <2>4
    <3> QED BY <2>1, <2>2, <3>1 DEF PlaceOK
  <2> QED BY <2>3, <2>4
<1> QED BY <1>4, <1>7, <1>8, <1>9, <1>10, <1>11

(* The steps of a request that change more than where it is *)
LEMMA LoadStep ==
  ASSUME ReportInv, NEW r \in Requests, Load(r)
  PROVE  ReportInv'
<1> USE DEF ReportInv
<1>1. PICK place \in {"not_found", "check", "conflict"} :
        /\ at' = [at EXCEPT ![r] = place]
        /\ place = "not_found" => job = "deleted"
        /\ place = "check" => job = "completed"
  BY DEF Load, Goto
<1>2. /\ at[r] = "new" /\ UNCHANGED <<job, file, rows, force, process, faults>>
      /\ before' = [before EXCEPT ![r] = {q \in Requests : at[q] \in Answers}]
  BY DEF Load
<1>3. /\ at \in [Requests -> {"new"} \cup Handling \cup Answers]
      /\ before \in [Requests -> SUBSET Requests]
  BY DEF ReportTypeOK
<1>4. /\ at' \in [Requests -> {"new"} \cup Handling \cup Answers]
      /\ before' \in [Requests -> SUBSET Requests]
  BY <1>1, <1>2, <1>3 DEF Handling, Answers
<1>5. ReportTypeOK' BY <1>2, <1>4 DEF ReportTypeOK
<1>6. Writers' = Writers BY <1>1, <1>2, <1>3 DEF Writers
<1>7. RecordedIsWritten' /\ (file' = "torn" => Writers' # {} \/ faults' > 0)
  BY <1>2, <1>6 DEF RecordedIsWritten
<1>8. RowsCascade' /\ CompletedOnly' BY <1>2 DEF RowsCascade, CompletedOnly
<1>9. r \notin rows BY <1>2 DEF PlaceOK, Answers
<1>10. DuplicatesOverlap' BY <1>2, <1>3, <1>9 DEF DuplicatesOverlap, ReportTypeOK
<1>11. MissingMeansGone' BY <1>1, <1>2, <1>3 DEF MissingMeansGone
<1>12. ErrorsExplained' BY <1>1, <1>2, <1>3 DEF ErrorsExplained
<1>13. ASSUME NEW q \in Requests PROVE PlaceOK(q)'
  <2>1. PlaceOK(q) OBVIOUS
  <2>2. \A x \in Requests : at[x] \in Answers => at'[x] \in Answers
    BY <1>1, <1>2, <1>3 DEF Answers
  <2>3. before[q] \subseteq Requests BY <1>3
  <2>4. CASE q = r
    <3>1. at'[q] = place /\ before'[q] = {x \in Requests : at[x] \in Answers}
      BY <1>1, <1>2, <1>3, <2>4
    <3> QED BY <1>1, <1>2, <1>9, <2>2, <2>4, <3>1 DEF PlaceOK, Handling, Answers
  <2>5. CASE q # r
    <3>1. at'[q] = at[q] /\ before'[q] = before[q] BY <1>1, <1>2, <1>3, <2>5
    <3> QED BY <1>2, <2>1, <2>2, <2>3, <3>1 DEF PlaceOK
  <2> QED BY <2>4, <2>5
<1> QED BY <1>5, <1>7, <1>8, <1>10, <1>11, <1>12, <1>13

(* Opening leaves a torn file with its writer, writing a file that is not torn *)
LEMMA FileStep ==
  ASSUME ReportInv, NEW r \in Requests, Open(r) \/ Write(r)
  PROVE  ReportInv'
<1> USE DEF ReportInv
<1>1. /\ at \in [Requests -> {"new"} \cup Handling \cup Answers]
      /\ before \in [Requests -> SUBSET Requests]
      /\ UNCHANGED <<job, rows, force, process, before, faults>>
  BY DEF ReportTypeOK, Open, Write
<1>2. PICK place \in {"write", "select"} :
        /\ at' = [at EXCEPT ![r] = place]
        /\ at[r] \in {"render", "write"}
        /\ file' \in {"torn", "whole", "mixed"}
        /\ file' = "torn" => place = "write"
  BY DEF Open, Write, Goto
<1>3. at' \in [Requests -> {"new"} \cup Handling \cup Answers] BY <1>1, <1>2 DEF Handling
<1>4. ReportTypeOK' BY <1>1, <1>2, <1>3 DEF ReportTypeOK
<1>5. file' = "torn" => r \in Writers' BY <1>1, <1>2 DEF Writers
<1>6. RecordedIsWritten' /\ (file' = "torn" => Writers' # {} \/ faults' > 0)
  BY <1>2, <1>5 DEF RecordedIsWritten
<1>7. job \in {"completed", "deleted"} BY <1>2 DEF PlaceOK, Handling
<1>8. RowsCascade' /\ CompletedOnly' /\ DuplicatesOverlap'
  BY <1>1, <1>7 DEF RowsCascade, CompletedOnly, DuplicatesOverlap
<1>9. MissingMeansGone' BY <1>1, <1>2 DEF MissingMeansGone
<1>10. ErrorsExplained' BY <1>1, <1>2 DEF ErrorsExplained
<1>11. ASSUME NEW q \in Requests PROVE PlaceOK(q)'
  <2>1. PlaceOK(q) /\ PlaceOK(r) OBVIOUS
  <2>2. r \notin before[q] BY <1>2, <2>1 DEF PlaceOK, Answers
  <2>3. \A x \in before[q] : at'[x] \in Answers BY <1>1, <1>2, <2>1, <2>2 DEF PlaceOK
  <2>4. CASE q = r
    <3>1. at'[q] = place /\ q \notin rows
      BY <1>1, <1>2, <2>1, <2>4 DEF PlaceOK, Answers
    <3> QED BY <1>1, <1>2, <1>7, <2>1, <2>3, <2>4, <3>1 DEF PlaceOK, Answers
  <2>5. CASE q # r
    <3>1. at'[q] = at[q] BY <1>1, <1>2, <2>5
    <3> QED BY <1>1, <1>2, <2>1, <2>3, <3>1 DEF PlaceOK
  <2> QED BY <2>4, <2>5
<1> QED BY <1>4, <1>6, <1>8, <1>9, <1>10, <1>11

(* A row is added by a request that found none, so none that preceded it has *)
LEMMA InsertStep ==
  ASSUME ReportInv, NEW r \in Requests, InsertReport(r)
  PROVE  ReportInv'
<1> USE DEF ReportInv
<1>1. /\ at[r] = "insert" /\ UNCHANGED <<job, file, force, process, before, faults>>
      /\ at \in [Requests -> {"new"} \cup Handling \cup Answers]
      /\ rows \subseteq Requests /\ file # "none" /\ job \in {"completed", "deleted"}
      /\ rows \cap before[r] = {} /\ before \in [Requests -> SUBSET Requests]
  BY DEF InsertReport, ReportTypeOK, PlaceOK, Handling
<1>2. PICK place \in {"error", "respond"} :
        /\ at' = [at EXCEPT ![r] = place]
        /\ rows' = IF place = "error" THEN rows ELSE rows \cup {r}
        /\ place = "error" => job = "deleted"
        /\ ForeignKeys /\ job = "deleted" => place = "error"
  BY DEF InsertReport, Goto
<1>3. at' \in [Requests -> {"new"} \cup Handling \cup Answers]
  BY <1>1, <1>2 DEF Handling, Answers
<1>4. ReportTypeOK' BY <1>1, <1>2, <1>3 DEF ReportTypeOK
<1>5. Writers' = Writers BY <1>1, <1>2 DEF Writers
<1>6. RecordedIsWritten' /\ (file' = "torn" => Writers' # {} \/ faults' > 0)
  BY <1>1, <1>5 DEF RecordedIsWritten
<1>7. RowsCascade' BY <1>1, <1>2 DEF RowsCascade
<1>8. CompletedOnly' BY <1>1 DEF CompletedOnly
<1>9. ASSUME NEW q \in Requests PROVE r \notin before[q]
  BY <1>1, <1>9 DEF PlaceOK, Answers
<1>10. DuplicatesOverlap' BY <1>1, <1>2, <1>9 DEF DuplicatesOverlap
<1>11. MissingMeansGone' BY <1>1, <1>2 DEF MissingMeansGone
<1>12. ErrorsExplained'
  <2>1. /\ Cardinality(rows) \in Nat /\ Cardinality(rows') \in Nat
        /\ Cardinality(rows') >= Cardinality(rows)
    <3>1. CASE rows' = rows BY <1>1, <3>1, RowsCardinality
    <3>2. CASE rows' = rows \cup {r} BY <1>1, <1>4, <3>2, RowsCardinality DEF ReportTypeOK
    <3> QED BY <1>2, <3>1, <3>2
  <2>2. ASSUME NEW q \in Requests, at'[q] = "error"
        PROVE  job = "deleted" \/ Cardinality(rows') > 1
    BY <1>1, <1>2, <2>1, <2>2 DEF ErrorsExplained
  <2> QED BY <1>1, <2>2 DEF ErrorsExplained
<1>13. ASSUME NEW q \in Requests PROVE PlaceOK(q)'
  <2>1. PlaceOK(q) /\ PlaceOK(r) OBVIOUS
  <2>2. \A x \in before[q] : at'[x] \in Answers BY <1>1, <1>2, <1>9, <2>1 DEF PlaceOK
  <2>3. CASE q = r
    <3>1. at'[q] = place BY <1>1, <1>2, <2>3
    <3> QED BY <1>1, <2>2, <2>3, <3>1 DEF PlaceOK, Handling, Answers
  <2>4. CASE q # r
    <3>1. at'[q] = at[q] /\ (q \in rows' <=> q \in rows) BY <1>1, <1>2, <2>4
    <3>2. rows' \cap before[q] = rows \cap before[q] BY <1>2, <1>9
    <3> QED BY <1>1, <2>1, <2>2, <3>1, <3>2 DEF PlaceOK
  <2> QED BY <2>3, <2>4
<1> QED BY <1>4, <1>6, <1>7, <1>8, <1>10, <1>11, <1>12, <1>13

(* A crash only takes requests away; what they were writing is a fault *)
LEMMA CrashStep ==
  ASSUME ReportInv, NEW p \in Processes, Crash(p)
  PROVE  ReportInv'
<1> USE DEF ReportInv
<1>1. /\ UNCHANGED <<job, file, rows, force, process, before>>
      /\ faults' = faults + 1 /\ faults < MaxFaults /\ faults \in 0..MaxFaults
      /\ at \in [Requests -> {"new"} \cup Handling \cup Answers]
  BY DEF Crash, ReportTypeOK
<1>2. at' \in [Requests -> {"new"} \cup Handling \cup Answers]
  BY <1>1 DEF Crash, Answers
<1>3. \A q \in Requests : \/ at'[q] = at[q]
                          \/ at[q] \in Handling /\ at'[q] = "lost"
  BY <1>1 DEF Crash
<1>4. faults' \in 0..MaxFaults /\ faults' > 0 BY <1>1, ReportAssumption DEF ReportAssumption
<1>5. ReportTypeOK' BY <1>1, <1>2, <1>4 DEF ReportTypeOK
<1>6. RecordedIsWritten' BY <1>1, <1>4 DEF RecordedIsWritten
<1>7. RowsCascade' /\ CompletedOnly' /\ DuplicatesOverlap'
  BY <1>1 DEF RowsCascade, CompletedOnly, DuplicatesOverlap
<1>8. MissingMeansGone' BY <1>1, <1>3 DEF MissingMeansGone
<1>9. ErrorsExplained' BY <1>1, <1>3 DEF ErrorsExplained
<1>10. ASSUME NEW q \in Requests PROVE PlaceOK(q)'
  <2>1. PlaceOK(q) /\ before[q] \subseteq Requests BY DEF ReportTypeOK
  <2>2. \A x \in before[q] : at'[x] \in Answers BY <1>3, <2>1 DEF PlaceOK, Answers
  <2> QED BY <1>1, <1>3, <2>1, <2>2 DEF PlaceOK, Handling, Answers
<1> QED BY <1>4, <1>5, <1>6, <1>7, <1>8, <1>9, <1>10

(* The steps of the job *)
LEMMA JobStep ==
  ASSUME ReportInv, Settle \/ Delete
  PROVE  ReportInv'
<1> USE DEF ReportInv
<1>1. UNCHANGED <<file, at, force, process, before, faults>> BY DEF Settle, Delete
<1>2. /\ job' \in {"completed", "failed", "deleted"}
      /\ rows' \in {{}, rows}
      /\ job' # "deleted" => job = "running" /\ rows' = rows
      /\ job' = "deleted" /\ ForeignKeys => rows' = {}
  BY DEF Settle, Delete
<1>3. ReportTypeOK' BY <1>1, <1>2 DEF ReportTypeOK
<1>4. Writers' = Writers BY <1>1 DEF Writers
<1>5. RecordedIsWritten' /\ (file' = "torn" => Writers' # {} \/ faults' > 0)
  BY <1>1, <1>2, <1>4 DEF RecordedIsWritten
<1>6. RowsCascade' BY <1>2 DEF RowsCascade
<1>7. CompletedOnly' BY <1>1, <1>2 DEF CompletedOnly
<1>8. DuplicatesOverlap' BY <1>1, <1>2 DEF DuplicatesOverlap
<1>9. MissingMeansGone' BY <1>1, <1>2 DEF MissingMeansGone
<1>10. ASSUME NEW q \in Requests PROVE PlaceOK(q)'
  BY <1>1, <1>2 DEF PlaceOK
<1>11. ErrorsExplained'
  <2>1. \A q \in Requests : at[q] = "error" => job # "running" BY DEF PlaceOK
  <2> QED BY <1>1, <1>2, <2>1 DEF ErrorsExplained
<1> QED BY <1>3, <1>5, <1>6, <1>7, <1>8, <1>9, <1>10, <1>11

(* Every step preserves the invariant *)
LEMMA ReportInvStep == ReportInv /\ [Next]_vars => ReportInv'
<1> SUFFICES ASSUME ReportInv, [Next]_vars PROVE ReportInv'
  OBVIOUS
<1>1. ReportTypeOK /\ \A r \in Requests : PlaceOK(r) BY DEF ReportInv
<1>2. faults \in Nat /\ faults <= MaxFaults /\ MaxFaults \in Nat
  BY <1>1, ReportAssumption DEF ReportTypeOK, ReportAssumption
<1>3. CASE Settle \/ Delete BY <1>3, JobStep
<1>4. ASSUME NEW r \in Requests, Step(r) PROVE ReportInv'
  <2>1. PlaceOK(r) BY <1>1
  <2>2. CASE Load(r) BY <2>2, LoadStep
  <2>3. CASE Check(r)
    BY <1>2, <2>1, <2>3, MoveStep DEF Check, PlaceOK, Handling, Answers
  <2>4. CASE Payload(r)
    <3>1. PICK place \in {"render", "not_found"} :
            Goto(r, place) /\ (place = "not_found" => ~HasResult)
      BY <2>4 DEF Payload
    <3>2. /\ at[r] = "payload" /\ r \notin rows
          /\ UNCHANGED <<job, file, rows, force, process, before, faults>>
      BY <2>1, <2>4 DEF Payload, PlaceOK, Answers
    <3>3. place = "not_found" => job = "deleted"
      BY <2>1, <3>1, <3>2 DEF HasResult, PlaceOK, Handling
    <3>4. at[r] \in Handling /\ place \in (Handling \ {"write"}) \cup Answers
      BY <3>1, <3>2 DEF Handling, Answers
    <3> QED BY <1>2, <1>4, <3>1, <3>2, <3>3, <3>4, MoveStep
  <2>5. CASE Open(r) \/ Write(r) BY <2>5, FileStep
  <2>6. CASE RenderRaises(r)
    <3>1. /\ at[r] \in Handling /\ "raised" \in (Handling \ {"write"}) \cup Answers
          /\ "raised" \in {"respond"} \cup Answers
      BY <2>6 DEF RenderRaises, Handling, Answers
    <3>2. /\ faults' \in {faults, faults + 1} /\ faults' <= MaxFaults
          /\ at[r] = "write" => faults' > 0
      BY <1>2, <2>6 DEF RenderRaises
    <3> QED BY <1>4, <2>6, <3>1, <3>2, MoveStep DEF RenderRaises
  <2>7. CASE SelectReport(r)
    <3>1. PICK place \in {"error", "insert", "respond"} :
            /\ Goto(r, place)
            /\ place = "error" => Cardinality(rows) > 1
            /\ place = "insert" => rows = {}
      BY <2>7 DEF SelectReport
    <3>2. /\ at[r] = "select" /\ r \notin rows /\ file # "none"
          /\ UNCHANGED <<job, file, rows, force, process, before, faults>>
      BY <2>1, <2>7 DEF SelectReport, PlaceOK, Answers
    <3>3. at[r] \in Handling /\ place \in (Handling \ {"write"}) \cup Answers
      BY <3>1, <3>2 DEF Handling, Answers
    <3> QED BY <1>2, <1>4, <3>1, <3>2, <3>3, MoveStep
  <2>8. CASE InsertReport(r) BY <2>8, InsertStep
  <2>9. CASE Respond(r)
    <3>1. /\ at[r] = "respond" /\ file # "none"
          /\ UNCHANGED <<job, file, rows, force, process, before, faults>>
      BY <2>1, <2>9 DEF Respond, PlaceOK
    <3>2. PICK place \in {"served", "served_broken"} : Goto(r, place)
      BY <2>9, <3>1 DEF Respond
    <3>3. /\ at[r] \in Handling /\ place \in (Handling \ {"write"}) \cup Answers
          /\ place \in {"respond"} \cup Answers
      BY <3>1, <3>2 DEF Handling, Answers
    <3> QED BY <1>2, <1>4, <3>1, <3>2, <3>3, MoveStep
  <2> QED BY <1>4, <2>2, <2>3, <2>4, <2>5, <2>6, <2>7, <2>8, <2>9 DEF Step
<1>5. ASSUME NEW p \in Processes, Crash(p) PROVE ReportInv' BY <1>5, CrashStep
<1>6. CASE UNCHANGED vars
  BY <1>6 DEF vars, ReportInv, ReportTypeOK, RowsCascade, RecordedIsWritten, Writers,
     CompletedOnly, MissingMeansGone, ErrorsExplained, DuplicatesOverlap, PlaceOK
<1> QED BY <1>3, <1>4, <1>5, <1>6 DEF Next

(* The invariant holds for any downloads, processes and faults *)
THEOREM ReportInvariance == Spec => []ReportInv
  BY ReportInvInit, ReportInvStep, PTL DEF Spec

(* A deleted job keeps no report row, though downloads of it go on *)
THEOREM RowsGoWithTheJob == Spec => []RowsCascade
<1>1. ReportInv => RowsCascade BY DEF ReportInv
<1> QED BY <1>1, ReportInvariance, PTL

(* A row points at a file that has been written *)
THEOREM RowsPointAtFiles == Spec => []RecordedIsWritten
<1>1. ReportInv => RecordedIsWritten BY DEF ReportInv
<1> QED BY <1>1, ReportInvariance, PTL

(* No download of a completed job is answered 404 *)
THEOREM CompletedIsFound == Spec => []MissingMeansGone
<1>1. ReportInv => MissingMeansGone BY DEF ReportInv
<1> QED BY <1>1, ReportInvariance, PTL

(* The database refuses a download for two reasons only *)
THEOREM RefusalsExplained == Spec => []ErrorsExplained
<1>1. ReportInv => ErrorsExplained BY DEF ReportInv
<1> QED BY <1>1, ReportInvariance, PTL

(* Two report rows come of downloads that overlap *)
THEOREM DuplicatesNeedOverlap == Spec => []DuplicatesOverlap
<1>1. ReportInv => DuplicatesOverlap BY DEF ReportInv
<1> QED BY <1>1, ReportInvariance, PTL
=============================================================================
