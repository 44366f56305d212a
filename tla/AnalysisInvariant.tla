------------------------- MODULE AnalysisInvariant --------------------------
(***************************************************************************)
(* The inductive invariant of AnalysisSystem: the safety properties and    *)
(* what has to be known of the executors for a step to preserve them.      *)
(***************************************************************************)
EXTENDS AnalysisSystem

SuppliedSteps == {"validating", "link", "done"} \cup ProfileSteps \cup EngineSteps

(* An executor has a job in hand exactly when it is not in its loop *)
ControlOK ==
  \A e \in Executors :
    /\ cur[e] = None <=> pc[e] \in LoopSteps \ {"enqueue"}
    /\ cur[e] # None => kind[e] \in {"provider", "supplied"}
    /\ kind[e] = "supplied" => pc[e] \in SuppliedSteps

(* Only rows that were created are talked about; the others are blank *)
KnownOK ==
  /\ \A e \in Executors : cur[e] \in Jobs => status[cur[e]] # "absent"
  /\ \A i \in DOMAIN queue : status[queue[i]] # "absent"
  /\ \A j \in dup \cup lost : status[j] # "absent"
  /\ \A j \in Jobs :
       IF status[j] = "absent" THEN stage[j] = None /\ error[j] = None /\ j \notin result
                               ELSE username[j] \in Usernames /\ data_source[j] \in Sources

(* The progress the run is going to report next *)
Ahead ==
  [enqueue |-> 5, load |-> 5, validating |-> 5, retrieving_profile |-> 20,
   select_profile |-> 40, insert_profile |-> 40, update_profile |-> 40, link |-> 40,
   retrieving_posts |-> 40, count_posts |-> 55, activity |-> 55, content |-> 70,
   sentiment |-> 82, engagement |-> 92, patterns |-> 97, generating_report |-> 99,
   done |-> 100]

Waiting == {"enqueue", "load", "validating"}

(* The row of a job in hand is where its only run has brought it *)
RunOK ==
  \A e \in Executors : cur[e] \in Jobs \ dup /\ Holds(e) =>
    /\ status[cur[e]] = IF pc[e] \in Waiting THEN "pending" ELSE "running"
    /\ Progress(cur[e]) < Ahead[pc[e]]
    /\ pc[e] = "validating" /\ kind[e] = "provider" => copy[e] = "pending"

(* A queued job has not been touched *)
QueueOK ==
  /\ \A i \in DOMAIN queue : queue[i] \notin dup /\ Stored(queue[i]) => status[queue[i]] = "pending"
  /\ \A j \in Jobs \ dup : status[j] = "pending" => Progress(j) = 0

(* The steps of a run that come after the row has got its source *)
Linked == {"retrieving_posts", "count_posts", "done"} \cup EngineSteps

(* An import is run by its handler alone: it is never queued, so no lost    *)
(* reply can double it. From link on, a row in hand says who is read.       *)
SourceOK ==
  \A e \in Executors :
    /\ kind[e] = "supplied" => cur[e] \notin dup
    /\ pc[e] \in Linked /\ Holds(e) =>
         data_source[cur[e]] = IF kind[e] = "supplied" THEN "import" ELSE Provider

(* What a fault took away is nowhere *)
LostOK == \A j \in lost \ dup : Holders(j) = {} /\ Places(j) = {}

SystemInv ==
  /\ TypeOK
  /\ ControlOK
  /\ KnownOK
  /\ SingleRunner
  /\ RunOK
  /\ QueueOK
  /\ NoneStranded
  /\ CompletedHasResult
  /\ OutcomeAgrees
  /\ DeletedIsGone
  /\ SourceOK
  /\ LostOK
=============================================================================
