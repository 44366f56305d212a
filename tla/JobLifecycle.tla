---------------------------- MODULE JobLifecycle ----------------------------
(***************************************************************************)
(* What the service promises of a job, whoever runs it: what GET /progress *)
(* and GET /results of docs/API.md let a client see.  A job is created     *)
(* pending, is started once, advances to 100 percent, settles once,        *)
(* completed with a result or failed without one, and never moves again    *)
(* unless it is deleted, which takes its result away.                      *)
(***************************************************************************)
EXTENDS Naturals

CONSTANT Jobs

VARIABLES
  state,     \* Jobs -> status, "absent" or "deleted"
  percent,   \* Jobs -> progress
  results    \* the jobs whose result can be read

view == <<state, percent, results>>

Move(j, from, to) ==
  /\ state[j] = from
  /\ state' = [state EXCEPT ![j] = to]

Report(j, p) == percent' = [percent EXCEPT ![j] = p]

Init ==
  /\ state = [j \in Jobs |-> "absent"]
  /\ percent = [j \in Jobs |-> 0]
  /\ results = {}

Create(j) ==
  /\ Move(j, "absent", "pending")
  /\ UNCHANGED <<percent, results>>

Start(j) ==
  /\ Move(j, "pending", "running")
  /\ \E p \in 1..99 : Report(j, p)
  /\ UNCHANGED results

Advance(j) ==
  /\ state[j] = "running"
  /\ \E p \in percent[j]..99 : Report(j, p)
  /\ UNCHANGED <<state, results>>

Complete(j) ==
  /\ Move(j, "running", "completed")
  /\ Report(j, 100)
  /\ results' = results \cup {j}

Fail(j) ==
  /\ Move(j, "running", "failed")
  /\ UNCHANGED <<percent, results>>

Delete(j) ==
  /\ \E s \in {"pending", "running", "completed", "failed"} : Move(j, s, "deleted")
  /\ results' = results \ {j}
  /\ UNCHANGED percent

Next ==
  \E j \in Jobs : Create(j) \/ Start(j) \/ Advance(j) \/ Complete(j) \/ Fail(j) \/ Delete(j)

Spec == Init /\ [][Next]_view
=============================================================================
