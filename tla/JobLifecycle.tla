---------------------------- MODULE JobLifecycle ----------------------------
(***************************************************************************)
(* What batch jobs promise to someone who reads job.json or semcast_jobs:  *)
(* a job moves from queued to running to one terminal status, at most      *)
(* MaxConcurrent statements execute at once, only a running job begins to  *)
(* execute and a restart interrupts exactly the jobs that were in flight.  *)
(* Tasks, channels, handles and permits do not appear.                     *)
(***************************************************************************)
EXTENDS Naturals, FiniteSets

CONSTANTS Jobs, MaxConcurrent

VARIABLES
  status,   \* what is recorded about every job
  working,  \* jobs whose statement is executing
  up        \* whether the server answers

lifecycleVars == <<status, working, up>>

LifecycleInit ==
  /\ status = [j \in Jobs |-> "absent"]
  /\ working = {}
  /\ up = TRUE

Become(j, s) == status' = [status EXCEPT ![j] = s]

Submit(j) ==
  /\ up /\ status[j] = "absent"
  /\ Become(j, "queued")
  /\ UNCHANGED <<working, up>>

Begin(j) ==
  /\ up /\ status[j] = "queued"
  /\ Cardinality(working) < MaxConcurrent
  /\ Become(j, "running")
  /\ working' = working \union {j}
  /\ UNCHANGED up

(* The statement ended, with or without a result, or was dropped.          *)
Leave(j) ==
  /\ j \in working
  /\ working' = working \ {j}
  /\ UNCHANGED <<status, up>>

Conclude(j) ==
  /\ up /\ status[j] = "running" /\ j \notin working
  /\ \E s \in {"succeeded", "failed"} : Become(j, s)
  /\ UNCHANGED <<working, up>>

Cancel(j) ==
  /\ up /\ status[j] \in {"queued", "running"}
  /\ Become(j, "cancelled")
  /\ UNCHANGED <<working, up>>

Die ==
  /\ up
  /\ up' = FALSE
  /\ working' = {}
  /\ UNCHANGED status

Interrupt(j) ==
  /\ ~up /\ status[j] \in {"queued", "running"}
  /\ Become(j, "interrupted")
  /\ UNCHANGED <<working, up>>

(* A server answers again only once nothing is left in flight.             *)
Return ==
  /\ ~up
  /\ \A j \in Jobs : status[j] \notin {"queued", "running"}
  /\ up' = TRUE
  /\ UNCHANGED <<status, working>>

LifecycleNext ==
  \/ Die \/ Return
  \/ \E j \in Jobs : \/ Submit(j) \/ Begin(j) \/ Leave(j) \/ Conclude(j)
                     \/ Cancel(j) \/ Interrupt(j)

LifecycleSpec == LifecycleInit /\ [][LifecycleNext]_lifecycleVars
=============================================================================
