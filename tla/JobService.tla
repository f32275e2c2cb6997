---------------------------- MODULE JobService ----------------------------
(***************************************************************************)
(* What the job layer promises its callers, with no locks, threads or      *)
(* compare-exchanges: one active job at a time, a lifecycle that never     *)
(* leaves a terminal phase, one task at a time on the Session, each task   *)
(* executed at most once and only after its job began, results replaced    *)
(* only by a task that ran to its end, and a verdict that agrees with what *)
(* the task did.  It does not promise that a CANCELLED job's task is not   *)
(* executing: the code lets a cancel overtake the start of the worker.     *)
(***************************************************************************)
EXTENDS Integers

CONSTANT MaxJobs

JobId == 1..MaxJobs
NoJob == 0

VARIABLES
  listed,   \* jobs a caller can still ask about
  phase,    \* lifecycle of each job
  task,     \* the job's operation on the Session
  results   \* the job whose results the Session keeps, or NoJob

vars == <<listed, phase, task, results>>

Active == {"QUEUED", "RUNNING"}

Init ==
  /\ listed = {}
  /\ phase = [j \in JobId |-> "NONE"]
  /\ task = [j \in JobId |-> "none"]
  /\ results = NoJob

Create(j) ==
  /\ phase[j] = "NONE"
  /\ \A k \in listed : phase[k] \notin Active
  /\ phase' = [phase EXCEPT ![j] = "QUEUED"]
  /\ listed' = listed \cup {j}
  /\ UNCHANGED <<task, results>>

Forget ==
  /\ listed' \in SUBSET listed
  /\ UNCHANGED <<phase, task, results>>

Begin(j) ==
  /\ phase[j] = "QUEUED"
  /\ task[j] = "none"
  /\ phase' = [phase EXCEPT ![j] = "RUNNING"]
  /\ task' = [task EXCEPT ![j] = "ready"]
  /\ UNCHANGED <<listed, results>>

Executing == {j \in JobId : task[j] = "executing"}

Enter(j) ==
  /\ task[j] = "ready"
  /\ Executing = {}
  /\ task' = [task EXCEPT ![j] = "executing"]
  /\ UNCHANGED <<listed, phase, results>>

Leave(j) ==
  /\ task[j] = "executing"
  /\ \/ /\ task' = [task EXCEPT ![j] = "ok"]
        /\ results' = j
     \/ /\ \E r \in {"cancelled", "error"} : task' = [task EXCEPT ![j] = r]
        /\ UNCHANGED results
  /\ UNCHANGED <<listed, phase>>

Discard ==
  /\ Executing = {}
  /\ results' = NoJob
  /\ UNCHANGED <<listed, phase, task>>

End(j) ==
  /\ phase[j] \in Active
  /\ \/ phase' = [phase EXCEPT ![j] = "CANCELLED"]
     \/ task[j] = "ok" /\ phase' = [phase EXCEPT ![j] = "COMPLETED"]
     \/ task[j] = "error" /\ phase' = [phase EXCEPT ![j] = "FAILED"]
  /\ UNCHANGED <<listed, task, results>>

Next ==
  \/ \E j \in JobId : Create(j) \/ Begin(j) \/ Enter(j) \/ Leave(j) \/ End(j)
  \/ Forget
  \/ Discard

Spec == Init /\ [][Next]_vars
===========================================================================
