------------------------------- MODULE Jobs -------------------------------
(***************************************************************************)
(* Job and JobRegistry (src/src/web/jobs.h, jobs.cpp): the state of every  *)
(* asynchronous job and the atomic steps on it.                            *)
(*                                                                         *)
(* A Job keeps its lifecycle in one atomic int changed by compare-exchange *)
(* and its cancellation flag, count and error in fields of their own, so a *)
(* method such as complete() is several steps that other threads can see   *)
(* between: the compare-exchange first, the payload after it.  Each        *)
(* operator below is one such step; the modules that run threads over them *)
(* (JobRunner) put them in order.  The registry's map is guarded by one    *)
(* mutex that no method holds across a call, so a registry method is one   *)
(* step.                                                                   *)
(*                                                                         *)
(* Abstracted: kind_, the clock (started_at_, elapsed_ms_) and the         *)
(* progress counters; count_ and error_ are one field, "payload", that     *)
(* says which of the two has been stored.                                  *)
(***************************************************************************)
EXTENDS Integers

CONSTANT MaxJobs   \* bound on the ids the registry hands out

ASSUME MaxJobsAssumption == MaxJobs \in Nat \ {0}

JobId == 1..MaxJobs
NoJob == 0         \* create()'s "refused", active_'s "no worker"

Active   == {"QUEUED", "RUNNING"}
Terminal == {"COMPLETED", "FAILED", "CANCELLED"}

VARIABLES
  listed,           \* ids in the registry's map jobs_
  nextId,           \* next_id_
  state,            \* state_ of each Job; "NONE" before the Job exists
  cancelRequested,  \* cancel_requested_ of each Job
  payload           \* what complete() or fail() has stored after its CAS

jobVars == <<listed, nextId, state, cancelRequested, payload>>

JobsTypeOK ==
  /\ listed \subseteq JobId
  /\ nextId \in 1..(MaxJobs + 1)
  /\ state \in [JobId -> {"NONE"} \cup Active \cup Terminal]
  /\ cancelRequested \in [JobId -> BOOLEAN]
  /\ payload \in [JobId -> {"none", "count", "error"}]

JobsInit ==
  /\ listed = {}
  /\ nextId = 1
  /\ state = [j \in JobId |-> "NONE"]
  /\ cancelRequested = [j \in JobId |-> FALSE]
  /\ payload = [j \in JobId |-> "none"]

---------------------------------------------------------------------------
(* JobRegistry *)

ActiveJobs == {j \in listed : state[j] \in Active}

\* Variant: the check of the active jobs is dropped.
CreateUnchecked ==
  /\ nextId \in JobId
  /\ listed' = listed \cup {nextId}
  /\ nextId' = nextId + 1
  /\ state' = [state EXCEPT ![nextId] = "QUEUED"]
  /\ UNCHANGED <<cancelRequested, payload>>

\* create(): a new QUEUED job unless one is already active.
Create ==
  /\ ActiveJobs = {}
  /\ nextId \in JobId
  /\ listed' = listed \cup {nextId}
  /\ nextId' = nextId + 1
  /\ state' = [state EXCEPT ![nextId] = "QUEUED"]
  /\ UNCHANGED <<cancelRequested, payload>>

\* remove(): forgets a job, whatever its state; a worker keeps its pointer.
Remove(j) ==
  /\ j \in listed
  /\ listed' = listed \ {j}
  /\ UNCHANGED <<nextId, state, cancelRequested, payload>>

\* clear_finished(): forgets every terminal job.
ClearFinished ==
  /\ listed' = {j \in listed : state[j] \notin Terminal}
  /\ UNCHANGED <<nextId, state, cancelRequested, payload>>

---------------------------------------------------------------------------
(* Job: the compare-exchange steps *)

\* transition(): one compare-exchange from "from" to "to".
Transition(j, from, to) ==
  /\ state[j] = from
  /\ state' = [state EXCEPT ![j] = to]

\* transition_active_to(): the retry loop ends on the first state it can
\* leave or on a terminal one.
TransitionActiveTo(j, to) ==
  /\ state[j] \in Active
  /\ state' = [state EXCEPT ![j] = to]

\* Variant: complete() as a plain store.
CompleteStore(j) == state' = [state EXCEPT ![j] = "COMPLETED"]

\* The compare-exchange each method begins with.
StartCas(j)    == Transition(j, "QUEUED", "RUNNING")
CompleteCas(j) == Transition(j, "RUNNING", "COMPLETED")
FailCas(j)     == TransitionActiveTo(j, "FAILED")
CancelCas(j)   == TransitionActiveTo(j, "CANCELLED")

\* request_cancel() of Job, and the store that ends cancel().
StoreCancelFlag(j) == cancelRequested' = [cancelRequested EXCEPT ![j] = TRUE]

\* The store that ends complete() (count_) and fail() (error_).
StorePayload(j, what) == payload' = [payload EXCEPT ![j] = what]
===========================================================================
