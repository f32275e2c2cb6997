------------------------------- MODULE WebApi -------------------------------
(***************************************************************************)
(* Api (src/src/web/api.cpp) over the Session: connection threads that     *)
(* answer requests, and the worker that runs their jobs.                   *)
(*                                                                         *)
(* A handler that takes session_mutex() with try_lock is one step, possible *)
(* when no job holds the mutex; otherwise it answers 409 busy and changes  *)
(* nothing.  A handler that starts a job takes no mutex: it looks at the   *)
(* session in several steps, and its job runs later on what it saw.        *)
(* The job layer is what JobService promises and JobRunner implements: one *)
(* active job, one task at a time.  A cancelled task is one that ends      *)
(* without results, whenever it was asked to.                              *)
(***************************************************************************)
EXTENDS Session

CONSTANTS
  Client,     \* connection threads
  NoHits      \* no pattern results

ASSUME WebApiAssumption == NoHits \notin Pid

VARIABLES
  request,   \* what each thread has seen of the session so far
  job,       \* the active job
  hits       \* last_pattern_: the process it was read from, or NoHits

web == <<request, job, hits>>
vars == <<session, web>>

Idle == [at |-> "idle"]
NoJob == [at |-> "none"]

TypeOK ==
  /\ SessionTypeOK
  /\ \A c \in Client :
       /\ request[c].at \in {"idle", "kind", "type", "submit"}
       /\ request[c].at = "type" => request[c].dynamic \in BOOLEAN
  /\ job.at \in {"none", "queued", "executing"}
  /\ job # NoJob => job.task.kind \in {"first", "firstDynamic", "next",
                                       "nextDynamic", "pattern", "pointer"}
  /\ hits \in Pid \cup {NoHits}

Init ==
  /\ SessionInit
  /\ request = [c \in Client |-> Idle]
  /\ job = NoJob
  /\ hits = NoHits

---------------------------------------------------------------------------
(* Handlers that start a job *)

Submit(c, task) ==
  request' = [request EXCEPT ![c] = [at |-> "submit", task |-> task]]

\* h_scan_first, h_pattern, h_pointer_scan: one look at the session.
RequestFirst(c) ==
  /\ request[c] = Idle
  /\ pid \in Pid
  /\ \/ \E t \in NumericTypes : Submit(c, [kind |-> "first", type |-> t])
     \/ \E d \in DynamicTypes : Submit(c, [kind |-> "firstDynamic", type |-> d])
  /\ UNCHANGED <<session, job, hits>>

RequestPattern(c) ==
  /\ request[c] = Idle
  /\ pid \in Pid
  /\ Submit(c, [kind |-> "pattern"])
  /\ UNCHANGED <<session, job, hits>>

RequestPointerScan(c) ==
  /\ request[c] = Idle
  /\ pid \in Pid
  /\ \E t \in NumericTypes \cup {scanType} : Submit(c, [kind |-> "pointer", type |-> t])
  /\ UNCHANGED <<session, job, hits>>

\* h_scan_next: is there a process, are there results?
RequestNext(c) ==
  /\ request[c] = Idle
  /\ pid \in Pid
  /\ HasResults
  /\ request' = [request EXCEPT ![c] = [at |-> "kind"]]
  /\ UNCHANGED <<session, job, hits>>

\* Are they dynamic?  Without a new pattern that is all.
ReadKind(c) ==
  /\ request[c].at = "kind"
  /\ \/ request' = [request EXCEPT ![c] = [at |-> "type", dynamic |-> scanner.spec # NoSpec]]
     \/ scanner.spec # NoSpec /\ Submit(c, [kind |-> "nextDynamic", type |-> NoSpec])
  /\ UNCHANGED <<session, job, hits>>

\* Of which type?  A dynamic scan has the type of dyn_spec(), where an empty
\* optional returns what is there, or the one the request names.
ReadType(c) ==
  /\ request[c].at = "type"
  /\ \/ /\ request[c].dynamic
        /\ \E d \in DynamicTypes : Submit(c, [kind |-> "nextDynamic", type |-> d])
     \/ /\ ~request[c].dynamic
        /\ Submit(c, [kind |-> "next", type |-> scanner.type])
  /\ UNCHANGED <<session, job, hits>>

\* start_job.
StartJob(c) ==
  /\ request[c].at = "submit"
  /\ \/ job = NoJob /\ job' = [at |-> "queued", task |-> request[c].task]
     \/ job # NoJob /\ UNCHANGED job
  /\ request' = [request EXCEPT ![c] = Idle]
  /\ UNCHANGED <<session, hits>>

---------------------------------------------------------------------------
(* The worker *)

\* It takes the session's mutex and opens the target.
Begin ==
  /\ job.at = "queued"
  /\ pid \in Pid
  /\ job' = [job EXCEPT !.at = "executing"]
  /\ UNCHANGED <<session, request, hits>>

\* Cancelled or failed, before it began or before its results were there.
EndWithout ==
  /\ job # NoJob
  /\ job' = NoJob
  /\ UNCHANGED <<session, request, hits>>

Is(kind) == job.at = "executing" /\ job.task.kind = kind

PublishFirst ==
  /\ \/ Is("first") /\ \E found \in SUBSET Addr : FirstNumeric(job.task.type, found)
     \/ Is("firstDynamic") /\ \E found \in SUBSET Addr : FirstDynamic(job.task.type, found)
  /\ job' = NoJob
  /\ UNCHANGED <<pid, scanType, pointers, table, file, request, hits>>

PublishNext ==
  /\ \/ Is("next") /\ \E kept \in SUBSET Addr : NextNumeric(job.task.type, kept)
     \/ Is("nextDynamic") /\ \E kept \in SUBSET Addr : NextDynamic(job.task.type, kept)
  /\ job' = NoJob
  /\ UNCHANGED <<pid, scanType, pointers, table, file, request, hits>>

PublishPattern ==
  /\ Is("pattern")
  /\ hits' = pid
  /\ job' = NoJob
  /\ UNCHANGED <<session, request>>

PublishPointers ==
  /\ Is("pointer")
  /\ \E n \in 0..1 : PointersFound(job.task.type, n)
  /\ job' = NoJob
  /\ UNCHANGED <<pid, scanner, scanType, table, file, request, hits>>

---------------------------------------------------------------------------
(* Handlers under the session's mutex *)

\* Variant: attach and detach do not look at the mutex.
LockedNever == FALSE

Locked == job.at = "executing"

Holds(c) == request[c] = Idle /\ ~Locked /\ UNCHANGED web

HandleProcess(c) ==
  /\ Holds(c)
  /\ (\E p \in Pid : Attach(p)) \/ Detach

HandleEdit(c) == Holds(c) /\ EditTable

HandleVerify(c) == Holds(c) /\ VerifyTable

HandleFile(c) == Holds(c) /\ MoveTable

ClientStep(c) ==
  \/ RequestFirst(c) \/ RequestPattern(c) \/ RequestPointerScan(c)
  \/ RequestNext(c) \/ ReadKind(c) \/ ReadType(c)
  \/ StartJob(c)
  \/ HandleProcess(c) \/ HandleEdit(c) \/ HandleVerify(c) \/ HandleFile(c)

WorkerStep ==
  \/ Begin \/ EndWithout
  \/ PublishFirst \/ PublishNext \/ PublishPattern \/ PublishPointers

Next == (\E c \in Client : ClientStep(c)) \/ WorkerStep

Spec == Init /\ [][Next]_vars

---------------------------------------------------------------------------
(* Properties *)

\* A handler that follows dyn_spec() does so while there is one (api.h:15
\* "los endpoints que tocan la sesion usan runner_.session_mutex()").
SpecIsThere ==
  \A c \in Client :
    request[c].at = "type" /\ request[c].dynamic => scanner.spec # NoSpec
=============================================================================
