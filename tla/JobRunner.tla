----------------------------- MODULE JobRunner -----------------------------
(***************************************************************************)
(* JobRunner (src/src/web/job_runner.h, job_runner.cpp) with its callers:  *)
(* HTTP connection threads that submit, cancel and shut down, and the one  *)
(* worker thread per job that JobRunner::run spawns.                       *)
(*                                                                         *)
(* The two locks are explicit: session_mtx_, which the worker holds during *)
(* the whole task and the handlers only try to take, and runner_mtx_,      *)
(* which guards active_ and thread_.  Short critical sections that cannot  *)
(* block are one step; run() joins the previous thread and shutdown()      *)
(* calls request_cancel() inside runner_mtx_, so those are several.        *)
(*                                                                         *)
(* The task is a first scan of Application: it opens the target's memory   *)
(* or fails, tests the cancel flag once per block and once more at the     *)
(* end, and only then replaces the results kept in the Session.  What a    *)
(* cancelled next scan leaves behind is in Scanner.                        *)
(***************************************************************************)
EXTENDS Jobs, FiniteSets

CONSTANTS
  Clients,      \* HTTP connection threads
  Blocks,       \* blocks a task reads: its cancellation points
  MaxRequests,  \* bound on the requests the clients issue
  Housekeeping  \* do callers use remove() and clear_finished()?

ASSUME RunnerAssumption ==
  /\ Clients \cap (0..MaxJobs) = {}
  /\ Blocks \in Nat
  /\ MaxRequests \in Nat
  /\ Housekeeping \in BOOLEAN

NoThread == 0

VARIABLES
  slot,        \* active_: the job whose worker occupies the runner, or NoJob
  handle,      \* thread_: the job whose worker thread it can join, or NoJob
  runnerMtx,   \* holder of runner_mtx_ across steps
  sessionMtx,  \* holder of session_mtx_
  results,     \* the job whose results the Session keeps, or NoJob
  wpc,         \* program counter of each job's worker thread
  block,       \* blocks the worker's task has read
  outcome,     \* JobRunResult of each worker's task
  pc,          \* program counter of each client
  arg,         \* the job id a client's call works on
  taken,       \* shutdown()'s local t: the thread handle moved out of thread_
  requests     \* requests issued so far

workerVars == <<wpc, block, outcome>>
clientVars == <<pc, arg, taken, requests>>
runnerVars == <<slot, handle, runnerMtx>>
sessionVars == <<sessionMtx, results>>
vars == <<jobVars, runnerVars, sessionVars, workerVars, clientVars>>

\* "failed": the thread was never there, its std::thread could not be made.
WorkerPc == {"none", "failed", "get", "start", "lock", "check", "scan", "unlock",
             "verdict", "store", "finish", "exit", "exited", "joined"}

ClientPc == {"idle", "run", "join", "launch", "cancel", "flag", "cas",
             "storeFlag", "session", "shutdown", "take", "wait"}

TypeOK ==
  /\ JobsTypeOK
  /\ slot \in JobId \cup {NoJob}
  /\ handle \in JobId \cup {NoJob}
  /\ runnerMtx \in Clients \cup {NoThread}
  /\ sessionMtx \in Clients \cup JobId \cup {NoThread}
  /\ results \in JobId \cup {NoJob}
  /\ wpc \in [JobId -> WorkerPc]
  /\ block \in [JobId -> 0..Blocks]
  /\ outcome \in [JobId -> {"none", "ok", "cancelled", "error"}]
  /\ pc \in [Clients -> ClientPc]
  /\ arg \in [Clients -> JobId \cup {NoJob}]
  /\ taken \in [Clients -> JobId \cup {NoJob}]
  /\ requests \in 0..MaxRequests

Init ==
  /\ JobsInit
  /\ slot = NoJob
  /\ handle = NoJob
  /\ runnerMtx = NoThread
  /\ sessionMtx = NoThread
  /\ results = NoJob
  /\ wpc = [j \in JobId |-> "none"]
  /\ block = [j \in JobId |-> 0]
  /\ outcome = [j \in JobId |-> "none"]
  /\ pc = [c \in Clients |-> "idle"]
  /\ arg = [c \in Clients |-> NoJob]
  /\ taken = [c \in Clients |-> NoJob]
  /\ requests = 0

\* thread::join on the thread of job j; with no joinable thread, a no-op.
Join(j) ==
  \/ j = NoJob /\ UNCHANGED wpc
  \/ j # NoJob /\ wpc[j] = "exited" /\ wpc' = [wpc EXCEPT ![j] = "joined"]

---------------------------------------------------------------------------
(* Requests: an idle client receives one more. *)

Request(c, next, j) ==
  /\ pc[c] = "idle"
  /\ requests < MaxRequests
  /\ requests' = requests + 1
  /\ pc' = [pc EXCEPT ![c] = next]
  /\ arg' = [arg EXCEPT ![c] = j]
  /\ UNCHANGED taken

\* start_job(): create() and, unless it refuses, run(); a refusal is the
\* busy response and changes nothing.
Submit(c) ==
  /\ Request(c, "run", nextId)
  /\ Create
  /\ UNCHANGED <<runnerVars, sessionVars, workerVars>>

\* h_job_cancel(): 404 unless the registry knows the job.
Cancel(c) ==
  /\ \E j \in listed : Request(c, "cancel", j)
  /\ UNCHANGED <<jobVars, runnerVars, sessionVars, workerVars>>

\* A handler that touches the Session: try_lock, 409 busy if it is held.
UseSession(c) ==
  /\ Request(c, "session", NoJob)
  /\ sessionMtx = NoThread
  /\ sessionMtx' = c
  /\ UNCHANGED <<jobVars, runnerVars, results, workerVars>>

Shutdown(c) ==
  /\ Request(c, "shutdown", NoJob)
  /\ UNCHANGED <<jobVars, runnerVars, sessionVars, workerVars>>

Tidy(c) ==
  /\ Housekeeping
  /\ Request(c, "idle", NoJob)
  /\ (\E j \in JobId : Remove(j)) \/ ClearFinished
  /\ UNCHANGED <<runnerVars, sessionVars, workerVars>>

NewRequest(c) == Submit(c) \/ Cancel(c) \/ UseSession(c) \/ Shutdown(c) \/ Tidy(c)

---------------------------------------------------------------------------
(* JobRunner::run *)

\* The client goes on to its next step.
Goto(c, next) ==
  /\ pc' = [pc EXCEPT ![c] = next]
  /\ UNCHANGED <<arg, taken, requests>>

\* The client's call is over: its locals are gone.
Done(c) ==
  /\ pc' = [pc EXCEPT ![c] = "idle"]
  /\ arg' = [arg EXCEPT ![c] = NoJob]
  /\ UNCHANGED <<taken, requests>>

\* Variant: the slot is not looked at.
RunEnterUnchecked(c) ==
  /\ pc[c] = "run"
  /\ runnerMtx = NoThread
  /\ runnerMtx' = c
  /\ Goto(c, "join")
  /\ UNCHANGED <<jobVars, slot, handle, sessionVars, workerVars>>

\* Variant: start_job() does not cancel the job run() refused.
RunEnterForgets(c) ==
  /\ pc[c] = "run"
  /\ runnerMtx = NoThread
  /\ \/ slot = NoJob /\ runnerMtx' = c /\ Goto(c, "join")
     \/ slot # NoJob /\ UNCHANGED runnerMtx /\ Done(c)
  /\ UNCHANGED <<jobVars, slot, handle, sessionVars, workerVars>>

\* Takes runner_mtx_; a busy slot refuses, and start_job() then cancels.
RunEnter(c) ==
  /\ pc[c] = "run"
  /\ runnerMtx = NoThread
  /\ \/ /\ slot = NoJob
        /\ runnerMtx' = c
        /\ Goto(c, "join")
     \/ /\ slot # NoJob
        /\ UNCHANGED runnerMtx
        /\ Goto(c, "cancel")
  /\ UNCHANGED <<jobVars, slot, handle, sessionVars, workerVars>>

\* Variant: thread_ is overwritten without joining it.
RunJoinSkipped(c) ==
  /\ pc[c] = "join"
  /\ handle' = NoJob
  /\ Goto(c, "launch")
  /\ UNCHANGED <<jobVars, slot, runnerMtx, sessionVars, workerVars>>

\* Joins the previous worker's thread, holding runner_mtx_.
RunJoin(c) ==
  /\ pc[c] = "join"
  /\ Join(handle)
  /\ handle' = NoJob
  /\ Goto(c, "launch")
  /\ UNCHANGED <<jobVars, slot, runnerMtx, sessionVars, block, outcome>>

\* Refuses a job that is gone or no longer QUEUED; otherwise takes the slot
\* and spawns the worker, which becomes the joinable thread_.  The constructor
\* of std::thread may throw: the exception leaves through run() and start_job(),
\* past its request_cancel(), to the catch of Api::handle, which answers 500.
RunLaunch(c) ==
  /\ pc[c] = "launch"
  /\ runnerMtx' = NoThread
  /\ \/ /\ arg[c] \in listed
        /\ state[arg[c]] = "QUEUED"
        /\ slot' = arg[c]
        /\ \/ handle' = arg[c] /\ wpc' = [wpc EXCEPT ![arg[c]] = "get"]
           \/ UNCHANGED handle /\ wpc' = [wpc EXCEPT ![arg[c]] = "failed"]
        /\ Done(c)
     \/ /\ arg[c] \notin listed \/ state[arg[c]] # "QUEUED"
        /\ Goto(c, "cancel")
        /\ UNCHANGED <<slot, handle, wpc>>
  /\ UNCHANGED <<jobVars, sessionVars, block, outcome>>

---------------------------------------------------------------------------
(* JobRegistry::request_cancel, called by a handler or by shutdown(). *)

\* Back in shutdown(), which holds runner_mtx_ during the call, or done.
CancelReturn(c) ==
  \/ runnerMtx = c /\ runnerMtx' = NoThread /\ Goto(c, "take")
  \/ runnerMtx # c /\ UNCHANGED runnerMtx /\ Done(c)

\* Reads the state and decides on it; a terminal or unknown job: nothing.
CancelRead(c) ==
  /\ pc[c] = "cancel"
  /\ \/ /\ arg[c] \in listed
        /\ \/ state[arg[c]] = "QUEUED" /\ Goto(c, "cas")
           \/ state[arg[c]] = "RUNNING" /\ Goto(c, "flag")
        /\ UNCHANGED runnerMtx
     \/ /\ arg[c] \notin listed \/ state[arg[c]] \in Terminal
        /\ CancelReturn(c)
  /\ UNCHANGED <<jobVars, slot, handle, sessionVars, workerVars>>

\* It was RUNNING: only the flag.
CancelFlag(c) ==
  /\ pc[c] \in {"flag", "storeFlag"}
  /\ StoreCancelFlag(arg[c])
  /\ CancelReturn(c)
  /\ UNCHANGED <<listed, nextId, state, payload>>
  /\ UNCHANGED <<slot, handle, sessionVars, workerVars>>

\* It was QUEUED: Job::cancel(), which also accepts a job that has since
\* become RUNNING, and stores the flag after the compare-exchange.
CancelQueued(c) ==
  /\ pc[c] = "cas"
  /\ \/ /\ CancelCas(arg[c])
        /\ Goto(c, "storeFlag")
        /\ UNCHANGED runnerMtx
     \/ /\ state[arg[c]] \notin Active
        /\ CancelReturn(c)
        /\ UNCHANGED state
  /\ UNCHANGED <<listed, nextId, cancelRequested, payload>>
  /\ UNCHANGED <<slot, handle, sessionVars, workerVars>>

---------------------------------------------------------------------------
(* Session handlers and JobRunner::shutdown *)

\* The handler's work: attach and detach may discard the results.
LeaveSession(c) ==
  /\ pc[c] = "session"
  /\ results' \in {results, NoJob}
  /\ sessionMtx' = NoThread
  /\ Done(c)
  /\ UNCHANGED <<jobVars, runnerVars, workerVars>>

\* First block: request_cancel() of the active job, under runner_mtx_.
ShutdownCancel(c) ==
  /\ pc[c] = "shutdown"
  /\ runnerMtx = NoThread
  /\ arg' = [arg EXCEPT ![c] = slot]
  /\ \/ slot = NoJob /\ pc' = [pc EXCEPT ![c] = "take"] /\ UNCHANGED runnerMtx
     \/ slot # NoJob /\ pc' = [pc EXCEPT ![c] = "cancel"] /\ runnerMtx' = c
  /\ UNCHANGED <<jobVars, slot, handle, sessionVars, workerVars, taken, requests>>

\* Second block: the thread moves out of thread_ into a local.
ShutdownTake(c) ==
  /\ pc[c] = "take"
  /\ runnerMtx = NoThread
  /\ taken' = [taken EXCEPT ![c] = handle]
  /\ handle' = NoJob
  /\ pc' = [pc EXCEPT ![c] = "wait"]
  /\ UNCHANGED <<jobVars, slot, runnerMtx, sessionVars, workerVars, arg, requests>>

\* Variant: the thread is detached.
ShutdownDetach(c) ==
  /\ pc[c] = "wait"
  /\ taken' = [taken EXCEPT ![c] = NoJob]
  /\ pc' = [pc EXCEPT ![c] = "idle"]
  /\ arg' = [arg EXCEPT ![c] = NoJob]
  /\ UNCHANGED <<jobVars, runnerVars, sessionVars, workerVars, requests>>

\* The join, with no lock held.
ShutdownJoin(c) ==
  /\ pc[c] = "wait"
  /\ Join(taken[c])
  /\ taken' = [taken EXCEPT ![c] = NoJob]
  /\ pc' = [pc EXCEPT ![c] = "idle"]
  /\ arg' = [arg EXCEPT ![c] = NoJob]
  /\ UNCHANGED <<jobVars, runnerVars, sessionVars, block, outcome, requests>>

ClientStep(c) ==
  \/ RunEnter(c) \/ RunJoin(c) \/ RunLaunch(c)
  \/ CancelRead(c) \/ CancelFlag(c) \/ CancelQueued(c)
  \/ LeaveSession(c)
  \/ ShutdownCancel(c) \/ ShutdownTake(c) \/ ShutdownJoin(c)

---------------------------------------------------------------------------
(* JobRunner::worker, the thread of job j *)

WorkerGoto(j, next) == wpc' = [wpc EXCEPT ![j] = next]

\* registry_.get(): the job may have been removed since run() saw it.
WorkerGet(j) ==
  /\ wpc[j] = "get"
  /\ \/ j \in listed /\ WorkerGoto(j, "start")
     \/ j \notin listed /\ WorkerGoto(j, "finish")
  /\ UNCHANGED <<jobVars, runnerVars, sessionVars, block, outcome, clientVars>>

\* Variant: a job cancelled before its start returns without finish_slot().
WorkerStartReturns(j) ==
  /\ wpc[j] = "start"
  /\ \/ StartCas(j) /\ WorkerGoto(j, "lock")
     \/ state[j] # "QUEUED" /\ UNCHANGED state /\ WorkerGoto(j, "exit")
  /\ UNCHANGED <<listed, nextId, cancelRequested, payload>>
  /\ UNCHANGED <<runnerVars, sessionVars, block, outcome, clientVars>>

\* Job::start(): false when the job was cancelled first.
WorkerStart(j) ==
  /\ wpc[j] = "start"
  /\ \/ StartCas(j) /\ WorkerGoto(j, "lock")
     \/ state[j] # "QUEUED" /\ UNCHANGED state /\ WorkerGoto(j, "finish")
  /\ UNCHANGED <<listed, nextId, cancelRequested, payload>>
  /\ UNCHANGED <<runnerVars, sessionVars, block, outcome, clientVars>>

\* Waits for session_mtx_.
WorkerLock(j) ==
  /\ wpc[j] = "lock"
  /\ sessionMtx = NoThread
  /\ sessionMtx' = j
  /\ WorkerGoto(j, "check")
  /\ UNCHANGED <<jobVars, runnerVars, results, block, outcome, clientVars>>

\* The task is over: its result is r.
TaskEnds(j, r) ==
  /\ outcome' = [outcome EXCEPT ![j] = r]
  /\ WorkerGoto(j, "unlock")
  /\ UNCHANGED block

\* A cancel between start() and the task: the task is not run.
WorkerCheck(j) ==
  /\ wpc[j] = "check"
  /\ \/ cancelRequested[j] /\ TaskEnds(j, "cancelled")
     \/ ~cancelRequested[j] /\ WorkerGoto(j, "scan") /\ UNCHANGED <<block, outcome>>
  /\ UNCHANGED <<jobVars, runnerVars, sessionVars, clientVars>>

\* Variant: one block too many is read.
ScanBlockOver(j) ==
  /\ wpc[j] = "scan"
  /\ ~cancelRequested[j]
  /\ block[j] <= Blocks
  /\ block' = [block EXCEPT ![j] = @ + 1]
  /\ UNCHANGED <<wpc, outcome>>
  /\ UNCHANGED <<jobVars, runnerVars, sessionVars, clientVars>>

\* The task at a block boundary: the cancel flag, or one more block.
ScanBlock(j) ==
  /\ wpc[j] = "scan"
  /\ ~cancelRequested[j]
  /\ block[j] < Blocks
  /\ block' = [block EXCEPT ![j] = @ + 1]
  /\ UNCHANGED <<wpc, outcome>>
  /\ UNCHANGED <<jobVars, runnerVars, sessionVars, clientVars>>

\* Variant: a cancelled task leaves what it had found so far.
ScanCancelledPublishes(j) ==
  /\ wpc[j] = "scan"
  /\ cancelRequested[j]
  /\ results' = j
  /\ TaskEnds(j, "cancelled")
  /\ UNCHANGED <<jobVars, runnerVars, sessionMtx, clientVars>>

ScanCancelled(j) ==
  /\ wpc[j] = "scan"
  /\ cancelRequested[j]
  /\ TaskEnds(j, "cancelled")
  /\ UNCHANGED <<jobVars, runnerVars, sessionVars, clientVars>>

\* After the last block, one more test of the flag, then the results are
\* replaced.
ScanPublish(j) ==
  /\ wpc[j] = "scan"
  /\ ~cancelRequested[j]
  /\ block[j] = Blocks
  /\ results' = j
  /\ TaskEnds(j, "ok")
  /\ UNCHANGED <<jobVars, runnerVars, sessionMtx, clientVars>>

\* The memory cannot be opened, or the task throws.
ScanFails(j) ==
  /\ wpc[j] = "scan"
  /\ TaskEnds(j, "error")
  /\ UNCHANGED <<jobVars, runnerVars, sessionVars, clientVars>>

WorkerUnlock(j) ==
  /\ wpc[j] = "unlock"
  /\ sessionMtx' = NoThread
  /\ WorkerGoto(j, "verdict")
  /\ UNCHANGED <<jobVars, runnerVars, results, block, outcome, clientVars>>

\* Variant: "not ok" is tested before "cancelled".
VerdictCasSwapped(j) ==
  \/ outcome[j] = "ok" /\ CompleteCas(j)
  \/ outcome[j] # "ok" /\ FailCas(j)

\* The terminal transition of the job, by the task's result; refused when
\* the job is terminal already.
VerdictCas(j) ==
  \/ outcome[j] = "cancelled" /\ CancelCas(j)
  \/ outcome[j] = "ok" /\ CompleteCas(j)
  \/ outcome[j] = "error" /\ FailCas(j)

\* Variant: the slot is released right after the transition.
WorkerVerdictEarly(j) ==
  /\ wpc[j] = "verdict"
  /\ \/ VerdictCas(j)
     \/ state[j] \in Terminal /\ UNCHANGED state
  /\ WorkerGoto(j, "finish")
  /\ UNCHANGED <<listed, nextId, cancelRequested, payload>>
  /\ UNCHANGED <<runnerVars, sessionVars, block, outcome, clientVars>>

WorkerVerdict(j) ==
  /\ wpc[j] = "verdict"
  /\ \/ VerdictCas(j) /\ WorkerGoto(j, "store")
     \/ state[j] \in Terminal /\ UNCHANGED state /\ WorkerGoto(j, "finish")
  /\ UNCHANGED <<listed, nextId, cancelRequested, payload>>
  /\ UNCHANGED <<runnerVars, sessionVars, block, outcome, clientVars>>

\* What the method stores after its compare-exchange.
WorkerStore(j) ==
  /\ wpc[j] = "store"
  /\ \/ outcome[j] = "cancelled" /\ StoreCancelFlag(j) /\ UNCHANGED payload
     \/ outcome[j] = "ok" /\ StorePayload(j, "count") /\ UNCHANGED cancelRequested
     \/ outcome[j] = "error" /\ StorePayload(j, "error") /\ UNCHANGED cancelRequested
  /\ WorkerGoto(j, "finish")
  /\ UNCHANGED <<listed, nextId, state>>
  /\ UNCHANGED <<runnerVars, sessionVars, block, outcome, clientVars>>

\* finish_slot()
WorkerFinish(j) ==
  /\ wpc[j] = "finish"
  /\ runnerMtx = NoThread
  /\ slot' = NoJob
  /\ WorkerGoto(j, "exit")
  /\ UNCHANGED <<jobVars, handle, runnerMtx, sessionVars, block, outcome, clientVars>>

\* The thread's function returns: it can be joined.
WorkerExit(j) ==
  /\ wpc[j] = "exit"
  /\ WorkerGoto(j, "exited")
  /\ UNCHANGED <<jobVars, runnerVars, sessionVars, block, outcome, clientVars>>

WorkerStep(j) ==
  \/ WorkerGet(j) \/ WorkerStart(j) \/ WorkerLock(j) \/ WorkerCheck(j)
  \/ ScanBlock(j) \/ ScanCancelled(j) \/ ScanPublish(j) \/ ScanFails(j)
  \/ WorkerUnlock(j) \/ WorkerVerdict(j) \/ WorkerStore(j)
  \/ WorkerFinish(j) \/ WorkerExit(j)

Next ==
  \/ \E c \in Clients : NewRequest(c) \/ ClientStep(c)
  \/ \E j \in JobId : WorkerStep(j)

Spec == Init /\ [][Next]_vars

\* A runnable thread is eventually scheduled; nobody has to send requests.
Fairness ==
  /\ \A c \in Clients : WF_vars(ClientStep(c))
  /\ \A j \in JobId : WF_vars(WorkerStep(j))

FairSpec == Spec /\ Fairness

---------------------------------------------------------------------------
(* Properties *)

Busy == {"get", "start", "lock", "check", "scan", "unlock", "verdict",
         "store", "finish"}

\* "UN SOLO JOB ACTIVO A LA VEZ" (jobs.h): of the jobs the registry lists,
\* at most one is QUEUED or RUNNING, whoever creates, cancels or removes.
OneActiveJob == \A j, k \in ActiveJobs : j = k

\* The runner's own slot (job_runner.cpp:9) is what keeps two workers apart
\* when the registry forgets a running job: every worker that has not
\* released the slot is the one the slot names.
SlotGuardsWorker == \A j \in JobId : wpc[j] \in Busy => slot = j

\* Who can join the std::thread of job j: the runner, through thread_, or the
\* shutdown() that moved it to its local.
Owns(o, j) ==
  \/ o = NoThread /\ handle = j
  \/ o \in Clients /\ taken[o] = j

Joinable(j) == wpc[j] \notin {"none", "failed", "joined"}

\* A joinable std::thread is never overwritten, destroyed or joined twice:
\* a spawned thread has exactly one owner until it is joined, then none.
ThreadsAreOwned ==
  \A j \in JobId :
    /\ \A o, p \in Clients \cup {NoThread} : Owns(o, j) /\ Owns(p, j) => o = p
    /\ Joinable(j) <=> \E o \in Clients \cup {NoThread} : Owns(o, j)

\* The verdict agrees with the run (job_runner.cpp:81): a task that was
\* cancelled never ends COMPLETED or FAILED, COMPLETED means the task reached
\* its end and FAILED that it failed.
VerdictMatchesRun ==
  \A j \in JobId :
    /\ state[j] = "COMPLETED" => outcome[j] = "ok"
    /\ state[j] = "FAILED" => outcome[j] = "error"

\* complete() and fail() store count_ and error_ after the transition that
\* readers see; once the slot is free the stored value is there.
PayloadBeforeFree ==
  \A j \in JobId : slot # j =>
    /\ state[j] = "COMPLETED" => payload[j] = "count"
    /\ state[j] = "FAILED" => payload[j] = "error"

\* A terminal state is final, whichever threads race to end the job.
TerminalIsFinal ==
  [][\A j \in JobId : state[j] \in Terminal => state'[j] = state[j]]_state

\* shutdown() "espera a que el worker termine" (job_runner.h:73): when it
\* returns, the worker that was active when it was called is over (or never
\* came to be), or another shutdown() took its thread and is still waiting for
\* it; run() and other shutdown() calls may have moved thread_ on between its
\* two critical sections.
Over == {"exited", "joined", "failed"}

ShutdownWaits ==
  [][\A c \in Clients :
       pc[c] = "wait" /\ pc'[c] = "idle" /\ arg[c] # NoJob
         => \/ wpc'[arg[c]] \in Over
            \/ \E d \in Clients \ {c} : taken'[d] = arg[c]]_vars

\* The worker of the job could not be started.  Nothing in the code undoes
\* what run() and create() have done for it by then.
Stranded(j) == wpc[j] = "failed"

\* Every job the registry lists ends, also one that run() refuses and one that
\* is created while the slot of another is stranded.  Only a job whose thread
\* could not be made may stay QUEUED for ever: api.cpp:328 catches the
\* exception where nobody knows of the job.
JobsEnd ==
  \A j \in JobId :
    (j \in listed /\ state[j] \in Active)
      ~> (j \notin listed \/ state[j] \in Terminal \/ Stranded(j))

\* The slot is released on every path out of the worker.  A worker that could
\* not be started never releases it (job_runner.cpp:17 takes it before :18).
RunnerBecomesFree == slot # NoJob ~> (slot = NoJob \/ Stranded(slot))

\* run(), request_cancel() and shutdown() return, joins included: "No hay
\* deadlock" (job_runner.cpp:11), although run() joins a thread and shutdown()
\* calls the registry while they hold runner_mtx_.
RequestsReturn == \A c \in Clients : pc[c] # "idle" ~> pc[c] = "idle"

\* The refinement mapping: a job's operation on the Session, by where its
\* worker is.
TaskOf(j) ==
  IF wpc[j] = "lock" THEN "ready"
  ELSE IF wpc[j] \in {"check", "scan"} THEN "executing"
  ELSE outcome[j]

Task == [j \in JobId |-> TaskOf(j)]

Service == INSTANCE JobService WITH phase <- state, task <- Task

\* JobRunner, with its clients and workers, implements JobService.
ImplementsService == Service!Spec

---------------------------------------------------------------------------
(* The inductive invariant behind the safety properties *)

\* runner_mtx_ is held by the client inside run(), or inside shutdown()'s
\* call of request_cancel(); inside run() the slot is free.
InvRunnerLock ==
  \A c \in Clients :
    /\ pc[c] \in {"join", "launch"} => runnerMtx = c /\ slot = NoJob
    /\ pc[c] = "launch" => handle = NoJob
    /\ runnerMtx = c => pc[c] \in {"join", "launch", "cancel", "flag", "cas", "storeFlag"}

\* session_mtx_ is held exactly by the worker inside its task or the client
\* inside its handler.
InvSessionLock ==
  /\ \A j \in JobId : wpc[j] \in {"check", "scan", "unlock"} <=> sessionMtx = j
  /\ \A c \in Clients : pc[c] = "session" <=> sessionMtx = c

\* The ids not handed out yet are untouched and unknown.
Fresh(j) == nextId <= j

InvFresh ==
  \A j \in JobId : Fresh(j) =>
    /\ state[j] = "NONE"
    /\ wpc[j] = "none"
    /\ j \notin listed
    /\ slot # j
    /\ \A c \in Clients : arg[c] # j

\* A job is on its way to its worker in the hands of one client at most.
Launching(c) == pc[c] \in {"run", "join", "launch"}

InvLaunch ==
  /\ \A c \in Clients :
       /\ Launching(c) => arg[c] # NoJob /\ wpc[arg[c]] = "none"
       /\ pc[c] \in {"flag", "cas", "storeFlag"} => arg[c] # NoJob
  /\ \A c, d \in Clients :
       Launching(c) /\ Launching(d) /\ arg[c] = arg[d] => c = d

\* The local of shutdown() holds a thread only while it waits for it.
InvTaken == \A c \in Clients : pc[c] # "wait" => taken[c] = NoJob

\* The job a shutdown() found in the slot has a worker thread, and once the
\* call has emptied thread_, no later run() puts that thread back.
Stopping(c) == runnerMtx = c \/ pc[c] \in {"take", "wait"}

InvShutdown ==
  /\ \A j \in JobId : wpc[j] = "none" => slot # j
  /\ \A c \in Clients : \A j \in JobId :
       /\ Stopping(c) /\ ~Launching(c) /\ arg[c] = j => wpc[j] # "none"
       /\ pc[c] = "wait" /\ arg[c] = j => handle # j

\* What the worker's position says of its job's state and result.
InvLifecycle ==
  \A j \in JobId :
    /\ wpc[j] \in {"none", "failed", "get", "start"} =>
         state[j] \in {"NONE", "QUEUED", "CANCELLED"} /\ outcome[j] = "none"
    /\ wpc[j] \in {"lock", "check", "scan"} =>
         state[j] \in {"RUNNING", "CANCELLED"} /\ outcome[j] = "none"
    /\ wpc[j] \in {"unlock", "verdict"} =>
         state[j] \in {"RUNNING", "CANCELLED"} /\ outcome[j] # "none"
    /\ wpc[j] = "store" => state[j] \in Terminal /\ outcome[j] # "none"
    /\ wpc[j] \in {"finish", "exit", "exited", "joined"} => state[j] # "RUNNING"
    /\ state[j] = "COMPLETED" =>
         outcome[j] = "ok" /\ (wpc[j] # "store" => payload[j] = "count")
    /\ state[j] = "FAILED" =>
         outcome[j] = "error" /\ (wpc[j] # "store" => payload[j] = "error")

IInv ==
  /\ TypeOK
  /\ InvRunnerLock
  /\ InvSessionLock
  /\ InvFresh
  /\ InvLaunch
  /\ InvTaken
  /\ InvShutdown
  /\ InvLifecycle
  /\ SlotGuardsWorker
  /\ ThreadsAreOwned
  /\ OneActiveJob
===========================================================================
