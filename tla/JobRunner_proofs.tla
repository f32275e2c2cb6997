-------------------------- MODULE JobRunner_proofs --------------------------
EXTENDS JobRunner, TLAPS

\* The id 0 stands for no job and no thread; clients are not job ids.
LEMMA Ids ==
  /\ NoJob \notin JobId /\ NoThread \notin JobId /\ NoThread \notin Clients
  /\ NoThread = NoJob
  /\ \A c \in Clients : c \notin JobId
<1>1. 0 \in 0..MaxJobs /\ JobId \subseteq 0..MaxJobs /\ 0 \notin JobId
  BY MaxJobsAssumption DEF JobId
<1>2. Clients \cap (0..MaxJobs) = {}
  BY RunnerAssumption
<1>3. QED
  BY <1>1, <1>2, Zenon DEF NoJob, NoThread

\* create() keeps next_id_ in its range.
LEMMA NextIds ==
  ASSUME JobsTypeOK, Create
  PROVE  nextId' \in 1..(MaxJobs + 1)
BY MaxJobsAssumption DEF JobsTypeOK, Create, JobId

\* A task that has a block left to read stays within its blocks.
LEMMA BlockIds ==
  ASSUME TypeOK, NEW j \in JobId, block[j] < Blocks
  PROVE  block[j] + 1 \in 0..Blocks
BY RunnerAssumption DEF TypeOK

\* create() hands out a fresh id, and only that id stops being fresh.
LEMMA NextFresh ==
  ASSUME TypeOK, Create
  PROVE  /\ nextId \in JobId /\ Fresh(nextId)
         /\ \A j \in JobId : Fresh(j)' <=> Fresh(j) /\ j # nextId
BY MaxJobsAssumption DEF TypeOK, JobsTypeOK, Create, Fresh, JobId

\* Without create(), the same ids are fresh.
LEMMA SameFresh ==
  ASSUME nextId' = nextId
  PROVE  \A j \in JobId : Fresh(j)' = Fresh(j)
BY DEF Fresh

\* Every step keeps the types.
LEMMA TypeStep ==
  TypeOK /\ [Next]_vars => TypeOK'
<1> SUFFICES ASSUME TypeOK, [Next]_vars PROVE TypeOK'
  OBVIOUS
<1> USE Ids, MaxJobsAssumption, RunnerAssumption DEF Active, Terminal, jobVars, runnerVars, sessionVars, workerVars, clientVars, TypeOK, JobsTypeOK, ClientPc, WorkerPc
<1>1. ASSUME NEW c \in Clients, Submit(c) PROVE TypeOK'
  BY <1>1, NextIds DEF Submit, Request, Create, ActiveJobs
<1>2. ASSUME NEW c \in Clients, Cancel(c) PROVE TypeOK'
  BY <1>2 DEF Cancel, Request
<1>3. ASSUME NEW c \in Clients, UseSession(c) PROVE TypeOK'
  BY <1>3 DEF UseSession, Request
<1>4. ASSUME NEW c \in Clients, Shutdown(c) PROVE TypeOK'
  BY <1>4 DEF Shutdown, Request
<1>5. ASSUME NEW c \in Clients, Tidy(c) PROVE TypeOK'
  BY <1>5 DEF Tidy, Request, Remove, ClearFinished
<1>6. ASSUME NEW c \in Clients, RunEnter(c) PROVE TypeOK'
  BY <1>6 DEF RunEnter, Goto
<1>7. ASSUME NEW c \in Clients, RunJoin(c) PROVE TypeOK'
  BY <1>7 DEF RunJoin, Join, Goto
<1>8. ASSUME NEW c \in Clients, RunLaunch(c) PROVE TypeOK'
  BY <1>8 DEF RunLaunch, Goto, Done
<1>9. ASSUME NEW c \in Clients, CancelRead(c) PROVE TypeOK'
  BY <1>9 DEF CancelRead, CancelReturn, Goto, Done
<1>10. ASSUME NEW c \in Clients, CancelFlag(c) PROVE TypeOK'
  <2>1. cancelRequested' \in [JobId -> BOOLEAN]
    BY <1>10 DEF CancelFlag, StoreCancelFlag
  <2>2. /\ pc' \in [Clients -> ClientPc]
        /\ arg' \in [Clients -> JobId \cup {NoJob}]
        /\ runnerMtx' \in Clients \cup {NoThread}
        /\ UNCHANGED <<taken, requests>>
    BY <1>10 DEF CancelFlag, CancelReturn, Goto, Done
  <2>3. QED
    BY <1>10, <2>1, <2>2 DEF CancelFlag
<1>11. ASSUME NEW c \in Clients, CancelQueued(c) PROVE TypeOK'
  BY <1>11 DEF CancelQueued, CancelCas, TransitionActiveTo, CancelReturn, Goto, Done
<1>12. ASSUME NEW c \in Clients, LeaveSession(c) PROVE TypeOK'
  BY <1>12 DEF LeaveSession, Done
<1>13. ASSUME NEW c \in Clients, ShutdownCancel(c) PROVE TypeOK'
  BY <1>13 DEF ShutdownCancel
<1>14. ASSUME NEW c \in Clients, ShutdownTake(c) PROVE TypeOK'
  BY <1>14 DEF ShutdownTake
<1>15. ASSUME NEW c \in Clients, ShutdownJoin(c) PROVE TypeOK'
  BY <1>15 DEF ShutdownJoin, Join
<1>16. ASSUME NEW j \in JobId, WorkerGet(j) PROVE TypeOK'
  BY <1>16 DEF WorkerGet, WorkerGoto
<1>17. ASSUME NEW j \in JobId, WorkerStart(j) PROVE TypeOK'
  BY <1>17 DEF WorkerStart, StartCas, Transition, WorkerGoto
<1>18. ASSUME NEW j \in JobId, WorkerLock(j) PROVE TypeOK'
  BY <1>18 DEF WorkerLock, WorkerGoto
<1>19. ASSUME NEW j \in JobId, WorkerCheck(j) PROVE TypeOK'
  BY <1>19 DEF WorkerCheck, TaskEnds, WorkerGoto
<1>20. ASSUME NEW j \in JobId, ScanBlock(j) PROVE TypeOK'
  BY <1>20 DEF ScanBlock
<1>21. ASSUME NEW j \in JobId, ScanCancelled(j) PROVE TypeOK'
  BY <1>21 DEF ScanCancelled, TaskEnds, WorkerGoto
<1>22. ASSUME NEW j \in JobId, ScanPublish(j) PROVE TypeOK'
  BY <1>22 DEF ScanPublish, TaskEnds, WorkerGoto
<1>23. ASSUME NEW j \in JobId, ScanFails(j) PROVE TypeOK'
  BY <1>23 DEF ScanFails, TaskEnds, WorkerGoto
<1>24. ASSUME NEW j \in JobId, WorkerUnlock(j) PROVE TypeOK'
  BY <1>24 DEF WorkerUnlock, WorkerGoto
<1>25. ASSUME NEW j \in JobId, WorkerVerdict(j) PROVE TypeOK'
  BY <1>25 DEF WorkerVerdict, VerdictCas, CompleteCas, FailCas, CancelCas, Transition, TransitionActiveTo, WorkerGoto
<1>26. ASSUME NEW j \in JobId, WorkerStore(j) PROVE TypeOK'
  BY <1>26 DEF WorkerStore, StoreCancelFlag, StorePayload, WorkerGoto
<1>27. ASSUME NEW j \in JobId, WorkerFinish(j) PROVE TypeOK'
  BY <1>27 DEF WorkerFinish, WorkerGoto
<1>28. ASSUME NEW j \in JobId, WorkerExit(j) PROVE TypeOK'
  BY <1>28 DEF WorkerExit, WorkerGoto
<1>29. CASE UNCHANGED vars
  BY <1>29 DEF vars
<1>30. QED
  BY <1>1, <1>2, <1>3, <1>4, <1>5, <1>6, <1>7, <1>8, <1>9, <1>10, <1>11, <1>12, <1>13, <1>14,
     <1>15, <1>16, <1>17, <1>18, <1>19, <1>20, <1>21, <1>22, <1>23, <1>24, <1>25, <1>26, <1>27, <1>28, <1>29 DEF Next, NewRequest, ClientStep, WorkerStep

\* Every step keeps runner_mtx_ in the hands of the client inside run() or
\* inside shutdown()'s request_cancel().
LEMMA InvRunnerLockStep ==
  TypeOK /\ InvRunnerLock /\ [Next]_vars => InvRunnerLock'
<1> SUFFICES ASSUME TypeOK, InvRunnerLock, [Next]_vars PROVE InvRunnerLock'
  OBVIOUS
<1> USE Ids DEF Active, Terminal, jobVars, runnerVars, sessionVars, workerVars, clientVars, JobsTypeOK, ClientPc, WorkerPc, TypeOK, InvRunnerLock
<1>1. ASSUME NEW c \in Clients, Submit(c) PROVE InvRunnerLock'
  BY <1>1 DEF Submit, Request, Create, ActiveJobs
<1>2. ASSUME NEW c \in Clients, Cancel(c) PROVE InvRunnerLock'
  BY <1>2 DEF Cancel, Request
<1>3. ASSUME NEW c \in Clients, UseSession(c) PROVE InvRunnerLock'
  BY <1>3 DEF UseSession, Request
<1>4. ASSUME NEW c \in Clients, Shutdown(c) PROVE InvRunnerLock'
  BY <1>4 DEF Shutdown, Request
<1>5. ASSUME NEW c \in Clients, Tidy(c) PROVE InvRunnerLock'
  BY <1>5 DEF Tidy, Request, Remove, ClearFinished
<1>6. ASSUME NEW c \in Clients, RunEnter(c) PROVE InvRunnerLock'
  BY <1>6 DEF RunEnter, Goto
<1>7. ASSUME NEW c \in Clients, RunJoin(c) PROVE InvRunnerLock'
  BY <1>7 DEF RunJoin, Join, Goto
<1>8. ASSUME NEW c \in Clients, RunLaunch(c) PROVE InvRunnerLock'
  BY <1>8 DEF RunLaunch, Goto, Done
<1>9. ASSUME NEW c \in Clients, CancelRead(c) PROVE InvRunnerLock'
  BY <1>9 DEF CancelRead, CancelReturn, Goto, Done
<1>10. ASSUME NEW c \in Clients, CancelFlag(c) PROVE InvRunnerLock'
  BY <1>10 DEF CancelFlag, StoreCancelFlag, CancelReturn, Goto, Done
<1>11. ASSUME NEW c \in Clients, CancelQueued(c) PROVE InvRunnerLock'
  BY <1>11 DEF CancelQueued, CancelCas, TransitionActiveTo, CancelReturn, Goto, Done
<1>12. ASSUME NEW c \in Clients, LeaveSession(c) PROVE InvRunnerLock'
  BY <1>12 DEF LeaveSession, Done
<1>13. ASSUME NEW c \in Clients, ShutdownCancel(c) PROVE InvRunnerLock'
  BY <1>13 DEF ShutdownCancel
<1>14. ASSUME NEW c \in Clients, ShutdownTake(c) PROVE InvRunnerLock'
  BY <1>14 DEF ShutdownTake
<1>15. ASSUME NEW c \in Clients, ShutdownJoin(c) PROVE InvRunnerLock'
  BY <1>15 DEF ShutdownJoin, Join
<1>16. ASSUME NEW j \in JobId, WorkerGet(j) PROVE InvRunnerLock'
  BY <1>16 DEF WorkerGet, WorkerGoto
<1>17. ASSUME NEW j \in JobId, WorkerStart(j) PROVE InvRunnerLock'
  BY <1>17 DEF WorkerStart, StartCas, Transition, WorkerGoto
<1>18. ASSUME NEW j \in JobId, WorkerLock(j) PROVE InvRunnerLock'
  BY <1>18 DEF WorkerLock, WorkerGoto
<1>19. ASSUME NEW j \in JobId, WorkerCheck(j) PROVE InvRunnerLock'
  BY <1>19 DEF WorkerCheck, TaskEnds, WorkerGoto
<1>20. ASSUME NEW j \in JobId, ScanBlock(j) PROVE InvRunnerLock'
  BY <1>20 DEF ScanBlock
<1>21. ASSUME NEW j \in JobId, ScanCancelled(j) PROVE InvRunnerLock'
  BY <1>21 DEF ScanCancelled, TaskEnds, WorkerGoto
<1>22. ASSUME NEW j \in JobId, ScanPublish(j) PROVE InvRunnerLock'
  BY <1>22 DEF ScanPublish, TaskEnds, WorkerGoto
<1>23. ASSUME NEW j \in JobId, ScanFails(j) PROVE InvRunnerLock'
  BY <1>23 DEF ScanFails, TaskEnds, WorkerGoto
<1>24. ASSUME NEW j \in JobId, WorkerUnlock(j) PROVE InvRunnerLock'
  BY <1>24 DEF WorkerUnlock, WorkerGoto
<1>25. ASSUME NEW j \in JobId, WorkerVerdict(j) PROVE InvRunnerLock'
  BY <1>25 DEF WorkerVerdict, VerdictCas, CompleteCas, FailCas, CancelCas, Transition, TransitionActiveTo, WorkerGoto
<1>26. ASSUME NEW j \in JobId, WorkerStore(j) PROVE InvRunnerLock'
  BY <1>26 DEF WorkerStore, StoreCancelFlag, StorePayload, WorkerGoto
<1>27. ASSUME NEW j \in JobId, WorkerFinish(j) PROVE InvRunnerLock'
  BY <1>27 DEF WorkerFinish, WorkerGoto
<1>28. ASSUME NEW j \in JobId, WorkerExit(j) PROVE InvRunnerLock'
  BY <1>28 DEF WorkerExit, WorkerGoto
<1>29. CASE UNCHANGED vars
  BY <1>29 DEF vars
<1>30. QED
  BY <1>1, <1>2, <1>3, <1>4, <1>5, <1>6, <1>7, <1>8, <1>9, <1>10, <1>11, <1>12, <1>13, <1>14,
     <1>15, <1>16, <1>17, <1>18, <1>19, <1>20, <1>21, <1>22, <1>23, <1>24, <1>25, <1>26, <1>27, <1>28, <1>29 DEF Next, NewRequest, ClientStep, WorkerStep

\* Every step keeps session_mtx_ with the worker inside its task or the
\* client inside its handler.
LEMMA InvSessionLockStep ==
  TypeOK /\ InvLaunch /\ InvSessionLock /\ [Next]_vars => InvSessionLock'
<1> SUFFICES ASSUME TypeOK, InvLaunch, InvSessionLock, [Next]_vars PROVE InvSessionLock'
  OBVIOUS
<1> USE Ids DEF Active, Terminal, jobVars, runnerVars, sessionVars, workerVars, clientVars, JobsTypeOK, ClientPc, WorkerPc, TypeOK, InvLaunch, InvSessionLock, Launching
<1>1. ASSUME NEW c \in Clients, Submit(c) PROVE InvSessionLock'
  BY <1>1 DEF Submit, Request, Create, ActiveJobs
<1>2. ASSUME NEW c \in Clients, Cancel(c) PROVE InvSessionLock'
  BY <1>2 DEF Cancel, Request
<1>3. ASSUME NEW c \in Clients, UseSession(c) PROVE InvSessionLock'
  BY <1>3 DEF UseSession, Request
<1>4. ASSUME NEW c \in Clients, Shutdown(c) PROVE InvSessionLock'
  BY <1>4 DEF Shutdown, Request
<1>5. ASSUME NEW c \in Clients, Tidy(c) PROVE InvSessionLock'
  BY <1>5 DEF Tidy, Request, Remove, ClearFinished
<1>6. ASSUME NEW c \in Clients, RunEnter(c) PROVE InvSessionLock'
  BY <1>6 DEF RunEnter, Goto
<1>7. ASSUME NEW c \in Clients, RunJoin(c) PROVE InvSessionLock'
  BY <1>7 DEF RunJoin, Join, Goto
<1>8. ASSUME NEW c \in Clients, RunLaunch(c) PROVE InvSessionLock'
  BY <1>8 DEF RunLaunch, Goto, Done
<1>9. ASSUME NEW c \in Clients, CancelRead(c) PROVE InvSessionLock'
  BY <1>9 DEF CancelRead, CancelReturn, Goto, Done
<1>10. ASSUME NEW c \in Clients, CancelFlag(c) PROVE InvSessionLock'
  BY <1>10 DEF CancelFlag, StoreCancelFlag, CancelReturn, Goto, Done
<1>11. ASSUME NEW c \in Clients, CancelQueued(c) PROVE InvSessionLock'
  BY <1>11 DEF CancelQueued, CancelCas, TransitionActiveTo, CancelReturn, Goto, Done
<1>12. ASSUME NEW c \in Clients, LeaveSession(c) PROVE InvSessionLock'
  BY <1>12 DEF LeaveSession, Done
<1>13. ASSUME NEW c \in Clients, ShutdownCancel(c) PROVE InvSessionLock'
  BY <1>13 DEF ShutdownCancel
<1>14. ASSUME NEW c \in Clients, ShutdownTake(c) PROVE InvSessionLock'
  BY <1>14 DEF ShutdownTake
<1>15. ASSUME NEW c \in Clients, ShutdownJoin(c) PROVE InvSessionLock'
  BY <1>15 DEF ShutdownJoin, Join
<1>16. ASSUME NEW j \in JobId, WorkerGet(j) PROVE InvSessionLock'
  BY <1>16 DEF WorkerGet, WorkerGoto
<1>17. ASSUME NEW j \in JobId, WorkerStart(j) PROVE InvSessionLock'
  BY <1>17 DEF WorkerStart, StartCas, Transition, WorkerGoto
<1>18. ASSUME NEW j \in JobId, WorkerLock(j) PROVE InvSessionLock'
  BY <1>18 DEF WorkerLock, WorkerGoto
<1>19. ASSUME NEW j \in JobId, WorkerCheck(j) PROVE InvSessionLock'
  BY <1>19 DEF WorkerCheck, TaskEnds, WorkerGoto
<1>20. ASSUME NEW j \in JobId, ScanBlock(j) PROVE InvSessionLock'
  BY <1>20 DEF ScanBlock
<1>21. ASSUME NEW j \in JobId, ScanCancelled(j) PROVE InvSessionLock'
  BY <1>21 DEF ScanCancelled, TaskEnds, WorkerGoto
<1>22. ASSUME NEW j \in JobId, ScanPublish(j) PROVE InvSessionLock'
  BY <1>22 DEF ScanPublish, TaskEnds, WorkerGoto
<1>23. ASSUME NEW j \in JobId, ScanFails(j) PROVE InvSessionLock'
  BY <1>23 DEF ScanFails, TaskEnds, WorkerGoto
<1>24. ASSUME NEW j \in JobId, WorkerUnlock(j) PROVE InvSessionLock'
  BY <1>24 DEF WorkerUnlock, WorkerGoto
<1>25. ASSUME NEW j \in JobId, WorkerVerdict(j) PROVE InvSessionLock'
  BY <1>25 DEF WorkerVerdict, VerdictCas, CompleteCas, FailCas, CancelCas, Transition, TransitionActiveTo, WorkerGoto
<1>26. ASSUME NEW j \in JobId, WorkerStore(j) PROVE InvSessionLock'
  BY <1>26 DEF WorkerStore, StoreCancelFlag, StorePayload, WorkerGoto
<1>27. ASSUME NEW j \in JobId, WorkerFinish(j) PROVE InvSessionLock'
  BY <1>27 DEF WorkerFinish, WorkerGoto
<1>28. ASSUME NEW j \in JobId, WorkerExit(j) PROVE InvSessionLock'
  BY <1>28 DEF WorkerExit, WorkerGoto
<1>29. CASE UNCHANGED vars
  BY <1>29 DEF vars
<1>30. QED
  BY <1>1, <1>2, <1>3, <1>4, <1>5, <1>6, <1>7, <1>8, <1>9, <1>10, <1>11, <1>12, <1>13, <1>14,
     <1>15, <1>16, <1>17, <1>18, <1>19, <1>20, <1>21, <1>22, <1>23, <1>24, <1>25, <1>26, <1>27, <1>28, <1>29 DEF Next, NewRequest, ClientStep, WorkerStep

\* Only a shutdown() that waits for a thread holds one.
LEMMA InvTakenStep ==
  TypeOK /\ InvTaken /\ [Next]_vars => InvTaken'
<1> SUFFICES ASSUME TypeOK, InvTaken, [Next]_vars PROVE InvTaken'
  OBVIOUS
<1> USE Ids DEF Active, Terminal, jobVars, runnerVars, sessionVars, workerVars, clientVars, JobsTypeOK, ClientPc, WorkerPc, TypeOK, InvTaken
<1>1. ASSUME NEW c \in Clients, Submit(c) PROVE InvTaken'
  BY <1>1 DEF Submit, Request, Create, ActiveJobs
<1>2. ASSUME NEW c \in Clients, Cancel(c) PROVE InvTaken'
  BY <1>2 DEF Cancel, Request
<1>3. ASSUME NEW c \in Clients, UseSession(c) PROVE InvTaken'
  BY <1>3 DEF UseSession, Request
<1>4. ASSUME NEW c \in Clients, Shutdown(c) PROVE InvTaken'
  BY <1>4 DEF Shutdown, Request
<1>5. ASSUME NEW c \in Clients, Tidy(c) PROVE InvTaken'
  BY <1>5 DEF Tidy, Request, Remove, ClearFinished
<1>6. ASSUME NEW c \in Clients, RunEnter(c) PROVE InvTaken'
  BY <1>6 DEF RunEnter, Goto
<1>7. ASSUME NEW c \in Clients, RunJoin(c) PROVE InvTaken'
  BY <1>7 DEF RunJoin, Join, Goto
<1>8. ASSUME NEW c \in Clients, RunLaunch(c) PROVE InvTaken'
  BY <1>8 DEF RunLaunch, Goto, Done
<1>9. ASSUME NEW c \in Clients, CancelRead(c) PROVE InvTaken'
  BY <1>9 DEF CancelRead, CancelReturn, Goto, Done
<1>10. ASSUME NEW c \in Clients, CancelFlag(c) PROVE InvTaken'
  BY <1>10 DEF CancelFlag, StoreCancelFlag, CancelReturn, Goto, Done
<1>11. ASSUME NEW c \in Clients, CancelQueued(c) PROVE InvTaken'
  BY <1>11 DEF CancelQueued, CancelCas, TransitionActiveTo, CancelReturn, Goto, Done
<1>12. ASSUME NEW c \in Clients, LeaveSession(c) PROVE InvTaken'
  BY <1>12 DEF LeaveSession, Done
<1>13. ASSUME NEW c \in Clients, ShutdownCancel(c) PROVE InvTaken'
  BY <1>13 DEF ShutdownCancel
<1>14. ASSUME NEW c \in Clients, ShutdownTake(c) PROVE InvTaken'
  BY <1>14 DEF ShutdownTake
<1>15. ASSUME NEW c \in Clients, ShutdownJoin(c) PROVE InvTaken'
  BY <1>15 DEF ShutdownJoin, Join
<1>16. ASSUME NEW j \in JobId, WorkerGet(j) PROVE InvTaken'
  BY <1>16 DEF WorkerGet, WorkerGoto
<1>17. ASSUME NEW j \in JobId, WorkerStart(j) PROVE InvTaken'
  BY <1>17 DEF WorkerStart, StartCas, Transition, WorkerGoto
<1>18. ASSUME NEW j \in JobId, WorkerLock(j) PROVE InvTaken'
  BY <1>18 DEF WorkerLock, WorkerGoto
<1>19. ASSUME NEW j \in JobId, WorkerCheck(j) PROVE InvTaken'
  BY <1>19 DEF WorkerCheck, TaskEnds, WorkerGoto
<1>20. ASSUME NEW j \in JobId, ScanBlock(j) PROVE InvTaken'
  BY <1>20 DEF ScanBlock
<1>21. ASSUME NEW j \in JobId, ScanCancelled(j) PROVE InvTaken'
  BY <1>21 DEF ScanCancelled, TaskEnds, WorkerGoto
<1>22. ASSUME NEW j \in JobId, ScanPublish(j) PROVE InvTaken'
  BY <1>22 DEF ScanPublish, TaskEnds, WorkerGoto
<1>23. ASSUME NEW j \in JobId, ScanFails(j) PROVE InvTaken'
  BY <1>23 DEF ScanFails, TaskEnds, WorkerGoto
<1>24. ASSUME NEW j \in JobId, WorkerUnlock(j) PROVE InvTaken'
  BY <1>24 DEF WorkerUnlock, WorkerGoto
<1>25. ASSUME NEW j \in JobId, WorkerVerdict(j) PROVE InvTaken'
  BY <1>25 DEF WorkerVerdict, VerdictCas, CompleteCas, FailCas, CancelCas, Transition, TransitionActiveTo, WorkerGoto
<1>26. ASSUME NEW j \in JobId, WorkerStore(j) PROVE InvTaken'
  BY <1>26 DEF WorkerStore, StoreCancelFlag, StorePayload, WorkerGoto
<1>27. ASSUME NEW j \in JobId, WorkerFinish(j) PROVE InvTaken'
  BY <1>27 DEF WorkerFinish, WorkerGoto
<1>28. ASSUME NEW j \in JobId, WorkerExit(j) PROVE InvTaken'
  BY <1>28 DEF WorkerExit, WorkerGoto
<1>29. CASE UNCHANGED vars
  BY <1>29 DEF vars
<1>30. QED
  BY <1>1, <1>2, <1>3, <1>4, <1>5, <1>6, <1>7, <1>8, <1>9, <1>10, <1>11, <1>12, <1>13, <1>14,
     <1>15, <1>16, <1>17, <1>18, <1>19, <1>20, <1>21, <1>22, <1>23, <1>24, <1>25, <1>26, <1>27, <1>28, <1>29 DEF Next, NewRequest, ClientStep, WorkerStep

\* Every step keeps the worker of a shutdown() out of thread_ once it waits.
LEMMA InvShutdownStep ==
  TypeOK /\ InvRunnerLock /\ InvLaunch /\ InvShutdown /\ [Next]_vars => InvShutdown'
<1> SUFFICES ASSUME TypeOK, InvRunnerLock, InvLaunch, InvShutdown, [Next]_vars PROVE InvShutdown'
  OBVIOUS
<1> USE Ids DEF Active, Terminal, jobVars, runnerVars, sessionVars, workerVars, clientVars, JobsTypeOK, ClientPc, WorkerPc, TypeOK, InvRunnerLock, InvLaunch, InvShutdown, Launching, Stopping
<1>1. ASSUME NEW c \in Clients, Submit(c) PROVE InvShutdown'
  BY <1>1 DEF Submit, Request, Create, ActiveJobs
<1>2. ASSUME NEW c \in Clients, Cancel(c) PROVE InvShutdown'
  BY <1>2 DEF Cancel, Request
<1>3. ASSUME NEW c \in Clients, UseSession(c) PROVE InvShutdown'
  BY <1>3 DEF UseSession, Request
<1>4. ASSUME NEW c \in Clients, Shutdown(c) PROVE InvShutdown'
  BY <1>4 DEF Shutdown, Request
<1>5. ASSUME NEW c \in Clients, Tidy(c) PROVE InvShutdown'
  BY <1>5 DEF Tidy, Request, Remove, ClearFinished
<1>6. ASSUME NEW c \in Clients, RunEnter(c) PROVE InvShutdown'
  BY <1>6 DEF RunEnter, Goto
<1>7. ASSUME NEW c \in Clients, RunJoin(c) PROVE InvShutdown'
  BY <1>7 DEF RunJoin, Join, Goto
<1>8. ASSUME NEW c \in Clients, RunLaunch(c) PROVE InvShutdown'
  BY <1>8 DEF RunLaunch, Goto, Done
<1>9. ASSUME NEW c \in Clients, CancelRead(c) PROVE InvShutdown'
  BY <1>9 DEF CancelRead, CancelReturn, Goto, Done
<1>10. ASSUME NEW c \in Clients, CancelFlag(c) PROVE InvShutdown'
  BY <1>10 DEF CancelFlag, StoreCancelFlag, CancelReturn, Goto, Done
<1>11. ASSUME NEW c \in Clients, CancelQueued(c) PROVE InvShutdown'
  BY <1>11 DEF CancelQueued, CancelCas, TransitionActiveTo, CancelReturn, Goto, Done
<1>12. ASSUME NEW c \in Clients, LeaveSession(c) PROVE InvShutdown'
  BY <1>12 DEF LeaveSession, Done
<1>13. ASSUME NEW c \in Clients, ShutdownCancel(c) PROVE InvShutdown'
  BY <1>13 DEF ShutdownCancel
<1>14. ASSUME NEW c \in Clients, ShutdownTake(c) PROVE InvShutdown'
  BY <1>14 DEF ShutdownTake
<1>15. ASSUME NEW c \in Clients, ShutdownJoin(c) PROVE InvShutdown'
  BY <1>15 DEF ShutdownJoin, Join
<1>16. ASSUME NEW j \in JobId, WorkerGet(j) PROVE InvShutdown'
  BY <1>16 DEF WorkerGet, WorkerGoto
<1>17. ASSUME NEW j \in JobId, WorkerStart(j) PROVE InvShutdown'
  BY <1>17 DEF WorkerStart, StartCas, Transition, WorkerGoto
<1>18. ASSUME NEW j \in JobId, WorkerLock(j) PROVE InvShutdown'
  BY <1>18 DEF WorkerLock, WorkerGoto
<1>19. ASSUME NEW j \in JobId, WorkerCheck(j) PROVE InvShutdown'
  BY <1>19 DEF WorkerCheck, TaskEnds, WorkerGoto
<1>20. ASSUME NEW j \in JobId, ScanBlock(j) PROVE InvShutdown'
  BY <1>20 DEF ScanBlock
<1>21. ASSUME NEW j \in JobId, ScanCancelled(j) PROVE InvShutdown'
  BY <1>21 DEF ScanCancelled, TaskEnds, WorkerGoto
<1>22. ASSUME NEW j \in JobId, ScanPublish(j) PROVE InvShutdown'
  BY <1>22 DEF ScanPublish, TaskEnds, WorkerGoto
<1>23. ASSUME NEW j \in JobId, ScanFails(j) PROVE InvShutdown'
  BY <1>23 DEF ScanFails, TaskEnds, WorkerGoto
<1>24. ASSUME NEW j \in JobId, WorkerUnlock(j) PROVE InvShutdown'
  BY <1>24 DEF WorkerUnlock, WorkerGoto
<1>25. ASSUME NEW j \in JobId, WorkerVerdict(j) PROVE InvShutdown'
  BY <1>25 DEF WorkerVerdict, VerdictCas, CompleteCas, FailCas, CancelCas, Transition, TransitionActiveTo, WorkerGoto
<1>26. ASSUME NEW j \in JobId, WorkerStore(j) PROVE InvShutdown'
  BY <1>26 DEF WorkerStore, StoreCancelFlag, StorePayload, WorkerGoto
<1>27. ASSUME NEW j \in JobId, WorkerFinish(j) PROVE InvShutdown'
  BY <1>27 DEF WorkerFinish, WorkerGoto
<1>28. ASSUME NEW j \in JobId, WorkerExit(j) PROVE InvShutdown'
  BY <1>28 DEF WorkerExit, WorkerGoto
<1>29. CASE UNCHANGED vars
  BY <1>29 DEF vars
<1>30. QED
  BY <1>1, <1>2, <1>3, <1>4, <1>5, <1>6, <1>7, <1>8, <1>9, <1>10, <1>11, <1>12, <1>13, <1>14,
     <1>15, <1>16, <1>17, <1>18, <1>19, <1>20, <1>21, <1>22, <1>23, <1>24, <1>25, <1>26, <1>27, <1>28, <1>29 DEF Next, NewRequest, ClientStep, WorkerStep

\* Every step keeps the worker's position, its task's result and the state
\* of its job in agreement.
LEMMA InvLifecycleStep ==
  TypeOK /\ InvFresh /\ InvLaunch /\ InvLifecycle /\ [Next]_vars => InvLifecycle'
<1> SUFFICES ASSUME TypeOK, InvFresh, InvLaunch, InvLifecycle, [Next]_vars PROVE InvLifecycle'
  OBVIOUS
<1> USE Ids DEF Active, Terminal, jobVars, runnerVars, sessionVars, workerVars, clientVars, JobsTypeOK, ClientPc, WorkerPc, TypeOK, InvFresh, InvLaunch, InvLifecycle, Launching
<1>1. ASSUME NEW c \in Clients, Submit(c) PROVE InvLifecycle'
  BY <1>1, NextFresh DEF Submit, Request, Create, ActiveJobs
<1>2. ASSUME NEW c \in Clients, Cancel(c) PROVE InvLifecycle'
  BY <1>2 DEF Cancel, Request
<1>3. ASSUME NEW c \in Clients, UseSession(c) PROVE InvLifecycle'
  BY <1>3 DEF UseSession, Request
<1>4. ASSUME NEW c \in Clients, Shutdown(c) PROVE InvLifecycle'
  BY <1>4 DEF Shutdown, Request
<1>5. ASSUME NEW c \in Clients, Tidy(c) PROVE InvLifecycle'
  BY <1>5 DEF Tidy, Request, Remove, ClearFinished
<1>6. ASSUME NEW c \in Clients, RunEnter(c) PROVE InvLifecycle'
  BY <1>6 DEF RunEnter, Goto
<1>7. ASSUME NEW c \in Clients, RunJoin(c) PROVE InvLifecycle'
  BY <1>7 DEF RunJoin, Join, Goto
<1>8. ASSUME NEW c \in Clients, RunLaunch(c) PROVE InvLifecycle'
  BY <1>8 DEF RunLaunch, Goto, Done
<1>9. ASSUME NEW c \in Clients, CancelRead(c) PROVE InvLifecycle'
  BY <1>9 DEF CancelRead, CancelReturn, Goto, Done
<1>10. ASSUME NEW c \in Clients, CancelFlag(c) PROVE InvLifecycle'
  BY <1>10 DEF CancelFlag, StoreCancelFlag, CancelReturn, Goto, Done
<1>11. ASSUME NEW c \in Clients, CancelQueued(c) PROVE InvLifecycle'
  BY <1>11 DEF CancelQueued, CancelCas, TransitionActiveTo, CancelReturn, Goto, Done
<1>12. ASSUME NEW c \in Clients, LeaveSession(c) PROVE InvLifecycle'
  BY <1>12 DEF LeaveSession, Done
<1>13. ASSUME NEW c \in Clients, ShutdownCancel(c) PROVE InvLifecycle'
  BY <1>13 DEF ShutdownCancel
<1>14. ASSUME NEW c \in Clients, ShutdownTake(c) PROVE InvLifecycle'
  BY <1>14 DEF ShutdownTake
<1>15. ASSUME NEW c \in Clients, ShutdownJoin(c) PROVE InvLifecycle'
  BY <1>15 DEF ShutdownJoin, Join
<1>16. ASSUME NEW j \in JobId, WorkerGet(j) PROVE InvLifecycle'
  BY <1>16 DEF WorkerGet, WorkerGoto
<1>17. ASSUME NEW j \in JobId, WorkerStart(j) PROVE InvLifecycle'
  BY <1>17 DEF WorkerStart, StartCas, Transition, WorkerGoto
<1>18. ASSUME NEW j \in JobId, WorkerLock(j) PROVE InvLifecycle'
  BY <1>18 DEF WorkerLock, WorkerGoto
<1>19. ASSUME NEW j \in JobId, WorkerCheck(j) PROVE InvLifecycle'
  BY <1>19 DEF WorkerCheck, TaskEnds, WorkerGoto
<1>20. ASSUME NEW j \in JobId, ScanBlock(j) PROVE InvLifecycle'
  BY <1>20 DEF ScanBlock
<1>21. ASSUME NEW j \in JobId, ScanCancelled(j) PROVE InvLifecycle'
  BY <1>21 DEF ScanCancelled, TaskEnds, WorkerGoto
<1>22. ASSUME NEW j \in JobId, ScanPublish(j) PROVE InvLifecycle'
  BY <1>22 DEF ScanPublish, TaskEnds, WorkerGoto
<1>23. ASSUME NEW j \in JobId, ScanFails(j) PROVE InvLifecycle'
  BY <1>23 DEF ScanFails, TaskEnds, WorkerGoto
<1>24. ASSUME NEW j \in JobId, WorkerUnlock(j) PROVE InvLifecycle'
  BY <1>24 DEF WorkerUnlock, WorkerGoto
<1>25. ASSUME NEW j \in JobId, WorkerVerdict(j) PROVE InvLifecycle'
  BY <1>25 DEF WorkerVerdict, VerdictCas, CompleteCas, FailCas, CancelCas, Transition, TransitionActiveTo, WorkerGoto
<1>26. ASSUME NEW j \in JobId, WorkerStore(j) PROVE InvLifecycle'
  BY <1>26 DEF WorkerStore, StoreCancelFlag, StorePayload, WorkerGoto
<1>27. ASSUME NEW j \in JobId, WorkerFinish(j) PROVE InvLifecycle'
  BY <1>27 DEF WorkerFinish, WorkerGoto
<1>28. ASSUME NEW j \in JobId, WorkerExit(j) PROVE InvLifecycle'
  BY <1>28 DEF WorkerExit, WorkerGoto
<1>29. CASE UNCHANGED vars
  BY <1>29 DEF vars
<1>30. QED
  BY <1>1, <1>2, <1>3, <1>4, <1>5, <1>6, <1>7, <1>8, <1>9, <1>10, <1>11, <1>12, <1>13, <1>14,
     <1>15, <1>16, <1>17, <1>18, <1>19, <1>20, <1>21, <1>22, <1>23, <1>24, <1>25, <1>26, <1>27, <1>28, <1>29 DEF Next, NewRequest, ClientStep, WorkerStep

\* Every step keeps the slot on the worker that has not released it.
LEMMA SlotGuardsWorkerStep ==
  TypeOK /\ InvRunnerLock /\ SlotGuardsWorker /\ [Next]_vars => SlotGuardsWorker'
<1> SUFFICES ASSUME TypeOK, InvRunnerLock, SlotGuardsWorker, [Next]_vars PROVE SlotGuardsWorker'
  OBVIOUS
<1> USE Ids DEF Active, Terminal, jobVars, runnerVars, sessionVars, workerVars, clientVars, JobsTypeOK, ClientPc, WorkerPc, TypeOK, InvRunnerLock, SlotGuardsWorker, Busy
<1>1. ASSUME NEW c \in Clients, Submit(c) PROVE SlotGuardsWorker'
  BY <1>1 DEF Submit, Request, Create, ActiveJobs
<1>2. ASSUME NEW c \in Clients, Cancel(c) PROVE SlotGuardsWorker'
  BY <1>2 DEF Cancel, Request
<1>3. ASSUME NEW c \in Clients, UseSession(c) PROVE SlotGuardsWorker'
  BY <1>3 DEF UseSession, Request
<1>4. ASSUME NEW c \in Clients, Shutdown(c) PROVE SlotGuardsWorker'
  BY <1>4 DEF Shutdown, Request
<1>5. ASSUME NEW c \in Clients, Tidy(c) PROVE SlotGuardsWorker'
  BY <1>5 DEF Tidy, Request, Remove, ClearFinished
<1>6. ASSUME NEW c \in Clients, RunEnter(c) PROVE SlotGuardsWorker'
  BY <1>6 DEF RunEnter, Goto
<1>7. ASSUME NEW c \in Clients, RunJoin(c) PROVE SlotGuardsWorker'
  BY <1>7 DEF RunJoin, Join, Goto
<1>8. ASSUME NEW c \in Clients, RunLaunch(c) PROVE SlotGuardsWorker'
  BY <1>8 DEF RunLaunch, Goto, Done
<1>9. ASSUME NEW c \in Clients, CancelRead(c) PROVE SlotGuardsWorker'
  BY <1>9 DEF CancelRead, CancelReturn, Goto, Done
<1>10. ASSUME NEW c \in Clients, CancelFlag(c) PROVE SlotGuardsWorker'
  BY <1>10 DEF CancelFlag, StoreCancelFlag, CancelReturn, Goto, Done
<1>11. ASSUME NEW c \in Clients, CancelQueued(c) PROVE SlotGuardsWorker'
  BY <1>11 DEF CancelQueued, CancelCas, TransitionActiveTo, CancelReturn, Goto, Done
<1>12. ASSUME NEW c \in Clients, LeaveSession(c) PROVE SlotGuardsWorker'
  BY <1>12 DEF LeaveSession, Done
<1>13. ASSUME NEW c \in Clients, ShutdownCancel(c) PROVE SlotGuardsWorker'
  BY <1>13 DEF ShutdownCancel
<1>14. ASSUME NEW c \in Clients, ShutdownTake(c) PROVE SlotGuardsWorker'
  BY <1>14 DEF ShutdownTake
<1>15. ASSUME NEW c \in Clients, ShutdownJoin(c) PROVE SlotGuardsWorker'
  BY <1>15 DEF ShutdownJoin, Join
<1>16. ASSUME NEW j \in JobId, WorkerGet(j) PROVE SlotGuardsWorker'
  BY <1>16 DEF WorkerGet, WorkerGoto
<1>17. ASSUME NEW j \in JobId, WorkerStart(j) PROVE SlotGuardsWorker'
  BY <1>17 DEF WorkerStart, StartCas, Transition, WorkerGoto
<1>18. ASSUME NEW j \in JobId, WorkerLock(j) PROVE SlotGuardsWorker'
  BY <1>18 DEF WorkerLock, WorkerGoto
<1>19. ASSUME NEW j \in JobId, WorkerCheck(j) PROVE SlotGuardsWorker'
  BY <1>19 DEF WorkerCheck, TaskEnds, WorkerGoto
<1>20. ASSUME NEW j \in JobId, ScanBlock(j) PROVE SlotGuardsWorker'
  BY <1>20 DEF ScanBlock
<1>21. ASSUME NEW j \in JobId, ScanCancelled(j) PROVE SlotGuardsWorker'
  BY <1>21 DEF ScanCancelled, TaskEnds, WorkerGoto
<1>22. ASSUME NEW j \in JobId, ScanPublish(j) PROVE SlotGuardsWorker'
  BY <1>22 DEF ScanPublish, TaskEnds, WorkerGoto
<1>23. ASSUME NEW j \in JobId, ScanFails(j) PROVE SlotGuardsWorker'
  BY <1>23 DEF ScanFails, TaskEnds, WorkerGoto
<1>24. ASSUME NEW j \in JobId, WorkerUnlock(j) PROVE SlotGuardsWorker'
  BY <1>24 DEF WorkerUnlock, WorkerGoto
<1>25. ASSUME NEW j \in JobId, WorkerVerdict(j) PROVE SlotGuardsWorker'
  BY <1>25 DEF WorkerVerdict, VerdictCas, CompleteCas, FailCas, CancelCas, Transition, TransitionActiveTo, WorkerGoto
<1>26. ASSUME NEW j \in JobId, WorkerStore(j) PROVE SlotGuardsWorker'
  BY <1>26 DEF WorkerStore, StoreCancelFlag, StorePayload, WorkerGoto
<1>27. ASSUME NEW j \in JobId, WorkerFinish(j) PROVE SlotGuardsWorker'
  BY <1>27 DEF WorkerFinish, WorkerGoto
<1>28. ASSUME NEW j \in JobId, WorkerExit(j) PROVE SlotGuardsWorker'
  BY <1>28 DEF WorkerExit, WorkerGoto
<1>29. CASE UNCHANGED vars
  BY <1>29 DEF vars
<1>30. QED
  BY <1>1, <1>2, <1>3, <1>4, <1>5, <1>6, <1>7, <1>8, <1>9, <1>10, <1>11, <1>12, <1>13, <1>14,
     <1>15, <1>16, <1>17, <1>18, <1>19, <1>20, <1>21, <1>22, <1>23, <1>24, <1>25, <1>26, <1>27, <1>28, <1>29 DEF Next, NewRequest, ClientStep, WorkerStep

\* Every step keeps at most one listed job active.
LEMMA OneActiveJobStep ==
  TypeOK /\ InvFresh /\ OneActiveJob /\ [Next]_vars => OneActiveJob'
<1> SUFFICES ASSUME TypeOK, InvFresh, OneActiveJob, [Next]_vars PROVE OneActiveJob'
  OBVIOUS
<1> USE Ids DEF Active, Terminal, jobVars, runnerVars, sessionVars, workerVars, clientVars, JobsTypeOK, ClientPc, WorkerPc, TypeOK, InvFresh, OneActiveJob, ActiveJobs
<1>1. ASSUME NEW c \in Clients, Submit(c) PROVE OneActiveJob'
  BY <1>1 DEF Submit, Request, Create, ActiveJobs
<1>2. ASSUME NEW c \in Clients, Cancel(c) PROVE OneActiveJob'
  BY <1>2 DEF Cancel, Request
<1>3. ASSUME NEW c \in Clients, UseSession(c) PROVE OneActiveJob'
  BY <1>3 DEF UseSession, Request
<1>4. ASSUME NEW c \in Clients, Shutdown(c) PROVE OneActiveJob'
  BY <1>4 DEF Shutdown, Request
<1>5. ASSUME NEW c \in Clients, Tidy(c) PROVE OneActiveJob'
  BY <1>5 DEF Tidy, Request, Remove, ClearFinished
<1>6. ASSUME NEW c \in Clients, RunEnter(c) PROVE OneActiveJob'
  BY <1>6 DEF RunEnter, Goto
<1>7. ASSUME NEW c \in Clients, RunJoin(c) PROVE OneActiveJob'
  BY <1>7 DEF RunJoin, Join, Goto
<1>8. ASSUME NEW c \in Clients, RunLaunch(c) PROVE OneActiveJob'
  BY <1>8 DEF RunLaunch, Goto, Done
<1>9. ASSUME NEW c \in Clients, CancelRead(c) PROVE OneActiveJob'
  BY <1>9 DEF CancelRead, CancelReturn, Goto, Done
<1>10. ASSUME NEW c \in Clients, CancelFlag(c) PROVE OneActiveJob'
  BY <1>10 DEF CancelFlag, StoreCancelFlag, CancelReturn, Goto, Done
<1>11. ASSUME NEW c \in Clients, CancelQueued(c) PROVE OneActiveJob'
  BY <1>11 DEF CancelQueued, CancelCas, TransitionActiveTo, CancelReturn, Goto, Done
<1>12. ASSUME NEW c \in Clients, LeaveSession(c) PROVE OneActiveJob'
  BY <1>12 DEF LeaveSession, Done
<1>13. ASSUME NEW c \in Clients, ShutdownCancel(c) PROVE OneActiveJob'
  BY <1>13 DEF ShutdownCancel
<1>14. ASSUME NEW c \in Clients, ShutdownTake(c) PROVE OneActiveJob'
  BY <1>14 DEF ShutdownTake
<1>15. ASSUME NEW c \in Clients, ShutdownJoin(c) PROVE OneActiveJob'
  BY <1>15 DEF ShutdownJoin, Join
<1>16. ASSUME NEW j \in JobId, WorkerGet(j) PROVE OneActiveJob'
  BY <1>16 DEF WorkerGet, WorkerGoto
<1>17. ASSUME NEW j \in JobId, WorkerStart(j) PROVE OneActiveJob'
  BY <1>17 DEF WorkerStart, StartCas, Transition, WorkerGoto
<1>18. ASSUME NEW j \in JobId, WorkerLock(j) PROVE OneActiveJob'
  BY <1>18 DEF WorkerLock, WorkerGoto
<1>19. ASSUME NEW j \in JobId, WorkerCheck(j) PROVE OneActiveJob'
  BY <1>19 DEF WorkerCheck, TaskEnds, WorkerGoto
<1>20. ASSUME NEW j \in JobId, ScanBlock(j) PROVE OneActiveJob'
  BY <1>20 DEF ScanBlock
<1>21. ASSUME NEW j \in JobId, ScanCancelled(j) PROVE OneActiveJob'
  BY <1>21 DEF ScanCancelled, TaskEnds, WorkerGoto
<1>22. ASSUME NEW j \in JobId, ScanPublish(j) PROVE OneActiveJob'
  BY <1>22 DEF ScanPublish, TaskEnds, WorkerGoto
<1>23. ASSUME NEW j \in JobId, ScanFails(j) PROVE OneActiveJob'
  BY <1>23 DEF ScanFails, TaskEnds, WorkerGoto
<1>24. ASSUME NEW j \in JobId, WorkerUnlock(j) PROVE OneActiveJob'
  BY <1>24 DEF WorkerUnlock, WorkerGoto
<1>25. ASSUME NEW j \in JobId, WorkerVerdict(j) PROVE OneActiveJob'
  BY <1>25 DEF WorkerVerdict, VerdictCas, CompleteCas, FailCas, CancelCas, Transition, TransitionActiveTo, WorkerGoto
<1>26. ASSUME NEW j \in JobId, WorkerStore(j) PROVE OneActiveJob'
  BY <1>26 DEF WorkerStore, StoreCancelFlag, StorePayload, WorkerGoto
<1>27. ASSUME NEW j \in JobId, WorkerFinish(j) PROVE OneActiveJob'
  BY <1>27 DEF WorkerFinish, WorkerGoto
<1>28. ASSUME NEW j \in JobId, WorkerExit(j) PROVE OneActiveJob'
  BY <1>28 DEF WorkerExit, WorkerGoto
<1>29. CASE UNCHANGED vars
  BY <1>29 DEF vars
<1>30. QED
  BY <1>1, <1>2, <1>3, <1>4, <1>5, <1>6, <1>7, <1>8, <1>9, <1>10, <1>11, <1>12, <1>13, <1>14,
     <1>15, <1>16, <1>17, <1>18, <1>19, <1>20, <1>21, <1>22, <1>23, <1>24, <1>25, <1>26, <1>27, <1>28, <1>29 DEF Next, NewRequest, ClientStep, WorkerStep

\* Every step leaves the ids not handed out yet untouched.
LEMMA InvFreshStep ==
  TypeOK /\ InvFresh /\ [Next]_vars => InvFresh'
<1> SUFFICES ASSUME TypeOK, InvFresh, [Next]_vars PROVE InvFresh'
  OBVIOUS
<1> USE Ids DEF Active, Terminal, jobVars, runnerVars, sessionVars, workerVars, clientVars, JobsTypeOK, ClientPc, WorkerPc, TypeOK, InvFresh
<1>1. ASSUME NEW c \in Clients, Submit(c) PROVE InvFresh'
  BY <1>1, NextFresh DEF Submit, Request, Create, ActiveJobs
<1>2. ASSUME NEW c \in Clients, Cancel(c) PROVE InvFresh'
  BY <1>2, SameFresh DEF Cancel, Request
<1>3. ASSUME NEW c \in Clients, UseSession(c) PROVE InvFresh'
  BY <1>3, SameFresh DEF UseSession, Request
<1>4. ASSUME NEW c \in Clients, Shutdown(c) PROVE InvFresh'
  BY <1>4, SameFresh DEF Shutdown, Request
<1>5. ASSUME NEW c \in Clients, Tidy(c) PROVE InvFresh'
  BY <1>5, SameFresh DEF Tidy, Request, Remove, ClearFinished
<1>6. ASSUME NEW c \in Clients, RunEnter(c) PROVE InvFresh'
  BY <1>6, SameFresh DEF RunEnter, Goto
<1>7. ASSUME NEW c \in Clients, RunJoin(c) PROVE InvFresh'
  BY <1>7, SameFresh DEF RunJoin, Join, Goto
<1>8. ASSUME NEW c \in Clients, RunLaunch(c) PROVE InvFresh'
  BY <1>8, SameFresh DEF RunLaunch, Goto, Done
<1>9. ASSUME NEW c \in Clients, CancelRead(c) PROVE InvFresh'
  BY <1>9, SameFresh DEF CancelRead, CancelReturn, Goto, Done
<1>10. ASSUME NEW c \in Clients, CancelFlag(c) PROVE InvFresh'
  BY <1>10, SameFresh DEF CancelFlag, StoreCancelFlag, CancelReturn, Goto, Done
<1>11. ASSUME NEW c \in Clients, CancelQueued(c) PROVE InvFresh'
  BY <1>11, SameFresh DEF CancelQueued, CancelCas, TransitionActiveTo, CancelReturn, Goto, Done
<1>12. ASSUME NEW c \in Clients, LeaveSession(c) PROVE InvFresh'
  BY <1>12, SameFresh DEF LeaveSession, Done
<1>13. ASSUME NEW c \in Clients, ShutdownCancel(c) PROVE InvFresh'
  BY <1>13, SameFresh DEF ShutdownCancel
<1>14. ASSUME NEW c \in Clients, ShutdownTake(c) PROVE InvFresh'
  BY <1>14, SameFresh DEF ShutdownTake
<1>15. ASSUME NEW c \in Clients, ShutdownJoin(c) PROVE InvFresh'
  BY <1>15, SameFresh DEF ShutdownJoin, Join
<1>16. ASSUME NEW j \in JobId, WorkerGet(j) PROVE InvFresh'
  BY <1>16, SameFresh DEF WorkerGet, WorkerGoto
<1>17. ASSUME NEW j \in JobId, WorkerStart(j) PROVE InvFresh'
  BY <1>17, SameFresh DEF WorkerStart, StartCas, Transition, WorkerGoto
<1>18. ASSUME NEW j \in JobId, WorkerLock(j) PROVE InvFresh'
  BY <1>18, SameFresh DEF WorkerLock, WorkerGoto
<1>19. ASSUME NEW j \in JobId, WorkerCheck(j) PROVE InvFresh'
  BY <1>19, SameFresh DEF WorkerCheck, TaskEnds, WorkerGoto
<1>20. ASSUME NEW j \in JobId, ScanBlock(j) PROVE InvFresh'
  BY <1>20, SameFresh DEF ScanBlock
<1>21. ASSUME NEW j \in JobId, ScanCancelled(j) PROVE InvFresh'
  BY <1>21, SameFresh DEF ScanCancelled, TaskEnds, WorkerGoto
<1>22. ASSUME NEW j \in JobId, ScanPublish(j) PROVE InvFresh'
  BY <1>22, SameFresh DEF ScanPublish, TaskEnds, WorkerGoto
<1>23. ASSUME NEW j \in JobId, ScanFails(j) PROVE InvFresh'
  BY <1>23, SameFresh DEF ScanFails, TaskEnds, WorkerGoto
<1>24. ASSUME NEW j \in JobId, WorkerUnlock(j) PROVE InvFresh'
  BY <1>24, SameFresh DEF WorkerUnlock, WorkerGoto
<1>25. ASSUME NEW j \in JobId, WorkerVerdict(j) PROVE InvFresh'
  BY <1>25, SameFresh DEF WorkerVerdict, VerdictCas, CompleteCas, FailCas, CancelCas, Transition, TransitionActiveTo, WorkerGoto
<1>26. ASSUME NEW j \in JobId, WorkerStore(j) PROVE InvFresh'
  BY <1>26, SameFresh DEF WorkerStore, StoreCancelFlag, StorePayload, WorkerGoto
<1>27. ASSUME NEW j \in JobId, WorkerFinish(j) PROVE InvFresh'
  BY <1>27, SameFresh DEF WorkerFinish, WorkerGoto
<1>28. ASSUME NEW j \in JobId, WorkerExit(j) PROVE InvFresh'
  BY <1>28, SameFresh DEF WorkerExit, WorkerGoto
<1>29. CASE UNCHANGED vars
  BY <1>29, SameFresh DEF vars
<1>30. QED
  BY <1>1, <1>2, <1>3, <1>4, <1>5, <1>6, <1>7, <1>8, <1>9, <1>10, <1>11, <1>12, <1>13, <1>14,
     <1>15, <1>16, <1>17, <1>18, <1>19, <1>20, <1>21, <1>22, <1>23, <1>24, <1>25, <1>26, <1>27, <1>28, <1>29 DEF Next, NewRequest, ClientStep, WorkerStep

\* Every step keeps a job that has no worker yet with one client at most.
LEMMA InvLaunchStep ==
  TypeOK /\ InvFresh /\ InvLaunch /\ [Next]_vars => InvLaunch'
<1> SUFFICES ASSUME TypeOK, InvFresh, InvLaunch, [Next]_vars PROVE InvLaunch'
  OBVIOUS
<1> USE Ids DEF Active, Terminal, jobVars, runnerVars, sessionVars, workerVars, clientVars, JobsTypeOK, ClientPc, WorkerPc, TypeOK, InvFresh, InvLaunch, Launching
<1>1. ASSUME NEW c \in Clients, Submit(c) PROVE InvLaunch'
  BY <1>1, NextFresh DEF Submit, Request, Create, ActiveJobs
<1>2. ASSUME NEW c \in Clients, Cancel(c) PROVE InvLaunch'
  BY <1>2 DEF Cancel, Request
<1>3. ASSUME NEW c \in Clients, UseSession(c) PROVE InvLaunch'
  BY <1>3 DEF UseSession, Request
<1>4. ASSUME NEW c \in Clients, Shutdown(c) PROVE InvLaunch'
  BY <1>4 DEF Shutdown, Request
<1>5. ASSUME NEW c \in Clients, Tidy(c) PROVE InvLaunch'
  BY <1>5 DEF Tidy, Request, Remove, ClearFinished
<1>6. ASSUME NEW c \in Clients, RunEnter(c) PROVE InvLaunch'
  BY <1>6 DEF RunEnter, Goto
<1>7. ASSUME NEW c \in Clients, RunJoin(c) PROVE InvLaunch'
  BY <1>7 DEF RunJoin, Join, Goto
<1>8. ASSUME NEW c \in Clients, RunLaunch(c) PROVE InvLaunch'
  BY <1>8 DEF RunLaunch, Goto, Done
<1>9. ASSUME NEW c \in Clients, CancelRead(c) PROVE InvLaunch'
  BY <1>9 DEF CancelRead, CancelReturn, Goto, Done
<1>10. ASSUME NEW c \in Clients, CancelFlag(c) PROVE InvLaunch'
  BY <1>10 DEF CancelFlag, StoreCancelFlag, CancelReturn, Goto, Done
<1>11. ASSUME NEW c \in Clients, CancelQueued(c) PROVE InvLaunch'
  BY <1>11 DEF CancelQueued, CancelCas, TransitionActiveTo, CancelReturn, Goto, Done
<1>12. ASSUME NEW c \in Clients, LeaveSession(c) PROVE InvLaunch'
  BY <1>12 DEF LeaveSession, Done
<1>13. ASSUME NEW c \in Clients, ShutdownCancel(c) PROVE InvLaunch'
  BY <1>13 DEF ShutdownCancel
<1>14. ASSUME NEW c \in Clients, ShutdownTake(c) PROVE InvLaunch'
  BY <1>14 DEF ShutdownTake
<1>15. ASSUME NEW c \in Clients, ShutdownJoin(c) PROVE InvLaunch'
  BY <1>15 DEF ShutdownJoin, Join
<1>16. ASSUME NEW j \in JobId, WorkerGet(j) PROVE InvLaunch'
  BY <1>16 DEF WorkerGet, WorkerGoto
<1>17. ASSUME NEW j \in JobId, WorkerStart(j) PROVE InvLaunch'
  BY <1>17 DEF WorkerStart, StartCas, Transition, WorkerGoto
<1>18. ASSUME NEW j \in JobId, WorkerLock(j) PROVE InvLaunch'
  BY <1>18 DEF WorkerLock, WorkerGoto
<1>19. ASSUME NEW j \in JobId, WorkerCheck(j) PROVE InvLaunch'
  BY <1>19 DEF WorkerCheck, TaskEnds, WorkerGoto
<1>20. ASSUME NEW j \in JobId, ScanBlock(j) PROVE InvLaunch'
  BY <1>20 DEF ScanBlock
<1>21. ASSUME NEW j \in JobId, ScanCancelled(j) PROVE InvLaunch'
  BY <1>21 DEF ScanCancelled, TaskEnds, WorkerGoto
<1>22. ASSUME NEW j \in JobId, ScanPublish(j) PROVE InvLaunch'
  BY <1>22 DEF ScanPublish, TaskEnds, WorkerGoto
<1>23. ASSUME NEW j \in JobId, ScanFails(j) PROVE InvLaunch'
  BY <1>23 DEF ScanFails, TaskEnds, WorkerGoto
<1>24. ASSUME NEW j \in JobId, WorkerUnlock(j) PROVE InvLaunch'
  BY <1>24 DEF WorkerUnlock, WorkerGoto
<1>25. ASSUME NEW j \in JobId, WorkerVerdict(j) PROVE InvLaunch'
  BY <1>25 DEF WorkerVerdict, VerdictCas, CompleteCas, FailCas, CancelCas, Transition, TransitionActiveTo, WorkerGoto
<1>26. ASSUME NEW j \in JobId, WorkerStore(j) PROVE InvLaunch'
  BY <1>26 DEF WorkerStore, StoreCancelFlag, StorePayload, WorkerGoto
<1>27. ASSUME NEW j \in JobId, WorkerFinish(j) PROVE InvLaunch'
  BY <1>27 DEF WorkerFinish, WorkerGoto
<1>28. ASSUME NEW j \in JobId, WorkerExit(j) PROVE InvLaunch'
  BY <1>28 DEF WorkerExit, WorkerGoto
<1>29. CASE UNCHANGED vars
  BY <1>29 DEF vars
<1>30. QED
  BY <1>1, <1>2, <1>3, <1>4, <1>5, <1>6, <1>7, <1>8, <1>9, <1>10, <1>11, <1>12, <1>13, <1>14,
     <1>15, <1>16, <1>17, <1>18, <1>19, <1>20, <1>21, <1>22, <1>23, <1>24, <1>25, <1>26, <1>27, <1>28, <1>29 DEF Next, NewRequest, ClientStep, WorkerStep

\* A step that moves no thread handle and neither starts nor joins a thread
\* keeps every thread's owner.
LEMMA OwnershipKept ==
  ASSUME ThreadsAreOwned, handle' = handle, taken' = taken,
         \A j \in JobId : Joinable(j)' <=> Joinable(j)
  PROVE  ThreadsAreOwned'
<1>1. \A o, j : Owns(o, j)' <=> Owns(o, j)
  BY DEF Owns
<1>2. QED
  BY <1>1 DEF ThreadsAreOwned

\* Every step keeps exactly one owner for every joinable thread.
LEMMA ThreadsAreOwnedStep ==
  TypeOK /\ InvRunnerLock /\ InvLaunch /\ InvTaken /\ ThreadsAreOwned /\ [Next]_vars => ThreadsAreOwned'
<1> SUFFICES ASSUME TypeOK, InvRunnerLock, InvLaunch, InvTaken, ThreadsAreOwned, [Next]_vars PROVE ThreadsAreOwned'
  OBVIOUS
<1> USE Ids DEF Active, Terminal, jobVars, runnerVars, sessionVars, workerVars, clientVars, TypeOK, JobsTypeOK
<1>1. ASSUME NEW c \in Clients, Submit(c) PROVE ThreadsAreOwned'
  BY <1>1, OwnershipKept DEF Submit, Request, Create, ActiveJobs, Joinable
<1>2. ASSUME NEW c \in Clients, Cancel(c) PROVE ThreadsAreOwned'
  BY <1>2, OwnershipKept DEF Cancel, Request, Joinable
<1>3. ASSUME NEW c \in Clients, UseSession(c) PROVE ThreadsAreOwned'
  BY <1>3, OwnershipKept DEF UseSession, Request, Joinable
<1>4. ASSUME NEW c \in Clients, Shutdown(c) PROVE ThreadsAreOwned'
  BY <1>4, OwnershipKept DEF Shutdown, Request, Joinable
<1>5. ASSUME NEW c \in Clients, Tidy(c) PROVE ThreadsAreOwned'
  BY <1>5, OwnershipKept DEF Tidy, Request, Remove, ClearFinished, Joinable
<1>6. ASSUME NEW c \in Clients, RunEnter(c) PROVE ThreadsAreOwned'
  BY <1>6, OwnershipKept DEF RunEnter, Goto, Joinable
<1>7. ASSUME NEW c \in Clients, RunJoin(c) PROVE ThreadsAreOwned'
  <2>1. CASE handle = NoJob
    BY <1>7, <2>1, OwnershipKept DEF RunJoin, Join, Goto, Joinable
  <2>2. ASSUME NEW h \in JobId, handle = h PROVE ThreadsAreOwned'
    <3>1. /\ Joinable(h) /\ ~ Joinable(h)'
          /\ \A k \in JobId : k # h => (Joinable(k)' <=> Joinable(k))
      BY <1>7, <2>2 DEF RunJoin, Join, Joinable
    <3>2. \A k \in JobId : Owns(NoThread, k) <=> k = h
      BY <2>2 DEF Owns
    <3>3. \A o \in Clients \cup {NoThread} : \A k \in JobId :
            Owns(o, k)' <=> Owns(o, k) /\ o # NoThread
      BY <1>7 DEF RunJoin, Goto, Owns
    <3>4. QED
      BY <3>1, <3>2, <3>3 DEF ThreadsAreOwned
  <2>3. QED
    BY <2>1, <2>2
<1>8. ASSUME NEW c \in Clients, RunLaunch(c) PROVE ThreadsAreOwned'
  <2>1. CASE handle' = handle /\ wpc' = wpc
    BY <1>8, <2>1, OwnershipKept DEF RunLaunch, Goto, Done, Joinable
  <2>2. ASSUME NEW a \in JobId, arg[c] = a, handle' = a,
               wpc' = [wpc EXCEPT ![a] = "get"]
        PROVE ThreadsAreOwned'
    <3>1. /\ handle = NoJob /\ ~ Joinable(a) /\ Joinable(a)'
          /\ \A k \in JobId : k # a => (Joinable(k)' <=> Joinable(k))
      BY <1>8, <2>2 DEF RunLaunch, InvRunnerLock, InvLaunch, Launching, Joinable
    <3>2. \A o \in Clients \cup {NoThread} : \A k \in JobId :
            Owns(o, k)' <=> Owns(o, k) \/ (o = NoThread /\ k = a)
      BY <1>8, <2>2, <3>1 DEF RunLaunch, Goto, Done, Owns
    <3>3. \A o \in Clients \cup {NoThread} : ~ Owns(o, a)
      BY <3>1 DEF ThreadsAreOwned
    <3>4. \A k \in JobId : ~ Owns(NoThread, k)
      BY <3>1 DEF Owns
    <3>5. QED
      BY <3>1, <3>2, <3>3, <3>4 DEF ThreadsAreOwned
  <2>3. CASE handle' = handle /\ wpc' = [wpc EXCEPT ![arg[c]] = "failed"]
    BY <1>8, <2>3, OwnershipKept
       DEF RunLaunch, Goto, Done, InvLaunch, Launching, Joinable
  <2>4. QED
    BY <1>8, <2>1, <2>2, <2>3 DEF RunLaunch
<1>9. ASSUME NEW c \in Clients, CancelRead(c) PROVE ThreadsAreOwned'
  BY <1>9, OwnershipKept DEF CancelRead, CancelReturn, Goto, Done, Joinable
<1>10. ASSUME NEW c \in Clients, CancelFlag(c) PROVE ThreadsAreOwned'
  BY <1>10, OwnershipKept DEF CancelFlag, StoreCancelFlag, CancelReturn, Goto, Done, Joinable
<1>11. ASSUME NEW c \in Clients, CancelQueued(c) PROVE ThreadsAreOwned'
  BY <1>11, OwnershipKept DEF CancelQueued, CancelCas, TransitionActiveTo, CancelReturn, Goto, Done, Joinable
<1>12. ASSUME NEW c \in Clients, LeaveSession(c) PROVE ThreadsAreOwned'
  BY <1>12, OwnershipKept DEF LeaveSession, Done, Joinable
<1>13. ASSUME NEW c \in Clients, ShutdownCancel(c) PROVE ThreadsAreOwned'
  BY <1>13, OwnershipKept DEF ShutdownCancel, Joinable
<1>14. ASSUME NEW c \in Clients, ShutdownTake(c) PROVE ThreadsAreOwned'
  <2>1. \A k \in JobId : Joinable(k)' <=> Joinable(k)
    BY <1>14 DEF ShutdownTake, Joinable
  <2>2. \A k \in JobId : ~ Owns(c, k)
    BY <1>14 DEF ShutdownTake, InvTaken, Owns
  <2>3. /\ \A k \in JobId : Owns(c, k)' <=> Owns(NoThread, k)
        /\ \A o \in {NoThread} : \A k \in JobId : ~ Owns(o, k)'
    BY <1>14 DEF ShutdownTake, Owns
  <2>4. \A o \in Clients : \A k \in JobId :
          o # c => (Owns(o, k)' <=> Owns(o, k))
    BY <1>14 DEF ShutdownTake, Owns
  <2>5. SUFFICES ASSUME NEW k \in JobId
                 PROVE  /\ \A o, p \in Clients \cup {NoThread} :
                              Owns(o, k)' /\ Owns(p, k)' => o = p
                        /\ Joinable(k)' <=>
                             \E o \in Clients \cup {NoThread} : Owns(o, k)'
    BY DEF ThreadsAreOwned
  <2>6. CASE Owns(NoThread, k)
    BY <2>1, <2>2, <2>3, <2>4, <2>6 DEF ThreadsAreOwned
  <2>7. CASE ~ Owns(NoThread, k)
    <3>1. \A o \in Clients \cup {NoThread} : Owns(o, k)' <=> Owns(o, k)
      <4>1. \A o \in Clients : o # c => (Owns(o, k)' <=> Owns(o, k))
        BY <2>4
      <4>2. Owns(c, k)' <=> Owns(c, k)
        BY <2>2, <2>3, <2>7
      <4>3. \A o \in {NoThread} : Owns(o, k)' <=> Owns(o, k)
        BY <2>3, <2>7
      <4>4. QED
        BY <4>1, <4>2, <4>3, Zenon
    <3>2. QED
      BY <2>1, <3>1 DEF ThreadsAreOwned
  <2>8. QED
    BY <2>6, <2>7
<1>15. ASSUME NEW c \in Clients, ShutdownJoin(c) PROVE ThreadsAreOwned'
  <2>1. CASE taken[c] = NoJob
    BY <1>15, <2>1, OwnershipKept DEF ShutdownJoin, Join, Joinable
  <2>2. ASSUME NEW h \in JobId, taken[c] = h PROVE ThreadsAreOwned'
    <3>1. /\ Joinable(h) /\ ~ Joinable(h)'
          /\ \A k \in JobId : k # h => (Joinable(k)' <=> Joinable(k))
      BY <1>15, <2>2 DEF ShutdownJoin, Join, Joinable
    <3>2. \A k \in JobId : Owns(c, k) <=> k = h
      BY <2>2 DEF Owns
    <3>3. \A o \in Clients \cup {NoThread} : \A k \in JobId :
            Owns(o, k)' <=> Owns(o, k) /\ o # c
      BY <1>15 DEF ShutdownJoin, Owns
    <3>4. QED
      BY <3>1, <3>2, <3>3 DEF ThreadsAreOwned
  <2>3. QED
    BY <2>1, <2>2
<1>16. ASSUME NEW j \in JobId, WorkerGet(j) PROVE ThreadsAreOwned'
  BY <1>16, OwnershipKept DEF WorkerGet, WorkerGoto, Joinable
<1>17. ASSUME NEW j \in JobId, WorkerStart(j) PROVE ThreadsAreOwned'
  BY <1>17, OwnershipKept DEF WorkerStart, StartCas, Transition, WorkerGoto, Joinable
<1>18. ASSUME NEW j \in JobId, WorkerLock(j) PROVE ThreadsAreOwned'
  BY <1>18, OwnershipKept DEF WorkerLock, WorkerGoto, Joinable
<1>19. ASSUME NEW j \in JobId, WorkerCheck(j) PROVE ThreadsAreOwned'
  BY <1>19, OwnershipKept DEF WorkerCheck, TaskEnds, WorkerGoto, Joinable
<1>20. ASSUME NEW j \in JobId, ScanBlock(j) PROVE ThreadsAreOwned'
  BY <1>20, OwnershipKept DEF ScanBlock, Joinable
<1>21. ASSUME NEW j \in JobId, ScanCancelled(j) PROVE ThreadsAreOwned'
  BY <1>21, OwnershipKept DEF ScanCancelled, TaskEnds, WorkerGoto, Joinable
<1>22. ASSUME NEW j \in JobId, ScanPublish(j) PROVE ThreadsAreOwned'
  BY <1>22, OwnershipKept DEF ScanPublish, TaskEnds, WorkerGoto, Joinable
<1>23. ASSUME NEW j \in JobId, ScanFails(j) PROVE ThreadsAreOwned'
  BY <1>23, OwnershipKept DEF ScanFails, TaskEnds, WorkerGoto, Joinable
<1>24. ASSUME NEW j \in JobId, WorkerUnlock(j) PROVE ThreadsAreOwned'
  BY <1>24, OwnershipKept DEF WorkerUnlock, WorkerGoto, Joinable
<1>25. ASSUME NEW j \in JobId, WorkerVerdict(j) PROVE ThreadsAreOwned'
  BY <1>25, OwnershipKept DEF WorkerVerdict, VerdictCas, CompleteCas, FailCas, CancelCas, Transition, TransitionActiveTo, WorkerGoto, Joinable
<1>26. ASSUME NEW j \in JobId, WorkerStore(j) PROVE ThreadsAreOwned'
  BY <1>26, OwnershipKept DEF WorkerStore, StoreCancelFlag, StorePayload, WorkerGoto, Joinable
<1>27. ASSUME NEW j \in JobId, WorkerFinish(j) PROVE ThreadsAreOwned'
  BY <1>27, OwnershipKept DEF WorkerFinish, WorkerGoto, Joinable
<1>28. ASSUME NEW j \in JobId, WorkerExit(j) PROVE ThreadsAreOwned'
  BY <1>28, OwnershipKept DEF WorkerExit, WorkerGoto, Joinable
<1>29. CASE UNCHANGED vars
  BY <1>29, OwnershipKept DEF vars, Joinable
<1>30. QED
  BY <1>1, <1>2, <1>3, <1>4, <1>5, <1>6, <1>7, <1>8, <1>9, <1>10, <1>11, <1>12, <1>13, <1>14,
     <1>15, <1>16, <1>17, <1>18, <1>19, <1>20, <1>21, <1>22, <1>23, <1>24, <1>25, <1>26, <1>27, <1>28, <1>29 DEF Next, NewRequest, ClientStep, WorkerStep


\* The inductive invariant holds initially.
LEMMA InitInv == Init => IInv
<1> SUFFICES ASSUME Init PROVE IInv
  OBVIOUS
<1> USE Ids DEF Init, JobsInit, Active, Terminal
<1>1. TypeOK
  BY MaxJobsAssumption, RunnerAssumption
  DEF TypeOK, JobsTypeOK, WorkerPc, ClientPc
<1>2. InvRunnerLock /\ InvSessionLock /\ InvFresh /\ InvLaunch /\ InvTaken /\ InvShutdown
  BY DEF InvRunnerLock, InvSessionLock, InvFresh, InvLaunch, Launching, InvTaken,
         InvShutdown, Stopping
<1>3. InvLifecycle /\ SlotGuardsWorker /\ OneActiveJob
  BY DEF InvLifecycle, SlotGuardsWorker, Busy, OneActiveJob, ActiveJobs
<1>4. ThreadsAreOwned
  BY DEF ThreadsAreOwned, Owns, Joinable
<1>5. QED
  BY <1>1, <1>2, <1>3, <1>4 DEF IInv

\* Every step preserves the inductive invariant.
LEMMA InvStep == IInv /\ [Next]_vars => IInv'
BY TypeStep, InvRunnerLockStep, InvSessionLockStep, InvFreshStep, InvLaunchStep,
   InvTakenStep, InvShutdownStep, InvLifecycleStep, SlotGuardsWorkerStep, ThreadsAreOwnedStep,
   OneActiveJobStep
DEF IInv

\* The inductive invariant holds in every reachable state.
THEOREM Invariance == Spec => []IInv
<1>1. Init => IInv
  BY InitInv
<1>2. IInv /\ [Next]_vars => IInv'
  BY InvStep
<1>3. QED
  BY <1>1, <1>2, PTL DEF Spec

\* Type correctness of the job layer's state.
THEOREM TypeCorrect == Spec => []TypeOK
<1>1. IInv => TypeOK
  BY DEF IInv
<1>2. QED
  BY <1>1, Invariance, PTL

\* The registry never lists two active jobs, for any number of clients, jobs
\* and requests (the policy of jobs.h:15).
THEOREM OneActive == Spec => []OneActiveJob
<1>1. IInv => OneActiveJob
  BY DEF IInv
<1>2. QED
  BY <1>1, Invariance, PTL

\* Two workers are never inside the runner's slot, even when the registry has
\* forgotten the first one's job (job_runner.cpp:9).
THEOREM OneWorker == Spec => []SlotGuardsWorker
<1>1. IInv => SlotGuardsWorker
  BY DEF IInv
<1>2. QED
  BY <1>1, Invariance, PTL

\* No std::thread is overwritten or destroyed while joinable, nor joined
\* twice (job_runner.cpp:13, 18, 40).
THEOREM OneOwner == Spec => []ThreadsAreOwned
<1>1. IInv => ThreadsAreOwned
  BY DEF IInv
<1>2. QED
  BY <1>1, Invariance, PTL

\* A job's terminal state agrees with what its task did
\* (job_runner.cpp:81-90).
THEOREM Verdict == Spec => []VerdictMatchesRun
<1>1. IInv => VerdictMatchesRun
  BY DEF IInv, InvLifecycle, VerdictMatchesRun
<1>2. QED
  BY <1>1, Invariance, PTL

\* The count or the error of a job is stored before the slot is free, though
\* after the transition readers see (jobs.cpp:102, 110).
THEOREM PayloadStored == Spec => []PayloadBeforeFree
<1>1. ASSUME IInv PROVE PayloadBeforeFree
  <2>1. SUFFICES ASSUME NEW j \in JobId, slot # j
                 PROVE  /\ state[j] = "COMPLETED" => payload[j] = "count"
                        /\ state[j] = "FAILED" => payload[j] = "error"
    BY DEF PayloadBeforeFree
  <2>2. wpc[j] # "store"
    BY <1>1, <2>1 DEF IInv, SlotGuardsWorker, Busy
  <2>3. QED
    BY <1>1, <2>2 DEF IInv, InvLifecycle
<1>2. QED
  BY <1>1, Invariance, PTL

\* No step changes the state of a terminal job.
LEMMA FinalStep ==
  ASSUME IInv, [Next]_vars
  PROVE  \A j \in JobId : state[j] \in Terminal => state'[j] = state[j]
<1> DEFINE Final == \A j \in JobId : state[j] \in Terminal => state'[j] = state[j]
<1> USE DEF IInv, TypeOK, JobsTypeOK, Active, Terminal
<1>1. CASE UNCHANGED state
  BY <1>1
<1>2. ASSUME NEW c \in Clients, Submit(c) PROVE Final
  BY <1>2, NextFresh DEF Submit, Create, InvFresh
<1>3. ASSUME NEW c \in Clients, CancelQueued(c) PROVE Final
  BY <1>3 DEF CancelQueued, CancelCas, TransitionActiveTo
<1>4. ASSUME NEW j \in JobId, WorkerStart(j) PROVE Final
  BY <1>4 DEF WorkerStart, StartCas, Transition
<1>5. ASSUME NEW j \in JobId, WorkerVerdict(j) PROVE Final
  BY <1>5 DEF WorkerVerdict, VerdictCas, CancelCas, CompleteCas, FailCas,
              Transition, TransitionActiveTo
<1>6. \/ UNCHANGED state
      \/ \E c \in Clients : Submit(c) \/ CancelQueued(c)
      \/ \E j \in JobId : WorkerStart(j) \/ WorkerVerdict(j)
  <2>1. CASE UNCHANGED vars
    BY <2>1 DEF vars, jobVars
  <2>2. ASSUME NEW c \in Clients, NewRequest(c)
        PROVE  UNCHANGED state \/ Submit(c)
    BY <2>2 DEF NewRequest, Cancel, UseSession, Shutdown, Tidy, Remove,
                ClearFinished, jobVars
  <2>3. ASSUME NEW c \in Clients, ClientStep(c)
        PROVE  UNCHANGED state \/ CancelQueued(c)
    BY <2>3 DEF ClientStep, RunEnter, RunJoin, RunLaunch, CancelRead, CancelFlag,
                LeaveSession, ShutdownCancel, ShutdownTake, ShutdownJoin, jobVars
  <2>4. ASSUME NEW j \in JobId, WorkerStep(j)
        PROVE  UNCHANGED state \/ WorkerStart(j) \/ WorkerVerdict(j)
    BY <2>4 DEF WorkerStep, WorkerGet, WorkerLock, WorkerCheck, ScanBlock,
                ScanCancelled, ScanPublish, ScanFails, WorkerUnlock, WorkerStore,
                WorkerFinish, WorkerExit, jobVars
  <2>5. QED
    BY <2>1, <2>2, <2>3, <2>4 DEF Next
<1>7. QED
  BY <1>1, <1>2, <1>3, <1>4, <1>5, <1>6

\* A terminal state is never left (jobs.cpp:97-115).
THEOREM TerminalFinal == Spec => TerminalIsFinal
<1>1. IInv /\ [Next]_vars
        => [\A j \in JobId : state[j] \in Terminal => state'[j] = state[j]]_state
  BY FinalStep
<1>2. QED
  BY <1>1, Invariance, PTL DEF Spec, TerminalIsFinal

\* A shutdown() whose worker still runs when it returns did not get the
\* thread: another shutdown() holds it.
LEMMA ReturnStep ==
  ASSUME IInv, NEW c \in Clients, ShutdownJoin(c), NEW j \in JobId, arg[c] = j
  PROVE  \/ wpc'[j] \in Over
         \/ \E d \in Clients \ {c} : taken'[d] = j
<1> USE Ids DEF IInv, TypeOK
<1>1. /\ wpc[j] # "none" /\ handle # j
      /\ \A d \in Clients \ {c} : taken'[d] = taken[d]
  BY DEF ShutdownJoin, InvShutdown, Stopping, Launching
<1>2. CASE taken[c] = j
  BY <1>2 DEF ShutdownJoin, Join, Over
<1>3. CASE taken[c] # j /\ wpc[j] \in {"failed", "joined"}
  BY <1>3 DEF ShutdownJoin, Join, Over
<1>4. CASE taken[c] # j /\ wpc[j] \notin {"failed", "joined"}
  <2>1. Joinable(j)
    BY <1>1, <1>4 DEF Joinable
  <2>2. PICK o \in Clients \cup {NoThread} : Owns(o, j)
    BY <2>1 DEF ThreadsAreOwned
  <2>3. o \in Clients \ {c} /\ taken[o] = j
    BY <1>1, <1>4, <2>2 DEF Owns
  <2>4. QED
    BY <1>1, <2>3
<1>5. QED
  BY <1>2, <1>3, <1>4

\* shutdown() returns only when the worker it was called for is over or in
\* the hands of another shutdown(), for any number of callers
\* (job_runner.cpp:32-43).
THEOREM ShutdownReturns == Spec => ShutdownWaits
<1> DEFINE Returned ==
      \A c \in Clients :
        pc[c] = "wait" /\ pc'[c] = "idle" /\ arg[c] # NoJob
          => \/ wpc'[arg[c]] \in Over
             \/ \E d \in Clients \ {c} : taken'[d] = arg[c]
<1>1. ASSUME IInv, [Next]_vars PROVE [Returned]_vars
  <2>1. SUFFICES ASSUME Next, NEW c \in Clients,
                        pc[c] = "wait", pc'[c] = "idle", arg[c] # NoJob
                 PROVE  \/ wpc'[arg[c]] \in Over
                        \/ \E d \in Clients \ {c} : taken'[d] = arg[c]
    BY <1>1
  <2>2. arg[c] \in JobId
    BY <1>1, <2>1 DEF IInv, TypeOK
  <2>3. ShutdownJoin(c)
    <3>1. ASSUME NEW d \in Clients, NewRequest(d) PROVE FALSE
      BY <1>1, <2>1, <3>1 DEF IInv, TypeOK, NewRequest, Submit, Cancel, UseSession,
                      Shutdown, Tidy, Request
    <3>2. ASSUME NEW j \in JobId, WorkerStep(j) PROVE FALSE
      BY <2>1, <3>2 DEF WorkerStep, WorkerGet, WorkerStart, WorkerLock, WorkerCheck,
             ScanBlock, ScanCancelled, ScanPublish, ScanFails, WorkerUnlock,
             WorkerVerdict, WorkerStore, WorkerFinish, WorkerExit, clientVars
    <3>3. ASSUME NEW d \in Clients, ClientStep(d) PROVE d = c /\ ShutdownJoin(d)
      BY <1>1, <2>1, <3>3 DEF IInv, TypeOK, ClientStep, RunEnter, RunJoin, RunLaunch,
             CancelRead, CancelFlag, CancelQueued, CancelReturn, LeaveSession,
             ShutdownCancel, ShutdownTake, ShutdownJoin, Goto, Done
    <3>4. QED
      BY <2>1, <3>1, <3>2, <3>3 DEF Next
  <2>4. QED
    BY <1>1, <2>2, <2>3, ReturnStep
<1>2. QED
  BY <1>1, Invariance, PTL DEF Spec, ShutdownWaits


---------------------------------------------------------------------------
(* JobRunner implements JobService: every step maps to a step or a stutter. *)

\* The mapped task of every job is kept when each one is.
LEMMA TaskKept ==
  ASSUME \A j \in JobId : TaskOf(j)' = TaskOf(j)
  PROVE  Task' = Task
BY DEF Task

\* A step that moves no worker keeps every mapped task.
LEMMA WorkersKept ==
  ASSUME wpc' = wpc, outcome' = outcome
  PROVE  Task' = Task
BY TaskKept DEF TaskOf

\* A step of the worker of job j changes the mapped task of j only.
LEMMA TaskMoves ==
  ASSUME TypeOK, NEW j \in JobId, NEW t,
         \A k \in JobId : k # j => wpc'[k] = wpc[k] /\ outcome'[k] = outcome[k],
         TaskOf(j)' = t
  PROVE  Task' = [Task EXCEPT ![j] = t]
BY DEF TaskOf, Task

\* A job's mapped task is executing exactly while its worker is in the task.
LEMMA ExecutingIs ==
  ASSUME TypeOK, NEW j \in JobId
  PROVE  Task[j] = "executing" <=> wpc[j] \in {"check", "scan"}
BY DEF TypeOK, Task, TaskOf

\* The two modules name the same jobs.
LEMMA SameJobs == Service!JobId = JobId /\ Service!NoJob = NoJob
BY DEF Service!JobId, Service!NoJob, JobId, NoJob

\* Steps that change nothing the service shows.
LEMMA Stutters ==
  ASSUME listed' = listed, state' = state, results' = results, Task' = Task
  PROVE  [Service!Next]_(Service!vars)
BY DEF Service!vars

\* The steps of a request.
LEMMA RequestMaps ==
  ASSUME IInv, NEW c \in Clients, NewRequest(c)
  PROVE  [Service!Next]_(Service!vars)
<1> USE DEF jobVars, runnerVars, sessionVars, workerVars, clientVars
<1>1. CASE Submit(c)
  <2>1. PICK n \in JobId : n = nextId /\ Fresh(n)
    BY <1>1, NextFresh DEF IInv, Submit
  <2>2. state[n] = "NONE"
    BY <2>1 DEF IInv, InvFresh
  <2>3. \A k \in listed : state[k] \notin Service!Active
    BY <1>1 DEF Submit, Create, ActiveJobs, Active, Service!Active
  <2>4. /\ state' = [state EXCEPT ![n] = "QUEUED"]
        /\ listed' = listed \cup {n}
        /\ results' = results
        /\ Task' = Task
    BY <1>1, <2>1, WorkersKept DEF Submit, Create
  <2>5. Service!Create(n)
    BY <2>2, <2>3, <2>4 DEF Service!Create
  <2>6. QED
    BY <2>5, SameJobs DEF Service!Next
<1>2. CASE Tidy(c)
  <2>1. /\ listed' \in SUBSET listed
        /\ state' = state
        /\ results' = results
        /\ Task' = Task
    BY <1>2, WorkersKept DEF Tidy, Remove, ClearFinished
  <2>2. QED
    BY <2>1 DEF Service!Next, Service!Forget
<1>3. CASE Cancel(c) \/ UseSession(c) \/ Shutdown(c)
  BY <1>3, WorkersKept, Stutters DEF Cancel, UseSession, Shutdown
<1>4. QED
  BY <1>1, <1>2, <1>3 DEF NewRequest

\* The steps inside a client's call.
LEMMA ClientMaps ==
  ASSUME IInv, NEW c \in Clients, ClientStep(c)
  PROVE  [Service!Next]_(Service!vars)
<1> USE DEF jobVars, runnerVars, sessionVars, workerVars, clientVars
<1>1. CASE \/ RunEnter(c) \/ CancelRead(c) \/ CancelFlag(c)
           \/ ShutdownCancel(c) \/ ShutdownTake(c)
  BY <1>1, WorkersKept, Stutters
  DEF RunEnter, CancelRead, CancelFlag, ShutdownCancel, ShutdownTake
<1>2. CASE RunJoin(c) \/ ShutdownJoin(c)
  <2>1. \A j \in JobId : TaskOf(j)' = TaskOf(j)
    BY <1>2 DEF RunJoin, ShutdownJoin, Join, TaskOf, IInv, TypeOK
  <2>2. QED
    BY <1>2, <2>1, TaskKept, Stutters DEF RunJoin, ShutdownJoin
<1>3. CASE RunLaunch(c)
  <2>1. \A j \in JobId : TaskOf(j)' = TaskOf(j)
    <3>1. Launching(c) /\ arg[c] # NoJob /\ wpc[arg[c]] = "none"
      BY <1>3 DEF RunLaunch, IInv, InvLaunch, Launching
    <3>2. QED
      BY <1>3, <3>1 DEF RunLaunch, TaskOf, IInv, TypeOK
  <2>2. QED
    BY <1>3, <2>1, TaskKept, Stutters DEF RunLaunch
<1>4. CASE CancelQueued(c)
  <2>1. PICK a \in JobId : a = arg[c]
    BY <1>4 DEF CancelQueued, IInv, InvLaunch, TypeOK
  <2>2. listed' = listed /\ results' = results /\ Task' = Task
    BY <1>4, WorkersKept DEF CancelQueued
  <2>3. CASE state' = state
    BY <2>2, <2>3, Stutters
  <2>4. CASE CancelCas(arg[c])
    <3>1. state[a] \in Service!Active /\ state' = [state EXCEPT ![a] = "CANCELLED"]
      BY <2>1, <2>4 DEF CancelCas, TransitionActiveTo, Active, Service!Active
    <3>2. Service!End(a)
      BY <2>2, <3>1 DEF Service!End
    <3>3. QED
      BY <3>2, SameJobs DEF Service!Next
  <2>5. QED
    BY <1>4, <2>3, <2>4 DEF CancelQueued
<1>5. CASE LeaveSession(c)
  <2>1. listed' = listed /\ state' = state /\ Task' = Task
    BY <1>5, WorkersKept DEF LeaveSession
  <2>2. CASE results' = results
    BY <2>1, <2>2, Stutters
  <2>3. CASE results' = NoJob
    <3>1. sessionMtx = c
      BY <1>5 DEF LeaveSession, IInv, InvSessionLock
    <3>2. \A j \in JobId : wpc[j] \notin {"check", "scan"}
      BY <3>1, Ids DEF IInv, InvSessionLock
    <3>3. Service!Executing = {}
      BY <3>2, ExecutingIs, SameJobs DEF IInv, Service!Executing
    <3>4. QED
      BY <2>1, <2>3, <3>3, SameJobs DEF Service!Next, Service!Discard
  <2>4. QED
    BY <1>5, <2>2, <2>3 DEF LeaveSession
<1>6. QED
  BY <1>1, <1>2, <1>3, <1>4, <1>5 DEF ClientStep

\* The steps of a worker.
LEMMA WorkerMaps ==
  ASSUME IInv, NEW j \in JobId, WorkerStep(j)
  PROVE  [Service!Next]_(Service!vars)
<1> USE DEF jobVars, runnerVars, sessionVars, workerVars, clientVars, WorkerGoto, IInv, TypeOK
<1>1. CASE \/ WorkerGet(j) \/ ScanBlock(j) \/ WorkerUnlock(j) \/ WorkerStore(j)
           \/ WorkerFinish(j) \/ WorkerExit(j)
  <2>1. \A k \in JobId : TaskOf(k)' = TaskOf(k)
    BY <1>1 DEF WorkerGet, ScanBlock, WorkerUnlock, WorkerStore, WorkerFinish,
                WorkerExit, TaskOf
  <2>2. listed' = listed /\ state' = state /\ results' = results
    BY <1>1 DEF WorkerGet, ScanBlock, WorkerUnlock, WorkerStore, WorkerFinish,
                WorkerExit
  <2>3. QED
    BY <2>1, <2>2, TaskKept, Stutters
<1>2. CASE WorkerStart(j)
  <2>1. listed' = listed /\ results' = results
    BY <1>2 DEF WorkerStart
  <2>2. CASE state' = state /\ wpc' = [wpc EXCEPT ![j] = "finish"]
    <3>1. \A k \in JobId : TaskOf(k)' = TaskOf(k)
      BY <1>2, <2>2 DEF WorkerStart, TaskOf
    <3>2. QED
      BY <2>1, <2>2, <3>1, TaskKept, Stutters
  <2>3. CASE StartCas(j) /\ wpc' = [wpc EXCEPT ![j] = "lock"]
    <3>1. state[j] = "QUEUED" /\ state' = [state EXCEPT ![j] = "RUNNING"]
      BY <2>3 DEF StartCas, Transition
    <3>2. Task[j] = "none"
      BY <1>2 DEF WorkerStart, InvLifecycle, Task, TaskOf
    <3>3. Task' = [Task EXCEPT ![j] = "ready"]
      BY <1>2, <2>3, TaskMoves DEF WorkerStart, TaskOf
    <3>4. Service!Begin(j)
      BY <2>1, <3>1, <3>2, <3>3 DEF Service!Begin
    <3>5. QED
      BY <3>4, SameJobs DEF Service!Next
  <2>4. QED
    BY <1>2, <2>2, <2>3 DEF WorkerStart
<1>3. CASE WorkerLock(j)
  <2>1. Task[j] = "ready"
    BY <1>3 DEF WorkerLock, Task, TaskOf
  <2>2. Service!Executing = {}
    <3>1. \A k \in JobId : wpc[k] \notin {"check", "scan"}
      BY <1>3, Ids DEF WorkerLock, InvSessionLock
    <3>2. QED
      BY <3>1, ExecutingIs, SameJobs DEF Service!Executing
  <2>3. Task' = [Task EXCEPT ![j] = "executing"]
    BY <1>3, TaskMoves DEF WorkerLock, TaskOf
  <2>4. listed' = listed /\ state' = state /\ results' = results
    BY <1>3 DEF WorkerLock
  <2>5. Service!Enter(j)
    BY <2>1, <2>2, <2>3, <2>4 DEF Service!Enter
  <2>6. QED
    BY <2>5, SameJobs DEF Service!Next
<1>4. ASSUME NEW r \in {"ok", "cancelled", "error"}, TaskEnds(j, r),
             wpc[j] \in {"check", "scan"}, listed' = listed, state' = state,
             results' = IF r = "ok" THEN j ELSE results
      PROVE  [Service!Next]_(Service!vars)
  <2>1. Task[j] = "executing"
    BY <1>4, ExecutingIs
  <2>2. Task' = [Task EXCEPT ![j] = r]
    BY <1>4, TaskMoves DEF TaskEnds, TaskOf
  <2>3. Service!Leave(j)
    BY <1>4, <2>1, <2>2 DEF Service!Leave
  <2>4. QED
    BY <2>3, SameJobs DEF Service!Next
<1>5. CASE WorkerCheck(j)
  <2>1. listed' = listed /\ state' = state /\ results' = results
    BY <1>5 DEF WorkerCheck
  <2>2. CASE TaskEnds(j, "cancelled")
    BY <1>4, <1>5, <2>1, <2>2 DEF WorkerCheck
  <2>3. CASE wpc' = [wpc EXCEPT ![j] = "scan"] /\ outcome' = outcome
    <3>1. \A k \in JobId : TaskOf(k)' = TaskOf(k)
      BY <1>5, <2>3 DEF WorkerCheck, TaskOf
    <3>2. QED
      BY <2>1, <3>1, TaskKept, Stutters
  <2>4. QED
    BY <1>5, <2>2, <2>3 DEF WorkerCheck
<1>6. CASE ScanCancelled(j) \/ ScanFails(j) \/ ScanPublish(j)
  BY <1>4, <1>6 DEF ScanCancelled, ScanFails, ScanPublish
<1>7. CASE WorkerVerdict(j)
  <2>1. listed' = listed /\ results' = results /\ wpc[j] = "verdict"
    BY <1>7 DEF WorkerVerdict
  <2>2. \A k \in JobId : TaskOf(k)' = TaskOf(k)
    BY <1>7 DEF WorkerVerdict, TaskOf
  <2>3. Task' = Task /\ Task[j] = outcome[j]
    BY <2>1, <2>2, TaskKept DEF Task, TaskOf
  <2>4. CASE state' = state
    BY <2>1, <2>3, <2>4, Stutters
  <2>5. CASE VerdictCas(j)
    <3>1. /\ state[j] \in Service!Active
          /\ \/ state' = [state EXCEPT ![j] = "CANCELLED"]
             \/ Task[j] = "ok" /\ state' = [state EXCEPT ![j] = "COMPLETED"]
             \/ Task[j] = "error" /\ state' = [state EXCEPT ![j] = "FAILED"]
      BY <2>3, <2>5
      DEF VerdictCas, CancelCas, CompleteCas, FailCas, Transition,
          TransitionActiveTo, Active, Service!Active
    <3>2. Service!End(j)
      BY <2>1, <2>3, <3>1 DEF Service!End
    <3>3. QED
      BY <3>2, SameJobs DEF Service!Next
  <2>6. QED
    BY <1>7, <2>4, <2>5 DEF WorkerVerdict
<1>8. QED
  BY <1>1, <1>2, <1>3, <1>5, <1>6, <1>7 DEF WorkerStep

\* JobRunner, with any number of client threads and jobs, implements the
\* service its callers rely on: jobs.h:15 (one active job), job_runner.h:36
\* (the result decides the terminal state) and application.h:199 (a
\* cancelled task leaves the results alone).
THEOREM Refinement == Spec => ImplementsService
<1>1. Init => Service!Init
  BY SameJobs DEF Init, JobsInit, Service!Init, Task, TaskOf
<1>2. IInv /\ [Next]_vars => [Service!Next]_(Service!vars)
  <2>1. SUFFICES ASSUME IInv, [Next]_vars PROVE [Service!Next]_(Service!vars)
    OBVIOUS
  <2>2. CASE UNCHANGED vars
    BY <2>2, WorkersKept, Stutters DEF vars, jobVars, sessionVars, workerVars
  <2>3. CASE Next
    BY <2>1, <2>3, RequestMaps, ClientMaps, WorkerMaps DEF Next
  <2>4. QED
    BY <2>1, <2>2, <2>3
<1>3. QED
  BY <1>1, <1>2, Invariance, PTL DEF Spec, ImplementsService, Service!Spec
=============================================================================
