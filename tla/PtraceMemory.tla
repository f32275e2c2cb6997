---------------------------- MODULE PtraceMemory ----------------------------
(***************************************************************************)
(* Memory::open and close (src/src/memory.cpp) as Session calls them       *)
(* (session.cpp): every operation on the target traces its main thread,    *)
(* stops it, opens /proc/PID/mem, runs, and lets it go.                    *)
(*                                                                         *)
(* The kernel is modelled from how the code uses it: a tracer is a thread; *)
(* only a stopped tracee can be detached (ESRCH otherwise); a thread that  *)
(* ends lets its tracees run.  The target may end at any moment.  A signal *)
(* that reaches a traced target stops it too, and waits there.             *)
(* PTRACE_DETACH fails with nothing but ESRCH, so the branch of close()    *)
(* that continues the target after another error is left out, and so is    *)
(* the pending SIGSTOP of PTRACE_ATTACH when another signal comes first    *)
(* (kernels without PTRACE_SEIZE only).                                    *)
(***************************************************************************)
EXTENDS Integers

CONSTANTS
  Target,         \* the target's process id, not 0
  Failures,       \* calls that may fail, for each front end
  MaxOperations   \* bound on the operations

\* In the web server the calling thread ends after each operation.
FrontEnds == {"command line", "web"}

ASSUME PtraceAssumption ==
  /\ Target \in Nat \ {0}
  /\ Failures \in [FrontEnds -> SUBSET {"seize", "wait", "mem"}]
  /\ MaxOperations \in Nat

VARIABLES
  front,       \* which front end runs
  main,        \* the target's main thread
  traced,      \* is this program its tracer?
  asked,       \* a stop has been asked for and has not happened yet
  signal,      \* a signal on its way to the target
  pc,          \* where open, the operation or close is
  fd,          \* fd_ >= 0
  pid,         \* pid_
  mark,        \* traced_
  operations   \* operations begun

target == <<main, traced, asked, signal>>
memory == <<fd, pid, mark>>
vars == <<front, target, pc, memory, operations>>

MayFail(call) == call \in Failures[front]

TypeOK ==
  /\ front \in FrontEnds
  /\ main \in {"running", "stopped", "dead"}
  /\ traced \in BOOLEAN /\ asked \in BOOLEAN
  /\ signal \in {"none", "sent", "held", "delivered", "lost"}
  /\ pc \in {"closed", "seize", "attach", "interrupt", "wait", "mem",
             "operate", "close", "leaving"}
  /\ fd \in BOOLEAN /\ mark \in BOOLEAN
  /\ pid = IF fd THEN Target ELSE 0
  /\ fd => mark
  /\ operations \in 0..MaxOperations

Init ==
  /\ front \in FrontEnds
  /\ main = "running" /\ traced = FALSE /\ asked = FALSE /\ signal = "none"
  /\ pc = "closed"
  /\ fd = FALSE /\ pid = 0 /\ mark = FALSE
  /\ operations = 0

---------------------------------------------------------------------------
(* The kernel and the target *)

\* Let go, the target runs and handles the signal it was stopped for, unless
\* the tracer discards it.
LetGo(deliver) ==
  /\ main' = "running"
  /\ traced' = FALSE
  /\ asked' = FALSE
  /\ signal' = IF signal # "held" THEN signal
               ELSE IF deliver THEN "delivered" ELSE "lost"

Stop ==
  /\ main = "running" /\ traced /\ asked
  /\ main' = "stopped"
  /\ asked' = FALSE
  /\ UNCHANGED <<traced, signal, pc, memory, operations>>

SendSignal ==
  /\ main # "dead"
  /\ signal = "none"
  /\ signal' = "sent"
  /\ UNCHANGED <<main, traced, asked, pc, memory, operations>>

ReceiveSignal ==
  /\ main = "running"
  /\ signal = "sent"
  /\ \/ traced /\ main' = "stopped" /\ signal' = "held"
     \/ ~traced /\ signal' = "delivered" /\ UNCHANGED main
  /\ UNCHANGED <<traced, asked, pc, memory, operations>>

Die ==
  /\ main # "dead"
  /\ main' = "dead"
  /\ traced' = FALSE
  /\ asked' = FALSE
  /\ UNCHANGED <<signal, pc, memory, operations>>

---------------------------------------------------------------------------
(* Memory::open *)

\* close() first, which finds nothing to close, and access().
Open ==
  /\ pc = "closed"
  /\ operations < MaxOperations
  /\ operations' = operations + 1
  /\ pc' = IF main = "dead" THEN "leaving" ELSE "seize"
  /\ UNCHANGED <<target, memory>>

\* PTRACE_SEIZE; a traced process cannot be seized again.
Seize ==
  /\ pc = "seize"
  /\ \/ /\ main # "dead" /\ ~traced
        /\ traced' = TRUE
        /\ pc' = "interrupt"
     \/ /\ main = "dead" \/ traced \/ MayFail("seize")
        /\ pc' = "attach"
        /\ UNCHANGED traced
  /\ UNCHANGED <<main, asked, signal, memory, operations>>

\* PTRACE_ATTACH where SEIZE was refused; refused too, open fails.
Attach ==
  /\ pc = "attach"
  /\ \/ /\ main # "dead" /\ ~traced
        /\ traced' = TRUE
        /\ asked' = TRUE
        /\ mark' = TRUE
        /\ pc' = "wait"
     \/ /\ main = "dead" \/ traced \/ MayFail("seize")
        /\ pc' = "leaving"
        /\ UNCHANGED <<traced, asked, mark>>
  /\ UNCHANGED <<main, signal, fd, pid, operations>>

\* Variant: no stop is asked for after PTRACE_SEIZE.
InterruptLeftOut ==
  /\ pc = "interrupt"
  /\ mark' = TRUE
  /\ pc' = "wait"
  /\ UNCHANGED <<target, fd, pid, operations>>

\* PTRACE_INTERRUPT; it fails when the target is gone.
Interrupt ==
  /\ pc = "interrupt"
  /\ \/ /\ main # "dead"
        /\ asked' = (main = "running")
        /\ pc' = "wait"
     \/ /\ main = "dead"
        /\ pc' = "close"
        /\ UNCHANGED asked
  /\ mark' = TRUE
  /\ UNCHANGED <<main, traced, signal, fd, pid, operations>>

\* Variant: open does not wait for the stop.
WaitNot ==
  /\ pc = "wait"
  /\ pc' = IF main = "dead" THEN "close" ELSE "mem"
  /\ UNCHANGED <<target, memory, operations>>

\* waitpid returns when the target has stopped or ended.
Wait ==
  /\ pc = "wait"
  /\ \/ main = "stopped" /\ pc' = "mem"
     \/ main = "dead" /\ pc' = "close"
     \/ MayFail("wait") /\ pc' = "close"
  /\ UNCHANGED <<target, memory, operations>>

\* Variant: pid_ is not set.
OpenMemWithoutPid ==
  /\ pc = "mem"
  /\ \/ /\ fd' = TRUE
        /\ pc' = "operate"
     \/ /\ main = "dead" \/ MayFail("mem")
        /\ pc' = "close"
        /\ UNCHANGED fd
  /\ UNCHANGED <<target, pid, mark, operations>>

\* The open of /proc/PID/mem, and pid_.
OpenMem ==
  /\ pc = "mem"
  /\ \/ /\ fd' = TRUE
        /\ pid' = Target
        /\ pc' = "operate"
     \/ /\ main = "dead" \/ MayFail("mem")
        /\ pc' = "close"
        /\ UNCHANGED <<fd, pid>>
  /\ UNCHANGED <<target, mark, operations>>

\* with_memory's fn returns or throws; attach's probe does nothing here.
Operate ==
  /\ pc = "operate"
  /\ pc' = "close"
  /\ UNCHANGED <<target, memory, operations>>

---------------------------------------------------------------------------
(* Memory::close *)

Detaches == mark /\ pid = Target /\ traced /\ main = "stopped"

\* PTRACE_DETACH of pid_ with no signal; ESRCH is passed over.
Close ==
  /\ pc = "close"
  /\ \/ Detaches /\ LetGo(FALSE)
     \/ ~Detaches /\ UNCHANGED target
  /\ fd' = FALSE /\ mark' = FALSE /\ pid' = 0
  /\ pc' = "leaving"
  /\ UNCHANGED operations

\* Variant: the threads of requests stay to serve the next ones.
LeaveStays ==
  /\ pc = "leaving"
  /\ pc' = "closed"
  /\ UNCHANGED <<target, memory, operations>>

\* The thread of a request ends and the kernel lets its tracees go; that of
\* the command line waits for the next command.
Leave ==
  /\ pc = "leaving"
  /\ pc' = "closed"
  /\ \/ front = "web" /\ traced /\ LetGo(TRUE)
     \/ ~(front = "web" /\ traced) /\ UNCHANGED target
  /\ UNCHANGED <<memory, operations>>

MemoryStep ==
  \/ Seize \/ Attach \/ Interrupt \/ Wait \/ OpenMem
  \/ Operate \/ Close \/ Leave

Kernel == Stop \/ ReceiveSignal

Next ==
  /\ Open \/ MemoryStep \/ Kernel \/ SendSignal \/ Die
  /\ UNCHANGED front

Spec == Init /\ [][Next]_vars

\* This program's thread runs, and so do the kernel and the target.
FairSpec ==
  /\ Spec
  /\ WF_vars(MemoryStep /\ UNCHANGED front)
  /\ WF_vars(Kernel /\ UNCHANGED front)

---------------------------------------------------------------------------
(* Properties *)

\* Between operations the target is not traced (memory.h:39 "se detiene
\* brevemente mientras dura la operacion, y se reanuda al hacer close()").
ReleasedWhenClosed == pc = "closed" => ~traced

\* The memory is read and written only while the target's main thread is
\* stopped by this program, or has ended.
OperatesOnStopped ==
  pc = "operate" => main = "dead" \/ (traced /\ main = "stopped")

\* A target that this program stops runs again (README.md:561 "se detiene
\* brevemente solo durante la lectura/escritura y sigue su curso").
RunsAgain == main = "stopped" ~> main # "stopped"

\* An operation ends: waitpid does not wait for ever.
OperationEnds == pc # "closed" ~> pc = "closed"
=============================================================================
