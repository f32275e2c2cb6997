------------------------- MODULE PtraceMemory_proofs -------------------------
EXTENDS PtraceMemory, TLAPS

\* What the place in the code says of the target: open traces it before it
\* looks for the stop, and what is stopped stays stopped until close.
TracedFits ==
  /\ main = "dead" => ~traced
  /\ pc \in {"interrupt", "wait", "mem", "operate"} => traced \/ main = "dead"
  /\ pc \in {"mem", "operate"} => main # "running"

\* What it says of fd_ and traced_.
MarkFits ==
  /\ pc \in {"wait", "mem", "operate"} => mark
  /\ pc = "operate" => fd

\* This holds however calls fail.
IInv == TypeOK /\ TracedFits /\ MarkFits

\* Close finds what it needs to let the target go, or the thread will end.
ReleaseFits ==
  /\ pc \in {"closed", "seize", "attach"} => ~traced
  /\ pc = "close" /\ traced /\ front # "web" => main = "stopped" /\ fd
  /\ pc = "leaving" /\ traced => front = "web"

\* On a thread that stays, no call after PTRACE_SEIZE fails.
SafeCalls == \A f \in FrontEnds \ {"web"} : Failures[f] \subseteq {"seize"}

LEMMA InitInv == Init => IInv
<1> SUFFICES ASSUME Init PROVE IInv
  OBVIOUS
<1>1. operations \in 0..MaxOperations
  BY PtraceAssumption DEF Init
<1>2. TypeOK
  BY <1>1 DEF Init, TypeOK
<1>3. TracedFits /\ MarkFits
  BY DEF Init, TracedFits, MarkFits
<1>4. QED
  BY <1>2, <1>3 DEF IInv

\* Steps of the kernel and of the target.
LEMMA TargetStep ==
  ASSUME IInv, UNCHANGED front, Kernel \/ SendSignal \/ Die
  PROVE  IInv'
<1> USE DEF IInv, TypeOK, TracedFits, MarkFits, memory
<1>1. CASE Stop
  BY <1>1 DEF Stop
<1>2. CASE ReceiveSignal
  BY <1>2 DEF ReceiveSignal
<1>3. CASE SendSignal
  BY <1>3 DEF SendSignal
<1>4. CASE Die
  BY <1>4 DEF Die
<1>5. QED
  BY <1>1, <1>2, <1>3, <1>4 DEF Kernel

\* Steps of open.
LEMMA OpenStep ==
  ASSUME IInv, UNCHANGED front,
         Open \/ Seize \/ Attach \/ Interrupt \/ Wait \/ OpenMem \/ Operate
  PROVE  IInv'
<1> USE DEF IInv, TypeOK, TracedFits, MarkFits, memory, target
<1>1. CASE Open
  <2>1. operations' \in 0..MaxOperations
    BY <1>1, PtraceAssumption DEF Open
  <2>2. TypeOK'
    BY <1>1, <2>1 DEF Open
  <2>3. TracedFits' /\ MarkFits'
    BY <1>1 DEF Open
  <2>4. QED
    BY <2>2, <2>3
<1>2. CASE Seize
  <2>1. TypeOK'
    BY <1>2 DEF Seize
  <2>2. TracedFits'
    BY <1>2 DEF Seize
  <2>3. MarkFits'
    BY <1>2 DEF Seize
  <2>4. QED
    BY <2>1, <2>2, <2>3
<1>3. CASE Attach
  <2>1. TypeOK'
    BY <1>3 DEF Attach
  <2>2. TracedFits'
    BY <1>3 DEF Attach
  <2>3. MarkFits'
    BY <1>3 DEF Attach
  <2>4. QED
    BY <2>1, <2>2, <2>3
<1>4. CASE Interrupt
  <2>1. TypeOK'
    BY <1>4 DEF Interrupt
  <2>2. TracedFits'
    BY <1>4 DEF Interrupt
  <2>3. MarkFits'
    BY <1>4 DEF Interrupt
  <2>4. QED
    BY <2>1, <2>2, <2>3
<1>5. CASE Wait
  <2>1. TypeOK'
    BY <1>5 DEF Wait
  <2>2. TracedFits'
    BY <1>5 DEF Wait
  <2>3. MarkFits'
    BY <1>5 DEF Wait
  <2>4. QED
    BY <2>1, <2>2, <2>3
<1>6. CASE OpenMem
  <2>1. TypeOK'
    <3>1. CASE fd' /\ pid' = Target /\ pc' = "operate"
      BY <1>6, <3>1 DEF OpenMem
    <3>2. CASE UNCHANGED <<fd, pid>> /\ pc' = "close"
      BY <1>6, <3>2 DEF OpenMem
    <3>3. QED
      BY <1>6, <3>1, <3>2 DEF OpenMem
  <2>2. TracedFits'
    BY <1>6 DEF OpenMem
  <2>3. MarkFits'
    BY <1>6 DEF OpenMem
  <2>4. QED
    BY <2>1, <2>2, <2>3
<1>7. CASE Operate
  <2>1. TypeOK'
    BY <1>7 DEF Operate
  <2>2. TracedFits'
    BY <1>7 DEF Operate
  <2>3. MarkFits'
    BY <1>7 DEF Operate
  <2>4. QED
    BY <2>1, <2>2, <2>3
<1>8. QED
  BY <1>1, <1>2, <1>3, <1>4, <1>5, <1>6, <1>7

\* Steps of close.
LEMMA CloseStep ==
  ASSUME IInv, UNCHANGED front, Close \/ Leave
  PROVE  IInv'
<1> USE DEF IInv, TypeOK, TracedFits, MarkFits, memory, target
<1>1. CASE Close
  <2>1. fd' = FALSE /\ mark' = FALSE /\ pid' = 0 /\ pc' = "leaving" /\ UNCHANGED operations
    BY <1>1 DEF Close
  <2>2. CASE Detaches
    <3>1. LetGo(FALSE)
      BY <1>1, <2>2 DEF Close
    <3>2. TypeOK'
      BY <2>1, <3>1 DEF LetGo
    <3>3. TracedFits' /\ MarkFits'
      BY <2>1, <3>1 DEF LetGo
    <3>4. QED
      BY <3>2, <3>3
  <2>3. CASE ~Detaches
    <3>1. UNCHANGED target
      BY <1>1, <2>3 DEF Close
    <3>2. QED
      BY <2>1, <3>1
  <2>4. QED
    BY <2>2, <2>3
<1>2. CASE Leave
  <2>1. pc' = "closed" /\ UNCHANGED <<memory, operations>>
    BY <1>2 DEF Leave
  <2>2. CASE front = "web" /\ traced
    <3>1. LetGo(TRUE)
      BY <1>2, <2>2 DEF Leave
    <3>2. TypeOK'
      BY <2>1, <3>1 DEF LetGo
    <3>3. TracedFits' /\ MarkFits'
      BY <2>1, <3>1 DEF LetGo
    <3>4. QED
      BY <3>2, <3>3
  <2>3. CASE ~(front = "web" /\ traced)
    <3>1. UNCHANGED target
      BY <1>2, <2>3 DEF Leave
    <3>2. QED
      BY <2>1, <3>1
  <2>4. QED
    BY <2>2, <2>3
<1>3. QED
  BY <1>1, <1>2

LEMMA InvStep == IInv /\ [Next]_vars => IInv'
<1> SUFFICES ASSUME IInv, [Next]_vars PROVE IInv'
  OBVIOUS
<1>1. CASE Next
  BY <1>1, TargetStep, OpenStep, CloseStep DEF Next, MemoryStep
<1>2. CASE UNCHANGED vars
  BY <1>2 DEF vars, target, memory, IInv, TypeOK, TracedFits, MarkFits
<1>3. QED
  BY <1>1, <1>2

LEMMA Invariance == Spec => []IInv
<1>1. QED
  BY InitInv, InvStep, PTL DEF Spec

\* Types, for any target, any number of operations and any failing calls.
THEOREM TypeCorrect == Spec => []TypeOK
<1>1. IInv => TypeOK
  BY DEF IInv
<1>2. QED
  BY <1>1, Invariance, PTL

\* Memory is read and written only in a target that is stopped, or over:
\* whatever fails and even if an earlier operation left it traced
\* (memory.cpp:113-151).
THEOREM StoppedWhileOperated == Spec => []OperatesOnStopped
<1>1. IInv => OperatesOnStopped
  BY DEF IInv, TypeOK, TracedFits, OperatesOnStopped
<1>2. QED
  BY <1>1, Invariance, PTL

---------------------------------------------------------------------------
(* What is traced after close is let go by the kernel when the thread ends.  *)

LEMMA ReleaseInit == Init => ReleaseFits
BY DEF Init, ReleaseFits

\* The two calls after which close may find a target that still runs.
LEMMA FailingStep ==
  ASSUME SafeCalls, IInv, ReleaseFits, UNCHANGED front, Wait \/ OpenMem
  PROVE  ReleaseFits'
<1>1. front # "web" => ~MayFail("wait") /\ ~MayFail("mem")
  BY DEF SafeCalls, MayFail, IInv, TypeOK
<1>2. CASE Wait
  BY <1>1, <1>2 DEF Wait, IInv, TracedFits, ReleaseFits, target, memory
<1>3. CASE OpenMem
  BY <1>1, <1>3 DEF OpenMem, IInv, TracedFits, ReleaseFits, target
<1>4. QED
  BY <1>2, <1>3

\* Close lets a target go that is stopped, with pid_ and traced_ set.
LEMMA ReleaseClose ==
  ASSUME IInv, ReleaseFits, UNCHANGED front, Close \/ Leave
  PROVE  ReleaseFits'
<1>1. CASE Close
  <2>1. CASE Detaches
    BY <1>1, <2>1 DEF Close, LetGo, ReleaseFits
  <2>2. CASE ~Detaches
    <3>1. traced => front = "web"
      BY <1>1, <2>2 DEF Close, Detaches, IInv, TypeOK, ReleaseFits
    <3>2. UNCHANGED target /\ pc' = "leaving"
      BY <1>1, <2>2 DEF Close
    <3>3. QED
      BY <3>1, <3>2 DEF ReleaseFits, target
  <2>3. QED
    BY <2>1, <2>2
<1>2. CASE Leave
  BY <1>2 DEF Leave, LetGo, ReleaseFits, target
<1>3. QED
  BY <1>1, <1>2

LEMMA ReleaseStep ==
  ASSUME SafeCalls
  PROVE  IInv /\ ReleaseFits /\ [Next]_vars => ReleaseFits'
<1> SUFFICES ASSUME IInv, ReleaseFits, [Next]_vars PROVE ReleaseFits'
  OBVIOUS
<1>1. CASE UNCHANGED front /\ (Kernel \/ SendSignal \/ Die)
  BY <1>1 DEF Kernel, Stop, ReceiveSignal, SendSignal, Die, memory, ReleaseFits
<1>2. CASE UNCHANGED front /\ (Open \/ Seize \/ Attach \/ Interrupt)
  BY <1>2 DEF Open, Seize, Attach, Interrupt, memory, target, IInv, TracedFits, ReleaseFits
<1>3. CASE UNCHANGED front /\ Operate
  BY <1>3 DEF Operate, memory, target, IInv, TypeOK, TracedFits, MarkFits, ReleaseFits
<1>4. CASE UNCHANGED vars
  BY <1>4 DEF vars, target, memory, ReleaseFits
<1>5. QED
  BY <1>1, <1>2, <1>3, <1>4, FailingStep, ReleaseClose DEF Next, MemoryStep

\* However its calls fail, whatever signals come, and wherever the target
\* ends, it is not traced between operations: provided that on a thread that
\* stays nothing fails after PTRACE_SEIZE (memory.cpp:113-157).
THEOREM Released ==
  ASSUME SafeCalls
  PROVE  Spec => []ReleasedWhenClosed
<1>1. ReleaseFits => ReleasedWhenClosed
  BY DEF ReleaseFits, ReleasedWhenClosed
<1>2. QED
  BY <1>1, Invariance, ReleaseInit, ReleaseStep, PTL DEF Spec
=============================================================================
