--------------------------- MODULE Program_proofs ---------------------------
EXTENDS Program, Sorting_proofs, SequenceTheorems, TLAPS

\* The results: those there are belong to the attached process and are of one
\* kind; without a process there are none, or the next one would inherit them.
Fields == {"numeric", "dynamic", "spec", "type", "from"}

ScannerFits ==
  /\ DOMAIN scanner = Fields
  /\ HasResults => scanner.from = pid /\ pid \in Pid
  /\ OneKindOfResults

PointersFit ==
  /\ pointers.count \in Nat
  /\ pointers.count > 0 => pointers.from = pid /\ pid \in Pid

SessionFits == ScannerFits /\ PointersFit

\* A step that leaves no results.
LEMMA NothingLeft ==
  ASSUME DOMAIN scanner' = Fields, scanner'.numeric = {}, scanner'.dynamic = {},
         scanner'.spec = NoSpec, pointers'.count = 0
  PROVE  SessionFits'
<1>1. ~HasResults'
  BY DEF HasResults
<1>2. QED
  BY <1>1 DEF SessionFits, ScannerFits, PointersFit, OneKindOfResults

\* A step of the table leaves the results alone.
LEMMA ResultsStay ==
  ASSUME SessionFits, UNCHANGED <<pid, scanner, pointers>>
  PROVE  SessionFits'
BY DEF SessionFits, ScannerFits, PointersFit, OneKindOfResults, HasResults

\* A step of the results alone: it is right when what it leaves is.
LEMMA ResultsFit ==
  ASSUME SessionFits, UNCHANGED <<pid, pointers>>,
         DOMAIN scanner' = Fields,
         HasResults' => scanner'.from = pid /\ pid \in Pid,
         scanner'.spec # NoSpec => scanner'.numeric = {},
         scanner'.spec = NoSpec => scanner'.dynamic = {}
  PROVE  SessionFits'
BY DEF SessionFits, ScannerFits, PointersFit, OneKindOfResults

LEMMA ClearedFields ==
  ASSUME SessionFits, NEW s, s = Cleared
  PROVE  /\ DOMAIN s = Fields /\ s.numeric = {} /\ s.dynamic = {} /\ s.spec = NoSpec
BY DEF Cleared, SessionFits, ScannerFits, Fields

LEMMA AttachStep ==
  ASSUME SessionFits, NEW p \in Pid, Attach(p)
  PROVE  SessionFits'
<1>1. CASE AttachFirst(p)
  <2>1. ~HasResults /\ pointers.count = 0
    BY <1>1, SessionAssumption DEF AttachFirst, SessionFits, ScannerFits, PointersFit
  <2>2. QED
    BY <1>1, <2>1 DEF AttachFirst, SessionFits, ScannerFits, PointersFit, HasResults, OneKindOfResults
<1>2. CASE AttachOther(p)
  <2>1. scanner' = Cleared /\ pointers'.count = 0
    BY <1>2 DEF AttachOther, NoPointers
  <2>2. QED
    BY <2>1, ClearedFields, NothingLeft
<1>3. QED
  BY <1>1, <1>2 DEF Attach

LEMMA DetachStep ==
  ASSUME SessionFits, Detach
  PROVE  SessionFits'
<1>1. scanner' = Cleared /\ pointers'.count = 0
  BY DEF Detach, NoPointers
<1>2. QED
  BY <1>1, ClearedFields, NothingLeft

LEMMA FirstNumericStep ==
  ASSUME SessionFits, pid \in Pid, UNCHANGED <<pid, pointers>>,
         NEW t, NEW found, FirstNumeric(t, found)
  PROVE  SessionFits'
<1>1. /\ DOMAIN scanner' = Fields /\ scanner'.from = pid
      /\ scanner'.spec = NoSpec /\ scanner'.dynamic = {}
  BY DEF FirstNumeric, Fields
<1>2. QED
  BY <1>1, ResultsFit

LEMMA FirstDynamicStep ==
  ASSUME SessionFits, pid \in Pid, UNCHANGED <<pid, pointers>>,
         NEW d \in DynamicTypes, NEW found, FirstDynamic(d, found)
  PROVE  SessionFits'
<1>1. d # NoSpec
  BY SessionAssumption
<1>2. /\ DOMAIN scanner' = Fields /\ scanner'.from = pid
      /\ scanner'.spec = d /\ scanner'.numeric = {}
  BY DEF FirstDynamic, Fields, SessionFits, ScannerFits
<1>3. QED
  BY <1>1, <1>2, ResultsFit

LEMMA NextNumericStep ==
  ASSUME SessionFits, UNCHANGED <<pid, pointers>>,
         NEW t, NEW kept, NextNumeric(t, kept)
  PROVE  SessionFits'
<1>1. /\ DOMAIN scanner' = Fields /\ scanner'.from = scanner.from
      /\ scanner'.spec = scanner.spec /\ scanner'.dynamic = scanner.dynamic
      /\ scanner'.numeric = kept /\ kept \subseteq scanner.numeric
  BY DEF NextNumeric, Fields, SessionFits, ScannerFits
<1>2. HasResults' => HasResults
  BY <1>1 DEF HasResults
<1>3. scanner.spec # NoSpec => scanner'.numeric = {}
  BY <1>1 DEF SessionFits, ScannerFits, OneKindOfResults
<1>4. QED
  BY <1>1, <1>2, <1>3, ResultsFit DEF SessionFits, ScannerFits, OneKindOfResults

LEMMA NextDynamicStep ==
  ASSUME SessionFits, UNCHANGED <<pid, pointers>>,
         NEW d, NEW kept, NextDynamic(d, kept)
  PROVE  SessionFits'
<1>1. /\ DOMAIN scanner' = Fields /\ scanner'.from = scanner.from
      /\ scanner'.numeric = scanner.numeric
      /\ kept \subseteq scanner.dynamic
  BY DEF NextDynamic, Fields, SessionFits, ScannerFits
<1>2. scanner.spec = NoSpec => scanner'.spec = NoSpec /\ scanner'.dynamic = scanner.dynamic
  BY DEF NextDynamic, Fields, SessionFits, ScannerFits
<1>3. scanner.spec # NoSpec => scanner'.spec # NoSpec /\ scanner'.dynamic = kept
  BY DEF NextDynamic, Fields, SessionFits, ScannerFits
<1>4. HasResults' => HasResults
  BY <1>1, <1>2, <1>3 DEF HasResults
<1>5. QED
  BY <1>1, <1>2, <1>3, <1>4, ResultsFit DEF SessionFits, ScannerFits, OneKindOfResults

LEMMA PointersStep ==
  ASSUME SessionFits, pid \in Pid, UNCHANGED <<pid, scanner>>,
         NEW t, NEW n \in 0..1, PointersFound(t, n)
  PROVE  SessionFits'
<1>1. pointers'.count = n /\ pointers'.from = pid
  BY DEF PointersFound
<1>2. QED
  BY <1>1 DEF SessionFits, ScannerFits, PointersFit, OneKindOfResults, HasResults

\* No operation of the table touches the results.
LEMMA EditStep ==
  ASSUME SessionFits, EditTable \/ VerifyTable \/ ReadAllEntries \/ MoveTable
  PROVE  SessionFits'
<1>1. UNCHANGED <<pid, scanner, pointers>>
  BY DEF EditTable, VerifyTable, ReadAllEntries, MoveTable, AddEntry, AddResultEntry, AddPointerChain,
     RemoveEntry, ClearEntries, ToggleEntry, ReadEntry, ResolveEntry, Save, Load, OnlyTable
<1>2. QED
  BY <1>1, ResultsStay

---------------------------------------------------------------------------
(* The jobs.  A job runs only while a process is attached, and only in the *)
(* web server; one that looks for a string or for bytes names which.       *)

TaskFits(t) == t.kind = "firstDynamic" => t.type \in DynamicTypes

RequestsFit ==
  /\ DOMAIN request = Client
  /\ \A c \in Client : request[c].at = "submit" => TaskFits(request[c].task)

JobFits ==
  /\ job # NoJob => DOMAIN job = {"at", "task"} /\ TaskFits(job.task)
  /\ job.at = "executing" => pid \in Pid /\ front = "web"

IInv == SessionFits /\ RequestsFit /\ JobFits

LEMMA InitInv == ProgramInit => IInv
<1> SUFFICES ASSUME ProgramInit PROVE IInv
  OBVIOUS
<1>1. SessionFits
  <2>1. /\ DOMAIN scanner = Fields /\ scanner.numeric = {} /\ scanner.dynamic = {}
        /\ scanner.spec = NoSpec /\ pointers.count = 0
    BY DEF ProgramInit, Init, SessionInit, Fields, NoPointers
  <2>2. ~HasResults /\ OneKindOfResults
    BY <2>1 DEF HasResults, OneKindOfResults
  <2>3. ScannerFits
    BY <2>1, <2>2 DEF ScannerFits
  <2>4. PointersFit
    BY <2>1 DEF PointersFit
  <2>5. QED
    BY <2>3, <2>4 DEF SessionFits
<1>2. RequestsFit
  BY DEF ProgramInit, Init, RequestsFit, Idle
<1>3. JobFits
  BY DEF ProgramInit, Init, JobFits, NoJob
<1>4. QED
  BY <1>1, <1>2, <1>3 DEF IInv

LEMMA RequestFits ==
  ASSUME RequestsFit, NEW c \in Client, NEW r, r.at = "submit" => TaskFits(r.task),
         request' = [request EXCEPT ![c] = r]
  PROVE  RequestsFit'
BY DEF RequestsFit, TaskFits

LEMMA SubmitFits ==
  ASSUME RequestsFit, NEW c \in Client, NEW task, TaskFits(task), Submit(c, task)
  PROVE  RequestsFit'
<1> DEFINE r == [at |-> "submit", task |-> task]
<1>1. request' = [request EXCEPT ![c] = r] /\ r.task = task
  BY DEF Submit
<1> HIDE DEF r
<1>2. QED
  BY <1>1, RequestFits

\* What a thread looks at before it starts a job changes its request alone.
LEMMA LookStep ==
  ASSUME IInv, UNCHANGED front, NEW c \in Client,
         RequestFirst(c) \/ RequestPattern(c) \/ RequestPointerScan(c)
           \/ RequestNext(c) \/ ReadKind(c) \/ ReadType(c)
  PROVE  IInv'
<1>1. UNCHANGED <<pid, scanner, pointers, job>>
  BY DEF RequestFirst, RequestPattern, RequestPointerScan, RequestNext, ReadKind, ReadType, session
<1>2. SessionFits'
  BY <1>1, ResultsStay DEF IInv
<1>3. JobFits'
  BY <1>1 DEF IInv, JobFits, NoJob, TaskFits
<1>4. RequestsFit
  BY DEF IInv
<1>5. RequestsFit'
  <2>1. ASSUME NEW task, task.kind # "firstDynamic", Submit(c, task) PROVE RequestsFit'
    BY <1>4, <2>1, SubmitFits DEF TaskFits
  <2>2. ASSUME NEW r, r.at # "submit", request' = [request EXCEPT ![c] = r]
        PROVE  RequestsFit'
    BY <1>4, <2>2, RequestFits
  <2>3. CASE RequestFirst(c)
    <3>1. ASSUME NEW t \in NumericTypes, Submit(c, [kind |-> "first", type |-> t])
          PROVE  RequestsFit'
      BY <2>1, <3>1
    <3>2. ASSUME NEW d \in DynamicTypes, Submit(c, [kind |-> "firstDynamic", type |-> d])
          PROVE  RequestsFit'
      BY <1>4, <3>2, SubmitFits DEF TaskFits
    <3>3. QED
      BY <2>3, <3>1, <3>2 DEF RequestFirst
  <2>4. CASE RequestPattern(c)
    BY <2>1, <2>4 DEF RequestPattern
  <2>5. CASE RequestPointerScan(c)
    BY <2>1, <2>5 DEF RequestPointerScan
  <2>6. CASE RequestNext(c)
    BY <2>2, <2>6 DEF RequestNext
  <2>7. CASE ReadKind(c)
    BY <2>1, <2>2, <2>7 DEF ReadKind
  <2>8. CASE ReadType(c)
    BY <2>1, <2>8 DEF ReadType
  <2>9. QED
    BY <2>3, <2>4, <2>5, <2>6, <2>7, <2>8
<1>6. QED
  BY <1>2, <1>3, <1>5 DEF IInv

LEMMA StartJobStep ==
  ASSUME IInv, UNCHANGED front, NEW c \in Client, StartJob(c)
  PROVE  IInv'
<1>1. SessionFits'
  BY ResultsStay DEF IInv, StartJob, session
<1>2. RequestsFit'
  BY DEF IInv, RequestsFit, StartJob, Idle, TaskFits
<1>3. CASE UNCHANGED job
  BY <1>1, <1>2, <1>3 DEF IInv, JobFits, NoJob, TaskFits, StartJob, session
<1>4. CASE job' = [at |-> "queued", task |-> request[c].task]
  <2>1. DOMAIN job' = {"at", "task"} /\ TaskFits(job'.task) /\ job'.at = "queued"
    BY <1>4 DEF IInv, RequestsFit, StartJob, TaskFits
  <2>2. JobFits'
    BY <2>1 DEF JobFits, TaskFits
  <2>3. QED
    BY <1>1, <1>2, <2>2 DEF IInv
<1>5. QED
  BY <1>3, <1>4 DEF StartJob

LEMMA BeginStep ==
  ASSUME IInv, front = "web", UNCHANGED front, Begin
  PROVE  IInv'
<1>1. SessionFits' /\ pid' = pid
  BY ResultsStay DEF IInv, Begin, session
<1>2. RequestsFit'
  BY DEF IInv, RequestsFit, Begin, TaskFits
<1>3. job # NoJob
  BY DEF Begin, NoJob
<1>4. DOMAIN job' = {"at", "task"} /\ job'.task = job.task
  BY <1>3 DEF IInv, JobFits, Begin
<1>5. TaskFits(job'.task)
  BY <1>3, <1>4 DEF IInv, JobFits
<1>6. JobFits'
  BY <1>1, <1>4, <1>5 DEF JobFits, Begin, TaskFits
<1>7. QED
  BY <1>1, <1>2, <1>6 DEF IInv

\* A job that ends, with results that fit or without any.
LEMMA EndStep ==
  ASSUME IInv, SessionFits', job' = NoJob, UNCHANGED request
  PROVE  IInv'
<1>1. RequestsFit'
  BY DEF IInv, RequestsFit, TaskFits
<1>2. JobFits'
  BY DEF JobFits, NoJob
<1>3. QED
  BY <1>1, <1>2 DEF IInv

LEMMA WorkerStepInv ==
  ASSUME IInv, front = "web", UNCHANGED front, WorkerStep
  PROVE  IInv'
<1>1. CASE Begin
  BY <1>1, BeginStep
<1>2. CASE EndWithout
  BY <1>2, ResultsStay, EndStep DEF IInv, EndWithout, session
<1>3. ASSUME job.at = "executing" PROVE job # NoJob /\ pid \in Pid /\ TaskFits(job.task)
  BY <1>3 DEF IInv, JobFits, NoJob
<1>4. CASE PublishFirst
  <2>1. pid \in Pid /\ TaskFits(job.task) /\ UNCHANGED <<pid, pointers>>
    BY <1>3, <1>4 DEF PublishFirst, Is
  <2>2. ASSUME NEW found, FirstNumeric(job.task.type, found) PROVE SessionFits'
    BY <2>1, <2>2, FirstNumericStep DEF IInv
  <2>3. ASSUME NEW found, FirstDynamic(job.task.type, found), job.task.kind = "firstDynamic"
        PROVE  SessionFits'
    <3>1. job.task.type \in DynamicTypes
      BY <2>1, <2>3 DEF TaskFits
    <3>2. QED
      BY <2>1, <2>3, <3>1, FirstDynamicStep DEF IInv
  <2>4. SessionFits'
    BY <1>4, <2>2, <2>3 DEF PublishFirst, Is
  <2>5. QED
    BY <1>4, <2>4, EndStep DEF PublishFirst
<1>5. CASE PublishNext
  <2>1. UNCHANGED <<pid, pointers>>
    BY <1>5 DEF PublishNext
  <2>2. SessionFits'
    BY <1>5, <2>1, NextNumericStep, NextDynamicStep DEF PublishNext, IInv
  <2>3. QED
    BY <1>5, <2>2, EndStep DEF PublishNext
<1>6. CASE PublishPattern
  BY <1>6, ResultsStay, EndStep DEF IInv, PublishPattern, session
<1>7. CASE PublishPointers
  <2>1. pid \in Pid /\ UNCHANGED <<pid, scanner>>
    BY <1>3, <1>7 DEF PublishPointers, Is
  <2>2. SessionFits'
    BY <1>7, <2>1, PointersStep DEF PublishPointers, IInv
  <2>3. QED
    BY <1>7, <2>2, EndStep DEF PublishPointers
<1>8. QED
  BY <1>1, <1>2, <1>4, <1>5, <1>6, <1>7 DEF WorkerStep

\* A handler that holds the mutex, or a command: no job runs meanwhile.
LEMMA HandlerStep ==
  ASSUME IInv, SessionFits', job.at # "executing", UNCHANGED <<web, front>>
  PROVE  IInv'
<1>1. RequestsFit'
  BY DEF IInv, RequestsFit, TaskFits, web
<1>2. JobFits'
  BY DEF IInv, JobFits, NoJob, TaskFits, web
<1>3. QED
  BY <1>1, <1>2 DEF IInv

LEMMA HandleStep ==
  ASSUME IInv, UNCHANGED front, NEW c \in Client,
         HandleProcess(c) \/ HandleEdit(c) \/ HandleVerify(c) \/ HandleFile(c)
  PROVE  IInv'
<1>1. job.at # "executing" /\ UNCHANGED web
  BY DEF HandleProcess, HandleEdit, HandleVerify, HandleFile, Holds, Locked
<1>2. CASE HandleProcess(c)
  BY <1>2, AttachStep, DetachStep, <1>1, HandlerStep DEF HandleProcess, IInv
<1>3. CASE HandleEdit(c) \/ HandleVerify(c) \/ HandleFile(c)
  <2>1. EditTable \/ VerifyTable \/ MoveTable
    BY <1>3 DEF HandleEdit, HandleVerify, HandleFile
  <2>2. QED
    BY <1>1, <2>1, EditStep, HandlerStep DEF IInv
<1>4. QED
  BY <1>2, <1>3

---------------------------------------------------------------------------
(* The command line: its operations on the session are the same ones. *)

LEMMA CommandProcess ==
  ASSUME SessionFits, CommandLine!Process
  PROVE  SessionFits'
<1>1. ASSUME NEW p \in Pid, CommandLine!Attach(p) PROVE Attach(p)
  BY <1>1 DEF CommandLine!Attach, CommandLine!AttachFirst, CommandLine!AttachOther,
     CommandLine!Cleared, CommandLine!NoPointers, CommandLine!MarkAllStale,
     Attach, AttachFirst, AttachOther, Cleared, NoPointers, MarkAllStale
<1>2. ASSUME CommandLine!Detach PROVE Detach
  BY <1>2 DEF CommandLine!Detach, CommandLine!Cleared, CommandLine!NoPointers,
     Detach, Cleared, NoPointers
<1>3. QED
  BY <1>1, <1>2, AttachStep, DetachStep DEF CommandLine!Process

LEMMA CommandFirst ==
  ASSUME SessionFits, CommandLine!First
  PROVE  SessionFits'
<1>1. pid \in Pid /\ UNCHANGED <<pid, pointers>>
  BY DEF CommandLine!First
<1>2. CASE UNCHANGED scanner
  BY <1>1, <1>2, ResultsStay
<1>3. CASE \E t \in NumericTypes, found \in SUBSET Addr : FirstNumeric(t, found)
  BY <1>1, <1>3, FirstNumericStep
<1>4. CASE \E d \in DynamicTypes, found \in SUBSET Addr : FirstDynamic(d, found)
  BY <1>1, <1>4, FirstDynamicStep
<1>5. QED
  BY <1>2, <1>3, <1>4
     DEF CommandLine!First, CommandLine!FirstNumeric, CommandLine!FirstDynamic,
         FirstNumeric, FirstDynamic

LEMMA CommandNext ==
  ASSUME SessionFits, CommandLine!NextOnNumeric \/ CommandLine!NextOnDynamic
  PROVE  SessionFits'
<1>1. UNCHANGED <<pid, pointers>>
  BY DEF CommandLine!NextOnNumeric, CommandLine!NextOnDynamic
<1>2. CASE UNCHANGED scanner
  BY <1>1, <1>2, ResultsStay
<1>3. CASE \E t \in NumericTypes \cup {scanType}, kept \in SUBSET Addr : NextNumeric(t, kept)
  BY <1>1, <1>3, NextNumericStep
<1>4. CASE \E d \in DynamicTypes \cup {scanType, NoSpec}, kept \in SUBSET Addr : NextDynamic(d, kept)
  BY <1>1, <1>4, NextDynamicStep
<1>5. ASSUME CommandLine!NextOnNumeric
      PROVE  \/ UNCHANGED scanner
             \/ \E t \in NumericTypes \cup {scanType}, kept \in SUBSET Addr : NextNumeric(t, kept)
  BY <1>5 DEF CommandLine!NextOnNumeric, CommandLine!NextNumeric, NextNumeric
<1>6. ASSUME CommandLine!NextOnDynamic
      PROVE  \/ UNCHANGED scanner
             \/ \E d \in DynamicTypes \cup {scanType, NoSpec}, kept \in SUBSET Addr :
                  NextDynamic(d, kept)
  BY <1>6 DEF CommandLine!NextOnDynamic, CommandLine!NextDynamic, NextDynamic
<1>7. QED
  BY <1>2, <1>3, <1>4, <1>5, <1>6

LEMMA CommandPointers ==
  ASSUME SessionFits, CommandLine!PointerScan
  PROVE  SessionFits'
<1>1. PICK t \in NumericTypes \cup {scanType}, n \in 0..1 : PointersFound(t, n)
  BY DEF CommandLine!PointerScan, CommandLine!PointersFound, PointersFound
<1>2. pid \in Pid /\ UNCHANGED <<pid, scanner>>
  BY DEF CommandLine!PointerScan
<1>3. QED
  BY <1>1, <1>2, PointersStep

LEMMA CommandTable ==
  ASSUME SessionFits, CommandLine!Edit \/ CommandLine!Verify \/ CommandLine!File
  PROVE  SessionFits'
<1>1. UNCHANGED <<pid, scanner, pointers>>
  BY DEF CommandLine!Edit, CommandLine!Verify, CommandLine!File,
     CommandLine!EditTable, CommandLine!VerifyTable, CommandLine!ReadAllEntries,
     CommandLine!MoveTable, CommandLine!AddEntry, CommandLine!AddResultEntry,
     CommandLine!AddPointerChain, CommandLine!RemoveEntry, CommandLine!ClearEntries,
     CommandLine!ToggleEntry, CommandLine!ReadEntry, CommandLine!ResolveEntry,
     CommandLine!Save, CommandLine!Load, CommandLine!OnlyTable
<1>2. QED
  BY <1>1, ResultsStay

---------------------------------------------------------------------------
(* Both front ends *)

LEMMA InvStep == IInv /\ [ProgramNext]_program => IInv'
<1> SUFFICES ASSUME IInv, [ProgramNext]_program PROVE IInv'
  OBVIOUS
<1>1. CASE RunRepl
  <2>1. job.at # "executing" /\ UNCHANGED <<web, front>>
    BY <1>1 DEF RunRepl, IInv, JobFits
  <2>2. SessionFits'
    BY <1>1, CommandProcess, CommandFirst, CommandNext, CommandPointers, CommandTable
       DEF RunRepl, IInv, CommandLine!Next
  <2>3. QED
    BY <2>1, <2>2, HandlerStep
<1>2. CASE RunWeb
  <2>1. front = "web" /\ UNCHANGED front
    BY <1>2 DEF RunWeb
  <2>2. CASE WorkerStep
    BY <2>1, <2>2, WorkerStepInv
  <2>3. ASSUME NEW c \in Client, ClientStep(c) PROVE IInv'
    BY <2>1, <2>3, LookStep, StartJobStep, HandleStep DEF ClientStep
  <2>4. QED
    BY <1>2, <2>2, <2>3 DEF RunWeb, Next
<1>3. CASE UNCHANGED program
  <2>1. UNCHANGED <<pid, scanner, pointers, request, job, front>>
    BY <1>3 DEF program, vars, session, web
  <2>2. SessionFits'
    BY <2>1, ResultsStay DEF IInv
  <2>3. QED
    BY <2>1, <2>2 DEF IInv, RequestsFit, JobFits, NoJob, TaskFits
<1>4. QED
  BY <1>1, <1>2, <1>3 DEF ProgramNext

LEMMA Invariant == ProgramSpec => []IInv
BY InitInv, InvStep, PTL DEF ProgramSpec

\* Whichever front end runs, with any number of clients and whatever a job
\* finds, scan results and pointer chains are of the attached process
\* (session.cpp attach and detach clear what a job of another one left, and
\* no job publishes once the process has changed).
THEOREM Belongs == ProgramSpec => []ResultsBelongToProcess
<1>1. IInv => ResultsBelongToProcess
  BY DEF IInv, SessionFits, ScannerFits, PointersFit, ResultsBelongToProcess
<1>2. QED
  BY <1>1, Invariant, PTL

\* Numeric and dynamic results never coexist: a first scan of one kind drops
\* the other's, and a next scan that a job runs late keeps to the kind there
\* is, not to the kind its request saw (scanner.cpp next_scan).
THEOREM OneKind == ProgramSpec => []OneKindOfResults
<1>1. IInv => OneKindOfResults
  BY DEF IInv, SessionFits, ScannerFits
<1>2. QED
  BY <1>1, Invariant, PTL
---------------------------------------------------------------------------
(* The types, and the table: a fresh entry is known in the attached        *)
(* process, or in none.                                                    *)

Known(p) == {e \in Entry : e.stale \/ e.owner \in {p, NoPid}}

TableFits ==
  /\ pid \in Pid \cup {NoPid}
  /\ table \in Seq(Known(pid)) /\ Len(table) <= MaxTable
  /\ file \in Seq(Line) /\ Len(file) <= MaxTable

ResultsTyped ==
  /\ scanner \in [numeric : SUBSET Addr, dynamic : SUBSET Addr,
                  spec : Types \cup {NoSpec}, type : NumericTypes,
                  from : Pid \cup {NoPid}]
  /\ scanType \in Types
  /\ pointers \in [from : Pid \cup {NoPid}, type : Types, count : Nat]

\* What a task was started with fits its kind.
TaskTyped(t) ==
  \/ t.kind \in {"first", "next"} /\ t.type \in NumericTypes
  \/ t.kind = "firstDynamic" /\ t.type \in DynamicTypes
  \/ t.kind = "nextDynamic" /\ t.type \in Types \cup {NoSpec}
  \/ t.kind = "pointer" /\ t.type \in Types
  \/ t.kind = "pattern"

JobsTyped ==
  /\ \A c \in Client :
       /\ request[c].at \in {"idle", "kind", "type", "submit"}
       /\ request[c].at = "type" => request[c].dynamic \in BOOLEAN
       /\ request[c].at = "submit" => TaskTyped(request[c].task)
  /\ job.at \in {"none", "queued", "executing"}
  /\ job # NoJob => TaskTyped(job.task)
  /\ hits \in Pid \cup {NoHits}

TypesFit == TableFits /\ ResultsTyped /\ JobsTyped

\* A table changed entry by entry.
LEMMA EntryByEntry ==
  ASSUME NEW S, NEW T, NEW old \in Seq(S),
         NEW new, new = [i \in DOMAIN old |-> new[i]], \A i \in 1..Len(old) : new[i] \in T
  PROVE  new \in Seq(T) /\ Len(new) = Len(old)
<1>1. PICK n \in Nat : n = Len(old) /\ DOMAIN old = 1..n
  OBVIOUS
<1>2. new \in [1..n -> T]
  BY <1>1
<1>3. QED
  BY <1>1, <1>2

LEMMA EntriesKnown ==
  ASSUME NEW p, TableFits, p = pid, NEW i \in 1..Len(table)
  PROVE  table[i] \in Known(p) /\ table[i] \in Entry
<1> DEFINE S == Known(pid)
<1>1. table \in Seq(S) /\ S \subseteq Entry
  BY DEF TableFits, Known
<1> HIDE DEF S
<1>2. table[i] \in S
  BY <1>1
<1>3. QED
  BY <1>1, <1>2 DEF S

\* An entry that is marked, and one that has been read.
LEMMA MarkedEntry ==
  ASSUME NEW e \in Entry, NEW p \in Pid \cup {NoPid}
  PROVE  /\ [e EXCEPT !.stale = TRUE] \in Known(p)
         /\ [e EXCEPT !.owner = NoPid] \in Known(p)
         /\ [e EXCEPT !.stale = FALSE, !.owner = p] \in Known(p)
BY DEF Entry, Known

\* A step that changes the entries where they are.
LEMMA ChangedFits ==
  ASSUME TableFits, NEW p \in Pid \cup {NoPid}, pid' = p, file' = file,
         table' = [i \in DOMAIN table |-> table'[i]],
         \A i \in 1..Len(table) : table'[i] \in Known(p)
  PROVE  TableFits'
<1> DEFINE S == Known(pid)
           T == Known(p)
<1>1. /\ table \in Seq(S) /\ Len(table) <= MaxTable
      /\ file' \in Seq(Line) /\ Len(file') <= MaxTable
  BY DEF TableFits
<1>2. \A i \in 1..Len(table) : table'[i] \in T
  OBVIOUS
<1> HIDE DEF S, T
<1>3. table' \in Seq(T) /\ Len(table') = Len(table)
  BY <1>1, <1>2, EntryByEntry
<1>4. QED
  BY <1>1, <1>3 DEF TableFits, T

LEMMA AttachFits ==
  ASSUME TableFits, NEW p \in Pid, Attach(p)
  PROVE  TableFits'
<1>1. pid' = p /\ file' = file
  BY DEF Attach, AttachFirst, AttachOther
<1>2. DOMAIN table = 1..Len(table)
  BY DEF TableFits
<1>3. CASE AttachFirst(p)
  <2>1. table' = table
    BY <1>3 DEF AttachFirst
  <2>2. \A i \in 1..Len(table) : table'[i] \in Known(p)
    BY <1>3, <2>1, EntriesKnown DEF AttachFirst, Known
  <2>3. table' = [i \in DOMAIN table |-> table'[i]]
    BY <2>1 DEF TableFits
  <2>4. QED
    BY <1>1, <2>2, <2>3, ChangedFits
<1>4. CASE AttachOther(p)
  <2>1. table' = [i \in DOMAIN table |-> [table[i] EXCEPT !.stale = TRUE]]
    BY <1>4 DEF AttachOther, MarkAllStale
  <2>2. \A i \in 1..Len(table) : table'[i] \in Known(p)
    <3>1. ASSUME NEW i \in 1..Len(table) PROVE [table[i] EXCEPT !.stale = TRUE] \in Known(p)
      BY EntriesKnown, MarkedEntry
    <3>2. QED
      BY <1>2, <2>1, <3>1
  <2>3. table' = [i \in DOMAIN table |-> table'[i]]
    BY <2>1
  <2>4. QED
    BY <1>1, <2>2, <2>3, ChangedFits
<1>5. QED
  BY <1>3, <1>4 DEF Attach

LEMMA DetachFits ==
  ASSUME TableFits, Detach
  PROVE  TableFits'
<1>1. /\ pid' = NoPid /\ file' = file
      /\ table' = [i \in DOMAIN table |-> [table[i] EXCEPT !.owner = NoPid]]
  BY DEF Detach
<1>2. DOMAIN table = 1..Len(table)
  BY DEF TableFits
<1>3. \A i \in 1..Len(table) : table'[i] \in Known(NoPid)
  <2>1. ASSUME NEW i \in 1..Len(table) PROVE [table[i] EXCEPT !.owner = NoPid] \in Known(NoPid)
    BY EntriesKnown, MarkedEntry
  <2>2. QED
    BY <1>1, <1>2, <2>1
<1>4. table' = [i \in DOMAIN table |-> table'[i]]
  BY <1>1
<1>5. QED
  BY <1>1, <1>3, <1>4, ChangedFits

LEMMA AddedFits ==
  ASSUME TableFits, Len(table) < MaxTable, UNCHANGED <<pid, file>>,
         NEW a \in Addr, NEW t \in Types, NEW chain \in BOOLEAN, table' = Added(a, t, chain)
  PROVE  TableFits'
<1> DEFINE S == Known(pid)
           e == [addr |-> a, type |-> t, chain |-> chain,
                 enabled |-> TRUE, stale |-> FALSE, owner |-> pid]
<1>1. /\ table \in Seq(S) /\ pid \in Pid \cup {NoPid} /\ MaxTable \in Nat
      /\ file \in Seq(Line) /\ Len(file) <= MaxTable
  BY SessionAssumption DEF TableFits
<1>2. e \in S
  BY <1>1 DEF Known, Entry
<1>3. table' = Append(table, e)
  BY DEF Added
<1> HIDE DEF S, e
<1>4. table' \in Seq(S) /\ Len(table') = Len(table) + 1 /\ Len(table) \in Nat
  BY <1>1, <1>2, <1>3, AppendProperties
<1>5. Len(table') <= MaxTable
  BY <1>1, <1>4
<1>6. QED
  BY <1>1, <1>4, <1>5 DEF TableFits, S

LEMMA RemovedFits ==
  ASSUME TableFits, RemoveEntry
  PROVE  TableFits'
<1> DEFINE S == Known(pid)
<1>1. /\ table \in Seq(S) /\ Len(table) <= MaxTable /\ MaxTable \in Nat
      /\ UNCHANGED <<pid, file>> /\ file \in Seq(Line) /\ Len(file) <= MaxTable
      /\ pid \in Pid \cup {NoPid}
  BY SessionAssumption DEF TableFits, RemoveEntry, OnlyTable
<1>2. PICK n \in Nat : n = Len(table) /\ DOMAIN table = 1..n
  BY <1>1
<1>3. PICK i \in 1..n : table' = SubSeq(table, 1, i - 1) \o SubSeq(table, i + 1, n)
  BY <1>2 DEF RemoveEntry, RemoveAt
<1> HIDE DEF S
<1>4. \A k \in 1..n : table[k] \in S
  BY <1>1, <1>2
<1>5. SubSeq(table, 1, i - 1) \in Seq(S) /\ Len(SubSeq(table, 1, i - 1)) = i - 1
  <2>1. 1 \in Int /\ i - 1 \in Int /\ \A k \in 1..(i - 1) : table[k] \in S
    BY <1>4
  <2>2. /\ SubSeq(table, 1, i - 1) \in Seq(S)
        /\ Len(SubSeq(table, 1, i - 1)) = IF 1 <= i - 1 THEN (i - 1) - 1 + 1 ELSE 0
    BY <2>1, SubSeqProperties
  <2>3. QED
    BY <2>2
<1>6. SubSeq(table, i + 1, n) \in Seq(S) /\ Len(SubSeq(table, i + 1, n)) = n - i
  <2>1. i + 1 \in Int /\ n \in Int /\ \A k \in (i + 1)..n : table[k] \in S
    BY <1>4
  <2>2. /\ SubSeq(table, i + 1, n) \in Seq(S)
        /\ Len(SubSeq(table, i + 1, n)) = IF i + 1 <= n THEN n - (i + 1) + 1 ELSE 0
    BY <2>1, SubSeqProperties
  <2>3. QED
    BY <2>2
<1>7. table' \in Seq(S) /\ Len(table') = (i - 1) + (n - i)
  BY <1>3, <1>5, <1>6, ConcatProperties
<1>8. Len(table') <= MaxTable
  BY <1>1, <1>2, <1>7
<1>9. QED
  BY <1>1, <1>7, <1>8 DEF TableFits, S

LEMMA ToggledFits ==
  ASSUME TableFits, ToggleEntry
  PROVE  TableFits'
<1>1. UNCHANGED <<pid, file>> /\ pid \in Pid \cup {NoPid} /\ DOMAIN table = 1..Len(table)
  BY DEF TableFits, ToggleEntry, OnlyTable
<1>2. PICK j \in DOMAIN table : table' = [table EXCEPT ![j].enabled = ~@]
  BY DEF ToggleEntry
<1>3. \A i \in 1..Len(table) : table'[i] \in Known(pid)
  <2>1. ASSUME NEW i \in 1..Len(table)
        PROVE  table[i] \in Known(pid) /\ [table[i] EXCEPT !.enabled = ~@] \in Known(pid)
    BY EntriesKnown DEF Known, Entry
  <2>2. \A i \in DOMAIN table :
          table'[i] = IF i = j THEN [table[i] EXCEPT !.enabled = ~@] ELSE table[i]
    BY <1>2
  <2>3. QED
    BY <1>1, <2>1, <2>2
<1>4. table' = [i \in DOMAIN table |-> table'[i]]
  <2>1. DOMAIN table' = DOMAIN table /\ table' = [i \in DOMAIN table' |-> table'[i]]
    BY <1>2
  <2>2. QED
    BY <2>1
<1>5. QED
  BY <1>1, <1>3, <1>4, ChangedFits

LEMMA VerifiedFits ==
  ASSUME TableFits, pid \in Pid, UNCHANGED <<pid, file>>, NEW S, Verified(S)
  PROVE  TableFits'
<1>1. /\ DOMAIN table = 1..Len(table)
      /\ table' = [i \in DOMAIN table |->
                     IF i \in S THEN [table[i] EXCEPT !.stale = FALSE, !.owner = pid]
                     ELSE table[i]]
  <2>1. DOMAIN table = 1..Len(table)
    BY DEF TableFits
  <2>2. QED
    BY <2>1 DEF Verified
<1>2. \A i \in 1..Len(table) : table'[i] \in Known(pid)
  <2>1. ASSUME NEW i \in 1..Len(table)
        PROVE  /\ table[i] \in Known(pid)
               /\ [table[i] EXCEPT !.stale = FALSE, !.owner = pid] \in Known(pid)
    BY EntriesKnown, MarkedEntry
  <2>2. QED
    BY <1>1, <2>1
<1>3. table' = [i \in DOMAIN table |-> table'[i]]
  BY <1>1
<1>4. QED
  BY <1>2, <1>3, ChangedFits

LEMMA SavedFits ==
  ASSUME TableFits, Save
  PROVE  TableFits'
<1>1. UNCHANGED <<pid, table>> /\ MaxTable \in Nat
  BY SessionAssumption DEF Save
<1>2. PICK m \in Nat : m = Len(table) /\ m <= MaxTable
  BY DEF TableFits
<1>3. PICK n \in 0..m :
        file' = [i \in 1..n |-> [addr |-> table[i].addr, type |-> table[i].type,
                                 chain |-> table[i].chain, enabled |-> table[i].enabled]]
  BY <1>2 DEF Save
<1>4. \A i \in 1..n : [addr |-> table[i].addr, type |-> table[i].type,
                       chain |-> table[i].chain, enabled |-> table[i].enabled] \in Line
  <2>1. ASSUME NEW i \in 1..n PROVE table[i] \in Entry
    BY <1>2, EntriesKnown
  <2>2. QED
    BY <2>1 DEF Entry, Line
<1> DEFINE L == Line
<1>5. file' \in [1..n -> L] /\ n \in Nat
  BY <1>3, <1>4
<1> HIDE DEF L
<1>6. file' \in Seq(L) /\ Len(file') = n
  BY <1>5
<1>7. Len(file') <= MaxTable
  BY <1>1, <1>2, <1>6
<1>8. QED
  BY <1>1, <1>6, <1>7 DEF TableFits, L

LEMMA LoadedFits ==
  ASSUME TableFits, Load
  PROVE  TableFits'
<1> DEFINE S == {i \in DOMAIN file : file[i].type \in NumericTypes}
           known == Ascending(S)
           L == Line
           K == Known(pid)
<1>1. UNCHANGED <<pid, file>> /\ file \in Seq(L) /\ pid \in Pid \cup {NoPid} /\ MaxTable \in Nat
  BY SessionAssumption DEF TableFits, Load, OnlyTable
<1> HIDE DEF L
<1>2. PICK m \in Nat : m = Len(file) /\ DOMAIN file = 1..m /\ m <= MaxTable
  BY <1>1 DEF TableFits
<1>3. \A i \in 1..m : file[i] \in L
  BY <1>1, <1>2
<1>4. /\ S \in SUBSET (1..m) /\ S \in SUBSET Int
      /\ IsFiniteSet(S) /\ Cardinality(S) <= m
  <2>1. S \in SUBSET (1..m) /\ S \in SUBSET Int
    BY <1>2
  <2> HIDE DEF S
  <2>2. IsFiniteSet(1..m) /\ Cardinality(1..m) = m
    BY FS_Interval
  <2>3. QED
    BY <2>1, <2>2, FS_Subset
<1>5. table' = [k \in DOMAIN known |-> Loaded(file[known[k]])]
  BY DEF Load
<1> HIDE DEF S, known
<1>6. PICK n \in Nat : /\ n = Cardinality(S) /\ DOMAIN known = 1..n
                       /\ \A i \in 1..n : known[i] \in S
  BY <1>4, AscendingFacts DEF known
<1>7. \A k \in 1..n : Loaded(file[known[k]]) \in K
  <2>1. ASSUME NEW k \in 1..n PROVE file[known[k]] \in Line
    BY <1>3, <1>4, <1>6 DEF L
  <2>2. ASSUME NEW e \in Line PROVE Loaded(e) \in K
    BY DEF Loaded, Known, Line, Entry
  <2>3. QED
    BY <2>1, <2>2
<1> HIDE DEF K
<1>8. table' \in [1..n -> K]
  BY <1>5, <1>6, <1>7
<1>9. table' \in Seq(K) /\ Len(table') = n
  BY <1>8
<1>10. Len(table') <= MaxTable
  BY <1>1, <1>2, <1>4, <1>6, <1>9
<1>11. QED
  BY <1>1, <1>2, <1>9, <1>10 DEF TableFits, K, L

LEMMA TableStays ==
  ASSUME TableFits, UNCHANGED <<pid, table, file>>
  PROVE  TableFits'
BY DEF TableFits

\* Every operation of the table, the entry's type being one there is.
LEMMA TableStep ==
  ASSUME TableFits, ResultsTyped, EditTable \/ VerifyTable \/ ReadAllEntries \/ MoveTable
  PROVE  TableFits' /\ ResultsTyped'
<1>1. UNCHANGED <<pid, scanner, scanType, pointers>>
  BY DEF EditTable, VerifyTable, ReadAllEntries, MoveTable, AddEntry, AddResultEntry, AddPointerChain,
     RemoveEntry, ClearEntries, ToggleEntry, ReadEntry, ResolveEntry, Save, Load, OnlyTable
<1>2. ResultsTyped'
  BY <1>1 DEF ResultsTyped
<1>3. /\ scanner.numeric \in SUBSET Addr /\ scanType \in Types /\ pointers.type \in Types
      /\ NumericTypes \subseteq Types
  BY DEF ResultsTyped, Types
<1>4. CASE AddEntry \/ AddResultEntry \/ AddPointerChain
  <2>1. Len(table) < MaxTable /\ UNCHANGED <<pid, file>>
    BY <1>4 DEF AddEntry, AddResultEntry, AddPointerChain, OnlyTable
  <2>2. \E a \in Addr, t \in Types, chain \in BOOLEAN : table' = Added(a, t, chain)
    BY <1>3, <1>4 DEF AddEntry, AddResultEntry, AddPointerChain
  <2>3. QED
    BY <1>2, <2>1, <2>2, AddedFits
<1>5. CASE ClearEntries
  <2>1. table' = <<>> /\ UNCHANGED <<pid, file>>
    BY <1>5 DEF ClearEntries, OnlyTable
  <2>2. <<>> \in Seq(Known(pid)) /\ Len(<<>>) <= MaxTable
    BY SessionAssumption
  <2>3. QED
    BY <1>2, <2>1, <2>2 DEF TableFits
<1>6. CASE ReadEntry \/ ResolveEntry \/ ReadAllEntries
  <2>1. pid \in Pid /\ UNCHANGED <<pid, file>> /\ \E S : Verified(S)
    BY <1>6 DEF ReadEntry, ResolveEntry, ReadAllEntries, OnlyTable
  <2>2. QED
    BY <1>2, <2>1, VerifiedFits
<1>7. CASE RemoveEntry \/ ToggleEntry \/ Save \/ Load
  BY <1>2, <1>7, RemovedFits, ToggledFits, SavedFits, LoadedFits
<1>8. QED
  BY <1>4, <1>5, <1>6, <1>7 DEF EditTable, VerifyTable, MoveTable

LEMMA ProcessStep ==
  ASSUME TableFits, ResultsTyped, (\E p \in Pid : Attach(p)) \/ Detach
  PROVE  TableFits' /\ ResultsTyped'
<1>1. TableFits'
  BY AttachFits, DetachFits
<1>2. /\ scanType' = scanType
      /\ scanner' = scanner \/ scanner' = Cleared
      /\ pointers' = pointers \/ pointers' = NoPointers
  BY DEF Attach, AttachFirst, AttachOther, Detach
<1>3. /\ Cleared \in [numeric : SUBSET Addr, dynamic : SUBSET Addr,
                      spec : Types \cup {NoSpec}, type : NumericTypes, from : Pid \cup {NoPid}]
      /\ NoPointers \in [from : Pid \cup {NoPid}, type : Types, count : Nat]
  BY SessionAssumption DEF ResultsTyped, Cleared, NoPointers, Types
<1>4. ResultsTyped'
  BY <1>2, <1>3 DEF ResultsTyped
<1>5. QED
  BY <1>1, <1>4

\* What a scan that ran to its end leaves of the results.
ResultsOfScan ==
  \/ UNCHANGED scanner
  \/ \E t \in NumericTypes, found \in SUBSET Addr : FirstNumeric(t, found)
  \/ \E d \in DynamicTypes, found \in SUBSET Addr : FirstDynamic(d, found)
  \/ \E t \in NumericTypes, kept \in SUBSET Addr : NextNumeric(t, kept)
  \/ \E d \in Types \cup {NoSpec}, kept \in SUBSET Addr : NextDynamic(d, kept)

LEMMA ScanStep ==
  ASSUME TableFits, ResultsTyped, scanType' \in Types, UNCHANGED <<pid, pointers, table, file>>,
         ResultsOfScan
  PROVE  TableFits' /\ ResultsTyped'
<1>1. pid \in Pid \cup {NoPid} /\ DynamicTypes \subseteq Types
  BY DEF TableFits, Types
<1>2. scanner' \in [numeric : SUBSET Addr, dynamic : SUBSET Addr,
                    spec : Types \cup {NoSpec}, type : NumericTypes, from : Pid \cup {NoPid}]
  <2>1. CASE UNCHANGED scanner
    BY <2>1 DEF ResultsTyped
  <2>2. ASSUME NEW t \in NumericTypes, NEW found \in SUBSET Addr, FirstNumeric(t, found)
        PROVE  scanner' \in [numeric : SUBSET Addr, dynamic : SUBSET Addr,
                 spec : Types \cup {NoSpec}, type : NumericTypes, from : Pid \cup {NoPid}]
    BY <1>1, <2>2 DEF FirstNumeric
  <2>3. ASSUME NEW d \in DynamicTypes, NEW found \in SUBSET Addr, FirstDynamic(d, found)
        PROVE  scanner' \in [numeric : SUBSET Addr, dynamic : SUBSET Addr,
                 spec : Types \cup {NoSpec}, type : NumericTypes, from : Pid \cup {NoPid}]
    BY <1>1, <2>3 DEF FirstDynamic, ResultsTyped
  <2>4. ASSUME NEW t \in NumericTypes, NEW kept \in SUBSET Addr, NextNumeric(t, kept)
        PROVE  scanner' \in [numeric : SUBSET Addr, dynamic : SUBSET Addr,
                 spec : Types \cup {NoSpec}, type : NumericTypes, from : Pid \cup {NoPid}]
    BY <2>4 DEF NextNumeric, ResultsTyped
  <2>5. ASSUME NEW d \in Types \cup {NoSpec}, NEW kept \in SUBSET Addr, NextDynamic(d, kept)
        PROVE  scanner' \in [numeric : SUBSET Addr, dynamic : SUBSET Addr,
                 spec : Types \cup {NoSpec}, type : NumericTypes, from : Pid \cup {NoPid}]
    BY <2>5 DEF NextDynamic, ResultsTyped
  <2>6. QED
    BY <2>1, <2>2, <2>3, <2>4, <2>5 DEF ResultsOfScan
<1>3. QED
  BY <1>2, TableStays DEF ResultsTyped

LEMMA PointersStepTyped ==
  ASSUME TableFits, ResultsTyped, UNCHANGED <<pid, scanner, scanType, table, file>>,
         NEW t \in Types, NEW n \in 0..1, PointersFound(t, n)
  PROVE  TableFits' /\ ResultsTyped'
<1>1. pointers' \in [from : Pid \cup {NoPid}, type : Types, count : Nat]
  BY DEF PointersFound, TableFits
<1>2. QED
  BY <1>1, TableStays DEF ResultsTyped

---------------------------------------------------------------------------
(* The command line's own operations, which are the session's. *)

LEMMA SameOperations ==
  /\ CommandLine!Process => (\E p \in Pid : Attach(p)) \/ Detach
  /\ CommandLine!Edit => EditTable
  /\ CommandLine!Verify => VerifyTable \/ ReadAllEntries
  /\ CommandLine!File => MoveTable
<1>1. CommandLine!Process => (\E p \in Pid : Attach(p)) \/ Detach
  BY DEF CommandLine!Process, CommandLine!Attach, CommandLine!AttachFirst, CommandLine!AttachOther,
     CommandLine!Cleared, CommandLine!NoPointers, CommandLine!MarkAllStale, CommandLine!Detach,
     Attach, AttachFirst, AttachOther, Cleared, NoPointers, MarkAllStale, Detach
<1>2. CommandLine!Edit => EditTable
  BY DEF CommandLine!Edit, CommandLine!EditTable, CommandLine!AddEntry, CommandLine!AddResultEntry,
     CommandLine!AddPointerChain, CommandLine!RemoveEntry, CommandLine!ClearEntries,
     CommandLine!ToggleEntry, CommandLine!Added, CommandLine!RemoveAt, CommandLine!OnlyTable,
     EditTable, AddEntry, AddResultEntry, AddPointerChain, RemoveEntry, ClearEntries,
     ToggleEntry, Added, RemoveAt, OnlyTable
<1>3. CommandLine!Verify => VerifyTable \/ ReadAllEntries
  BY DEF CommandLine!Verify, CommandLine!VerifyTable, CommandLine!ReadAllEntries,
     CommandLine!ReadEntry, CommandLine!ResolveEntry, CommandLine!Verified, CommandLine!Enabled,
     CommandLine!OnlyTable,
     VerifyTable, ReadAllEntries, ReadEntry, ResolveEntry, Verified, Enabled, OnlyTable
<1>4. CommandLine!File => MoveTable
  <2>1. \A S : CommandLine!Ascending(S) = Ascending(S)
    BY DEF CommandLine!Ascending, CommandLine!Sorted, CommandLine!Below, CommandLine!Cardinality,
       Ascending, Sorted, Below, Cardinality
  <2>2. \A e : CommandLine!Loaded(e) = Loaded(e)
    BY DEF CommandLine!Loaded, Loaded
  <2>3. CommandLine!Load => Load
    BY <2>1, <2>2 DEF CommandLine!Load, CommandLine!OnlyTable, Load, OnlyTable
  <2>4. CommandLine!Save => Save
    BY DEF CommandLine!Save, Save
  <2>5. QED
    BY <2>3, <2>4 DEF CommandLine!File, CommandLine!MoveTable, MoveTable
<1>5. QED
  BY <1>1, <1>2, <1>3, <1>4

---------------------------------------------------------------------------
(* The jobs and what they were started with *)

LEMMA RequestTyped ==
  ASSUME JobsTyped, RequestsFit, UNCHANGED <<job, hits>>, NEW c \in Client, NEW r,
         request' = [request EXCEPT ![c] = r],
         r.at \in {"idle", "kind", "type", "submit"},
         r.at = "type" => r.dynamic \in BOOLEAN,
         r.at = "submit" => TaskTyped(r.task)
  PROVE  JobsTyped'
BY DEF JobsTyped, RequestsFit, TaskTyped, NoJob

LEMMA SubmitTyped ==
  ASSUME JobsTyped, RequestsFit, UNCHANGED <<job, hits>>, NEW c \in Client, NEW task,
         TaskTyped(task), Submit(c, task)
  PROVE  JobsTyped'
<1> DEFINE r == [at |-> "submit", task |-> task]
<1>1. request' = [request EXCEPT ![c] = r] /\ r.at = "submit" /\ r.task = task
  BY DEF Submit
<1> HIDE DEF r
<1>2. QED
  BY <1>1, RequestTyped

LEMMA LookTyped ==
  ASSUME IInv, TypesFit, NEW c \in Client,
         RequestFirst(c) \/ RequestPattern(c) \/ RequestPointerScan(c)
           \/ RequestNext(c) \/ ReadKind(c) \/ ReadType(c)
  PROVE  TypesFit'
<1>1. UNCHANGED <<session, job, hits>>
  BY DEF RequestFirst, RequestPattern, RequestPointerScan, RequestNext, ReadKind, ReadType
<1>2. TableFits' /\ ResultsTyped'
  BY <1>1, TableStays DEF TypesFit, ResultsTyped, session
<1>3. JobsTyped /\ RequestsFit /\ UNCHANGED <<job, hits>>
  BY <1>1 DEF TypesFit, IInv
<1>4. /\ scanType \in Types /\ scanner.type \in NumericTypes
      /\ scanner.spec \in Types \cup {NoSpec}
      /\ NumericTypes \subseteq Types /\ DynamicTypes \subseteq Types
  BY DEF TypesFit, ResultsTyped, Types
<1>5. ASSUME NEW task, TaskTyped(task), Submit(c, task) PROVE JobsTyped'
  BY <1>3, <1>5, SubmitTyped
<1>6. ASSUME RequestFirst(c) PROVE JobsTyped'
  <2>1. ASSUME NEW t \in NumericTypes, Submit(c, [kind |-> "first", type |-> t]) PROVE JobsTyped'
    <3>1. TaskTyped([kind |-> "first", type |-> t])
      BY DEF TaskTyped
    <3>2. QED
      BY <1>5, <2>1, <3>1
  <2>2. ASSUME NEW d \in DynamicTypes, Submit(c, [kind |-> "firstDynamic", type |-> d])
        PROVE  JobsTyped'
    <3>1. TaskTyped([kind |-> "firstDynamic", type |-> d])
      BY DEF TaskTyped
    <3>2. QED
      BY <1>5, <2>2, <3>1
  <2>3. QED
    BY <1>6, <2>1, <2>2 DEF RequestFirst
<1>7. ASSUME RequestPattern(c) PROVE JobsTyped'
  <2>1. TaskTyped([kind |-> "pattern"]) /\ Submit(c, [kind |-> "pattern"])
    BY <1>7 DEF TaskTyped, RequestPattern
  <2>2. QED
    BY <1>5, <2>1
<1>8. ASSUME RequestPointerScan(c) PROVE JobsTyped'
  <2>1. PICK t \in Types : Submit(c, [kind |-> "pointer", type |-> t])
    BY <1>4, <1>8 DEF RequestPointerScan
  <2>2. TaskTyped([kind |-> "pointer", type |-> t])
    BY DEF TaskTyped
  <2>3. QED
    BY <1>5, <2>1, <2>2
<1>9. ASSUME RequestNext(c) PROVE JobsTyped'
  <2> DEFINE r == [at |-> "kind"]
  <2>1. /\ request' = [request EXCEPT ![c] = r]
        /\ r.at \in {"idle", "kind", "type", "submit"}
        /\ r.at # "type" /\ r.at # "submit"
    BY <1>9 DEF RequestNext
  <2> HIDE DEF r
  <2>2. QED
    BY <1>3, <2>1, RequestTyped
<1>10. ASSUME ReadKind(c) PROVE JobsTyped'
  <2>1. ASSUME request' = [request EXCEPT ![c] = [at |-> "type", dynamic |-> scanner.spec # NoSpec]]
        PROVE  JobsTyped'
    <3> DEFINE dynamic == scanner.spec # NoSpec
               r == [at |-> "type", dynamic |-> dynamic]
    <3>1. dynamic \in BOOLEAN
      OBVIOUS
    <3> HIDE DEF dynamic
    <3>2. /\ r.at \in {"idle", "kind", "type", "submit"}
          /\ r.at # "submit" /\ r.dynamic \in BOOLEAN
      BY <3>1
    <3>3. request' = [request EXCEPT ![c] = r]
      BY <2>1 DEF dynamic
    <3> HIDE DEF r
    <3>4. QED
      BY <1>3, <3>2, <3>3, RequestTyped
  <2>2. ASSUME Submit(c, [kind |-> "nextDynamic", type |-> NoSpec]) PROVE JobsTyped'
    <3>1. TaskTyped([kind |-> "nextDynamic", type |-> NoSpec])
      BY DEF TaskTyped
    <3>2. QED
      BY <1>5, <2>2, <3>1
  <2>3. QED
    BY <1>10, <2>1, <2>2 DEF ReadKind
<1>11. ASSUME ReadType(c) PROVE JobsTyped'
  <2>1. ASSUME NEW d \in Types \cup {NoSpec}, Submit(c, [kind |-> "nextDynamic", type |-> d])
        PROVE  JobsTyped'
    <3>1. TaskTyped([kind |-> "nextDynamic", type |-> d])
      BY DEF TaskTyped
    <3>2. QED
      BY <1>5, <2>1, <3>1
  <2>2. ASSUME Submit(c, [kind |-> "next", type |-> scanner.type]) PROVE JobsTyped'
    <3>1. TaskTyped([kind |-> "next", type |-> scanner.type])
      BY <1>4 DEF TaskTyped
    <3>2. QED
      BY <1>5, <2>2, <3>1
  <2>3. \/ \E d \in Types \cup {NoSpec} : Submit(c, [kind |-> "nextDynamic", type |-> d])
        \/ Submit(c, [kind |-> "next", type |-> scanner.type])
    BY <1>4, <1>11 DEF ReadType
  <2>4. QED
    BY <2>1, <2>2, <2>3
<1>12. JobsTyped'
  BY <1>6, <1>7, <1>8, <1>9, <1>10, <1>11
<1>13. QED
  BY <1>2, <1>12 DEF TypesFit

LEMMA StartJobTyped ==
  ASSUME IInv, TypesFit, NEW c \in Client, StartJob(c)
  PROVE  TypesFit'
<1>1. TableFits' /\ ResultsTyped'
  BY TableStays DEF TypesFit, ResultsTyped, StartJob, session
<1>2. /\ \A d \in Client : request'[d] = IF d = c THEN Idle ELSE request[d]
      /\ hits' = hits /\ TaskTyped(request[c].task)
  BY DEF StartJob, IInv, RequestsFit, TypesFit, JobsTyped
<1>3. \A d \in Client :
        /\ request'[d].at \in {"idle", "kind", "type", "submit"}
        /\ request'[d].at = "type" => request'[d].dynamic \in BOOLEAN
        /\ request'[d].at = "submit" => TaskTyped(request'[d].task)
  BY <1>2 DEF TypesFit, JobsTyped, Idle
<1>4. CASE UNCHANGED job
  BY <1>1, <1>2, <1>3, <1>4 DEF TypesFit, JobsTyped, TaskTyped, NoJob
<1>5. CASE job' = [at |-> "queued", task |-> request[c].task]
  <2>1. job'.at = "queued" /\ job'.task = request[c].task
    BY <1>5
  <2>2. QED
    BY <1>1, <1>2, <1>3, <2>1 DEF TypesFit, JobsTyped, TaskTyped, NoJob
<1>6. QED
  BY <1>4, <1>5 DEF StartJob

\* A job that ends, its results being typed.
LEMMA EndTyped ==
  ASSUME TypesFit, TableFits', ResultsTyped', job' = NoJob, UNCHANGED request,
         hits' \in Pid \cup {NoHits}
  PROVE  TypesFit'
<1>1. NoJob.at = "none"
  BY DEF NoJob
<1>2. JobsTyped'
  BY <1>1 DEF TypesFit, JobsTyped, TaskTyped, NoJob
<1>3. QED
  BY <1>2 DEF TypesFit

LEMMA WorkerTyped ==
  ASSUME IInv, TypesFit, WorkerStep
  PROVE  TypesFit'
<1>1. /\ TableFits /\ ResultsTyped /\ hits \in Pid \cup {NoHits} /\ scanType \in Types
      /\ UNCHANGED session => TableFits' /\ ResultsTyped'
  BY TableStays DEF TypesFit, JobsTyped, ResultsTyped, session
<1>2. ASSUME job.at = "executing" PROVE pid \in Pid /\ TaskTyped(job.task)
  BY <1>2 DEF IInv, JobFits, TypesFit, JobsTyped, NoJob
<1>3. CASE Begin
  <2>1. job # NoJob /\ DOMAIN job = {"at", "task"}
    BY <1>3 DEF Begin, NoJob, IInv, JobFits
  <2>2. job'.at = "executing" /\ job'.task = job.task /\ TaskTyped(job.task)
    BY <1>3, <2>1 DEF Begin, TypesFit, JobsTyped
  <2>3. UNCHANGED <<session, request, hits>>
    BY <1>3 DEF Begin
  <2>4. JobsTyped'
    BY <2>2, <2>3 DEF TypesFit, JobsTyped, TaskTyped
  <2>5. QED
    BY <1>1, <2>3, <2>4 DEF TypesFit
<1>4. CASE EndWithout
  BY <1>1, <1>4, EndTyped DEF EndWithout
<1>5. CASE PublishFirst \/ PublishNext
  <2>1. /\ job.at = "executing" /\ job' = NoJob
        /\ UNCHANGED <<pid, scanType, pointers, table, file, request, hits>>
    BY <1>5 DEF PublishFirst, PublishNext, Is
  <2>2. /\ job.task.kind \in {"first", "next"} => job.task.type \in NumericTypes
        /\ job.task.kind = "firstDynamic" => job.task.type \in DynamicTypes
        /\ job.task.kind = "nextDynamic" => job.task.type \in Types \cup {NoSpec}
    BY <1>2, <2>1 DEF TaskTyped
  <2>3. ResultsOfScan
    BY <1>5, <2>2 DEF PublishFirst, PublishNext, Is, ResultsOfScan
  <2>4. TableFits' /\ ResultsTyped'
    BY <1>1, <2>1, <2>3, ScanStep
  <2>5. QED
    BY <1>1, <2>1, <2>4, EndTyped
<1>6. CASE PublishPattern
  <2>1. pid \in Pid
    BY <1>2, <1>6 DEF PublishPattern, Is
  <2>2. QED
    BY <1>1, <1>6, <2>1, EndTyped DEF PublishPattern
<1>7. CASE PublishPointers
  <2>1. /\ job' = NoJob /\ UNCHANGED <<pid, scanner, scanType, table, file, request, hits>>
        /\ job.task.type \in Types
    BY <1>2, <1>7 DEF PublishPointers, Is, TaskTyped
  <2>2. \E n \in 0..1 : PointersFound(job.task.type, n)
    BY <1>7 DEF PublishPointers
  <2>3. TableFits' /\ ResultsTyped'
    BY <1>1, <2>1, <2>2, PointersStepTyped
  <2>4. QED
    BY <1>1, <2>1, <2>3, EndTyped
<1>8. QED
  BY <1>3, <1>4, <1>5, <1>6, <1>7 DEF WorkerStep

\* A handler that holds the mutex, or a command.
LEMMA HandlerTyped ==
  ASSUME TypesFit, TableFits', ResultsTyped', UNCHANGED web
  PROVE  TypesFit'
BY DEF TypesFit, JobsTyped, TaskTyped, NoJob, web

LEMMA CommandTyped ==
  ASSUME TableFits, ResultsTyped, CommandLine!Next
  PROVE  TableFits' /\ ResultsTyped'
<1>1. CASE CommandLine!Process
  BY <1>1, SameOperations, ProcessStep
<1>2. CASE CommandLine!Edit \/ CommandLine!Verify \/ CommandLine!File
  BY <1>2, SameOperations, TableStep
<1>3. scanType \in Types /\ scanner.type \in NumericTypes /\ NumericTypes \subseteq Types
      /\ DynamicTypes \subseteq Types
  BY DEF ResultsTyped, Types
<1>4. CASE CommandLine!First \/ CommandLine!NextOnNumeric \/ CommandLine!NextOnDynamic
  <2>1. UNCHANGED <<pid, pointers, table, file>> /\ scanType' \in Types
    BY <1>3, <1>4 DEF CommandLine!First, CommandLine!NextOnNumeric, CommandLine!NextOnDynamic
  <2>2. ASSUME CommandLine!First PROVE ResultsOfScan
    BY <2>2 DEF CommandLine!First, CommandLine!FirstNumeric, CommandLine!FirstDynamic,
       ResultsOfScan, FirstNumeric, FirstDynamic
  <2>3. ASSUME CommandLine!NextOnNumeric PROVE ResultsOfScan
    BY <1>3, <2>3 DEF CommandLine!NextOnNumeric, CommandLine!NextNumeric, ResultsOfScan, NextNumeric
  <2>4. ASSUME CommandLine!NextOnDynamic PROVE ResultsOfScan
    BY <1>3, <2>4 DEF CommandLine!NextOnDynamic, CommandLine!NextDynamic, ResultsOfScan, NextDynamic
  <2>5. ResultsOfScan
    BY <1>4, <2>2, <2>3, <2>4
  <2>6. QED
    BY <2>1, <2>5, ScanStep
<1>5. CASE CommandLine!PointerScan
  <2>1. PICK t \in Types, n \in 0..1 : PointersFound(t, n)
    BY <1>3, <1>5 DEF CommandLine!PointerScan, CommandLine!PointersFound, PointersFound
  <2>2. UNCHANGED <<pid, scanner, scanType, table, file>>
    BY <1>5 DEF CommandLine!PointerScan
  <2>3. QED
    BY <2>1, <2>2, PointersStepTyped
<1>6. QED
  BY <1>1, <1>2, <1>4, <1>5 DEF CommandLine!Next

LEMMA TypesStep ==
  ASSUME IInv, TypesFit, [ProgramNext]_program
  PROVE  TypesFit'
<1>1. CASE RunRepl
  BY <1>1, CommandTyped, HandlerTyped DEF RunRepl, TypesFit
<1>2. CASE RunWeb
  <2>1. ASSUME NEW c \in Client, ClientStep(c) PROVE TypesFit'
    <3>1. CASE HandleProcess(c) \/ HandleEdit(c) \/ HandleVerify(c) \/ HandleFile(c)
      <4>1. UNCHANGED web
        BY <3>1 DEF HandleProcess, HandleEdit, HandleVerify, HandleFile, Holds
      <4>2. TableFits' /\ ResultsTyped'
        BY <3>1, ProcessStep, TableStep
           DEF TypesFit, HandleProcess, HandleEdit, HandleVerify, HandleFile
      <4>3. QED
        BY <4>1, <4>2, HandlerTyped
    <3>2. QED
      BY <2>1, <3>1, LookTyped, StartJobTyped DEF ClientStep
  <2>2. QED
    BY <1>2, <2>1, WorkerTyped DEF RunWeb, Next
<1>3. CASE UNCHANGED program
  <2>1. UNCHANGED <<session, web>>
    BY <1>3 DEF program, vars
  <2>2. TableFits' /\ ResultsTyped'
    BY <2>1, TableStays DEF TypesFit, ResultsTyped, session
  <2>3. QED
    BY <2>1, <2>2, HandlerTyped
<1>4. QED
  BY <1>1, <1>2, <1>3 DEF ProgramNext

LEMMA TypesInit == ProgramInit => TypesFit
<1> SUFFICES ASSUME ProgramInit PROVE TypesFit
  OBVIOUS
<1>1. SessionInit /\ request = [c \in Client |-> Idle] /\ job = NoJob /\ hits = NoHits
  BY DEF ProgramInit, Init
<1>2. TableFits
  <2>1. <<>> \in Seq(Known(NoPid)) /\ <<>> \in Seq(Line) /\ Len(<<>>) <= MaxTable
    BY SessionAssumption
  <2>2. QED
    BY <1>1, <2>1 DEF SessionInit, TableFits
<1>3. ResultsTyped
  BY <1>1, SessionAssumption DEF SessionInit, ResultsTyped, NoPointers, Types
<1>4. JobsTyped
  BY <1>1 DEF JobsTyped, Idle, NoJob
<1>5. QED
  BY <1>2, <1>3, <1>4 DEF TypesFit

LEMMA TypesInvariant == ProgramSpec => []TypesFit
BY TypesInit, TypesStep, Invariant, PTL DEF ProgramSpec

\* The session, the requests and the jobs are what the code's types say, the
\* type an entry, a task or a set of results carries included.
THEOREM ProgramTyped == ProgramSpec => []TypeOK
<1>1. ASSUME TypesFit PROVE TypeOK
  <2>1. table \in Seq(Entry)
    <3> DEFINE S == Known(pid)
               T == Entry
    <3>1. table \in Seq(S) /\ \A i \in 1..Len(table) : table[i] \in T
      BY <1>1, EntriesKnown DEF TypesFit, TableFits
    <3> HIDE DEF S, T
    <3>2. table = [i \in DOMAIN table |-> table[i]]
      BY <3>1
    <3>3. QED
      BY <3>1, <3>2, EntryByEntry DEF T
  <2>2. SessionTypeOK
    BY <1>1, <2>1 DEF TypesFit, TableFits, ResultsTyped, SessionTypeOK
  <2>3. job # NoJob => job.task.kind \in {"first", "firstDynamic", "next",
                                          "nextDynamic", "pattern", "pointer"}
    BY <1>1 DEF TypesFit, JobsTyped, TaskTyped
  <2>4. QED
    BY <1>1, <2>2, <2>3 DEF TypesFit, JobsTyped, TypeOK
<1>2. QED
  BY <1>1, TypesInvariant, PTL

\* Whichever front end runs, no entry, chain or address, last known in one
\* process is shown as fresh in another.  An entry of no known process (from a
\* file, added with no process, or there through a detach) is not covered
\* until it is read or written.
THEOREM FreshKnown == ProgramSpec => []FreshEntriesBelong
<1>1. ASSUME TypesFit PROVE FreshEntriesBelong
  <2>1. TableFits
    BY <1>1 DEF TypesFit
  <2>2. DOMAIN table = 1..Len(table)
    BY <2>1 DEF TableFits
  <2>3. \A i \in DOMAIN table : table[i].stale \/ table[i].owner \in {pid, NoPid}
    BY <2>1, <2>2, EntriesKnown DEF Known
  <2>4. QED
    BY <2>3 DEF FreshEntriesBelong
<1>2. QED
  BY <1>1, TypesInvariant, PTL
=============================================================================
