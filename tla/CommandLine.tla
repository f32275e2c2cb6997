---------------------------- MODULE CommandLine ----------------------------
(***************************************************************************)
(* The interactive command line (src/src/command.cpp, main.cpp run_repl)   *)
(* over the Session.  One thread: a command is one step.  Commands that    *)
(* only print, or that are refused, change nothing.                        *)
(***************************************************************************)
EXTENDS Session

TypeOK == SessionTypeOK

Init == SessionInit

\* cmd_attach, cmd_detach.
Process == (\E p \in Pid : Attach(p)) \/ Detach

\* cmd_first: the type is stored before the scan, which may fail.
First ==
  /\ pid \in Pid
  /\ \/ \E t \in NumericTypes :
          /\ scanType' = t
          /\ \/ \E found \in SUBSET Addr : FirstNumeric(t, found)
             \/ UNCHANGED scanner
     \/ \E d \in DynamicTypes :
          /\ scanType' = d
          /\ \/ \E found \in SUBSET Addr : FirstDynamic(d, found)
             \/ UNCHANGED scanner
  /\ UNCHANGED <<pid, pointers, table, file>>

\* cmd_next on numeric results: of the type given, or of the session's; any
\* other than that of the first scan is refused.
NextOnNumeric ==
  /\ pid \in Pid
  /\ HasResults /\ scanner.spec = NoSpec
  /\ \E t \in NumericTypes \cup {scanType} :
       /\ t = scanner.type
       /\ scanType' = t
       /\ \/ \E kept \in SUBSET Addr : NextNumeric(t, kept)
          \/ UNCHANGED scanner
  /\ UNCHANGED <<pid, pointers, table, file>>

\* cmd_next on dynamic results: changed and unchanged, or a new pattern of
\* the type given or of the session's.
NextOnDynamic ==
  /\ pid \in Pid
  /\ HasResults /\ scanner.spec # NoSpec
  /\ \/ /\ UNCHANGED scanType
        /\ \E kept \in SUBSET Addr : NextDynamic(NoSpec, kept)
     \/ \E d \in DynamicTypes \cup {scanType} :
          /\ scanType' = d
          /\ \/ \E kept \in SUBSET Addr : NextDynamic(d, kept)
             \/ UNCHANGED scanner
  /\ UNCHANGED <<pid, pointers, table, file>>

\* cmd_pointer_scan.
PointerScan ==
  /\ pid \in Pid
  /\ \E t \in NumericTypes \cup {scanType}, n \in 0..1 : PointersFound(t, n)
  /\ UNCHANGED <<pid, scanner, scanType, table, file>>

\* cmd_table: add, addresult, remove, clear, toggle, and cmd_pointer_add.
Edit == EditTable

\* read of one entry or of all, set, and cmd_pointer_resolve.
Verify == VerifyTable \/ ReadAllEntries

\* save and load.
File == MoveTable

\* execute: one command.
Next ==
  \/ Process
  \/ First \/ NextOnNumeric \/ NextOnDynamic
  \/ PointerScan
  \/ Edit \/ Verify \/ File

Spec == Init /\ [][Next]_session
============================================================================
