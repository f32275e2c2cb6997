-------------------------- MODULE MCPtraceMemory --------------------------
(* Failing calls for the runs of PtraceMemory. *)
EXTENDS PtraceMemory

\* On a thread that stays, the calls after PTRACE_SEIZE succeed.
MCFailures == [f \in FrontEnds |->
                 IF f = "web" THEN {"seize", "wait", "mem"} ELSE {"seize"}]
MCMemFails == [f \in FrontEnds |-> {"mem"}]
===========================================================================
