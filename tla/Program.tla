------------------------------ MODULE Program ------------------------------
(***************************************************************************)
(* main (src/src/main.cpp): one process runs either the command line       *)
(* (run_repl) or the web server (run_web), and keeps to it.  Both act on a *)
(* Session of their own; what the session promises, it promises in both.   *)
(***************************************************************************)
EXTENDS WebApi

VARIABLE front   \* which of the two runs

CommandLine == INSTANCE CommandLine

program == <<vars, front>>

ProgramInit ==
  /\ Init
  /\ front \in {"command line", "web"}

\* run_repl: one command after the other.
RunRepl ==
  /\ front = "command line"
  /\ CommandLine!Next
  /\ UNCHANGED <<web, front>>

\* run_web: the threads of WebServer and JobRunner.
RunWeb ==
  /\ front = "web"
  /\ Next
  /\ UNCHANGED front

ProgramNext == RunRepl \/ RunWeb

ProgramSpec == ProgramInit /\ [][ProgramNext]_program
============================================================================
