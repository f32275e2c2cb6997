---------------------------- MODULE MCJobRunner ----------------------------
(* Model values for the runs of JobRunner. *)
EXTENDS JobRunner

CONSTANTS c1, c2
MCClients == {c1, c2}
===========================================================================
