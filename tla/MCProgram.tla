----------------------------- MODULE MCProgram -----------------------------
(* Connection threads and processes for the runs of Program. *)
EXTENDS Program, TLC

CONSTANTS c1, p1, p2
MCPid == {p1, p2}
MCSymmetry == Permutations(MCPid)
============================================================================
