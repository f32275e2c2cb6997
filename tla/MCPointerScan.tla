--------------------------- MODULE MCPointerScan ---------------------------
(* A program of three mappings, its memories and two places for it. *)
EXTENDS PointerScan

\* The second word of the file is in the code and in the data.
MCMappings ==
  [code |-> [path |-> "game", offset |-> 0, size |-> 2, perms |-> {"r", "x"}],
   data |-> [path |-> "game", offset |-> 1, size |-> 2, perms |-> {"r", "w"}],
   heap |-> [path |-> "[heap]", offset |-> 0, size |-> 2, perms |-> {"r", "w"}]]

\* The file moves as a whole; the heap is beside it or further up.
MCLayouts ==
  {[code |-> 10, data |-> 12, heap |-> 14],
   [code |-> 20, data |-> 22, heap |-> 25]}

MCPointees == {<<"data", 1>>, <<"heap", 0>>, <<"heap", 1>>, Null}

MCMemories ==
  {[s \in Slot |-> IF s = <<"code", 0>> THEN c ELSE IF s = <<"code", 1>> THEN Null ELSE m[s]] :
     c \in {Null, <<"heap", 0>>},
     m \in [{s \in Slot : s[1] # "code"} -> MCPointees]}

MCScans ==
  {[depth |-> 3, maxOffset |-> 1, step |-> 1, moduleOnly |-> FALSE, code |-> FALSE],
   [depth |-> 2, maxOffset |-> 2, step |-> 2, moduleOnly |-> TRUE, code |-> TRUE]}
===========================================================================
