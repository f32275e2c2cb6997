----------------------------- MODULE MCScanner -----------------------------
(* Regions, patterns and memory contents for the runs of Scanner. *)
EXTENDS Scanner

Segment(a, b) == [start |-> a, end |-> b]

\* Two regions with one between them that is listed but cannot be read.
MCRegions == <<Segment(0, 3), Segment(3, 4), Segment(4, 6)>>
MCRefused == {2}
MCOneRegion == <<Segment(0, 2)>>

MCAllMemory ==
  {m \in [Addr -> Byte] :
     \A i \in Refused : \A a \in Regions[i].start..(Regions[i].end - 1) : m[a] = 0}

\* "1", "0 ??" and "?? 1".
MCPatterns ==
  {[len |-> 1, bytes |-> <<1>>, free |-> {}],
   [len |-> 2, bytes |-> <<0, 0>>, free |-> {2}],
   [len |-> 2, bytes |-> <<0, 1>>, free |-> {1}]}
MCNoPatterns == {}

MCAllFilters == {"EXACT", "CHANGED", "UNCHANGED", "INCREASED", "DECREASED",
                 "GREATER", "LESS", "GE", "LE", "NE"}
MCSomeFilters == {"EXACT", "CHANGED", "INCREASED"}
===========================================================================
