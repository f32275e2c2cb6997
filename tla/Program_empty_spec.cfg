SPECIFICATION ProgramSpec
CONSTANTS
  p1 = p1
  p2 = p2
  Pid <- MCPid
  NoPid = NoPid
  Addr = {1}
  NumericTypes = {"i32"}
  DefaultType = "i32"
  DynamicTypes = {"string"}
  NoSpec = "none"
  MaxTable = 0
  c1 = c1
  Client = {c1}
  NoHits = NoHits
SYMMETRY MCSymmetry
INVARIANTS
  SpecIsThere
