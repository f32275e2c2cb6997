SPECIFICATION Spec
CONSTANTS
  Regions <- MCRegions
  Refused <- MCRefused
  Base = 2
  Chunk = 2
  Widths = {1, 2}
  Patterns <- MCPatterns
  Filters <- MCAllFilters
  DynamicFilters = {"CHANGED", "UNCHANGED"}
  MaxCandidates = 3
  WarnCandidates = 1
  Cancellable = {"first", "next"}
  InitialMemory <- MCAllMemory
  MaxScans = 2
  MaxChanges = 1
INVARIANTS
  TypeOK
  BlocksAdvance
  FoundIsExact
  RemembersLastScan
PROPERTIES
  CancelKeepsAddresses
CHECK_DEADLOCK FALSE
