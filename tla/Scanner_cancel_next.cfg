SPECIFICATION Spec
CONSTANTS
  Regions <- MCOneRegion
  Refused = {}
  Base = 2
  Chunk = 1
  Widths = {1}
  Patterns <- MCNoPatterns
  Filters <- MCSomeFilters
  DynamicFilters = {}
  MaxCandidates = 3
  WarnCandidates = 1
  Cancellable = {"next"}
  InitialMemory <- MCAllMemory
  MaxScans = 2
  MaxChanges = 1
PROPERTIES
  CancelKeepsResults
CHECK_DEADLOCK FALSE
