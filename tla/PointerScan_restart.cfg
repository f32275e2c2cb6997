SPECIFICATION Spec
CONSTANTS
  Mappings <- MCMappings
  Layouts <- MCLayouts
  Memories <- MCMemories
  Null = Null
  Scans <- MCScans
  MaxEdges = 6
  MaxChains = 3
  MaxScans = 1
  MaxTable = 1
INVARIANTS
  SurvivesRestart
CHECK_DEADLOCK FALSE
