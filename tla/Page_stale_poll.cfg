SPECIFICATION Spec
CONSTANTS
  MaxJobs = 2
  MaxClicks = 1
  MaxFaults = 0
INVARIANTS
  RefreshesTable
CHECK_DEADLOCK FALSE
