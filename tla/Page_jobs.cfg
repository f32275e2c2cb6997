SPECIFICATION FairSpec
CONSTANTS
  MaxJobs = 3
  MaxClicks = 2
  MaxFaults = 1
INVARIANTS
  TypeOK
  TracksItsJob
  RefreshesItsTable
PROPERTIES
  UiSettles
  ResultsShown
CHECK_DEADLOCK FALSE
