SPECIFICATION FairSpec
CONSTANTS
  Target = 100
  Failures <- MCFailures
  MaxOperations = 3
INVARIANTS
  TypeOK
  ReleasedWhenClosed
  OperatesOnStopped
PROPERTIES
  RunsAgain
  OperationEnds
CHECK_DEADLOCK FALSE
