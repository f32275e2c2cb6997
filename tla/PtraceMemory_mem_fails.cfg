SPECIFICATION Spec
CONSTANTS
  Target = 100
  Failures <- MCMemFails
  MaxOperations = 3
INVARIANTS
  ReleasedWhenClosed
CHECK_DEADLOCK FALSE
