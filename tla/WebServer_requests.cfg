SPECIFICATION FairSpec
CONSTANTS
  c1 = c1
  c2 = c2
  c3 = c3
  Conn = {c1, c2, c3}
  Diligent = {c2}
  Requests <- MCRequests
  MaxConnections = 2
  MaxHead = 4
  Slack = 1
  Buf = 3
  MaxBody = 2
INVARIANTS
  TypeOK
  CountsThreads
  AnswerFits
PROPERTIES
  Answered
  EndsAfterStop
CHECK_DEADLOCK FALSE
