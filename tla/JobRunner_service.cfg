SPECIFICATION FairSpec
CONSTANTS
  c1 = c1
  c2 = c2
  Clients <- MCClients
  MaxJobs = 2
  MaxRequests = 4
  Blocks = 1
  Housekeeping = TRUE
INVARIANTS
  TypeOK
  ThreadsAreOwned
  VerdictMatchesRun
  PayloadBeforeFree
  OneActiveJob
  SlotGuardsWorker
PROPERTIES
  TerminalIsFinal
  ShutdownWaits
  ImplementsService
  JobsEnd
  RunnerBecomesFree
  RequestsReturn
CHECK_DEADLOCK FALSE
