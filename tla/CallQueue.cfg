CONSTANTS
  p1 = p1
  p2 = p2
  p3 = p3
  Callers <- ThreeCallers
  NumThreads = 2
  Ops <- AllOps
  None = None
SPECIFICATION FairSpec
INVARIANTS
  TypeOK
  QueueMatchesCalls
  CompletionAgrees
  NoLostWakeup
  OneThreadPerCall
  FreeThreadsOwed
PROPERTY OperationsEnd
CHECK_DEADLOCK FALSE
