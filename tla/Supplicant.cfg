SPECIFICATION FairSpec
CONSTANTS
  t0 = t0
  t1 = t1
  t2 = t2
  t3 = t3
  r1 = r1
  r2 = r2
  r3 = r3
  None = None
  Threads <- FourThreads
  Main <- t0
  Requests <- ThreeRequests
  Stuck <- TwoStuck
  Failures <- AllFailures
INVARIANTS
  WaitersCounted
  SomeoneListens
PROPERTIES
  RequestsServed
CHECK_DEADLOCK FALSE
