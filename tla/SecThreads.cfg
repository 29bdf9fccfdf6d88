CONSTANTS
  NumThreads = 2
  c1 = c1
  c2 = c2
  g1 = g1
  g2 = g2
  b1 = b1
  b2 = b2
  Cores <- MCCores
  BootCore = c1
  Guests <- MCGuests
  Cookies <- MCCookies
  None = None
  Commands <- StandardCommands
SYMMETRY Symmetry
SPECIFICATION Spec
PROPERTY ImplementsThreadPool
INVARIANTS
  TypeOK
  ThreadOwnership
  GuestIsolation
  InterruptKeepsRegisters
  BuffersOwned
  NothingCachedWhenDisabled
