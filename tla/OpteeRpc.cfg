SPECIFICATION Spec
CONSTANTS
  w1 = w1
  w2 = w2
  c1 = c1
  p1 = p1
  p2 = p2
  s1 = s1
  m1 = m1
  m2 = m2
  i1 = i1
  None = None
  Workers <- TwoWorkers
  Clients <- OneClient
  Supps <- TwoSupps
  Sessions <- OneSession
  MaxFd = 4
  Ids <- TwoIds
  Insts <- OneInst
  MaxHandle = 1
SYMMETRY Symmetry
CONSTRAINT Unspoilt
INVARIANTS
  TypeOK
  SupplicantKeepsPlace
  SessionsAccounted
  ClosesOwn
  TablesHold
  MemoryIsOwn
