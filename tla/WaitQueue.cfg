SPECIFICATION FairSpec
CONSTANTS
  k1 = k1
  k2 = k2
  w1 = w1
  w2 = w2
  w3 = w3
  e1 = e1
  e2 = e2
  e3 = e3
  None = None
  Keys <- TwoKeys
  Wakers <- ThreeWakers
  Entries <- ThreeEntries
  MaxWaits = 2
INVARIANTS
  HeldEntriesLive
  OneEntryPerKey
  NothingLeft
PROPERTIES
  MarkedThreadsWake
CHECK_DEADLOCK FALSE
