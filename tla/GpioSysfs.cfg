SPECIFICATION Spec
CONSTANTS
  u1 = u1
  u2 = u2
  u3 = u3
  d1 = d1
  d2 = d2
  None = None
  Users <- ThreeUsers
  Values <- ZeroTwo
  MaxAccesses = 2
  Data <- TwoData
  MaxExports = 2
SYMMETRY Symmetry
INVARIANTS
  TypeOK
  DataAlive
  ShownIsCurrent
  ExportsAreWhole
  UntroubledArePerformed
  NobodyStuck
PROPERTIES
  ImplementsProtectedPin
CHECK_DEADLOCK FALSE
