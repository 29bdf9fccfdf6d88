SPECIFICATION Spec
CONSTANTS
  c1 = c1
  c2 = c2
  None = None
  Clients <- TwoClients
  MaxCommands = 1
  Wants <- OneWantPerOp
  Events <- NoEvents
INVARIANTS
  CallbackRestored
CHECK_DEADLOCK FALSE
