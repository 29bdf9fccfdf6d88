SPECIFICATION Spec
CONSTANTS
  c1 = c1
  c2 = c2
  None = None
  Clients <- OneClient
  MaxCommands = 1
  Wants <- AnyWant
  Events <- FirstButton
INVARIANTS
  KeysAgree
CHECK_DEADLOCK FALSE
