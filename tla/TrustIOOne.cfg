SPECIFICATION FairSpec
CONSTANTS
  c1 = c1
  c2 = c2
  None = None
  Clients <- OneClient
  MaxCommands = 2
  Wants <- AnyWant
  Events <- Button
INVARIANTS
  ChainsAgree
  ApprovalsTakeEffect
PROPERTIES
  CommandsFinish
CHECK_DEADLOCK FALSE
