SPECIFICATION Spec
CONSTANTS
  Environments <- OnlyTheOldName
  HandCommands <- ByHand
  MaxFaults = 2
INVARIANTS
  AnyTokenWillDo
CHECK_DEADLOCK FALSE
