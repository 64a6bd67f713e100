SPECIFICATION Spec
CONSTANTS
  Environments <- Installations
  HandCommands <- ByHand
  MaxFaults = 2
INVARIANTS
  LivesUnderSupervision
  StatusTellsWhy
  SameBotAnswers
  WaitsAreBounded
PROPERTIES
  NobodyLeftBehind
  ComesUp
CHECK_DEADLOCK FALSE
