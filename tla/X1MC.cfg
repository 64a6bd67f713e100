SPECIFICATION X1Spec
CONSTANTS
  Names <- SomeNames
  MaxUpdates = 2
  Shapes <- FewShapes
  Allowed <- Ann
  PollLimit = 2
  MaxDeaths = 1
  Fronts = {"webhook", "poller", "direct"}
  HandMade <- ByHand
  MaxHand = 1
  MaxThrows = 1
  Modes = {"per-chat", "oneshot"}
  MaxErrors = 1
INVARIANTS DirectTypeOK OneTaskPerEvent OneLossPerFault ConfirmedIsRecorded AckedOnce PromptsBounded ChatsApart OneshotLeavesNothing ConfirmedIsTakenUp
PROPERTIES EveryUpdateIsTaken
CHECK_DEADLOCK FALSE
