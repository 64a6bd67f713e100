SPECIFICATION Spec
CONSTANTS
  Registries <- SomeRegistries
  Threads = {"", "a b"}
  SessionsOf <- TwoServers
  MaxHandlers = 2
  MaxPrompts = 1
  MaxTasks = 2
  MaxMoves = 1
  ListLimit = 1
INVARIANTS
  TypeOK
  ScreenFollowsSelection
  OverviewFitsTogether
  QueuedIsRecorded
CHECK_DEADLOCK FALSE
