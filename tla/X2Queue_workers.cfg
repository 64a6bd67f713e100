SPECIFICATION Spec
CONSTANTS
  c1 = c1
  c2 = c2
  w1 = w1
  w2 = w2
  NoChat = NoChat
  Tasks = {1}
  Workers = {w1, w2}
  Sessions = {1, 2}
  Sources <- CliOnly
  Kinds = {"omo"}
  MaxRetries = 1
  MaxCrashes = 1
  EventSubscribe = FALSE
  StoreMayFail = FALSE
  X4Enqueues = FALSE
INVARIANTS
  RunningIsOwned
SYMMETRY WorkersAlike
