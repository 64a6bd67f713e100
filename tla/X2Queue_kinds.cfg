SPECIFICATION Spec
CONSTANTS
  c1 = c1
  c2 = c2
  w1 = w1
  w2 = w2
  NoChat = NoChat
  Tasks = {1}
  Workers = {w1}
  Sessions = {1, 2, 3}
  Sources <- ChatAndCli
  Kinds = {"omo", "eq1", "report"}
  MaxRetries = 2
  MaxCrashes = 2
  EventSubscribe = TRUE
  StoreMayFail = TRUE
  X4Enqueues = FALSE
INVARIANTS
  ReportsAreFinal
  EachAttemptPromptedOnce
