SPECIFICATION FairSpec
CONSTANTS
  c1 = c1
  c2 = c2
  w1 = w1
  w2 = w2
  NoChat = NoChat
  Tasks = {1, 2}
  Workers = {w1}
  Sessions = {1}
  Sources <- ChatAndCli
  Kinds = {"omo", "eq1"}
  MaxRetries = 1
  MaxCrashes = 1
  EventSubscribe = FALSE
  StoreMayFail = FALSE
  X4Enqueues = FALSE
INVARIANTS
  AnswersOwnPrompt
PROPERTIES
  LifecycleSpec
  EveryTaskEnds
