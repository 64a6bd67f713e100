SPECIFICATION Spec
CONSTANTS
  c1 = c1
  c2 = c2
  w1 = w1
  w2 = w2
  NoChat = NoChat
  Tasks = {1, 2}
  Workers = {w1}
  Sessions = {1, 2}
  Sources <- OneChat
  Kinds = {"omo"}
  MaxRetries = 0
  MaxCrashes = 0
  EventSubscribe = FALSE
  StoreMayFail = FALSE
  X4Enqueues = FALSE
INVARIANTS
  PerChatSequential
