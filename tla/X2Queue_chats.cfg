SPECIFICATION Spec
CONSTANTS
  c1 = c1
  c2 = c2
  w1 = w1
  w2 = w2
  NoChat = NoChat
  Tasks = {1, 2, 3}
  Workers = {w1}
  Sessions = {1, 2, 3}
  Sources <- TwoChats
  Kinds = {"omo"}
  MaxRetries = 0
  MaxCrashes = 0
  EventSubscribe = FALSE
  StoreMayFail = FALSE
  X4Enqueues = TRUE
INVARIANTS
  ChatIsolation
SYMMETRY Chats
