SPECIFICATION FairSpec
CONSTANTS
  k1 = k1
  k2 = k2
  Requests = {1, 2}
  Sessions = {1}
  Ticks = {k1}
  Legacy = {2}
  MaxProcess = 1
  MaxTasks = 1
  MaxFaults = 0
PROPERTIES
  OwnRequestsAreSettled
