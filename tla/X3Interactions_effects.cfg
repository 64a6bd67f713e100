SPECIFICATION Spec
CONSTANTS
  k1 = k1
  k2 = k2
  Requests = {1}
  Sessions = {1, 2}
  Ticks = {k1, k2}
  Legacy = {}
  MaxProcess = 1
  MaxTasks = 1
  MaxFaults = 1
INVARIANTS
  ForeignUntouched
  AnsweredHasEffect
  EscalationsBounded
PROPERTIES
  DecidedStaysDecided
SYMMETRY TicksAlike
