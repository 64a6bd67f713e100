SPECIFICATION MCSpec
CONSTANTS
  Clients <- FiveClients
  Requests <- ThreeRequests
  Outputs <- SomeOutputs
  MaxRequests = 2
  MaxDeaths = 1
  Kinds <- AllKinds
  Policies <- SomePolicies
  Prompts <- SomePrompts
  Crews <- SomeCrews
INVARIANTS TypeOK CallsBounded AnswerIsToItsRequest SessionsAreSwept AutoReplyIsEarned DangerIsHeard RiskIsNotSimple
PROPERTIES EveryDispatchIsRouted
CHECK_DEADLOCK FALSE
