SPECIFICATION Spec
CONSTANTS
  r1 = r1
  r2 = r2
  i1 = i1
  i2 = i2
  NoRequest = NoRequest
  Requests <- TwoRequests
  Instances <- TwoPods
  Bound <- TwoPods
  Mortal <- NoPod
  Faults <- AckAndGateway
  MaxRedeliveries = 1
CHECK_DEADLOCK FALSE
INVARIANTS ExecutionsBounded AnswerHonest AnsweredRanOnce AnsweredLeavesNothing HealthyLosesNothing
PROPERTY ImplementsCall
SYMMETRY Symmetry
