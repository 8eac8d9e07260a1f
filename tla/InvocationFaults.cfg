SPECIFICATION Spec
CONSTANTS
  r1 = r1
  r2 = r2
  i1 = i1
  i2 = i2
  NoRequest = NoRequest
  Requests <- OneRequest
  Instances <- TwoPods
  Bound <- TwoPods
  Mortal <- TwoPods
  Faults <- AllFaults
  MaxRedeliveries = 2
CHECK_DEADLOCK FALSE
INVARIANTS ExecutionsBounded AnswerHonest Conserved AnsweredLeavesNothing AnswersBounded NobodyStranded
INVARIANT TypeOK
SYMMETRY PodSymmetry
