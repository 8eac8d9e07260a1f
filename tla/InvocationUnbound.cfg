SPECIFICATION Spec
CONSTANTS
  r1 = r1
  r2 = r2
  i1 = i1
  i2 = i2
  NoRequest = NoRequest
  Requests <- OneRequest
  Instances <- OnePod
  Bound <- NoPod
  Mortal <- NoPod
  Faults <- NoFault
  MaxRedeliveries = 0
INVARIANT NobodyTurnedAway
CHECK_DEADLOCK FALSE
