SPECIFICATION Spec
CONSTANTS
  r1 = r1
  r2 = r2
  i1 = i1
  i2 = i2
  NoRequest = NoRequest
  Requests <- OneRequest
  Instances <- OnePod
  Bound <- OnePod
  Mortal <- NoPod
  Faults <- NoFault
  MaxRedeliveries = 0
PROPERTY GiveUpAfterTimeout
CHECK_DEADLOCK FALSE
