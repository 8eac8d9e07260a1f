SPECIFICATION FairSpec
CONSTANTS
  r1 = r1
  r2 = r2
  i1 = i1
  i2 = i2
  NoRequest = NoRequest
  Requests <- OneRequest
  Instances <- TwoPods
  Bound <- TwoPods
  Mortal <- OnePod
  Faults <- AllButDelivery
  MaxRedeliveries = 1
PROPERTIES InvokeReturns ServedUnlessLost AbandonedHandlerEnds
CHECK_DEADLOCK FALSE
