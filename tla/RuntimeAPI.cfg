SPECIFICATION FairSpec
CONSTANTS
  i1 = i1
  i2 = i2
  NoInstance = NoInstance
  Instances <- TwoInstances
  Bound <- OneBound
INVARIANTS TypeOK LeftoversExplained CleanExitIsNotCounted GhostsExplained ShutdownFindsItsInstance
PROPERTIES StoppedIsUncounted ImplementsRegistry
CHECK_DEADLOCK FALSE
