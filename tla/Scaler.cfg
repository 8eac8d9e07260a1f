SPECIFICATION ScalerSpec
CONSTANTS
  p1 = p1
  p2 = p2
  p3 = p3
  NoPod = NoPod
  Pods <- TwoPods
  Min = 1
  MaxRounds = 2
INVARIANTS ScalerTypeOK StartedWhole FailureCleansUp StopTellsTheTruth OvershootExplained
SYMMETRY Symmetry
CHECK_DEADLOCK FALSE
