SPECIFICATION GatewaySpec
CONSTANTS
  s1 = s1
  s2 = s2
  f1 = f1
  f2 = f2
  v1 = v1
  v2 = v2
  Undefined = Undefined
  Functions <- TwoFunctions
  Starters <- OneStarter
  Files <- OneFile
INVARIANT FinishedMeansStarted
