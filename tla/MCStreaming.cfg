SPECIFICATION FairSpec
CONSTANTS
  t1 = t1
  t2 = t2
  t3 = t3
  Tiles = {t1, t2, t3}
  XreqOf <- Xreq
  MayTimeOut = FALSE
  MayFault = FALSE
  Weights <- Uneven
  Inputs <- T1Skips
  Outputs <- Uneven
  W = 2
  I = 2
  O = 2
  Invocations = 2
  Runs = 2
INVARIANTS
  PagesExclusive
  Lockstep
  ComputesFromItsRun
PROPERTIES
  GrantNotLost
  SessionCompletes
