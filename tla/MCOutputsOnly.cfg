SPECIFICATION FairSpec
CONSTANTS
  t1 = t1
  t2 = t2
  t3 = t3
  Tiles = {t1, t2, t3}
  XreqOf <- Xreq
  MayTimeOut = FALSE
  MayFault = FALSE
  Weights <- None
  Inputs <- None
  Outputs <- T1Skips
  W = 0
  I = 0
  O = 2
  Invocations = 3
  Runs = 3
INVARIANTS
  NoTransferOutlivesPages
