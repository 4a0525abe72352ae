SPECIFICATION HostFairSpec
CONSTANTS
  t1 = t1
  t2 = t2
  t3 = t3
  Tiles = {t1, t2, t3}
  XreqOf <- Xreq
  MayTimeOut = TRUE
  MayFault = TRUE
  Weights <- None
  Inputs <- T2Only
  Outputs <- NotT2
  W = 0
  I = 1
  O = 1
  Invocations = 1
  Runs = 2
PROPERTIES
  KeepsPromise
  HostReturns
