SPECIFICATION Spec
CONSTANTS
  t1 = t1
  t2 = t2
  t3 = t3
  Tiles = {t1, t2, t3}
  XreqOf <- Xreq
  MayTimeOut = FALSE
  MayFault = FALSE
  Weights <- One
  Inputs <- One
  Outputs <- None
  W = 1
  I = 1
  O = 0
  Invocations = 2
  Runs = 2
INVARIANTS
  PagesExclusive
