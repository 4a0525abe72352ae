SPECIFICATION FairSpec
CONSTANTS
  p1 = p1
  p2 = p2
  p3 = p3
  Procs = {p1, p2, p3}
  Compiles = 2
  MayFail = TRUE
  MayCrash = TRUE
INVARIANTS
  HandsOutWholeObjects
PROPERTIES
  CompletedIsImmutable
  EveryoneReturns
