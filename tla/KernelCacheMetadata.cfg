SPECIFICATION Spec
CONSTANTS
  p1 = p1
  p2 = p2
  Procs = {p1, p2}
  Compiles = 2
  MayFail = TRUE
  MayCrash = FALSE
INVARIANTS
  HandsOutWholeMetadata
