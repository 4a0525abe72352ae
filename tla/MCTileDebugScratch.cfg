SPECIFICATION DebugSpec
CONSTANTS
  IdleStops = {"readWord", "writeWord"}
  MayTrap = FALSE
  MayFail = TRUE
  MayBeLate = FALSE
  OldBreaks = {0}
INVARIANT ScratchPreserved
CHECK_DEADLOCK FALSE
