SPECIFICATION DeviceSpec
CONSTANTS
  N = 4
  PacketBytes <- Packets
  Words = {"a", "b"}
  Layouts <- HoleLayouts
  Limit = 92
  Reserve <- Range24
  Needs <- Undeduplicated
  Batches = 2
  Slots = 2
  Pages <- SessionPages
  Buffers = 3
  Primary = 2
  Sessions = 2
  IdleStops = {"readWord", "writeWord"}
  MayTrap = TRUE
  MayFail = TRUE
  MayBeLate = TRUE
  OldBreaks = {0, 1}
  Steps <- RowSteps
  Rows <- RowsOfTwo
  Progressions <- FieldProgressions
  Count = 3
  Invocations = 2
  Span = 4
  Modulus = 8
  Bulk = 2
  Workers = 2
  Base = 10
  Stride = 2
CHECK_DEADLOCK FALSE
INVARIANTS
  PlanIntact
  ReservationSuffices
  TilesGetTheirImages
  BuffersAreRestored
  InvokesOnItsPages
  SuccessIsTransparent
  ReleasesTheContext
  RowsRunAsEncoded
  InvocationIsComplete
PROPERTIES
  LoadReturns
  FaultsStay
