SPECIFICATION ProfSpec
CONSTANTS
    ProfiledGraphs <- Graphs
    TilesWithWork = 2
    InactiveTiles = 1
    ExchangeOf <- Exchanges
    Paces <- PaceSets
    Skews <- SkewSets
    Invocations = 2
    ClockWrap = 256
    ClockStart = 240
    ChunkEvents = 3
CHECK_DEADLOCK FALSE
INVARIANT ChunksAreBounded
