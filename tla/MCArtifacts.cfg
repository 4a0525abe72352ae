SPECIFICATION ArtifactsSpec
CONSTANTS
    LinkCases <- Links
    PackageCases <- MCPackageCases
    ExecutionTiles = 3
    PhysicalOf <- MCPhysical
    XreqOwner <- MCXreqOwner
    ProfiledGraphs <- Graphs
    TilesWithWork = 2
    InactiveTiles = 1
    ExchangeOf <- Exchanges
    Paces <- PaceSets
    Skews <- SkewSets
    Invocations = 2
    ClockWrap = 256
    ClockStart = 240
    ChunkEvents = 3
    Tiles = {0, 1, 2, 3}
    Jobs <- AllJobs
    Mux <- Time
    RowPhase <- Column
    Partner <- Pair
    MaxSend = 7
    MaxSendOff = 8
    MaxDelay = 4
    MaxPic = 2
    MaxXpic = 3
    BaseWriteCycles = 2
    Pipe = 3
    Guard = 1
    Budget = 60
    Requests = {0, 11}
    Holds = {0, 1}
CHECK_DEADLOCK FALSE
INVARIANTS
    ReferencesResolve
    RowsRunTheSchedule
    TransfersArrive
    PackageIsSound
    LoadedAsBuilt
    ReportTellsTheRun
