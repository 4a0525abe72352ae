SPECIFICATION CompilerSpec
CONSTANTS
    TileCount = 2
    Problems <- MCProblems
    LayoutInfo <- MCLayoutInfo
    DefaultLayouts <- MCDefaultLayouts
    CompactLayout <- MCCompactLayout
    ShardBytes <- MCShardBytes
    VolumeBytes <- MCVolumeBytes
    GemmChoices <- MCGemmChoices
    CopyCycles <- MCCopyCycles
    KernelCycles <- MCKernelCycles
    AmpTail = 2
    ElementBytes <- MCElementBytes
    InterleavedBytes = 24
    MaximumStandard = 14
    Programs <- MCPrograms
    HostScratch <- MCHostScratch
    InterleavedBase = 8
    Element = 2
    InterleavedElement = 4
    InterleavedOffset = 0
    Iterations = 2
    Tiles = {0, 1, 2, 3}
    Jobs <- AllJobs
    Policies = {0, 2}
    Latency <- Route
    Partner <- Pair
    SelfConflict <- Meets
    MaxTransferWords = 4
    ElementWords = 4
    SwitchCycles = 3
    SendTail = 1
    ReceiveTail = 1
CHECK_DEADLOCK FALSE
INVARIANTS
    PlanComputesTheGraph
    PlanIsTheCheapest
    ValuesSurvive
    AccessesAreLegal
    ExchangesDeliver
    SelectionIsSound
