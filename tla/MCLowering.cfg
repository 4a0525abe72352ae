SPECIFICATION LoweringSpec
CONSTANTS
    LayoutCases <- MCLayoutCases
    StorageCases <- MCStorageCases
    Micro <- MCMicro
    ColumnMicro = 2
    InnerBlock = 4
    OutputBlock = 4
    ReductionGrain = 2
    Fragment = 8
    CopyCases <- MCCopyCases
    LaunchBytes = 8
    Workers = 6
    ParallelBytes = 512
    Expansions <- AllExpansions
    ReuseCastInputs = TRUE
    CastPrefix = 4
CHECK_DEADLOCK FALSE
INVARIANTS
    EveryElementIsOwned
    OperandsMeet
    CopiesMoveEveryElement
    CopiesAreRealized
    OutputsSurvive
    KernelsKeepTheirContracts
