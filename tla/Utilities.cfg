SPECIFICATION FairSpec
CONSTANTS
    NWeights = 3
    BucketSize = 4
    Sizes = {1, 2, 4, 6}
    Items = {1, 2}
    NRows = 3
    Workers = 2
    BatchSize = 2
    MaxLives = 3
    Callers = {1, 2, 3}
    Demands = {1, 2, 3}
    Rate = 1
    MaxTokens = 2
    MaxConcurrent = 1
    Batch = 4
    Lengths = {1, 2, 3}
    Limits = {3, 4, 6}
    Worlds = {1, 2, 4}
    PromptLength = 2
    ResponseLength = 6
    MaxAssistantTurns = 3
    MaxUserTurns = 2
    MaxParallelCalls = 2
    MaxCalls = 3
    MaxImages = 2
    LoopWorkers = 2
    ValSizes = {1, 2, 3}
    ValBatches = 2
    MaxRaises = 1
    EpochSteps = 3
    TotalEpochs = 2
    Totals = {5, 6, 7}
    SaveEvery = 2
    WarmupSteps = 2
    MaxKills = 2
INVARIANTS
    UtilTypeOK
    Intact
    EndsWhole
    RateBound
    RowsInPlace
    Aligned
    OneStepOff
PROPERTIES
    EachEnds
