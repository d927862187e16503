SPECIFICATION Spec
CONSTANTS
    NumRanks = 2
    UseCritic = TRUE
    StepsPerEpoch = 2
    Epochs = 2
    Total = 4
    SaveFreq = 1
    Warmup = 0
    MaxKeep = 2
    Expiring = FALSE
    SkipsAtEpoch = FALSE
    MaxCrashes = 1
INVARIANTS
    Aligned
