SPECIFICATION Spec
CONSTANTS
    NumRanks = 2
    UseCritic = TRUE
    StepsPerEpoch = 2
    Epochs = 2
    Total = 4
    SaveFreq = 1
    Warmup = 0
    MaxKeep = 1
    Expiring = FALSE
    SkipsAtEpoch = TRUE
    MaxCrashes = 1
INVARIANTS
    Resumable
