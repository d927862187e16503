SPECIFICATION Spec
CONSTANTS
    NumRanks = 2
    UseCritic = TRUE
    StepsPerEpoch = 2
    Epochs = 3
    Total = 5
    SaveFreq = 4
    Warmup = 2
    MaxKeep = 2
    Expiring = TRUE
    SkipsAtEpoch = TRUE
    MaxCrashes = 2
INVARIANTS TypeOK Resumable DiskBound Aligned FinalCheckpoint
