SPECIFICATION FairSpec
CONSTANTS
    NumSteps = 2
    ValBatches = 1
    NumPrompts = 1
    NumSessions = 2
    MaxFaults = 1
INVARIANTS TypeOK NoneMissed OwnBatch ReadsLive
PROPERTIES TrainingEnds
