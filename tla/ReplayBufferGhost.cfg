SPECIFICATION Spec
CONSTANTS
    NumSteps = 1
    ValBatches = 2
    NumPrompts = 1
    NumSessions = 1
    MaxFaults = 0
INVARIANTS
    ReadsLive
