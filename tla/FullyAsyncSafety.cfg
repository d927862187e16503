SPECIFICATION Spec

CONSTANTS
    Total = 9
    Required = 1
    Trigger = 2
    MaxReq = 5
    MaxConc = 2
    MaxFail = 1
    TestFreq = 2
    SaveFreq = 1
    PromptLoop = FALSE

INVARIANTS TypeOK OutstandingBound StalenessAccount Freshness EndAfterAll
