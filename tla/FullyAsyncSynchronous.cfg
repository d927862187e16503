SPECIFICATION FairSpec
CONSTANTS
    Total = 9
    Required = 2
    Trigger = 1
    MaxReq = 2
    MaxConc = 2
    MaxFail = 1
    TestFreq = 2
    SaveFreq = 2
    PromptLoop = TRUE
INVARIANTS SynchronousMode
PROPERTIES Termination
