SPECIFICATION FairSpec
CONSTANTS
    NumWorkers = 2
    Chunk = 2
    Copies = 2
    Configured = 2
    Modes = {"blocking", "nonblocking"}
    MaxFaults = 1
INVARIANTS TypeOK NothingMissing CleanedUp
PROPERTIES DeliversScores NothingLeftRunning
