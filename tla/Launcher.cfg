SPECIFICATION FairSpec
CONSTANTS
    NNodes = 2
    Steps = 3
    SaveFreq = 2
    MaxHosts = 2
    MaxTroubles = 1
INVARIANTS
    TypeOK
    EarnedSuccess
    StartsTogether
PROPERTIES
    AllEnd
    CalmSucceeds
