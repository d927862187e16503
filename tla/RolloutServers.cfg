SPECIFICATION FairSpec
CONSTANTS
    Standalone = {s1}
    Hybrid = {h1}
    Training = {t1}
    Validation = {v1}
    Turns = 2
    CacheSize = 1
    Partial = TRUE
    MaxVersion = 2
    None = None
INVARIANTS TypeOK NoInventedLoad OneVersion
PROPERTIES GrantsAwake AllServed
