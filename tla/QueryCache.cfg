CONSTANTS
    Docs = {"doc"}
    Requests = {"r1", "r2"}
    Keys <- MCKeys
    Sweepers = {"sweeper"}
    TTL = 2
    Backends = {"redis", "memory"}
    CanFail = TRUE
    CanCrash = TRUE
SPECIFICATION FairSpec
INVARIANTS TypeOK StaleOnlyByRace
PROPERTIES StaleExpires
