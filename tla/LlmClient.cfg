CONSTANTS
    Calls = {"a", "b"}
    Kinds <- Tasks
    Keys = {"k1", "k2"}
    NoKey = "none"
    Configs <- Deployments
    Models <- Wanted
    MaxRetries = 2
    Batches = 2
    BatchSize = 2
SPECIFICATION Spec
INVARIANTS TypeOK StreamsAreWhole VectorsFromOneModel NoticeOfKeyInUse RequestsAreBounded
