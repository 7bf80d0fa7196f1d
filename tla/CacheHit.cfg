CONSTANTS
    Docs = {"doc"}
    Requests = {"r1"}
    Keys = {"ask"}
    Sweepers = {"sweeper"}
    TTL = 2
    Backends = {"memory"}
    CanFail = FALSE
    CanCrash = FALSE
SPECIFICATION Spec
INVARIANTS RepeatedQuestionsAnswered
