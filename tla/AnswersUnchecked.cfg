CONSTANTS
    Docs = {"d1", "d2"}
    Children = {"a", "b", "c", "e"}
    DocOf <- Document
    ParentOf <- Parent
    SectionOf <- Section
    PrefixOf <- Prefix
    Anywhere = "anywhere"
    Limit = 2
    Pool = 2
    Depth = 1
    TopK = 2
    MaxRetries = 1
    MaxRewrites = 1
    MaxSteps = 2
SPECIFICATION Spec
INVARIANT OnlyCheckedAnswersCached
