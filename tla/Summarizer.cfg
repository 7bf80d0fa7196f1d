CONSTANTS
    Callers = {"a", "b", "c"}
    Nobody = "nobody"
    Kinds = {"plain", "summary", "stream"}
    Batches = 2
    Size = 2
    CanFail = TRUE
SPECIFICATION FairSpec
INVARIANTS TypeOK OwnSummaries WordsOnlyIfSpoiled ModelIsDropped
PROPERTIES IngestionsEnd
