CONSTANTS
    w1 = w1
    w2 = w2
    w3 = w3
    Docs = {"d"}
    Batches = 1
    Workers <- MCWorkers
    FtsCap = 2
    Backends = {"sqlite", "postgres"}
SYMMETRY Symmetry
SPECIFICATION Spec
INVARIANTS TypeOK IndexExact CheckpointSurvives DeletedStaysDeleted EmbeddedInContext
