CONSTANTS
    f1 = f1
    f2 = f2
    f3 = f3
    f4 = f4
    p1 = p1
    p2 = p2
    NoFact = NoFact
    NoJob = NoJob
    Tenant = "tenant"
    FactIds <- MCFactIds
    Promoters <- MCPromoters
    Users = {"ann", "bob"}
    Claims <- MCClaims
    Kind <- MCKind
    Hedged = {"maybe"}
    Contradicts <- MCContradicts
    Observations <- MCObservations
    RowCap = 1
SYMMETRY Symmetry
SPECIFICATION Spec
INVARIANTS TypeOK SupersededByStronger ShortChains 
