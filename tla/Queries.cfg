CONSTANTS
    a = a
    b = b
    c = c
    d = d
    None = None
    FactId = {a, b, c, d}
    Fact <- QueryFacts
    Status <- Extremes
    Valid = 10
    Threshold = 6
    MaxFacts = 4
    Verifiable = {}
SPECIFICATION FairQuerySpec
INVARIANTS
    ChainsResolve
    MonotoneImpactExact
PROPERTIES
    PropagationEnds
    ExpiryTakesEffect
