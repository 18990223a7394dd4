CONSTANTS
    a = a
    b = b
    c = c
    d = d
    FactId = {a, b, c, d}
    Fact <- GraphFacts
    Status <- TenthsOfConfidence
    Valid = 10
    Threshold = 6
    MaxFacts = 4
    Verifiable = {a}
SPECIFICATION Spec
INVARIANTS
    Acyclic
    PropagationInv
    ValidIffSupported
    Confluent
PROPERTY
    NoResurrection
