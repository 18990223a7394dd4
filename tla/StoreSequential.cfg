CONSTANTS
    r1 = r1
    r2 = r2
    a = a
    b = b
    None = None
    Request = {r1}
    FactId = {a, b}
    Parents <- ChainParents
    Kinds <- EveryKind
    MaxTime = 3
    MaxJournal = 3
    Overlap = FALSE
    Patient = TRUE
    Snapshots = TRUE
    Purging = TRUE
    Complete = TRUE
    Failures = TRUE
SPECIFICATION Spec
SYMMETRY Twins
INVARIANTS
    Durable
    ReadYourWrites
