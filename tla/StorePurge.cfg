CONSTANTS
    r1 = r1
    r2 = r2
    a = a
    b = b
    None = None
    Request = {r1}
    FactId = {a, b}
    Parents <- ChainParents
    Kinds <- AssertRevalidate
    MaxTime = 4
    MaxJournal = 3
    Overlap = FALSE
    Patient = TRUE
    Snapshots = TRUE
    Purging = TRUE
    Complete = FALSE
    Failures = FALSE
SPECIFICATION Spec
SYMMETRY Twins
INVARIANT
    ReadYourWrites
