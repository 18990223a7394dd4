CONSTANTS
    r1 = r1
    r2 = r2
    a = a
    b = b
    None = None
    Request = {r1, r2}
    FactId = {a, b}
    Parents <- ChainParents
    Kinds <- Mutations
    MaxTime = 1
    MaxJournal = 3
    Overlap = TRUE
    Patient = TRUE
    Snapshots = FALSE
    Purging = FALSE
    Complete = FALSE
    Failures = FALSE
SPECIFICATION Spec
SYMMETRY Twins
INVARIANTS
    JournalReplays
    Durable
    CacheCurrent
