CONSTANTS
    Parts = {"listings", "catalogue", "billing", "records", "accounts", "gateway", "views", "usage"}
    MaxTime = 3
    q1 = q1
    q2 = q2
    f1 = f1
    Id = {1, 2, 3}
    MaxPage = 2
    DefaultPage = 1
    MaxDays = 2
    Plans = {"free"}
    Session = {1, 2, 3}
    Patched = {1}
    Fields = {"description"}
    Request = {q1, q2}
    FreeMax = 1
    ProMax = 2
    ListCap = 2
    ListDefault = 1
    Export = {q1, q2}
    MaxJournal = 2
    Event = {1, 2}
    Handler = {q1, q2}
    MaxFaults = 1
    Editor = {q1, q2}
    ApiKey = {1, 2}
    MaxResets = 2
    Caller = {q1, q2}
    MaxSaves = 4
    Try = {q1, q2}
    MaxTries = 3
    DefaultLimit = 1
    ProLimit = 2
    Windows = {1, 2}
    RateTTL = 1
    ReplayWindow = 1
    RecordTTL = 1
    MaxWrites = 1
    ViewFact = {f1}
    Writer = {q1, q2}
    Verdicts = {"verified"}
    SliceTTL = 1
    MaxChanges = 2
    Client = {q1, q2}
    MaxServed = 3
    Hour = 2
SPECIFICATION MCSpec
SYMMETRY Symmetry
CHECK_DEADLOCK FALSE
INVARIANTS
    ListedOnce
    WalkComplete
    OvershootBounded
    PatchKeepsLabels
    PatchesKeepRest
    CountsAccounted
    OrderlyBilling
    AccountAsMeant
    ResetEndsSessions
    HandedKeysWork
    WithinRate
    RetryAfterHonest
    RunsOnce
    RebuildAgrees
    SliceCurrent
    SearchCurrent
PROPERTY
    NoEarlyRefusal
