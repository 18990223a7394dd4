CONSTANTS
    f1 = f1
    f2 = f2
    r1 = r1
    r2 = r2
    None = None
    Request = {r1}
    Decision = {"d"}
    Fact = {f1}
    MaxTime = 1
    MaxVersion = 2
    MaxTokens = 1
    TTL = 2
    Overlap = FALSE
    Recovery = FALSE
    Policies = FALSE
    Enough = {{}, {f1}}
    Redefine = FALSE
    Reviews = TRUE
    Failures = FALSE
SPECIFICATION Spec
SYMMETRY Twins
CHECK_DEADLOCK FALSE
INVARIANT
    BlockJustified
