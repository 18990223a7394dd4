CONSTANTS
    f1 = f1
    f2 = f2
    r1 = r1
    r2 = r2
    None = None
    Request = {r1}
    Decision = {"d"}
    Fact = {f1, f2}
    MaxTime = 1
    MaxVersion = 1
    MaxTokens = 2
    TTL = 2
    Overlap = FALSE
    Recovery = TRUE
    Policies = FALSE
    Enough = {{}, {f1}, {f2}, {f1, f2}}
    Redefine = TRUE
    Reviews = TRUE
    Failures = FALSE
SPECIFICATION Spec
SYMMETRY Twins
CHECK_DEADLOCK FALSE
INVARIANT
    ExecutesOnDeclared
    AtMostOnce
