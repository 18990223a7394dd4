CONSTANTS
    f1 = f1
    f2 = f2
    r1 = r1
    r2 = r2
    None = None
    Request = {r1}
    Decision = {"d"}
    Fact = {f1, f2}
    MaxTime = 0
    MaxVersion = 2
    MaxTokens = 1
    TTL = 1
    Overlap = TRUE
    Recovery = TRUE
    Policies = TRUE
    Enough = {{f1}, {f2}, {f1, f2}}
    Redefine = FALSE
    Reviews = FALSE
    Failures = TRUE
SPECIFICATION Spec
SYMMETRY Twins
CHECK_DEADLOCK FALSE
INVARIANT
    ExecutionJustified
    BlockJustified
