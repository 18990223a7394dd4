CONSTANTS
    a = a
    b = b
    c = c
    l = l
    s1 = s1
    s2 = s2
    Session = {s1, s2}
    GlobalId = {a, b, c}
    GParents <- JoinedParents
    Value = {1}
    LocalId = {l}
    Needs <- NeedsJoined
SPECIFICATION Spec
SYMMETRY Twins
INVARIANT
    PartitionCorrect
PROPERTY
    DependentsReached
