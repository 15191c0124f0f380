SPECIFICATION Spec
CONSTANTS
    Requests = {r1, r2}
    Sessions = {s1, s2}
    EmptyId = empty
    None = None
    p1 = p1
    p2 = p2
    Prefixes = {p1}
    MaxQueueSize = 2
    Configs <- MCLengthOnly
SYMMETRY RequestSymmetry
CHECK_DEADLOCK FALSE
INVARIANTS PostfillScheduled
