SPECIFICATION FairSpec
CONSTANTS
    a = a
    b = b
    Names = {a, b}
    Configs <- MCRetained
    None = None
CHECK_DEADLOCK FALSE
INVARIANT KillEndsContainer
