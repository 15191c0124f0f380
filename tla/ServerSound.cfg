SPECIFICATION FairSpec
CONSTANTS
    Requests = {r1, r2, r3}
    Sessions = {s1}
    EmptyId = empty
    None = None
    p1 = p1
    p2 = p2
    Prefixes = {p1, p2}
    MaxQueueSize = 2
    Configs <- MCConfigs
CHECK_DEADLOCK FALSE
INVARIANTS TypeOK SlotAccounting CallsMatchRequests CloseIsLast PostfillScheduled SnapshotSettles
PROPERTIES EveryRequestAnswered PendingClears
