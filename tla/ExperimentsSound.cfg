SPECIFICATION FairSpec
CONSTANTS
    a = a
    b = b
    Names = {a, b}
    Configs <- MCConfigs
    None = None
CHECK_DEADLOCK FALSE
INVARIANTS TypeOK RecoveredKillEndsContainer ZeroMeansComplete RowsOfOneRun ReportsAreOwn
PROPERTIES RecoveryWorks RunEnds
