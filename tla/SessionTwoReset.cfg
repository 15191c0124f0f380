SPECIFICATION Spec
CONSTANTS
    Sessions = {s1, s2}
    None = None
    Tokens = {1, 2}
    StopTokens = {}
    Greedy <- MCGreedy
    Prompts <- MCShortPrompts
    Policies = {"reset"}
    PostfillMode = "deferred"
    MaxSeqLen = 2
    MaxTokens = 2
    MaxPostfills = 1
    CanFail = FALSE
    OnWorker = FALSE
    PatientClient = FALSE
SYMMETRY SessionSymmetry
INVARIANTS StoredLogitsExact ActiveSessionHeld PendingIsScheduled
