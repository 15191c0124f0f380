SPECIFICATION Spec
CONSTANTS
    Sessions = {s1, s2}
    None = None
    Tokens = {1, 2}
    StopTokens = {2}
    Greedy <- MCGreedy
    Prompts <- MCTwoPrompts
    Policies = {"reuse", "reset", "none"}
    PostfillMode = "deferred"
    MaxSeqLen = 2
    MaxTokens = 2
    MaxPostfills = 1
    CanFail = TRUE
    OnWorker = TRUE
    PatientClient = FALSE
SYMMETRY SessionSymmetry
INVARIANTS CleanCallExact
