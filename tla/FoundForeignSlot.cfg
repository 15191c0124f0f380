SPECIFICATION Spec
CONSTANTS
    Sessions = {s1, s2}
    None = None
    Tokens = {1, 2}
    StopTokens = {}
    Greedy <- MCGreedy
    Prompts <- MCPrompts
    Policies = {"reuse"}
    PostfillMode = "inline"
    MaxSeqLen = 3
    MaxTokens = 2
    MaxPostfills = 1
    CanFail = FALSE
    OnWorker = TRUE
    PatientClient = FALSE
SYMMETRY SessionSymmetry
INVARIANTS AnswerExact
