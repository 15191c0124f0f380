SPECIFICATION Spec
CONSTANTS
    Sessions = {s1}
    None = None
    Tokens = {1, 2}
    StopTokens = {}
    Greedy <- MCGreedy
    Prompts <- MCPrompts
    Policies = {"reuse", "reset"}
    PostfillMode = "deferred"
    MaxSeqLen = 3
    MaxTokens = 2
    MaxPostfills = 1
    CanFail = FALSE
    OnWorker = TRUE
    PatientClient = TRUE
PROPERTIES RefinesStateless
