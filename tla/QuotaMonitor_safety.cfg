CONSTANTS
    Headroom = 1
    AutoContinue = TRUE
    Policies = {"allowlist", "strict-allowlist"}
    StdinCap = 2
    MaxQuota = 2
    MaxUser = 0
    MaxTokens = 1
    OutCap = 1
SPECIFICATION Spec
INVARIANT TypeOK
INVARIANT FailedOnlyWithoutTurnEnd
INVARIANT OneMarkPerPause
INVARIANT NoDuplicateInput
CHECK_DEADLOCK FALSE
