CONSTANTS
    Headroom = 1
    AutoContinue = FALSE
    Policies = {"allowlist", "strict-allowlist"}
    StdinCap = 4
    MaxQuota = 1
    MaxUser = 1
    MaxTokens = 1
    OutCap = 1
SPECIFICATION FairSpec
INVARIANT InterruptPerBreach
PROPERTY QuotaStopTakesEffect
CHECK_DEADLOCK FALSE
