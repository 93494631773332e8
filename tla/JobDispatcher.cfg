SPECIFICATION DaemonFairSpec
CONSTANTS
    j1 = j1
    j2 = j2
    Jobs <- Both
    MaxSessions = 2
    Threshold <- Disagree
    Priority <- Prio
    AutoContinue <- OnlySecond
    Levels = {1, 2, 3}
    MaxRetries = 1
    MaxFaults = 1
INVARIANT DaemonTypeOK OnlyShieldedRunOver
PROPERTY PausedResumes
CHECK_DEADLOCK FALSE
