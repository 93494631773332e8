SPECIFICATION FairSpec
CONSTANTS
    Sessions = {s1, s2}
    Inputs = {m1}
    Shells = {b1}
    MaxTools = 2
    MaxFaults = 1
    MaxUpgrades = 1
CHECK_DEADLOCK FALSE
INVARIANT TypeOK
INVARIANT BannerCleared
INVARIANT NothingOvercounted
PROPERTY DrainEnds
