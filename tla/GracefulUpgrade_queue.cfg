SPECIFICATION Spec
CONSTANTS
    Sessions = {s1, s2}
    Inputs = {m1}
    Shells = {b1}
    MaxTools = 1
    MaxFaults = 0
    MaxUpgrades = 1
CHECK_DEADLOCK FALSE
INVARIANT QueuedForReplacement
