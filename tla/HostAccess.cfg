SPECIFICATION FairSpec
CONSTANTS
    HostKeys = {k1, k2}
    Users = {u1}
    MaxOps = 2
    MaxFaults = 1
CHECK_DEADLOCK FALSE
INVARIANT TypeOK
INVARIANT NoRevocationLost
 
 
PROPERTY HostGetsIn
