SPECIFICATION FairSpec
CONSTANTS
    c1 = c1
    c2 = c2
    c3 = c3
    Clients <- Three
    Slugs = {s1}
    Hosts = {h1, h2}
    DefaultHost = h1
    Place <- ByName
    MaxFaults = 1
CHECK_DEADLOCK FALSE
INVARIANT TypeOK
INVARIANT NothingDangling
INVARIANT SweepComplete
 
