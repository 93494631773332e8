SPECIFICATION FairSpec
CONSTANTS
    Reqs = {r1}
    Phones = {p1}
    Ptys = {y1}
    MaxTunnels = 2
    MaxOpen = 2
    ChCap = 1
INVARIANT TypeOK PendingMatchesWaiting NewestServes
PROPERTY AnsweredOnce RequestsEnd
CHECK_DEADLOCK FALSE
