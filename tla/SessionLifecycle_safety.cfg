CONSTANTS
    Ids = {s1, s2}
    Slugs = {n1, n2}
    Branches = {b1}
    Objects = {g1, g2}
    NoId = NoId
    NoSlug = NoSlug
    NoObject = NoObject
    NoBranch = NoBranch
    MaxDeaths = 1
SPECIFICATION Spec
SYMMETRY MCSymmetry
INVARIANT TypeOK
INVARIANT IntentionalStopNotRespawned
INVARIANT ReplacedProcessGone
INVARIANT SharedWorktreeKept
INVARIANT RegisteredIsDurable
CHECK_DEADLOCK FALSE
