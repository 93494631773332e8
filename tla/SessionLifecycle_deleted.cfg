CONSTANTS
    Ids = {s1}
    Slugs = {n1}
    Branches = {b1}
    Objects = {g1, g2}
    NoId = NoId
    NoSlug = NoSlug
    NoObject = NoObject
    NoBranch = NoBranch
    MaxDeaths = 0
SPECIFICATION Spec
INVARIANT DeletedStaysGone
CHECK_DEADLOCK FALSE
