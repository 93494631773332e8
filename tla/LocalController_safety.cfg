CONSTANTS
    Projects = {p1}
    Children = {c1, c2}
    NoChild = NoChild
    NoKey = NoKey
    MaxStarts = 2
SPECIFICATION FairSpec
INVARIANT TypeOK
INVARIANT OneAgentPerProject
INVARIANT NoAgentWithoutDir
PROPERTY GraceEnds
CHECK_DEADLOCK FALSE
