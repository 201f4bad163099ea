\* A file renamed, and the commit the anchor was captured at collected.
SPECIFICATION Spec
CONSTANTS
    a = a
    b = b
    t = t
    NoFile = NoFile
    Line <- MCLine
    Tree <- MCTree
    Snapshot <- MCSnapshot
    Survives <- MCSurvives
    Similar <- MCSimilar
    Seed <- MCSeed
    Hash <- MCHash
    ShingleLen = 1
    MaxCommits = 3
INVARIANT
    GenesisBearsNoLoad
