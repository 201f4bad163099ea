\* One revision moving, rewritten and pruned under calls of each kind that reads.
SPECIFICATION Spec
CONSTANTS
    a = a
    b = b
    t = t
    NoFile = NoFile
    Line <- MCLine
    Tree <- MCTree
    Snapshot <- MCSnapshot
    Survives <- MCSurvives
    Similar <- MCSimilar
    Seed <- MCSeed
    Hash <- MCHash
    ShingleLen = 1
    MaxCommits = 3
INVARIANTS
    TypeOK
    VerdictsHeld
    HybridHeldUnderForward
PROPERTIES
    PruningKeepsValid
