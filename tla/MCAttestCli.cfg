\* Two commands by two users of a fresh repository, and one rotation or one change
\* of key files in between.
SPECIFICATION Spec
CONSTANTS
    p1 = p1
    p2 = p2
    ed1 = ed1
    ed2 = ed2
    c1 = c1
    Process <- TwoProcesses
    Subject <- SomeSubject
    Key <- TwoKeys
    Ed25519 <- TwoKeys
    Parsing <- TwoKeys
    MaxClaims = 6
    MaxCommands = 2
    MaxChanges = 1
INVARIANTS
    TypeOK
    ClaimsAreReadable
    DefaultKeyDecides
    GivenKeyHasVerdict
SYMMETRY Symmetry
CHECK_DEADLOCK FALSE
