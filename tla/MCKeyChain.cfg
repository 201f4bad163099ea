\* Two processes and two ssh keys; the system stops once every claim is made.
SPECIFICATION Spec
CONSTANTS
    p1 = p1
    p2 = p2
    ed1 = ed1
    ed2 = ed2
    Process <- TwoProcesses
    Subject <- NoSubject
    Key <- TwoKeys
    Ed25519 <- TwoKeys
    Parsing <- TwoKeys
    Signature <- AndAnotherArmor
    MaxClaims = 3
INVARIANTS
    TypeOK
    LinksResolveInTurn
    VerifiedUnderResolvedKey
    PoisonedFromBelow
    DocumentsReachable
PROPERTIES
    VerdictsAreFinal
SYMMETRY Symmetry
CHECK_DEADLOCK FALSE
