\* Two rotations of one link, the second signed with the key of the first.
SPECIFICATION Spec
CONSTANTS
    p1 = p1
    p2 = p2
    ed1 = ed1
    ed2 = ed2
    Process <- TwoProcesses
    Subject <- NoSubject
    Key <- TwoKeys
    Ed25519 <- TwoKeys
    Parsing <- TwoKeys
    Signature <- AndAnotherArmor
    MaxClaims = 3
INVARIANTS
    RotationsFollowTheirLink
CHECK_DEADLOCK FALSE
