\* A revocation revoked: sign, revoke, revoke.
SPECIFICATION Spec
CONSTANTS
    w1 = w1
    w2 = w2
    w3 = w3
    c1 = c1
    Writer <- TwoWriters
    Subject <- OneCommit
    PayloadKind <- Labels
    MaxCalls = 3
INVARIANTS
    EveryRevokedClaimIsMarked
CHECK_DEADLOCK FALSE
