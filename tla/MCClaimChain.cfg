\* Three writers racing; the calls include claims about claims, revocations and
\* revocations of revocations. The system stops once every call is made.
SPECIFICATION FairSpec
CONSTANTS
    w1 = w1
    w2 = w2
    w3 = w3
    c1 = c1
    Writer <- ThreeWriters
    Subject <- OneCommit
    PayloadKind <- Labels
    MaxCalls = 3
INVARIANTS
    TypeOK
    SequenceIsPosition
    EachCallLandsOnce
    AnsweredClaimsStay
    RetryMeansProgress
    MarksAreRevocations
PROPERTIES
    OnlyAppends
    EveryCallEnds
    ImplementsClaimLog
CHECK_DEADLOCK FALSE
