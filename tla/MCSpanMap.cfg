\* Every range of every file of up to three lines, into every other such file.
CONSTANTS
    a = a
    b = b
    c = c
    Line <- MCLine
    Unterminated <- MCUnterminated
    Width <- MCWidth
    MaxLines = 3
    MaxNumber = 5
SPECIFICATION Spec
INVARIANTS
    TypeOK
    CandidateIsCapturedText
    MappedLinesAreUnchanged
    OnlyTouchedSpansAreLost
    CapturedAsAsked
