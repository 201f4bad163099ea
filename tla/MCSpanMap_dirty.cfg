\* A span of the working tree, once its bytes are committed as they were.
CONSTANTS
    a = a
    b = b
    c = c
    Line <- MCLine
    Unterminated <- MCUnterminated
    Width <- MCWidth
    MaxLines = 3
    MaxNumber = 5
SPECIFICATION Spec
INVARIANT
    CommittedContentIsFound
