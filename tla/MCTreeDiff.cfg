\* Every pair of small trees.
CONSTANTS
    x = x
    y = y
    one = one
    two = two
    Name <- MCName
    Object <- MCObject
    Mode <- MCMode
    Tree <- MCTree
    MaxDepth = 3
SPECIFICATION Spec
INVARIANTS
    TypeOK
    ChangesMakeHead
    ChangesAreTheDiff
    ChangesAreApart
    NothingEqualIsRead
\* A diff ends.
CHECK_DEADLOCK FALSE
