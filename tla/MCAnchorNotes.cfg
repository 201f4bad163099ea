\* Two injects and two removes racing, with captures pruned under them.
SPECIFICATION Spec
CONSTANTS
    p1 = p1
    p2 = p2
    a1 = a1
    c1 = c1
    x = x
    y = y
    Process <- TwoProcesses
    Position <- OnePosition
    Whole <- OneCommit
    Hints <- TwoHints
    Kind <- TwoKinds
    Schema <- Schemas
    MaxNotes = 2
    MaxRemoves = 2
    MaxReaders = 1
INVARIANTS
    TypeOK
    RegistryResolves
    InjectedIsRegistered
    RemovedOnce
    NoteIsOfItsAnchor
    ListingsAreWhole
SYMMETRY Symmetry
