SPECIFICATION Spec
CONSTANTS
    MaxBlocks = 4
    MaxNumberOfBlocks = 3
    Text = {11}
    QObject = {"parent", "child"}
    ParentOf <- MCParentOf
    Ownerships = {"qt", "auto"}
    MAX_GC_DEPTH = 1
    DestructorsRun = FALSE
    Bounds <- MCBounds
INVARIANTS
    OnlyUnreachableDisposed
    HeapSound
    DeletedOnce
PROPERTIES
    NoGarbageLeft
