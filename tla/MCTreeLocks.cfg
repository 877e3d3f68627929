SPECIFICATION Spec
CONSTANTS
    Thread = {t1, t2}
    Node = {n1, n2, n3}
    NULL = NULL
    Unknown = Unknown
    MaxChildren = 2
    QueueSize = 2
    Relock = {"reenter"}
    MaxCalls = 4
INVARIANTS
    TypeOK
    CompleteWhenUnlocked
    LocksNested
    ListsEveryAccountOnce
PROPERTIES
    ImplementsTree
    FindComplete
    CallsReturn
