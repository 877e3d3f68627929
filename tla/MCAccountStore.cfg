SPECIFICATION Spec
CONSTANTS
    Thread = {t1, t2}
    MAX_ACCOUNTS = 3
    MaxIds = 4
    Room = 4
    Heading = 1
    Entry = 2
    NULL = NULL
SYMMETRY Symmetry
INVARIANTS
    StoreTypeOK
    StoreCountExact
    UnlocksItsOwn
    ListWithinBuffer
PROPERTIES
    ImplementsSet
