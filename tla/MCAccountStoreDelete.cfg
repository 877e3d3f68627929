SPECIFICATION Spec
CONSTANTS
    Thread = {t1}
    MAX_ACCOUNTS = 2
    MaxIds = 2
    Room = 4
    Heading = 1
    Entry = 2
    NULL = NULL
INVARIANT DeletesById
