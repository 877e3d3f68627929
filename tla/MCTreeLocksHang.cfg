SPECIFICATION Spec
\* The calls of a thread that blocks on its own tree_lock end here.
CHECK_DEADLOCK FALSE
CONSTANTS
    Thread = {t1}
    Node = {n1, n2}
    NULL = NULL
    Unknown = Unknown
    MaxChildren = 2
    QueueSize = 2
    Relock = {"block"}
    MaxCalls = 3
PROPERTY DeleteReturns
