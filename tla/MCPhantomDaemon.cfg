SPECIFICATION DaemonSpec
CONSTANTS
    Node = {n1, n2, n3, n4, n5}
    NULL = NULL
    Unknown = Unknown
    MaxChildren = 2
SYMMETRY NodeSymmetry
INVARIANTS
    TypeOK
    LinksAgree
    AllReachable
    AdminIsRoot
    CountExact
    DaemonTypeOK
    ToldIsTrue
PROPERTIES
    AncestryKept
    SiblingOrderKept
    OverrunOnlyByDelete
    FailuresExplained
    SummaryTrue
