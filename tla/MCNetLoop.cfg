SPECIFICATION Spec
CONSTANTS
    Conn = {c1, c2, c3}
    Fd = {1, 2, 3}
    NULL = NULL
    Listener = 0
    MaxClients = 2
    Backlog = 2
    PipeSignal = FALSE
    MaxUnread = 1
    Relock = {"reenter"}
INVARIANTS
    TypeOK
    TableOwnsSockets
PROPERTIES
    ImplementsService
    WaitingAreAccepted
    CommandsAreRead
    DisconnectionHandled
