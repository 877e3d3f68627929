SPECIFICATION Spec
CONSTANTS
    Conn = {c1}
    Fd = {1, 2}
    NULL = NULL
    Listener = 0
    MaxClients = 2
    Backlog = 2
    PipeSignal = FALSE
    MaxUnread = 1
    Relock = {"reenter"}
PROPERTY ShutdownCompletes
