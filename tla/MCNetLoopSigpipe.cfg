SPECIFICATION Spec
CONSTANTS
    Conn = {c1, c2}
    Fd = {1, 2}
    NULL = NULL
    Listener = 0
    Backlog = 2
    MaxClients = 2
    MaxUnread = 1
    Relock = {"reenter"}
    PipeSignal = TRUE
INVARIANT FailedSendReported
