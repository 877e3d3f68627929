SPECIFICATION Spec
\* A thread that blocks on its own clients_lock stops the daemon.
CHECK_DEADLOCK FALSE
CONSTANTS
    Conn = {c1}
    Fd = {1, 2}
    NULL = NULL
    Listener = 0
    MaxClients = 2
    Backlog = 2
    PipeSignal = FALSE
    MaxUnread = 1
    Relock = {"block"}
PROPERTY DisconnectionHandled
