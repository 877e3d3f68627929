SPECIFICATION Spec
\* A thread that blocks on its own clients_lock stops the program.
CHECK_DEADLOCK FALSE
CONSTANTS
    Conn = {c1, c2}
    Fd = {1, 2}
    NULL = NULL
    Listener = 0
    Backlog = 2
    MaxUnread = 1
    Version = {"badapi"}
    MaxClients = 2
    Relock = {"block", "reenter"}
PROPERTY ConcurrentClients
