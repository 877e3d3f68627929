SPECIFICATION Spec
CONSTANTS
    Conn = {c1, c2, c3}
    Fd = {1, 2}
    NULL = NULL
    Listener = 0
    Backlog = 2
    MaxUnread = 1
    Version = {"badapi", "threadsafe", "plain", "deprecated"}
    MaxClients = 1
    Relock = {"reenter"}
INVARIANTS
    LegacyTypeOK
    SlotsOwnSockets
PROPERTIES
    ImplementsService
    LegacyAccepts
    LegacyReads
    LegacyReleases
