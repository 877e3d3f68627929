------------------------------ MODULE NetLoop ------------------------------
(***************************************************************************)
(* The event loop of phantomid-with-tree: main, phantom_run and net_run    *)
(* with its table of clients, in one thread, against the clients and the   *)
(* kernel of Sockets, and a signal.                                        *)
(*                                                                         *)
(* What a handler does to the accounts is in PhantomTree and TreeLocks;    *)
(* here on_receive reads what has arrived and sends one answer.            *)
(* Client sockets are non-blocking: a recv that finds nothing fails.       *)
(* clients_lock and the slot locks are default mutexes that only this      *)
(* thread locks; the one place where it locks them while it holds them is  *)
(* net_remove_client (see Relock in TreeLocks).                            *)
(***************************************************************************)
EXTENDS Sockets

CONSTANTS MaxClients,   \* NET_MAX_CLIENTS, the length of the client table
          Relock,       \* what locking an owned mutex may do
          PipeSignal    \* a send to a reset connection raises SIGPIPE

ASSUME RelockAssumption == Relock # {} /\ Relock \subseteq {"block", "reenter"}
ASSUME TableAssumption == MaxClients \in Nat \ {0} /\ PipeSignal \in BOOLEAN

VARIABLES mainRunning,    \* running of main.c, cleared by the signal handler
          phantomRunning, \* phantom->running and network->running
          pc,             \* where the thread is
          fds,            \* readfds of net_run
          slot,           \* i of the loop over the clients
          newSocket,      \* new_socket of net_run
          clients         \* the client table

program == <<mainRunning, phantomRunning, pc, fds, slot, newSocket, clients>>
vars == <<program, kernel>>

Slot == 1 .. MaxClients

\* What a slot may hold: a client and its descriptor, or nothing.
Place == [active : {TRUE}, fd : Fd] \union [active : {FALSE}, fd : {NULL}]

-----------------------------------------------------------------------------
\* phantom_init has opened the server endpoint and blanked the client table.
Init ==
    /\ mainRunning = TRUE /\ phantomRunning = FALSE
    /\ pc = "main"
    /\ fds = {} /\ slot = 1 /\ newSocket = NULL
    /\ clients = [i \in Slot |-> [active |-> FALSE, fd |-> NULL]]
    /\ KernelInit

\* Where net_run returns to: phantom_run calls it again while it is running.
AfterNetRun == IF phantomRunning THEN "select" ELSE "main"

Over == pc \in {"exited", "killed"}

\* SIGINT, SIGTERM or SIGHUP: handle_signal clears running of main.c; a
\* select it interrupts fails with EINTR and net_run returns.
Signal ==
    /\ mainRunning /\ ~Over
    /\ mainRunning' = FALSE
    /\ pc' = IF pc = "select" THEN AfterNetRun ELSE pc
    /\ UNCHANGED <<phantomRunning, fds, slot, newSocket, clients, kernel>>

-----------------------------------------------------------------------------
\* The loop of main: run the daemon, or clean up and exit.
MainLoop ==
    /\ pc = "main"
    /\ phantomRunning' = mainRunning
    /\ pc' = IF mainRunning THEN "select" ELSE "exited"
    /\ UNCHANGED <<mainRunning, fds, slot, newSocket, clients, kernel>>

\* The descriptors net_run puts in readfds: the listener and the active clients.
Watched == {Listener} \union {clients[i].fd : i \in {j \in Slot : clients[j].active}}

\* net_run up to the return of select: the watched descriptors that are
\* ready, or none after its second.
Select ==
    /\ pc = "select"
    /\ fds' = {f \in Watched : Ready(f)}
    /\ pc' = "accept"
    /\ UNCHANGED <<mainRunning, phantomRunning, slot, newSocket, clients, kernel>>

\* A slip of CanAccept: nothing is accepted while the table is full.
CanAcceptIfRoom == Listener \in fds /\ FreeFds # {} /\ \E i \in Slot : ~clients[i].active

CanAccept == Listener \in fds /\ FreeFds # {}

\* One accept in a pass.
Accept ==
    /\ pc = "accept" /\ CanAccept
    /\ \E f \in Fd : Take(f) /\ newSocket' = f
    /\ pc' = "add"
    /\ UNCHANGED <<mainRunning, phantomRunning, fds, slot, clients>>

\* No new connection, or no descriptor for it (accept fails).
NoAccept ==
    /\ pc = "accept" /\ ~CanAccept
    /\ pc' = "serve" /\ slot' = 1
    /\ UNCHANGED <<mainRunning, phantomRunning, fds, newSocket, clients, kernel>>

FreeSlots == {i \in Slot : ~clients[i].active}

\* net_add_client: the first free slot.
AddClient ==
    /\ pc = "add"
    /\ \E i \in FreeSlots :
         /\ \A j \in FreeSlots : i <= j
         /\ clients' = [clients EXCEPT ![i] = [active |-> TRUE, fd |-> newSocket]]
    /\ pc' = "serve" /\ slot' = 1 /\ newSocket' = NULL
    /\ UNCHANGED <<mainRunning, phantomRunning, fds, kernel>>

\* A slip of RefuseFds: the refused socket is not closed.
RefuseFdsLeaking == {}

RefuseFds == {newSocket}

\* The table is full: the new socket is closed at once.
RefuseClient ==
    /\ pc = "add" /\ FreeSlots = {}
    /\ Close(RefuseFds)
    /\ pc' = "serve" /\ slot' = 1 /\ newSocket' = NULL
    /\ UNCHANGED <<mainRunning, phantomRunning, fds, clients>>

-----------------------------------------------------------------------------
\* The loop over the clients, with clients_lock and the slot's lock held.

\* A slip of Readable: select's answer is not looked at.
ReadableAnyway(i) == clients[i].active

Readable(i) == clients[i].active /\ clients[i].fd \in fds

\* A slip of LastSlot: the loop ends one slot early.
LastSlotButOne == MaxClients - 1

LastSlot == MaxClients

\* The loop stands at slot i, the next one with something to read.
AtSlot(i) ==
    /\ pc = "serve" /\ i \in slot .. LastSlot /\ Readable(i)
    /\ \A j \in slot .. i - 1 : ~Readable(j)

\* recv gives all that has arrived, and on_receive handles it as one command:
\* the words of a second one that came with it are taken for arguments of the
\* first (sscanf, phantomid.c:500) or not looked at.
ReadCommand ==
    /\ \E i \in Slot :
         /\ AtSlot(i) /\ unread[socket[clients[i].fd]] > 0
         /\ Receive(socket[clients[i].fd])
         /\ slot' = i
    /\ pc' = "answer"
    /\ UNCHANGED <<mainRunning, phantomRunning, fds, newSocket, clients>>

\* net_send: neither is the signal ignored nor MSG_NOSIGNAL given.  Where the
\* system has no such signal a send that fails is only logged.
Answer ==
    LET c == socket[clients[slot].fd] IN
    /\ pc = "answer"
    /\ IF PipeSignal THEN Transmit(c) ELSE UNCHANGED kernel
    /\ pc' = IF PipeSignal /\ ended[c] = "broken" THEN "killed" ELSE "serve"
    /\ slot' = slot + 1
    /\ UNCHANGED <<mainRunning, phantomRunning, fds, newSocket, clients>>

\* A slip of Vacated: net_remove_client leaves the descriptor where it was.
VacatedInPart(client) == [client EXCEPT !.active = FALSE]

\* What net_remove_client makes of a slot.
Vacated(client) == [active |-> FALSE, fd |-> NULL]

\* The slots net_remove_client clears for descriptor f.
Matching(f) == {i \in Slot : clients[i].active /\ clients[i].fd = f}

\* recv gives 0 or an error: net_remove_client is called under clients_lock
\* and the slot's lock and locks both again.
DropClient ==
    /\ \E i \in Slot, outcome \in Relock :
         LET f == clients[i].fd IN
         /\ AtSlot(i) /\ unread[socket[f]] = 0
         /\ IF outcome = "block"
            THEN pc' = "hung" /\ UNCHANGED <<clients, slot, kernel>>
            ELSE /\ Close({f})
                 /\ clients' = [j \in Slot |-> IF j \in Matching(f) THEN Vacated(clients[j])
                                               ELSE clients[j]]
                 /\ slot' = i + 1 /\ UNCHANGED pc
    /\ UNCHANGED <<mainRunning, phantomRunning, fds, newSocket>>

NetRunEnd ==
    /\ pc = "serve" /\ \A i \in slot .. LastSlot : ~Readable(i)
    /\ pc' = AfterNetRun
    /\ fds' = {} /\ slot' = 1
    /\ UNCHANGED <<mainRunning, phantomRunning, newSocket, clients, kernel>>

-----------------------------------------------------------------------------
Server == \/ MainLoop \/ Select \/ Accept \/ NoAccept \/ AddClient \/ RefuseClient
          \/ ReadCommand \/ Answer \/ DropClient \/ NetRunEnd

Exited == Over /\ UNCHANGED vars

Next ==
    \/ Server \/ Signal \/ Exited
    \/ ~Over /\ (\E c \in Conn : Client(c)) /\ UNCHANGED program

\* The thread runs whenever it can (select waits a second at most); clients
\* and signals come as they please.
Spec == Init /\ [][Next]_vars /\ WF_vars(Server)

-----------------------------------------------------------------------------
\* The variables have the types of the C structures, and a slot has a
\* descriptor exactly while it is active: net_add_client and net_remove_client
\* write both fields.
TypeOK ==
    /\ KernelTypeOK
    /\ mainRunning \in BOOLEAN /\ phantomRunning \in BOOLEAN
    /\ pc \in {"main", "select", "accept", "add", "serve", "answer", "hung", "exited", "killed"}
    /\ fds \subseteq Fd \union {Listener}
    /\ slot \in 1 .. MaxClients + 1
    /\ newSocket \in Fd \union {NULL}
    /\ clients \in [Slot -> Place]

\* The table and the kernel agree: an active slot owns an open socket, no two
\* slots own the same one, and every open socket but the one being accepted
\* is in a slot.  A socket in no slot is never read or closed again (the
\* descriptors run out); a slot with a closed or reused descriptor reads and
\* closes another client's connection.
TableOwnsSockets ==
    /\ \A i \in Slot : clients[i].active => clients[i].fd \in Fd /\ socket[clients[i].fd] # NULL
    /\ \A i, j \in Slot :
         clients[i].active /\ clients[j].active /\ clients[i].fd = clients[j].fd => i = j
    /\ \A f \in Fd : socket[f] # NULL => f = newSocket \/ \E i \in Slot : clients[i].active /\ clients[i].fd = f

\* What the daemon owes to client c.
Standing(c) ==
    CASE conn[c] = "new" -> "away"
      [] conn[c] = "queued" \/ (newSocket # NULL /\ socket[newSocket] = c) -> "waiting"
      [] \E i \in Slot : clients[i].active /\ socket[clients[i].fd] = c -> "served"
      [] OTHER -> "gone"

Service == INSTANCE ClientService WITH
    Capacity <- MaxClients,
    standing <- [c \in Conn |-> Standing(c)],
    leaving <- {c \in Conn : Standing(c) \in {"waiting", "served"} /\ ended[c] # "no"}

\* The loop implements ClientService: a client is served until it hangs up,
\* and refused only when it came while the table was full ("Maximum Clients:
\* 10").  recv of a socket that is not ready fails with EAGAIN, which net_run
\* would take for a disconnection, and a slot taken twice or given back too
\* early would end the service of another.
ImplementsService == Service!Spec

\* A connection in the backlog is accepted or refused, unless the daemon exits
\* (a signal came before the first net_run).
WaitingAreAccepted == \A c \in Conn : conn[c] = "queued" ~> (conn[c] # "queued" \/ pc = "exited")

\* A command of a client that stays is read, however busy the others are.
CommandsAreRead ==
    \A c \in Conn : (conn[c] = "open" /\ unread[c] > 0) ~> (unread[c] = 0 \/ conn[c] = "closed")

\* "Handle disconnection" (network.c:337): the slot and the socket of a client
\* that hung up are released.
DisconnectionHandled == \A c \in Conn : (conn[c] = "open" /\ ended[c] # "no") ~> conn[c] = "closed"

\* "Signal handler for graceful shutdown" (main.c:19): after a signal the
\* daemon cleans up and exits.
ShutdownCompletes == ~mainRunning ~> pc = "exited"

\* "Failed to send response to client" (phantomid.c:645): a send that fails is
\* reported and the daemon goes on.
FailedSendReported == pc # "killed"
=============================================================================
