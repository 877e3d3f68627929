----------------------------- MODULE LegacyLoop -----------------------------
(***************************************************************************)
(* The four event loops that came before phantomid-with-tree's, against    *)
(* the clients and the kernel of Sockets:                                  *)
(*   badapi      phantomid-with-badapi/network.c                           *)
(*   threadsafe  network-with-threadsafety/network.c                       *)
(*   plain       network-without-threadsafety/network.c                    *)
(*   deprecated  depracted-network/network.c                               *)
(* They are one loop with these differences from NetLoop: select waits     *)
(* without a limit, client sockets block, a connection that finds the      *)
(* table full is neither kept nor closed, nothing ends the loop; plain     *)
(* gives a pass up when accept fails and takes only recv's 0 for a         *)
(* disconnection; deprecated never accepts.  badapi's on_client_data       *)
(* answers every command from within the loop, the callbacks of the others *)
(* only print.                                                             *)
(***************************************************************************)
EXTENDS Sockets

CONSTANTS Version,      \* the loops looked at
          MaxClients,   \* MAX_CLIENTS, the length of the client table
          Relock        \* what locking an owned mutex may do

ASSUME VersionAssumption == Version \subseteq {"badapi", "threadsafe", "plain", "deprecated"}
ASSUME TableAssumption == MaxClients \in Nat \ {0} /\ Relock \subseteq {"block", "reenter"}

VARIABLES version,      \* the loop that runs
          pc,           \* where it is
          fds,          \* readfds after select
          slot,         \* the next slot of the loop over the clients
          clients,      \* the descriptor in each slot, NULL when it is free
          full          \* the connections with no room for another answer

program == <<version, pc, fds, slot, clients>>
world == <<full, kernel>>
vars == <<program, world>>

Slot == 1 .. MaxClients

Init ==
    /\ version \in Version
    /\ pc = "select" /\ fds = {} /\ slot = 1
    /\ clients = [i \in Slot |-> NULL]
    /\ full = {}
    /\ KernelInit

FreeSlots == {i \in Slot : clients[i] = NULL}

Watched == {Listener} \union {clients[i] : i \in Slot \ FreeSlots}

\* select returns when a read of some watched descriptor would not block.
Select ==
    /\ pc = "select"
    /\ fds' = {f \in Watched : Ready(f)} /\ fds' # {}
    /\ pc' = IF version = "deprecated" THEN "receive" ELSE "accept"
    /\ slot' = 1
    /\ UNCHANGED <<version, clients, world>>

\* deprecated: recv on the listening socket fails, which is not looked at.
ReceiveFails ==
    /\ pc = "receive"
    /\ pc' = "select" /\ fds' = {}
    /\ UNCHANGED <<version, slot, clients, world>>

-----------------------------------------------------------------------------
\* A slip of CanAccept: nothing is accepted while the table is full.
CanAcceptIfRoom == Listener \in fds /\ FreeFds # {} /\ FreeSlots # {}

CanAccept == Listener \in fds /\ FreeFds # {}

\* A slip of Seat: when no slot is free the last one is used.
SeatAnyway(f) ==
    {i \in Slot : i = MaxClients \/ clients[i] = NULL} \
        {i \in Slot : \E j \in FreeSlots : j < i}

\* The slot of a new client, the first free one, if there is one.
Seat(f) == {i \in FreeSlots : \A j \in FreeSlots : i <= j}

Accept ==
    /\ pc = "accept" /\ CanAccept
    /\ \E f \in Fd :
         Take(f) /\ clients' = [i \in Slot |-> IF i \in Seat(f) THEN f ELSE clients[i]]
    /\ pc' = "serve"
    /\ UNCHANGED <<version, fds, slot, full>>

\* A slip of GivesUp: no loop goes on to its clients.
GivesUpAlways == TRUE

\* plain does not go on to its clients when accept fails.
GivesUp == version = "plain"

\* accept fails for want of a descriptor.
AcceptFails ==
    /\ pc = "accept" /\ Listener \in fds /\ ~CanAccept
    /\ IF GivesUp THEN pc' = "select" /\ fds' = {} ELSE pc' = "serve" /\ UNCHANGED fds
    /\ UNCHANGED <<version, slot, clients, world>>

NothingToAccept ==
    /\ pc = "accept" /\ Listener \notin fds
    /\ pc' = "serve"
    /\ UNCHANGED <<version, fds, slot, clients, world>>

-----------------------------------------------------------------------------
Readable(i) == clients[i] # NULL /\ clients[i] \in fds

\* The loop over the clients stands at slot i, in recv, which returns when the
\* socket is ready.
AtSlot(i) ==
    /\ pc = "serve" /\ i \in slot .. MaxClients /\ Readable(i)
    /\ \A j \in slot .. i - 1 : ~Readable(j)
    /\ Ready(clients[i])

\* A slip of NextSlot: the body of the loop counts too.
NextSlotSkipping(i) == i + 2

NextSlot(i) == i + 1

\* badapi answers what it reads before it goes on.
ReadCommand ==
    /\ \E i \in Slot :
         /\ AtSlot(i) /\ unread[socket[clients[i]]] > 0
         /\ Receive(socket[clients[i]])
         /\ IF version = "badapi" THEN pc' = "answer" /\ slot' = i
                                  ELSE slot' = NextSlot(i) /\ UNCHANGED pc
    /\ UNCHANGED <<version, fds, clients, full>>

\* send on a blocking socket waits for room until the client reads or resets
\* the connection; clients_lock and the slot's lock are held meanwhile.
Blocked(c) == c \in full /\ ended[c] \in {"no", "closed"}

Blocks == pc = "answer" /\ Blocked(socket[clients[slot]])

\* net_send of badapi, with no MSG_NOSIGNAL and SIGPIPE not ignored; a failure
\* is printed.  The answer may leave no room for the next one.
Answer ==
    LET c == socket[clients[slot]] IN
    /\ pc = "answer" /\ ~Blocks
    /\ Transmit(c)
    /\ full' \in {full, full \union {c}}
    /\ pc' = IF ended[c] = "broken" THEN "killed" ELSE "serve"
    /\ slot' = NextSlot(slot)
    /\ UNCHANGED <<version, fds, clients>>

\* A slip of Disconnects: only an error is a disconnection.
DisconnectsOnError(c) == version # "plain" \/ ended[c] = "reset"

\* What recv's 0, or its error after a reset, is taken for.
Disconnects(c) == version # "plain" \/ ended[c] # "reset"

\* A slip of SlotsOf: the slot is not given back.
SlotsOfNone(f) == {}

\* The slots of descriptor f.
SlotsOf(f) == {i \in Slot : clients[i] = f}

\* badapi and threadsafe call net_remove_client under the locks it takes.
DropClient ==
    /\ \E i \in Slot, outcome \in Relock :
         LET f == clients[i] IN
         /\ AtSlot(i) /\ unread[socket[f]] = 0 /\ Disconnects(socket[f])
         /\ IF outcome = "block" /\ version # "plain"
            THEN pc' = "hung" /\ UNCHANGED <<clients, slot, world>>
            ELSE /\ Close({f}) /\ full' = full \ {socket[f]}
                 /\ clients' = [j \in Slot |-> IF j \in SlotsOf(f) THEN NULL ELSE clients[j]]
                 /\ slot' = NextSlot(i) /\ UNCHANGED pc
    /\ UNCHANGED <<version, fds>>

\* plain passes over an error; the next recv returns 0.
IgnoreError ==
    /\ \E i \in Slot :
         LET c == socket[clients[i]] IN
         /\ AtSlot(i) /\ unread[c] = 0 /\ ~Disconnects(c)
         /\ ended' = [ended EXCEPT ![c] = "closed"]
         /\ slot' = NextSlot(i)
    /\ UNCHANGED <<version, pc, fds, clients, full, socket, backlog, conn, unread>>

PassOver ==
    /\ pc = "serve" /\ \A i \in slot .. MaxClients : ~Readable(i)
    /\ pc' = "select" /\ fds' = {} /\ slot' = 1
    /\ UNCHANGED <<version, clients, world>>

-----------------------------------------------------------------------------
\* A client reads its answers; or it closes a connection of which it has
\* closed the sending side before, and what it has not read resets it.
TakeAnswers(c) ==
    /\ c \in full
    /\ \/ full' = full \ {c} /\ UNCHANGED kernel
       \/ /\ ended[c] = "closed" /\ ended' = [ended EXCEPT ![c] = "broken"]
          /\ UNCHANGED <<full, socket, backlog, conn, unread>>

Server == \/ Select \/ ReceiveFails \/ Accept \/ AcceptFails \/ NothingToAccept
          \/ ReadCommand \/ Answer \/ DropClient \/ IgnoreError \/ PassOver

Clients == \E c \in Conn : (Client(c) /\ UNCHANGED full) \/ TakeAnswers(c)

Killed == pc = "killed"

\* select waits for a client; a program that is killed is over.
Idle == \/ pc = "select" /\ \A f \in Watched : ~Ready(f)
        \/ Killed

Next ==
    \/ Server
    \/ ~Killed /\ Clients /\ UNCHANGED program
    \/ Idle /\ UNCHANGED vars

Spec == Init /\ [][Next]_vars /\ WF_vars(Server)

-----------------------------------------------------------------------------
\* The variables have the types of the C structures.
LegacyTypeOK ==
    /\ KernelTypeOK
    /\ version \in Version
    /\ pc \in {"select", "receive", "accept", "serve", "answer", "hung", "killed"}
    /\ fds \subseteq Fd \union {Listener}
    /\ slot \in 1 .. MaxClients + 1
    /\ clients \in [Slot -> Fd \union {NULL}]
    /\ full \subseteq Conn

\* The slots in use hold open sockets, each its own: a slot that kept the
\* descriptor of a client that was dropped would read the next one's.
SlotsOwnSockets ==
    \A i \in Slot \ FreeSlots :
        /\ socket[clients[i]] # NULL
        /\ \A j \in Slot : clients[j] = clients[i] => j = i

Served(c) == \E i \in Slot \ FreeSlots : socket[clients[i]] = c

\* What the loop owes to client c: one that was accepted into a full table has
\* a connection and is owed nothing.
Standing(c) ==
    CASE conn[c] = "new" -> "away"
      [] conn[c] = "queued" -> "waiting"
      [] Served(c) -> "served"
      [] OTHER -> "gone"

Service == INSTANCE ClientService WITH
    Capacity <- MaxClients,
    standing <- [c \in Conn |-> Standing(c)],
    leaving <- {c \in Conn : Standing(c) \in {"waiting", "served"} /\ ended[c] # "no"}

\* Every one of the loops implements ClientService: however connections, data
\* and descriptors come and go, a client with a slot keeps it until it leaves,
\* and only a full table costs a new one its service.
ImplementsService == Service!Spec

\* The client of the answer that blocks reads it in the end, or resets.
ClientsRead == []<>~Blocks

\* The one hole of plain: out of descriptors with a connection waiting, accept
\* fails and the pass ends before the clients are looked at.
Starved == version = "plain" /\ FreeFds = {} /\ backlog # <<>>

\* A connection is accepted if there are descriptors for it time and again and
\* every client reads its answers, a full table or not, unless an answer kills
\* badapi; deprecated leaves all connections in the backlog.  This and the next
\* two are for mutexes that let their owner lock them again.
LegacyAccepts ==
    ClientsRead /\ []<>(FreeFds # {}) =>
        \A c \in Conn : (conn[c] = "queued" /\ version # "deprecated") ~> (conn[c] # "queued" \/ Killed)

\* A command of a client with a slot is read, however many connections were
\* lost to a full table, unless plain stays starved, a client of badapi never
\* reads its answer, or an answer kills it.
LegacyReads ==
    ClientsRead /\ []<>~Starved =>
        \A c \in Conn : (Served(c) /\ unread[c] > 0) ~> (unread[c] = 0 \/ ~Served(c) \/ Killed)

\* The slot of a client that closed or reset its connection is given back, by
\* plain too, which needs a second recv for it; with the same exceptions.
LegacyReleases ==
    ClientsRead /\ []<>~Starved =>
        \A c \in Conn : (Served(c) /\ ended[c] # "no") ~> (conn[c] = "closed" \/ Killed)

\* "Support for multiple concurrent client connections" (README.md:13 of
\* phantomid-with-badapi): the command of a client that stays and reads its
\* answers is read, whatever another client does: leave, not read what it is
\* answered, or send a command and leave before its answer.
ConcurrentClients ==
    \A c \in Conn :
        (Served(c) /\ unread[c] > 0) ~> (unread[c] = 0 \/ ~Served(c) \/ ended[c] # "no" \/ c \in full)
=============================================================================
