--------------------------- MODULE NetLoopProofs ---------------------------
(***************************************************************************)
(* The event loop keeps its table and the sockets in agreement and         *)
(* implements ClientService, for any clients, descriptors and table size,  *)
(* and for either outcome of Relock and PipeSignal.                        *)
(***************************************************************************)
EXTENDS NetLoop, SocketsProofs, FiniteSetTheorems

Active == {i \in Slot : clients[i].active}

\* A new socket is only held between accept and its place in the table; it is
\* in no slot, and select did not see it.
NewSocketApart ==
    /\ newSocket # NULL <=> pc = "add"
    /\ newSocket # NULL => /\ socket[newSocket] # NULL
                           /\ newSocket \notin fds
                           /\ \A i \in Active : clients[i].fd # newSocket

\* Where the pass is agrees with what select found.
PassAgrees ==
    /\ pc \in {"main", "select", "accept", "add"} => slot = 1
    /\ pc = "answer" => slot \in Active
    /\ pc = "accept" => /\ Listener \in fds => backlog # <<>>
                        /\ \A f \in fds \ {Listener} : socket[f] # NULL

\* The loop has not come to slot i in this pass.
Ahead(i) == \/ pc \in {"accept", "add"}
            \/ pc = "serve" /\ i >= slot
            \/ pc = "answer" /\ i > slot

\* What select found ready is ready until the loop comes to it.
ReadyStays == \A i \in Slot : Ahead(i) /\ Readable(i) => Ready(clients[i].fd)

NetInv ==
    /\ TypeOK
    /\ KernelInv
    /\ TableOwnsSockets
    /\ NewSocketApart
    /\ PassAgrees
    /\ ReadyStays

-----------------------------------------------------------------------------
\* An active slot owns an open socket of a connection.
LEMMA ActiveOwns ==
    ASSUME NetInv, NEW i \in Active
    PROVE  /\ i \in Slot /\ clients[i].fd \in Fd /\ clients[i].fd # Listener
           /\ socket[clients[i].fd] \in Conn /\ conn[socket[clients[i].fd]] = "open"
           /\ \A j \in Active : clients[j].fd = clients[i].fd => i = j
<1>1. i \in Slot /\ clients[i].fd \in Fd /\ socket[clients[i].fd] # NULL
  BY DEF NetInv, TableOwnsSockets, Active
<1>2. \A j \in Active : clients[j].fd = clients[i].fd => i = j
  BY DEF NetInv, TableOwnsSockets, Active
<1>3. socket[clients[i].fd] \in Conn /\ conn[socket[clients[i].fd]] = "open"
  BY <1>1 DEF NetInv, KernelInv, KernelTypeOK, OpenIsOwned
<1> QED
  BY <1>1, <1>2, <1>3, FdAssumption

LEMMA InitNet == Init => NetInv
<1> SUFFICES ASSUME Init
             PROVE  NetInv
  OBVIOUS
<1>1. KernelInv
  BY KernelStarts DEF Init
<1>2. 1 \in 1 .. MaxClients + 1
  BY TableAssumption
<1>3. TypeOK
  <2>1. clients \in [Slot -> Place]
    BY DEF Init, Place
  <2> QED
    BY <1>1, <1>2, <2>1 DEF Init, TypeOK, KernelInv
<1>4. Active = {} /\ \A f \in Fd : socket[f] = NULL
  BY DEF Init, Active, KernelInit
<1>5. TableOwnsSockets
  BY <1>4 DEF TableOwnsSockets, Active
<1>6. NewSocketApart /\ PassAgrees /\ ReadyStays
  BY DEF Init, NewSocketApart, PassAgrees, ReadyStays, Ahead
<1> QED
  BY <1>1, <1>3, <1>5, <1>6 DEF NetInv

\* The steps that change no socket, no slot and not the place in the loop.
LEMMA QuietNet ==
    ASSUME NetInv, UNCHANGED <<clients, newSocket, kernel>>, TypeOK', PassAgrees',
           fds' \subseteq fds, pc \notin {"add"}, pc' \notin {"add"},
           \A i \in Slot : Ahead(i)' /\ i \in Active /\ clients[i].fd \in fds' => Ahead(i)
    PROVE  NetInv'
<1>1. UNCHANGED <<socket, backlog, conn, ended, unread>>
  BY DEF kernel
<1>2. KernelInv'
  BY <1>1 DEF NetInv, KernelInv, KernelTypeOK, WaitsOnce, OpenIsOwned, EndedExists
<1>3. TableOwnsSockets'
  BY <1>1 DEF NetInv, TableOwnsSockets
<1>4. NewSocketApart'
  BY <1>1 DEF NetInv, NewSocketApart, Active
<1>5. ReadyStays'
  BY <1>1 DEF NetInv, ReadyStays, Readable, Ready, Active
<1> QED
  BY <1>2, <1>3, <1>4, <1>5 DEF NetInv

LEMMA SignalNet == NetInv /\ Signal => NetInv'
<1> SUFFICES ASSUME NetInv, Signal
             PROVE  NetInv'
  OBVIOUS
<1>1. /\ UNCHANGED <<phantomRunning, fds, slot, newSocket, clients, kernel>>
      /\ pc' = IF pc = "select" THEN AfterNetRun ELSE pc
      /\ mainRunning' = FALSE
  BY DEF Signal
<1>2. pc' = pc \/ (pc = "select" /\ pc' \in {"select", "main"})
  BY <1>1 DEF AfterNetRun
<1>3. TypeOK'
  BY <1>1, <1>2 DEF NetInv, TypeOK, KernelTypeOK, kernel
<1>4. PassAgrees'
  BY <1>1, <1>2 DEF NetInv, PassAgrees, Active, kernel
<1>5. CASE pc # "add"
  BY <1>1, <1>2, <1>3, <1>4, <1>5, QuietNet DEF Ahead
<1>6. CASE pc = "add"
  BY <1>1, <1>3, <1>4, <1>6
     DEF NetInv, KernelInv, KernelTypeOK, WaitsOnce, OpenIsOwned, EndedExists, TableOwnsSockets,
         NewSocketApart, Active, ReadyStays, Readable, Ready, Ahead, kernel
<1> QED
  BY <1>5, <1>6

LEMMA MainLoopNet == NetInv /\ MainLoop => NetInv'
<1> SUFFICES ASSUME NetInv, MainLoop
             PROVE  NetInv'
  OBVIOUS
<1>1. /\ UNCHANGED <<mainRunning, fds, slot, newSocket, clients, kernel>>
      /\ pc = "main" /\ pc' \in {"select", "exited"} /\ phantomRunning' = mainRunning
  BY DEF MainLoop
<1>2. TypeOK' /\ PassAgrees'
  BY <1>1 DEF NetInv, TypeOK, KernelTypeOK, PassAgrees, kernel
<1> QED
  BY <1>1, <1>2, QuietNet DEF Ahead

\* select: what is found is ready, and only slots and the listener are asked for.
LEMMA SelectNet == NetInv /\ Select => NetInv'
<1> SUFFICES ASSUME NetInv, Select
             PROVE  NetInv'
  OBVIOUS
<1>1. /\ UNCHANGED <<mainRunning, phantomRunning, slot, newSocket, clients, kernel>>
      /\ pc = "select" /\ pc' = "accept" /\ fds' = {f \in Watched : Ready(f)}
  BY DEF Select
<1>2. UNCHANGED <<socket, backlog, conn, ended, unread>>
  BY <1>1 DEF kernel
<1>3. \A f \in fds' : f = Listener \/ \E i \in Active : f = clients[i].fd
  BY <1>1 DEF Watched, Active
<1>4. TypeOK'
  <2>1. fds' \subseteq Fd \union {Listener}
    BY <1>3, ActiveOwns
  <2> QED
    BY <1>1, <1>2, <2>1 DEF NetInv, TypeOK, KernelTypeOK
<1>5. KernelInv' /\ TableOwnsSockets'
  BY <1>1, <1>2 DEF NetInv, KernelInv, KernelTypeOK, WaitsOnce, OpenIsOwned, EndedExists, TableOwnsSockets
<1>6. NewSocketApart'
  BY <1>1 DEF NetInv, NewSocketApart
<1>7. PassAgrees'
  <2>1. Listener \in fds' => backlog' # <<>>
    BY <1>1, <1>2 DEF Ready
  <2>2. \A f \in fds' \ {Listener} : socket'[f] # NULL
    BY <1>1, <1>2 DEF Ready
  <2> QED
    BY <1>1, <2>1, <2>2 DEF NetInv, PassAgrees
<1>8. ReadyStays'
  BY <1>1, <1>2 DEF ReadyStays, Readable, Ready
<1> QED
  BY <1>4, <1>5, <1>6, <1>7, <1>8 DEF NetInv

\* accept: the new socket had no connection when select looked.
LEMMA AcceptNet == NetInv /\ Accept => NetInv'
<1> SUFFICES ASSUME NetInv, Accept
             PROVE  NetInv'
  OBVIOUS
<1>1. /\ UNCHANGED <<mainRunning, phantomRunning, fds, slot, clients>>
      /\ pc = "accept" /\ pc' = "add" /\ Listener \in fds
  BY DEF Accept, CanAccept
<1>2. PICK f \in Fd : Take(f) /\ newSocket' = f
  BY DEF Accept
<1>3. backlog # <<>> /\ KernelInv
  BY <1>1 DEF NetInv, PassAgrees
<1> DEFINE c == Head(backlog)
<1>4. /\ KernelInv'
      /\ socket[f] = NULL /\ conn[c] = "queued" /\ c \in Conn
      /\ \A g \in Fd : socket'[g] = IF g = f THEN c ELSE socket[g]
      /\ \A d \in Conn : conn'[d] = IF d = c THEN "open" ELSE conn[d]
      /\ UNCHANGED <<ended, unread>>
  BY <1>2, <1>3, TakeKernel
<1> HIDE DEF c
<1>5. TypeOK'
  BY <1>1, <1>2, <1>4 DEF NetInv, TypeOK, KernelInv
<1>6. newSocket = NULL /\ newSocket' # NULL
  BY <1>1, <1>2, NULLAssumption DEF NetInv, NewSocketApart
<1>7. \A i \in Active : clients[i].fd \in Fd /\ clients[i].fd # f /\ socket'[clients[i].fd] = socket[clients[i].fd]
  BY <1>4, ActiveOwns, NULLAssumption
<1>8. TableOwnsSockets'
  <2>1. \A g \in Fd : socket'[g] # NULL => g = newSocket' \/ \E i \in Slot : clients[i].active /\ clients[i].fd = g
    BY <1>2, <1>4, <1>6, FdAssumption, NULLAssumption DEF NetInv, TableOwnsSockets
  <2> QED
    BY <1>1, <1>7, <2>1 DEF NetInv, TableOwnsSockets, Active
<1>9. NewSocketApart'
  <2>1. f \notin fds
    BY <1>1, <1>4, FdAssumption DEF NetInv, PassAgrees
  <2>2. socket'[f] # NULL
    BY <1>4, NULLAssumption
  <2> QED
    BY <1>1, <1>2, <1>6, <1>7, <2>1, <2>2 DEF NewSocketApart, Active
<1>10. PassAgrees'
  BY <1>1 DEF NetInv, PassAgrees
<1>11. ReadyStays'
  <2> SUFFICES ASSUME NEW i \in Slot, Readable(i)
               PROVE  Ready(clients[i].fd)'
    BY <1>1 DEF ReadyStays, Readable
  <2>1. i \in Active /\ Ready(clients[i].fd)
    BY <1>1 DEF NetInv, ReadyStays, Ahead, Active, Readable
  <2> QED
    BY <1>1, <1>4, <1>7, <2>1, ActiveOwns DEF Ready
<1> QED
  BY <1>4, <1>5, <1>8, <1>9, <1>10, <1>11 DEF NetInv

LEMMA NoAcceptNet == NetInv /\ NoAccept => NetInv'
<1> SUFFICES ASSUME NetInv, NoAccept
             PROVE  NetInv'
  OBVIOUS
<1>1. /\ UNCHANGED <<mainRunning, phantomRunning, fds, newSocket, clients, kernel>>
      /\ pc = "accept" /\ pc' = "serve" /\ slot' = 1
  BY DEF NoAccept
<1>2. TypeOK'
  BY <1>1, TableAssumption DEF NetInv, TypeOK, KernelTypeOK, kernel
<1>3. PassAgrees'
  BY <1>1 DEF PassAgrees
<1> QED
  BY <1>1, <1>2, <1>3, QuietNet DEF Ahead

\* The new socket gets the first free slot.
LEMMA AddClientNet == NetInv /\ AddClient => NetInv'
<1> SUFFICES ASSUME NetInv, AddClient
             PROVE  NetInv'
  OBVIOUS
<1>1. /\ UNCHANGED <<mainRunning, phantomRunning, fds, kernel>>
      /\ pc = "add" /\ pc' = "serve" /\ slot' = 1 /\ newSocket' = NULL
  BY DEF AddClient
<1>2. PICK i \in FreeSlots : clients' = [clients EXCEPT ![i] = [active |-> TRUE, fd |-> newSocket]]
  BY DEF AddClient
<1>3. UNCHANGED <<socket, backlog, conn, ended, unread>>
  BY <1>1 DEF kernel
<1>4. newSocket \in Fd /\ socket[newSocket] # NULL /\ newSocket \notin fds
  BY <1>1 DEF NetInv, NewSocketApart, TypeOK
<1>5. i \in Slot /\ i \notin Active
  BY DEF FreeSlots, Active
<1>6. /\ clients' \in [Slot -> Place]
      /\ clients'[i].active /\ clients'[i].fd = newSocket
      /\ \A j \in Slot \ {i} : clients'[j] = clients[j]
  <2>1. [active |-> TRUE, fd |-> newSocket] \in Place
    BY <1>4 DEF Place
  <2> QED
    BY <1>2, <1>5, <2>1 DEF NetInv, TypeOK
<1>7. TypeOK'
  BY <1>1, <1>3, <1>6, TableAssumption DEF NetInv, TypeOK, KernelTypeOK
<1>8. KernelInv'
  BY <1>3 DEF NetInv, KernelInv, KernelTypeOK, WaitsOnce, OpenIsOwned, EndedExists
<1>9. TableOwnsSockets'
  <2>1. \A j \in Slot : clients'[j].active => clients'[j].fd \in Fd /\ socket'[clients'[j].fd] # NULL
    BY <1>3, <1>4, <1>6 DEF NetInv, TableOwnsSockets
  <2>2. \A j \in Slot \ {i} : clients[j].active => clients[j].fd # newSocket
    BY <1>4, NULLAssumption DEF NetInv, NewSocketApart, Active
  <2>3. \A j, k \in Slot :
          clients'[j].active /\ clients'[k].active /\ clients'[j].fd = clients'[k].fd => j = k
    BY <1>6, <2>2 DEF NetInv, TableOwnsSockets
  <2>4. ASSUME NEW g \in Fd, socket'[g] # NULL
        PROVE  \E j \in Slot : clients'[j].active /\ clients'[j].fd = g
    <3>1. CASE g = newSocket
      BY <1>5, <1>6, <3>1
    <3>2. CASE g # newSocket
      <4>1. PICK j \in Slot : clients[j].active /\ clients[j].fd = g
        BY <1>3, <2>4, <3>2 DEF NetInv, TableOwnsSockets
      <4> QED
        BY <1>5, <1>6, <4>1 DEF Active
    <3> QED
      BY <3>1, <3>2
  <2> QED
    BY <2>1, <2>3, <2>4 DEF TableOwnsSockets
<1>10. NewSocketApart' /\ PassAgrees'
  BY <1>1 DEF NewSocketApart, PassAgrees
<1>11. ReadyStays'
  BY <1>1, <1>3, <1>4, <1>6 DEF NetInv, ReadyStays, Ahead, Readable, Ready
<1> QED
  BY <1>7, <1>8, <1>9, <1>10, <1>11 DEF NetInv

\* A full table: the new socket, which is in no slot, is closed.
LEMMA RefuseClientNet == NetInv /\ RefuseClient => NetInv'
<1> SUFFICES ASSUME NetInv, RefuseClient
             PROVE  NetInv'
  OBVIOUS
<1> DEFINE f == newSocket
<1>1. /\ UNCHANGED <<mainRunning, phantomRunning, fds, clients>>
      /\ pc = "add" /\ pc' = "serve" /\ slot' = 1 /\ newSocket' = NULL /\ Close({f})
  BY DEF RefuseClient, RefuseFds
<1>2. f \in Fd /\ socket[f] # NULL /\ \A i \in Active : clients[i].fd # f
  BY <1>1 DEF NetInv, NewSocketApart, TypeOK
<1>3. /\ KernelInv'
      /\ \A g \in Fd : socket'[g] = IF g = f THEN NULL ELSE socket[g]
      /\ \A d \in Conn : ended'[d] = IF d = socket[f] THEN "no" ELSE ended[d]
      /\ \A d \in Conn : unread'[d] = IF d = socket[f] THEN 0 ELSE unread[d]
  BY <1>1, <1>2, CloseKernel DEF NetInv
<1>4. TypeOK'
  BY <1>1, <1>3, TableAssumption DEF NetInv, TypeOK, KernelInv
<1>5. \A i \in Active : /\ socket'[clients[i].fd] = socket[clients[i].fd]
                        /\ socket[clients[i].fd] # socket[f]
  BY <1>2, <1>3, ActiveOwns DEF NetInv, KernelInv, OpenIsOwned
<1>6. TableOwnsSockets'
  BY <1>1, <1>3, <1>5 DEF NetInv, TableOwnsSockets, Active
<1>7. NewSocketApart' /\ PassAgrees'
  BY <1>1 DEF NewSocketApart, PassAgrees
<1>8. ReadyStays'
  <2> SUFFICES ASSUME NEW i \in Slot, Readable(i)
               PROVE  Ready(clients[i].fd)'
    BY <1>1 DEF ReadyStays, Readable
  <2>1. i \in Active /\ Ready(clients[i].fd)
    BY <1>1 DEF NetInv, ReadyStays, Ahead, Active, Readable
  <2> QED
    BY <1>1, <1>3, <1>5, <2>1, ActiveOwns DEF Ready
<1> QED
  BY <1>3, <1>4, <1>6, <1>7, <1>8 DEF NetInv

\* What is at slot i, and what recv finds: if no command, the client has left.
LEMMA AtSlotFinds ==
    ASSUME NetInv, NEW i \in Slot, AtSlot(i)
    PROVE  /\ i \in Active /\ i \in slot .. MaxClients /\ pc = "serve"
           /\ unread[socket[clients[i].fd]] = 0 => ended[socket[clients[i].fd]] # "no"
<1>1. i \in Active /\ Readable(i) /\ i \in slot .. MaxClients /\ pc = "serve"
  BY DEF AtSlot, Readable, Active, LastSlot
<1>2. Ready(clients[i].fd)
  BY <1>1 DEF NetInv, ReadyStays, Ahead
<1> QED
  BY <1>1, <1>2, ActiveOwns DEF Ready, NetInv, TypeOK, KernelTypeOK

LEMMA ReadCommandNet == NetInv /\ ReadCommand => NetInv'
<1> SUFFICES ASSUME NetInv, ReadCommand
             PROVE  NetInv'
  OBVIOUS
<1>1. /\ UNCHANGED <<mainRunning, phantomRunning, fds, newSocket, clients>>
      /\ pc' = "answer"
  BY DEF ReadCommand
<1>2. PICK i \in Slot : /\ AtSlot(i) /\ Receive(socket[clients[i].fd])
                        /\ slot' = i
  BY DEF ReadCommand
<1> DEFINE c == socket[clients[i].fd]
<1>3. i \in Active /\ i \in slot .. MaxClients /\ pc = "serve" /\ clients[i].fd \in Fd /\ c \in Conn
  BY <1>2, AtSlotFinds, ActiveOwns
<1>4. KernelInv' /\ UNCHANGED <<socket, backlog, conn, ended>>
  BY <1>2, <1>3, ReceiveKernel DEF NetInv, Receive
<1>5. \A d \in Conn : d # c => unread'[d] = unread[d]
  BY <1>2, <1>3 DEF Receive, NetInv, KernelInv, KernelTypeOK
<1> HIDE DEF c
<1>6. TypeOK'
  BY <1>1, <1>2, <1>3, <1>4, TableAssumption DEF NetInv, TypeOK, KernelInv
<1>7. TableOwnsSockets' /\ NewSocketApart' /\ PassAgrees'
  BY <1>1, <1>2, <1>3, <1>4
     DEF NetInv, TableOwnsSockets, NewSocketApart, PassAgrees, Active
<1>8. ReadyStays'
  <2> SUFFICES ASSUME NEW j \in Slot, j > i, Readable(j)
               PROVE  Ready(clients[j].fd)'
    BY <1>1, <1>2 DEF ReadyStays, Ahead, Readable
  <2>1. j \in Active /\ j >= slot
    BY <1>3, TableAssumption DEF Readable, Active, NetInv, TypeOK
  <2>2. Ready(clients[j].fd) /\ clients[j].fd \in Fd /\ clients[j].fd # Listener
    BY <1>3, <2>1, ActiveOwns DEF NetInv, ReadyStays, Ahead
  <2>3. clients[i].fd # clients[j].fd
    BY <1>3, <2>1, ActiveOwns
  <2>4. socket[clients[j].fd] \in Conn /\ socket[clients[j].fd] # c
    BY <1>3, <2>1, <2>2, <2>3, ActiveOwns, NULLAssumption DEF NetInv, KernelInv, OpenIsOwned, c
  <2> QED
    BY <1>1, <1>4, <1>5, <2>2, <2>4 DEF Ready
<1> QED
  BY <1>4, <1>6, <1>7, <1>8 DEF NetInv

LEMMA AnswerNet == NetInv /\ Answer => NetInv'
<1> SUFFICES ASSUME NetInv, Answer
             PROVE  NetInv'
  OBVIOUS
<1> DEFINE c == socket[clients[slot].fd]
<1>1. /\ UNCHANGED <<mainRunning, phantomRunning, fds, newSocket, clients>>
      /\ pc = "answer" /\ pc' \in {"killed", "serve"} /\ slot' = slot + 1
      /\ IF PipeSignal THEN Transmit(c) ELSE UNCHANGED kernel
  BY DEF Answer
<1>2. slot \in Active /\ slot \in 1 .. MaxClients /\ c \in Conn /\ conn[c] = "open"
  BY <1>1, ActiveOwns DEF NetInv, PassAgrees, Active, Slot
<1>3. /\ KernelInv' /\ UNCHANGED <<socket, backlog, conn, unread>>
      /\ \A d \in Conn : ended'[d] = "no" <=> ended[d] = "no"
  <2>1. CASE PipeSignal
    BY <1>1, <1>2, <2>1, TransmitKernel DEF NetInv
  <2>2. CASE ~PipeSignal
    BY <1>1, <2>2 DEF kernel, NetInv, KernelInv, KernelTypeOK, WaitsOnce, OpenIsOwned, EndedExists
  <2> QED
    BY <2>1, <2>2
<1> HIDE DEF c
<1>4. TypeOK'
  BY <1>1, <1>2, <1>3, TableAssumption DEF NetInv, TypeOK, KernelInv
<1>5. TableOwnsSockets' /\ NewSocketApart' /\ PassAgrees'
  BY <1>1, <1>3 DEF NetInv, TableOwnsSockets, NewSocketApart, PassAgrees, Active
<1>6. ReadyStays'
  <2> SUFFICES ASSUME NEW j \in Slot, j >= slot + 1, Readable(j)
               PROVE  Ready(clients[j].fd)'
    BY <1>1 DEF ReadyStays, Ahead, Readable
  <2>1. j \in Active /\ j > slot
    BY <1>2, TableAssumption DEF Readable, Active, Slot
  <2>2. Ready(clients[j].fd)
    BY <1>1, <2>1 DEF NetInv, ReadyStays, Ahead
  <2> QED
    BY <1>1, <1>3, <2>1, <2>2, ActiveOwns DEF Ready
<1> QED
  BY <1>3, <1>4, <1>5, <1>6 DEF NetInv

\* A client that left: its slot alone has its descriptor, and both are given back.
LEMMA DropClientNet == NetInv /\ DropClient => NetInv'
<1> SUFFICES ASSUME NetInv, DropClient
             PROVE  NetInv'
  OBVIOUS
<1>1. PICK i \in Slot :
        LET f == clients[i].fd IN
        /\ AtSlot(i)
        /\ \/ pc' = "hung" /\ UNCHANGED <<clients, slot, kernel>>
           \/ /\ Close({f})
              /\ clients' = [j \in Slot |-> IF j \in Matching(f) THEN [active |-> FALSE, fd |-> NULL]
                                            ELSE clients[j]]
              /\ slot' = i + 1 /\ UNCHANGED pc
  BY Zenon DEF DropClient, Vacated
<1>2. UNCHANGED <<mainRunning, phantomRunning, fds, newSocket>>
  BY DEF DropClient
<1> DEFINE f == clients[i].fd
<1>3. /\ i \in Active /\ i \in slot .. MaxClients /\ pc = "serve"
      /\ f \in Fd /\ socket[f] \in Conn
  BY <1>1, AtSlotFinds, ActiveOwns
<1>4. CASE pc' = "hung" /\ UNCHANGED <<clients, slot, kernel>>
  <2>1. TypeOK' /\ PassAgrees'
    BY <1>2, <1>4 DEF NetInv, TypeOK, KernelTypeOK, PassAgrees, kernel
  <2> QED
    BY <1>2, <1>3, <1>4, <2>1, QuietNet DEF Ahead
<1>5. CASE /\ Close({f})
           /\ clients' = [j \in Slot |-> IF j \in Matching(f) THEN [active |-> FALSE, fd |-> NULL]
                                         ELSE clients[j]]
           /\ slot' = i + 1 /\ UNCHANGED pc
  <2>1. /\ KernelInv'
        /\ \A g \in Fd : socket'[g] = IF g = f THEN NULL ELSE socket[g]
        /\ \A d \in Conn : ended'[d] = IF d = socket[f] THEN "no" ELSE ended[d]
        /\ \A d \in Conn : unread'[d] = IF d = socket[f] THEN 0 ELSE unread[d]
    BY <1>3, <1>5, NULLAssumption, CloseKernel DEF NetInv
  <2>2. Matching(f) = {i}
    BY <1>3, ActiveOwns DEF Matching, Active
  <2>3. \A j \in Slot : clients'[j] = IF j = i THEN [active |-> FALSE, fd |-> NULL] ELSE clients[j]
    BY <1>5, <2>2
  <2> HIDE DEF f
  <2>4. TypeOK'
    <3>1. [active |-> FALSE, fd |-> NULL] \in Place
      BY DEF Place
    <3>2. clients' \in [Slot -> Place]
      BY <1>5, <3>1 DEF NetInv, TypeOK
    <3>3. slot' \in 1 .. MaxClients + 1
      BY <1>3, <1>5, TableAssumption DEF NetInv, TypeOK, Slot
    <3> QED
      BY <1>2, <1>5, <2>1, <3>2, <3>3 DEF NetInv, TypeOK, KernelInv
  <2>5. ASSUME NEW j \in Active \ {i}
        PROVE  /\ clients[j].fd \in Fd /\ clients[j].fd # f
               /\ socket'[clients[j].fd] = socket[clients[j].fd]
               /\ socket[clients[j].fd] # socket[f]
    <3>1. clients[j].fd \in Fd /\ clients[j].fd # f /\ socket[clients[j].fd] \in Conn
      BY <1>3, <2>5, ActiveOwns DEF f
    <3>2. socket[clients[j].fd] # socket[f]
      BY <1>3, <3>1, NULLAssumption DEF NetInv, KernelInv, OpenIsOwned
    <3> QED
      BY <2>1, <3>1, <3>2
  <2>6. Active' = Active \ {i}
    <3>1. ~clients'[i].active /\ \A j \in Slot \ {i} : clients'[j].active <=> clients[j].active
      BY <1>3, <2>3 DEF Active
    <3>2. Active' = {j \in Slot : clients'[j].active}
      BY DEF Active
    <3> QED
      BY <3>1, <3>2 DEF Active
  <2>7. TableOwnsSockets'
    <3>1. \A j \in Active' : clients'[j] = clients[j]
      BY <2>3, <2>6 DEF Active
    <3>2. ASSUME NEW g \in Fd, socket'[g] # NULL
          PROVE  g = newSocket' \/ \E j \in Active' : clients'[j].fd = g
      <4>1. g # f /\ socket[g] # NULL
        BY <2>1, <3>2
      <4>2. g = newSocket \/ \E j \in Active : clients[j].fd = g
        BY <4>1 DEF NetInv, TableOwnsSockets, Active
      <4> QED
        BY <1>2, <2>6, <3>1, <4>1, <4>2 DEF f
    <3>3. \A j \in Slot : clients'[j].active <=> j \in Active'
      BY DEF Active
    <3>4. \A j \in Slot : clients'[j].active => clients'[j].fd \in Fd /\ socket'[clients'[j].fd] # NULL
      BY <2>5, <2>6, <3>1, <3>3, ActiveOwns, NULLAssumption
    <3>5. \A j, k \in Slot :
            clients'[j].active /\ clients'[k].active /\ clients'[j].fd = clients'[k].fd => j = k
      BY <2>6, <3>1, <3>3, ActiveOwns
    <3>6. \A g \in Fd : socket'[g] # NULL =>
            g = newSocket' \/ \E j \in Slot : clients'[j].active /\ clients'[j].fd = g
      BY <2>6, <3>2, <3>3 DEF Active
    <3> QED
      BY <3>4, <3>5, <3>6 DEF TableOwnsSockets
  <2>8. NewSocketApart'
    BY <1>2, <1>3, <1>5 DEF NetInv, NewSocketApart
  <2>9. PassAgrees'
    BY <1>3, <1>5 DEF PassAgrees
  <2>10. ReadyStays'
    <3> SUFFICES ASSUME NEW j \in Slot, j >= i + 1, Readable(j)'
                 PROVE  Ready(clients[j].fd)' /\ clients'[j] = clients[j]
      BY <1>3, <1>5 DEF ReadyStays, Ahead
    <3>1. j # i /\ j >= slot /\ Readable(j) /\ j \in Active /\ clients'[j] = clients[j]
      BY <1>2, <1>3, <2>3, TableAssumption DEF Readable, Active, Slot, NetInv, TypeOK
    <3>2. Ready(clients[j].fd)
      BY <1>3, <3>1 DEF NetInv, ReadyStays, Ahead
    <3> QED
      BY <2>1, <2>5, <3>1, <3>2, ActiveOwns DEF Ready
  <2> QED
    BY <2>1, <2>4, <2>7, <2>8, <2>9, <2>10 DEF NetInv
<1> QED
  BY <1>1, <1>4, <1>5

LEMMA NetRunEndNet == NetInv /\ NetRunEnd => NetInv'
<1> SUFFICES ASSUME NetInv, NetRunEnd
             PROVE  NetInv'
  OBVIOUS
<1>1. /\ UNCHANGED <<mainRunning, phantomRunning, newSocket, clients, kernel>>
      /\ pc = "serve" /\ pc' \in {"select", "main"} /\ fds' = {} /\ slot' = 1
  BY DEF NetRunEnd, AfterNetRun
<1>2. TypeOK'
  BY <1>1, TableAssumption DEF NetInv, TypeOK, KernelTypeOK, kernel
<1>3. PassAgrees'
  BY <1>1 DEF PassAgrees
<1> QED
  BY <1>1, <1>2, <1>3, QuietNet DEF Ahead

\* The clients do what they like; what was ready stays so.
LEMMA ClientNet ==
    ASSUME NetInv, NEW c \in Conn, Client(c), UNCHANGED program
    PROVE  NetInv'
<1>1. KernelInv' /\ UNCHANGED socket
  BY ClientKernel DEF NetInv
<1>2. UNCHANGED <<mainRunning, phantomRunning, pc, fds, slot, newSocket, clients>>
  BY DEF program
<1>3. TypeOK'
  BY <1>1, <1>2 DEF NetInv, TypeOK, KernelInv
<1>4. backlog # <<>> => backlog' # <<>>
  <2>1. backlog' \in {backlog, Append(backlog, c)}
    BY DEF Client, Connect, Send, HangUp
  <2> QED
    BY <2>1 DEF NetInv, KernelInv, KernelTypeOK
<1>5. TableOwnsSockets' /\ NewSocketApart' /\ PassAgrees'
  BY <1>1, <1>2, <1>4 DEF NetInv, TableOwnsSockets, NewSocketApart, PassAgrees, Active
<1>6. \A d \in Conn : unread[d] > 0 \/ ended[d] # "no" => unread'[d] > 0 \/ ended'[d] # "no"
  BY DEF Client, Connect, Send, HangUp, Here, NetInv, KernelInv, KernelTypeOK
<1>7. ReadyStays'
  <2> SUFFICES ASSUME NEW j \in Slot, Readable(j), Ready(clients[j].fd)
               PROVE  Ready(clients[j].fd)'
    BY <1>2 DEF NetInv, ReadyStays, Ahead, Readable
  <2> QED
    BY <1>1, <1>2, <1>6, ActiveOwns DEF Ready, Readable, Active
<1> QED
  BY <1>1, <1>3, <1>5, <1>7 DEF NetInv

LEMMA NextNet == NetInv /\ [Next]_vars => NetInv'
<1> SUFFICES ASSUME NetInv, [Next]_vars
             PROVE  NetInv'
  OBVIOUS
<1>1. CASE Server
  BY <1>1, MainLoopNet, SelectNet, AcceptNet, NoAcceptNet, AddClientNet, RefuseClientNet,
     ReadCommandNet, AnswerNet, DropClientNet, NetRunEndNet DEF Server
<1>2. CASE (\E c \in Conn : Client(c)) /\ UNCHANGED program
  BY <1>2, ClientNet
<1>3. CASE UNCHANGED vars
  BY <1>3 DEF vars, program, kernel, NetInv, TypeOK, KernelInv, KernelTypeOK, WaitsOnce, OpenIsOwned,
              EndedExists, TableOwnsSockets, NewSocketApart, PassAgrees, Active, ReadyStays, Ahead,
              Readable, Ready
<1> QED
  BY <1>1, <1>2, <1>3, SignalNet DEF Next, Exited

\* The inductive invariant holds: each action above keeps it.
THEOREM NetCorrect == Spec => []NetInv
BY InitNet, NextNet, PTL DEF Spec

\* The table and the kernel agree in every state of the daemon.
THEOREM TableCorrect == Spec => []TableOwnsSockets
<1>1. NetInv => TableOwnsSockets
  BY DEF NetInv
<1> QED
  BY <1>1, NetCorrect, PTL

\* The variables have their types.
THEOREM NetTypeCorrect == Spec => []TypeOK
<1>1. NetInv => TypeOK
  BY DEF NetInv
<1> QED
  BY <1>1, NetCorrect, PTL

-----------------------------------------------------------------------------
\* The refinement.

Leaving == {c \in Conn : Standing(c) \in {"waiting", "served"} /\ ended[c] # "no"}

\* The connections of the active slots.
Holders == {c \in Conn : \E i \in Active : socket[clients[i].fd] = c}

\* c has been accepted and has no slot yet.
Accepted(c) == newSocket # NULL /\ socket[newSocket] = c

\* What Standing says of a reachable state.
StandingFits(c) ==
    /\ Standing(c) = "away" <=> conn[c] = "new"
    /\ Standing(c) = "waiting" <=> conn[c] = "queued" \/ Accepted(c)
    /\ Standing(c) = "served" <=> c \in Holders
    /\ Standing(c) = "gone" <=> conn[c] = "closed"
    /\ Standing(c) \in {"away", "waiting", "served", "gone"}

LEMMA StandingIs == NetInv => \A c \in Conn : StandingFits(c)
<1> SUFFICES ASSUME NetInv, NEW c \in Conn
             PROVE  StandingFits(c)
  OBVIOUS
<1>1. Accepted(c) => conn[c] = "open" /\ c \notin Holders
  <2> SUFFICES ASSUME Accepted(c)
               PROVE  conn[c] = "open" /\ c \notin Holders
    OBVIOUS
  <2>1. newSocket \in Fd /\ \A i \in Active : clients[i].fd # newSocket
    BY DEF NetInv, TypeOK, NewSocketApart, Accepted
  <2>2. \A i \in Active : socket[clients[i].fd] # c
    BY <2>1, ActiveOwns, NULLAssumption DEF NetInv, KernelInv, OpenIsOwned, Accepted
  <2> QED
    BY <2>1, <2>2, NULLAssumption DEF Holders, NetInv, KernelInv, OpenIsOwned, Accepted
<1>2. c \in Holders => conn[c] = "open"
  BY ActiveOwns DEF Holders
<1>3. conn[c] = "open" => Accepted(c) \/ c \in Holders
  <2> SUFFICES ASSUME conn[c] = "open"
               PROVE  Accepted(c) \/ c \in Holders
    OBVIOUS
  <2>1. PICK f \in Fd : socket[f] = c
    BY DEF NetInv, KernelInv, OpenIsOwned
  <2>2. f = newSocket \/ \E i \in Active : clients[i].fd = f
    BY <2>1, NULLAssumption DEF NetInv, TableOwnsSockets, Active
  <2> QED
    BY <2>1, <2>2, NULLAssumption, FdAssumption DEF Holders, Accepted
<1>4. conn[c] \in {"new", "queued", "open", "closed"}
  BY DEF NetInv, KernelInv, KernelTypeOK
<1>5. Standing(c) = CASE conn[c] = "new" -> "away"
                      [] conn[c] = "queued" \/ Accepted(c) -> "waiting"
                      [] c \in Holders -> "served"
                      [] OTHER -> "gone"
  BY DEF Standing, Holders, Active, Accepted
<1>6. CASE conn[c] \in {"new", "queued", "closed"}
  <2>1. ~Accepted(c) /\ c \notin Holders
    BY <1>1, <1>2, <1>6
  <2> QED
    BY <1>5, <1>6, <2>1 DEF StandingFits
<1>7. CASE conn[c] = "open" /\ Accepted(c)
  BY <1>1, <1>5, <1>7 DEF StandingFits
<1>8. CASE conn[c] = "open" /\ c \in Holders
  BY <1>1, <1>5, <1>8 DEF StandingFits
<1> QED
  BY <1>3, <1>4, <1>6, <1>7, <1>8

LEMMA StandingIsNext == NetInv' => (\A c \in Conn : StandingFits(c))'
BY StandingIs, PTL

\* ClientService brings its own FiniteSets: both count alike.
LEMMA CountedAlike == \A S : Service!Cardinality(S) = Cardinality(S)
BY Zenon DEF Service!Cardinality, Cardinality

LEMMA SlotsCounted == IsFiniteSet(Slot) /\ Cardinality(Slot) = MaxClients
<1>1. MaxClients \in Nat /\ Slot = 1 .. MaxClients
  BY TableAssumption DEF Slot
<1>2. IsFiniteSet(1 .. MaxClients) /\ Cardinality(1 .. MaxClients) = MaxClients - 1 + 1
  BY <1>1, FS_Interval
<1> QED
  BY <1>1, <1>2

\* As many clients are served as slots are active.
LEMMA ServedAreActive ==
    ASSUME NetInv
    PROVE  /\ Service!Served = Holders
           /\ IsFiniteSet(Active)
           /\ Cardinality(Holders) = Cardinality(Active)
<1>1. Service!Served = Holders
  BY StandingIs DEF Service!Served, StandingFits, Holders
<1>2. IsFiniteSet(Slot) /\ Active \subseteq Slot
  BY SlotsCounted DEF Active
<1>3. IsFiniteSet(Active)
  BY <1>2, FS_Subset
<1> DEFINE conns == [i \in Active |-> socket[clients[i].fd]]
<1>4. conns \in [Active -> Holders]
  BY ActiveOwns DEF Holders
<1>5. conns \in Surjection(Active, Holders)
  BY <1>4 DEF Holders, Surjection
<1>6. conns \in Injection(Active, Holders)
  <2>1. \A i, j \in Active : conns[i] = conns[j] => clients[i].fd = clients[j].fd
    BY ActiveOwns, NULLAssumption DEF NetInv, KernelInv, OpenIsOwned
  <2> QED
    BY <1>4, <2>1, ActiveOwns DEF Injection, IsInjective
<1>7. Cardinality(Holders) = Cardinality(Active)
  BY <1>3, <1>5, <1>6, FS_Surjection
<1> QED
  BY <1>1, <1>3, <1>7

\* A change of one client's standing is a move of the service.
LEMMA ServiceMove ==
    ASSUME NEW c \in Conn, NEW from, NEW to, Standing(c) = from,
           \A d \in Conn : Standing(d)' = IF d = c THEN to ELSE Standing(d)
    PROVE  Service!Move(c, from, to)
BY DEF Service!Move

\* A step that changes no client's standing and ends no connection.
LEMMA ServiceRests ==
    ASSUME \A c \in Conn : Standing(c)' = Standing(c) /\ (ended'[c] = "no" <=> ended[c] = "no")
    PROVE  UNCHANGED Service!service
BY DEF Service!service

LEMMA QuietService ==
    ASSUME UNCHANGED <<socket, conn, newSocket, clients>>,
           \A c \in Conn : ended'[c] = "no" <=> ended[c] = "no"
    PROVE  UNCHANGED Service!service
<1>1. \A c \in Conn : Standing(c)' = Standing(c)
  BY DEF Standing
<1> QED
  BY <1>1, ServiceRests

\* accept: the client waits on, for a slot now.
LEMMA AcceptService ==
    ASSUME NetInv, NetInv', Accept
    PROVE  UNCHANGED Service!service
<1>1. PICK f \in Fd : Take(f) /\ newSocket' = f
  BY DEF Accept
<1>2. pc = "accept" /\ backlog # <<>> /\ UNCHANGED clients
  BY DEF Accept, CanAccept, NetInv, PassAgrees
<1> DEFINE c == Head(backlog)
<1>3. /\ socket[f] = NULL /\ conn[c] = "queued" /\ c \in Conn
      /\ \A g \in Fd : socket'[g] = IF g = f THEN c ELSE socket[g]
      /\ \A d \in Conn : conn'[d] = IF d = c THEN "open" ELSE conn[d]
      /\ UNCHANGED ended
  BY <1>1, <1>2, TakeKernel DEF NetInv
<1> HIDE DEF c
<1>4. \A i \in Active : socket'[clients[i].fd] = socket[clients[i].fd]
  BY <1>3, ActiveOwns, NULLAssumption
<1>5. Holders' = Holders
  BY <1>2, <1>4 DEF Holders, Active
<1>6. \A d \in Conn : ~Accepted(d) /\ (Accepted(d)' <=> d = c)
  BY <1>1, <1>2, <1>3, NULLAssumption DEF Accepted, NetInv, NewSocketApart
<1>7. \A d \in Conn : Standing(d)' = Standing(d)
  BY <1>3, <1>5, <1>6, StandingIs, StandingIsNext DEF StandingFits
<1> QED
  BY <1>3, <1>7, ServiceRests

\* The client gets a slot: fewer were served than there are slots.
LEMMA AddClientService ==
    ASSUME NetInv, NetInv', AddClient
    PROVE  \E c \in Conn : Service!Admit(c)
<1>1. PICK i \in FreeSlots : clients' = [clients EXCEPT ![i] = [active |-> TRUE, fd |-> newSocket]]
  BY DEF AddClient
<1>2. /\ UNCHANGED <<socket, conn, ended>>
      /\ pc = "add" /\ newSocket' = NULL
  BY DEF AddClient, kernel
<1> DEFINE c == socket[newSocket]
<1>3. newSocket \in Fd /\ c \in Conn /\ newSocket # NULL
  BY <1>2 DEF NetInv, NewSocketApart, TypeOK, KernelTypeOK
<1>4. i \in Slot /\ i \notin Active
  BY DEF FreeSlots, Active
<1>5. /\ clients'[i].active /\ clients'[i].fd = newSocket
      /\ \A j \in Slot \ {i} : clients'[j] = clients[j]
  BY <1>1, <1>4 DEF NetInv, TypeOK
<1>6. Active' = Active \union {i} /\ \A j \in Active : clients'[j] = clients[j]
  BY <1>4, <1>5 DEF Active
<1>7. Holders' = Holders \union {c}
  BY <1>2, <1>3, <1>5, <1>6 DEF Holders
<1> HIDE DEF c
<1>8. \A d \in Conn : ~Accepted(d)' /\ (Accepted(d) <=> d = c)
  BY <1>2, <1>3 DEF Accepted, c
<1>9. \A d \in Conn : Standing(d)' = IF d = c THEN "served" ELSE Standing(d)
  BY <1>2, <1>3, <1>7, <1>8, StandingIs, StandingIsNext DEF StandingFits
<1>10. Standing(c) = "waiting"
  BY <1>3, <1>8, StandingIs DEF StandingFits
<1>11. Cardinality(Service!Served) < MaxClients
  <2>1. IsFiniteSet(Slot) /\ Cardinality(Slot) = MaxClients
    BY SlotsCounted
  <2>2. Active \in SUBSET Slot /\ Active # Slot
    BY <1>4 DEF Active
  <2>3. Cardinality(Active) <= Cardinality(Slot) /\ Cardinality(Active) # Cardinality(Slot)
    BY <2>1, <2>2, FS_Subset
  <2>4. Cardinality(Active) \in Nat
    BY ServedAreActive, FS_CardinalityType
  <2> QED
    BY <2>1, <2>3, <2>4, ServedAreActive, TableAssumption
<1>12. Leaving' = Leaving
  BY <1>2, <1>9, <1>10 DEF Leaving
<1>13. Service!Move(c, "waiting", "served")
  BY <1>3, <1>9, <1>10, ServiceMove
<1> QED
  BY <1>3, <1>11, <1>12, <1>13, CountedAlike DEF Service!Admit, Leaving

\* The client is turned away: every slot serves another.
LEMMA RefuseClientService ==
    ASSUME NetInv, NetInv', RefuseClient
    PROVE  \E c \in Conn : Service!TurnAway(c)
<1> DEFINE f == newSocket
           c == socket[f]
<1>1. UNCHANGED clients /\ pc = "add" /\ newSocket' = NULL /\ Close({f}) /\ FreeSlots = {}
  BY DEF RefuseClient, RefuseFds
<1>2. /\ f \in Fd /\ c # NULL /\ c \in Conn /\ newSocket # NULL
      /\ \A i \in Active : clients[i].fd # f
  BY <1>1 DEF NetInv, NewSocketApart, TypeOK, KernelTypeOK
<1>3. /\ \A g \in Fd : socket'[g] = IF g = f THEN NULL ELSE socket[g]
      /\ \A d \in Conn : conn'[d] = IF d = c THEN "closed" ELSE conn[d]
      /\ \A d \in Conn : ended'[d] = IF d = c THEN "no" ELSE ended[d]
  BY <1>1, <1>2, CloseKernel DEF NetInv
<1>4. \A i \in Active : socket'[clients[i].fd] = socket[clients[i].fd]
  BY <1>2, <1>3, ActiveOwns
<1>5. Holders' = Holders
  BY <1>1, <1>4 DEF Holders, Active
<1>6. \A d \in Conn : ~Accepted(d)' /\ (Accepted(d) <=> d = c)
  BY <1>1, <1>2 DEF Accepted
<1> HIDE DEF c
<1>7. Standing(c) = "waiting"
  BY <1>2, <1>6, StandingIs DEF StandingFits
<1>8. \A d \in Conn : Standing(d)' = IF d = c THEN "gone" ELSE Standing(d)
  BY <1>2, <1>3, <1>5, <1>6, StandingIs, StandingIsNext DEF StandingFits
<1>9. Cardinality(Service!Served) = MaxClients
  <2>1. Active = Slot
    BY <1>1 DEF FreeSlots, Active
  <2> QED
    BY <2>1, ServedAreActive, SlotsCounted
<1>10. Leaving' = Leaving \ {c}
  BY <1>3, <1>8 DEF Leaving
<1>11. Service!Move(c, "waiting", "gone")
  BY <1>2, <1>7, <1>8, ServiceMove
<1> QED
  BY <1>2, <1>9, <1>10, <1>11, CountedAlike DEF Service!TurnAway, Leaving

\* Only a client that hung up is dropped.
LEMMA DropClientService ==
    ASSUME NetInv, NetInv', DropClient
    PROVE  [Service!Next]_(Service!service)
<1>1. PICK i \in Slot :
        LET f == clients[i].fd IN
        /\ AtSlot(i) /\ unread[socket[f]] = 0
        /\ \/ UNCHANGED <<clients, kernel>>
           \/ /\ Close({f})
              /\ clients' = [j \in Slot |-> IF j \in Matching(f) THEN [active |-> FALSE, fd |-> NULL]
                                            ELSE clients[j]]
  BY Zenon DEF DropClient, Vacated
<1> DEFINE f == clients[i].fd
           c == socket[f]
<1>2. UNCHANGED newSocket /\ newSocket = NULL
  BY <1>1, AtSlotFinds DEF DropClient, NetInv, NewSocketApart
<1>3. /\ i \in Active /\ f \in Fd /\ c \in Conn /\ ended[c] # "no"
  BY <1>1, AtSlotFinds, ActiveOwns
<1>4. CASE UNCHANGED <<clients, kernel>>
  <2>1. UNCHANGED <<socket, conn, ended>>
    BY <1>4 DEF kernel
  <2> QED
    BY <1>2, <1>4, <2>1, QuietService
<1>5. CASE /\ Close({f})
           /\ clients' = [j \in Slot |-> IF j \in Matching(f) THEN [active |-> FALSE, fd |-> NULL]
                                         ELSE clients[j]]
  <2>1. /\ \A g \in Fd : socket'[g] = IF g = f THEN NULL ELSE socket[g]
        /\ \A d \in Conn : conn'[d] = IF d = c THEN "closed" ELSE conn[d]
        /\ \A d \in Conn : ended'[d] = IF d = c THEN "no" ELSE ended[d]
    BY <1>3, <1>5, NULLAssumption, CloseKernel DEF NetInv
  <2>2. Matching(f) = {i}
    BY <1>3, ActiveOwns DEF Matching, Active
  <2>3. \A j \in Slot : clients'[j] = IF j = i THEN [active |-> FALSE, fd |-> NULL] ELSE clients[j]
    BY <1>5, <2>2
  <2>4. Active' = Active \ {i} /\ \A j \in Active' : clients'[j] = clients[j]
    <3>1. ~clients'[i].active /\ \A j \in Slot \ {i} : clients'[j] = clients[j]
      BY <1>3, <2>3 DEF Active
    <3>2. Active' = {j \in Slot : clients'[j].active}
      BY DEF Active
    <3> QED
      BY <3>1, <3>2 DEF Active
  <2>5. \A j \in Active' : socket'[clients'[j].fd] = socket[clients[j].fd]
    BY <1>3, <2>1, <2>4, ActiveOwns
  <2>6. \A j \in Active : socket[clients[j].fd] = c <=> j = i
    BY <1>3, ActiveOwns, NULLAssumption DEF NetInv, KernelInv, OpenIsOwned
  <2>7. Holders' = Holders \ {c}
    BY <1>3, <2>4, <2>5, <2>6 DEF Holders
  <2>8. \A d \in Conn : ~Accepted(d)' /\ ~Accepted(d)
    BY <1>2 DEF Accepted
  <2>9. c \in Holders
    BY <1>3 DEF Holders
  <2> HIDE DEF c
  <2>10. Standing(c) = "served"
    BY <1>3, <2>9, StandingIs DEF StandingFits
  <2>11. \A d \in Conn : Standing(d)' = IF d = c THEN "gone" ELSE Standing(d)
    BY <1>3, <2>1, <2>7, <2>8, StandingIs, StandingIsNext DEF StandingFits
  <2>12. c \in Leaving /\ Leaving' = Leaving \ {c}
    BY <1>3, <2>1, <2>10, <2>11 DEF Leaving
  <2>13. Service!Move(c, "served", "gone")
    BY <1>3, <2>10, <2>11, ServiceMove
  <2> QED
    BY <1>3, <2>12, <2>13 DEF Service!Next, Service!Drop, Leaving
<1> QED
  BY <1>1, <1>4, <1>5

\* What a client does is what a client of the service does.
LEMMA VisitorService ==
    ASSUME NetInv, NetInv', NEW c \in Conn, Client(c), UNCHANGED program
    PROVE  [Service!Next]_(Service!service)
<1>1. UNCHANGED <<newSocket, clients, socket>>
  BY ClientKernel DEF program, NetInv
<1>2. Holders' = Holders /\ \A d \in Conn : Accepted(d)' <=> Accepted(d)
  BY <1>1 DEF Holders, Active, Accepted
<1>3. CASE Connect(c)
  <2>1. conn[c] = "new" /\ UNCHANGED ended /\ \A d \in Conn : conn'[d] = IF d = c THEN "queued" ELSE conn[d]
    BY <1>3 DEF Connect, NetInv, KernelInv, KernelTypeOK
  <2>2. Standing(c) = "away" /\ ended[c] = "no"
    BY <2>1, StandingIs DEF StandingFits, NetInv, KernelInv, EndedExists
  <2>3. \A d \in Conn : Standing(d)' = IF d = c THEN "waiting" ELSE Standing(d)
    BY <1>2, <2>1, StandingIs, StandingIsNext DEF StandingFits
  <2>4. Leaving' = Leaving
    BY <2>1, <2>2, <2>3 DEF Leaving
  <2>5. Service!Move(c, "away", "waiting")
    BY <2>2, <2>3, ServiceMove
  <2> QED
    BY <2>4, <2>5 DEF Service!Next, Service!Arrive, Leaving
<1>4. CASE Send(c)
  BY <1>1, <1>4, QuietService DEF Send
<1>5. CASE HangUp(c)
  <2>1. /\ conn[c] \in {"queued", "open"} /\ UNCHANGED conn
        /\ \A d \in Conn : ended'[d] # "no" <=> d = c \/ ended[d] # "no"
    BY <1>5 DEF HangUp, Here, NetInv, KernelInv, KernelTypeOK
  <2>2. Standing(c) \in {"waiting", "served"}
    BY <2>1, StandingIs DEF StandingFits
  <2>3. \A d \in Conn : Standing(d)' = Standing(d)
    BY <1>1, <2>1 DEF Standing
  <2>4. Leaving' = Leaving \union {c}
    BY <2>1, <2>2, <2>3 DEF Leaving
  <2> QED
    BY <2>2, <2>3, <2>4 DEF Service!Next, Service!HangUp, Leaving
<1> QED
  BY <1>3, <1>4, <1>5 DEF Client

LEMMA NextService == NetInv /\ NetInv' /\ [Next]_vars => [Service!Next]_(Service!service)
<1> SUFFICES ASSUME NetInv, NetInv', [Next]_vars
             PROVE  [Service!Next]_(Service!service)
  OBVIOUS
<1>1. CASE MainLoop \/ Signal \/ Select \/ NoAccept \/ NetRunEnd \/ UNCHANGED vars
  <2>1. UNCHANGED <<kernel, newSocket, clients>>
    BY <1>1 DEF MainLoop, Signal, Select, NoAccept, NetRunEnd, vars, program
  <2> QED
    BY <2>1, QuietService DEF kernel
<1>2. CASE ReadCommand
  BY <1>2, QuietService DEF ReadCommand, Receive
<1>3. CASE Answer
  <2>1. UNCHANGED <<newSocket, clients>> /\ pc = "answer"
    BY <1>3 DEF Answer
  <2> DEFINE c == socket[clients[slot].fd]
  <2>2. c \in Conn /\ conn[c] = "open"
    BY <2>1, ActiveOwns DEF NetInv, PassAgrees
  <2>3. Transmit(c) \/ UNCHANGED kernel
    BY <1>3 DEF Answer
  <2>4. UNCHANGED <<socket, conn>> /\ \A d \in Conn : ended'[d] = "no" <=> ended[d] = "no"
    BY <2>2, <2>3, TransmitKernel DEF NetInv, kernel
  <2> QED
    BY <2>1, <2>4, QuietService
<1>4. CASE Accept \/ AddClient \/ RefuseClient \/ DropClient
  BY <1>4, AcceptService, AddClientService, RefuseClientService, DropClientService DEF Service!Next
<1>5. CASE (\E c \in Conn : Client(c)) /\ UNCHANGED program
  BY <1>5, VisitorService
<1> QED
  BY <1>1, <1>2, <1>3, <1>4, <1>5 DEF Next, Server, Exited

\* The event loop implements ClientService: a client is admitted while there is
\* a slot, turned away only when there is none, and dropped only after it hung up.
THEOREM ServiceImplemented == Spec => ImplementsService
<1>1. Init => Service!Init
  <2> SUFFICES ASSUME Init
               PROVE  Service!Init
    OBVIOUS
  <2>1. \A c \in Conn : Standing(c) = "away"
    BY DEF Init, KernelInit, Standing
  <2> QED
    BY <2>1 DEF Service!Init
<1> QED
  BY <1>1, NextService, NetCorrect, PTL DEF Spec, ImplementsService, Service!Spec
=============================================================================
