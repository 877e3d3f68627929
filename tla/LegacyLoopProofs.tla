-------------------------- MODULE LegacyLoopProofs --------------------------
(***************************************************************************)
(* The legacy event loops keep every slot's socket its own and implement   *)
(* ClientService, for any clients, descriptors and table size, whichever   *)
(* of the versions are looked at and whatever a locked mutex does.  The    *)
(* invariant is weaker than NetLoop's: an open socket may be in no slot.   *)
(***************************************************************************)
EXTENDS LegacyLoop, SocketsProofs, FiniteSetTheorems, WellFoundedInduction

Used == Slot \ FreeSlots

\* accept follows a select that saw a connection waiting, and it still waits.
BacklogHolds == pc = "accept" /\ Listener \in fds => backlog # <<>>

\* An answer goes to the client of a slot in use.
AnswersClient == pc = "answer" => slot \in Used

LegacyInv ==
    /\ LegacyTypeOK
    /\ KernelInv
    /\ SlotsOwnSockets
    /\ BacklogHolds
    /\ AnswersClient

-----------------------------------------------------------------------------
\* A set of numbers that is not empty has a least one.
LEMMA HasLeast ==
    ASSUME NEW S \in SUBSET Nat, S # {}
    PROVE  \E m \in S : \A n \in S : m <= n
<1> DEFINE R == OpToRel(<, Nat)
<1>1. \A x \in Nat : \A y \in Nat : <<x, y>> \in R <=> x < y
  BY Zenon DEF OpToRel
<1>2. IsWellFoundedOn(R, Nat)
  BY NatLessThanWellFounded, Zenon
<1>3. S \subseteq Nat
  OBVIOUS
<1> HIDE DEF R
<1>4. PICK m \in S : \A n \in S : ~(<<n, m>> \in R)
  BY <1>2, <1>3, WFMin, Zenon
<1>5. ASSUME NEW n \in S
      PROVE  m <= n
  <2>1. m \in Nat /\ n \in Nat
    BY <1>3
  <2>2. ~(n < m)
    BY <1>1, <1>4, <2>1
  <2> QED
    BY <2>1, <2>2
<1> QED
  BY <1>5

\* A new client gets one slot, a free one; it gets none only if none is free.
LEMMA SeatIsFree ==
    ASSUME NEW f
    PROVE  \/ FreeSlots = {} /\ Seat(f) = {}
           \/ \E i \in FreeSlots : Seat(f) = {i}
<1>1. FreeSlots \in SUBSET Nat
  BY TableAssumption DEF FreeSlots, Slot
<1>2. CASE FreeSlots = {}
  BY <1>2 DEF Seat
<1>3. CASE FreeSlots # {}
  <2>1. PICK i \in FreeSlots : \A j \in FreeSlots : i <= j
    BY <1>1, <1>3, HasLeast
  <2>2. \A j \in Seat(f) : j = i
    <3>1. SUFFICES ASSUME NEW j \in Seat(f)
                   PROVE  j = i
      OBVIOUS
    <3>2. j <= i /\ i <= j /\ i \in Nat /\ j \in Nat
      BY <1>1, <2>1 DEF Seat
    <3> QED
      BY <3>2
  <2> QED
    BY <2>1, <2>2 DEF Seat
<1> QED
  BY <1>2, <1>3

\* A slot in use holds an open socket of its own.
LEMMA UsedOwns ==
    ASSUME LegacyInv, NEW i \in Used
    PROVE  /\ i \in Slot /\ clients[i] \in Fd /\ clients[i] # NULL /\ clients[i] # Listener
           /\ socket[clients[i]] \in Conn /\ conn[socket[clients[i]]] = "open"
           /\ \A j \in Slot : clients[j] = clients[i] => j = i
<1>1. i \in Slot /\ clients[i] # NULL /\ clients[i] \in Fd
  BY DEF Used, FreeSlots, LegacyInv, LegacyTypeOK
<1>2. socket[clients[i]] # NULL /\ \A j \in Slot : clients[j] = clients[i] => j = i
  BY DEF LegacyInv, SlotsOwnSockets, Used
<1>3. socket[clients[i]] \in Conn /\ conn[socket[clients[i]]] = "open"
  BY <1>1, <1>2 DEF LegacyInv, KernelInv, KernelTypeOK, OpenIsOwned
<1> QED
  BY <1>1, <1>2, <1>3, FdAssumption

LEMMA AtUsed ==
    ASSUME LegacyInv, NEW i \in Slot, AtSlot(i)
    PROVE  /\ i \in Used /\ i \in 1 .. MaxClients /\ pc = "serve"
           /\ unread[socket[clients[i]]] = 0 => ended[socket[clients[i]]] # "no"
<1>1. i \in Used /\ pc = "serve" /\ Ready(clients[i])
  BY DEF AtSlot, Readable, Used, FreeSlots
<1> QED
  BY <1>1, UsedOwns DEF Ready, Slot, LegacyInv, LegacyTypeOK, KernelTypeOK

-----------------------------------------------------------------------------
LEMMA InitLegacy == Init => LegacyInv
<1> SUFFICES ASSUME Init
             PROVE  LegacyInv
  OBVIOUS
<1>1. KernelInv
  BY KernelStarts DEF Init
<1>2. LegacyTypeOK
  BY <1>1, TableAssumption DEF Init, LegacyTypeOK, KernelInv, Slot
<1>3. SlotsOwnSockets /\ BacklogHolds /\ AnswersClient
  BY DEF Init, SlotsOwnSockets, BacklogHolds, AnswersClient, FreeSlots
<1> QED
  BY <1>1, <1>2, <1>3 DEF LegacyInv

\* The steps that touch no socket and no slot.
LEMMA QuietLegacy ==
    ASSUME LegacyInv, UNCHANGED <<version, clients, world>>,
           pc' \in {"select", "receive", "accept", "serve", "hung"},
           fds' \subseteq Fd \union {Listener}, slot' \in 1 .. MaxClients + 1,
           pc' = "accept" /\ Listener \in fds' => backlog # <<>>
    PROVE  LegacyInv'
<1>1. UNCHANGED <<full, socket, backlog, conn, ended, unread>>
  BY DEF world, kernel
<1>2. KernelInv' /\ LegacyTypeOK'
  BY <1>1 DEF LegacyInv, LegacyTypeOK, KernelInv, KernelTypeOK, WaitsOnce, OpenIsOwned, EndedExists
<1>3. SlotsOwnSockets' /\ BacklogHolds' /\ AnswersClient'
  BY <1>1 DEF LegacyInv, SlotsOwnSockets, BacklogHolds, AnswersClient, FreeSlots
<1> QED
  BY <1>2, <1>3 DEF LegacyInv

LEMMA SelectLegacy == LegacyInv /\ Select => LegacyInv'
<1> SUFFICES ASSUME LegacyInv, Select
             PROVE  LegacyInv'
  OBVIOUS
<1>1. /\ UNCHANGED <<version, clients, world>>
      /\ pc' \in {"receive", "accept"} /\ slot' = 1 /\ fds' = {f \in Watched : Ready(f)}
  BY DEF Select
<1>2. \A f \in Watched : f \in Fd \union {Listener}
  BY UsedOwns DEF Watched, Used
<1>3. Listener \in fds' => backlog # <<>>
  BY <1>1 DEF Ready
<1> QED
  BY <1>1, <1>2, <1>3, QuietLegacy, TableAssumption

LEMMA PassLegacy ==
    LegacyInv /\ (ReceiveFails \/ AcceptFails \/ NothingToAccept \/ PassOver) => LegacyInv'
<1> SUFFICES ASSUME LegacyInv, ReceiveFails \/ AcceptFails \/ NothingToAccept \/ PassOver
             PROVE  LegacyInv'
  OBVIOUS
<1>1. UNCHANGED <<version, clients, world>> /\ pc' \in {"select", "serve"}
  BY DEF ReceiveFails, AcceptFails, NothingToAccept, PassOver
<1>2. fds' \in {fds, {}} /\ slot' \in {slot, 1}
  BY DEF ReceiveFails, AcceptFails, NothingToAccept, PassOver
<1>3. fds \subseteq Fd \union {Listener} /\ slot \in 1 .. MaxClients + 1 /\ 1 \in 1 .. MaxClients + 1
  BY TableAssumption DEF LegacyInv, LegacyTypeOK
<1> QED
  BY <1>1, <1>2, <1>3, QuietLegacy

\* accept: what it does to the slots and the kernel, for the refinement too.
LEMMA AcceptDoes ==
    ASSUME LegacyInv, Accept
    PROVE  \E f \in Fd, c \in Conn :
             /\ KernelInv' /\ c = Head(backlog)
             /\ socket[f] = NULL /\ conn[c] = "queued"
             /\ \A g \in Fd : socket'[g] = IF g = f THEN c ELSE socket[g]
             /\ \A d \in Conn : conn'[d] = IF d = c THEN "open" ELSE conn[d]
             /\ UNCHANGED ended
             /\ \A i \in Slot : clients'[i] = IF i \in Seat(f) THEN f ELSE clients[i]
             /\ clients' \in [Slot -> Fd \union {NULL}]
             /\ \A i \in Used : clients[i] # f
<1>1. PICK f \in Fd : Take(f) /\ clients' = [i \in Slot |-> IF i \in Seat(f) THEN f ELSE clients[i]]
  BY DEF Accept
<1>2. backlog # <<>> /\ KernelInv
  BY DEF Accept, CanAccept, LegacyInv, BacklogHolds
<1>3. /\ KernelInv' /\ Head(backlog) \in Conn
      /\ socket[f] = NULL /\ conn[Head(backlog)] = "queued"
      /\ \A g \in Fd : socket'[g] = IF g = f THEN Head(backlog) ELSE socket[g]
      /\ \A d \in Conn : conn'[d] = IF d = Head(backlog) THEN "open" ELSE conn[d]
      /\ UNCHANGED ended
  BY <1>1, <1>2, TakeKernel
<1>4. clients' \in [Slot -> Fd \union {NULL}]
  BY <1>1 DEF LegacyInv, LegacyTypeOK
<1>5. \A i \in Slot : clients'[i] = IF i \in Seat(f) THEN f ELSE clients[i]
  BY <1>1
<1>6. \A i \in Used : clients[i] # f
  BY <1>3, UsedOwns, NULLAssumption
<1> QED
  BY <1>3, <1>4, <1>5, <1>6

LEMMA AcceptLegacy == LegacyInv /\ Accept => LegacyInv'
<1> SUFFICES ASSUME LegacyInv, Accept
             PROVE  LegacyInv'
  OBVIOUS
<1>1. UNCHANGED <<version, fds, slot, full>> /\ pc' = "serve"
  BY DEF Accept
<1>2. PICK f \in Fd, c \in Conn :
        /\ KernelInv'
        /\ \A g \in Fd : socket'[g] = IF g = f THEN c ELSE socket[g]
        /\ \A i \in Slot : clients'[i] = IF i \in Seat(f) THEN f ELSE clients[i]
        /\ clients' \in [Slot -> Fd \union {NULL}]
        /\ \A i \in Used : clients[i] # f
  BY AcceptDoes
<1>3. LegacyTypeOK'
  BY <1>1, <1>2 DEF LegacyInv, LegacyTypeOK, KernelInv
<1>4. \A i \in Used : socket'[clients[i]] = socket[clients[i]]
  BY <1>2, UsedOwns
<1>5. f # NULL /\ socket'[f] # NULL /\ Seat(f) \subseteq FreeSlots /\ \A i, j \in Seat(f) : i = j
  BY <1>2, SeatIsFree, NULLAssumption
<1>6. \A i \in Slot : \/ i \in Used /\ i \notin Seat(f)
                      \/ i \in Seat(f)
                      \/ clients[i] = NULL /\ i \notin Seat(f)
  BY <1>5 DEF Used, FreeSlots
<1>7. SlotsOwnSockets'
  <2> SUFFICES ASSUME NEW i \in Slot, clients'[i] # NULL
               PROVE  /\ socket'[clients'[i]] # NULL
                      /\ \A j \in Slot : clients'[j] = clients'[i] => j = i
    BY DEF SlotsOwnSockets, FreeSlots
  <2>1. CASE i \in Seat(f)
    BY <1>2, <1>5, <1>6, <2>1
  <2>2. CASE i \in Used /\ i \notin Seat(f)
    <3>1. clients'[i] = clients[i] /\ clients[i] # f /\ clients[i] # NULL
      BY <1>2, <2>2, UsedOwns
    <3>2. socket'[clients'[i]] # NULL
      BY <1>4, <2>2, <3>1, UsedOwns, NULLAssumption
    <3>3. \A j \in Slot : clients[j] = clients[i] => j = i
      BY <2>2, UsedOwns
    <3> QED
      BY <1>2, <3>1, <3>2, <3>3
  <2> QED
    BY <1>2, <1>6, <2>1, <2>2
<1>8. BacklogHolds' /\ AnswersClient'
  BY <1>1 DEF BacklogHolds, AnswersClient
<1> QED
  BY <1>2, <1>3, <1>7, <1>8 DEF LegacyInv

LEMMA ReadLegacy == LegacyInv /\ ReadCommand => LegacyInv'
<1> SUFFICES ASSUME LegacyInv, ReadCommand
             PROVE  LegacyInv'
  OBVIOUS
<1>1. PICK i \in Slot : /\ AtSlot(i) /\ Receive(socket[clients[i]])
                        /\ \/ pc' = "answer" /\ slot' = i
                           \/ slot' = i + 1 /\ UNCHANGED pc
  BY Zenon DEF ReadCommand, NextSlot
<1>2. UNCHANGED <<version, fds, clients, full>>
  BY DEF ReadCommand
<1>3. i \in Used /\ i \in 1 .. MaxClients /\ pc = "serve" /\ socket[clients[i]] \in Conn
  BY <1>1, AtUsed, UsedOwns
<1>4. KernelInv' /\ UNCHANGED <<socket, backlog>>
  BY <1>1, <1>3, ReceiveKernel DEF LegacyInv, Receive
<1>5. LegacyTypeOK'
  BY <1>1, <1>2, <1>3, <1>4, TableAssumption DEF LegacyInv, LegacyTypeOK, KernelInv
<1>6. AnswersClient' /\ BacklogHolds'
  BY <1>1, <1>2, <1>3 DEF AnswersClient, BacklogHolds, Used, FreeSlots
<1> QED
  BY <1>2, <1>4, <1>5, <1>6 DEF LegacyInv, SlotsOwnSockets, FreeSlots

\* An answer: to an open connection, and no connection ends or begins by it.
LEMMA AnswerDoes ==
    ASSUME LegacyInv, Answer
    PROVE  /\ KernelInv' /\ UNCHANGED <<version, fds, clients, socket, backlog, conn, unread>>
           /\ pc' \in {"serve", "killed"} /\ slot' \in 1 .. MaxClients + 1
           /\ full' \subseteq Conn
           /\ \A d \in Conn : ended'[d] = "no" <=> ended[d] = "no"
<1>1. slot \in Used /\ slot \in 1 .. MaxClients
  BY DEF Answer, LegacyInv, AnswersClient, Used, Slot
<1>2. socket[clients[slot]] \in Conn /\ conn[socket[clients[slot]]] = "open"
  BY <1>1, UsedOwns
<1>3. Transmit(socket[clients[slot]])
  BY DEF Answer
<1>4. /\ KernelInv' /\ UNCHANGED <<socket, backlog, conn, unread>>
      /\ \A d \in Conn : ended'[d] = "no" <=> ended[d] = "no"
  BY <1>2, <1>3, TransmitKernel DEF LegacyInv
<1>5. /\ pc' \in {"serve", "killed"} /\ slot' = slot + 1
      /\ full' \in {full, full \union {socket[clients[slot]]}}
      /\ UNCHANGED <<version, fds, clients>>
  BY DEF Answer, NextSlot
<1>6. slot' \in 1 .. MaxClients + 1 /\ full' \subseteq Conn
  BY <1>1, <1>2, <1>5, TableAssumption DEF LegacyInv, LegacyTypeOK
<1> QED
  BY <1>4, <1>5, <1>6

LEMMA AnswerLegacy == LegacyInv /\ Answer => LegacyInv'
<1> SUFFICES ASSUME LegacyInv, Answer
             PROVE  LegacyInv'
  OBVIOUS
<1>1. LegacyTypeOK'
  BY AnswerDoes DEF LegacyInv, LegacyTypeOK, KernelInv
<1>2. SlotsOwnSockets' /\ BacklogHolds' /\ AnswersClient'
  BY AnswerDoes DEF LegacyInv, SlotsOwnSockets, BacklogHolds, AnswersClient, FreeSlots
<1> QED
  BY <1>1, <1>2, AnswerDoes DEF LegacyInv

\* A client that left: what becomes of its slot and its socket, unless the loop hangs.
LEMMA DropDoes ==
    ASSUME LegacyInv, DropClient
    PROVE  \/ pc' = "hung" /\ UNCHANGED <<version, fds, slot, clients, world>>
           \/ \E i \in Used :
                /\ KernelInv' /\ UNCHANGED <<version, fds, pc, backlog>> /\ slot' = i + 1
                /\ pc = "serve" /\ full' \subseteq Conn
                /\ ended[socket[clients[i]]] # "no"
                /\ \A g \in Fd : socket'[g] = IF g = clients[i] THEN NULL ELSE socket[g]
                /\ \A d \in Conn : conn'[d] = IF d = socket[clients[i]] THEN "closed" ELSE conn[d]
                /\ \A d \in Conn : ended'[d] = IF d = socket[clients[i]] THEN "no" ELSE ended[d]
                /\ \A j \in Slot : clients'[j] = IF j = i THEN NULL ELSE clients[j]
                /\ clients' \in [Slot -> Fd \union {NULL}]
<1>1. PICK i \in Slot :
        LET f == clients[i] IN
        /\ AtSlot(i) /\ unread[socket[f]] = 0
        /\ \/ pc' = "hung" /\ UNCHANGED <<clients, slot, world>>
           \/ /\ Close({f}) /\ full' = full \ {socket[f]}
              /\ clients' = [j \in Slot |-> IF j \in SlotsOf(f) THEN NULL ELSE clients[j]]
              /\ slot' = i + 1 /\ UNCHANGED pc
  BY Zenon DEF DropClient, NextSlot
<1>2. UNCHANGED <<version, fds>>
  BY DEF DropClient
<1>3. CASE pc' = "hung" /\ UNCHANGED <<clients, slot, world>>
  BY <1>2, <1>3
<1>4. CASE /\ Close({clients[i]}) /\ full' = full \ {socket[clients[i]]}
           /\ clients' = [j \in Slot |-> IF j \in SlotsOf(clients[i]) THEN NULL ELSE clients[j]]
           /\ slot' = i + 1 /\ UNCHANGED pc
  <2>1. /\ i \in Used /\ clients[i] \in Fd /\ socket[clients[i]] # NULL
        /\ ended[socket[clients[i]]] # "no" /\ pc = "serve"
    BY <1>1, AtUsed, UsedOwns, NULLAssumption
  <2>2. /\ KernelInv' /\ UNCHANGED backlog
        /\ \A g \in Fd : socket'[g] = IF g = clients[i] THEN NULL ELSE socket[g]
        /\ \A d \in Conn : conn'[d] = IF d = socket[clients[i]] THEN "closed" ELSE conn[d]
        /\ \A d \in Conn : ended'[d] = IF d = socket[clients[i]] THEN "no" ELSE ended[d]
    BY <1>4, <2>1, CloseKernel DEF LegacyInv
  <2>3. SlotsOf(clients[i]) = {i}
    BY <2>1, UsedOwns DEF SlotsOf
  <2>4. \A j \in Slot : clients'[j] = IF j = i THEN NULL ELSE clients[j]
    BY <1>4, <2>3
  <2>5. clients' \in [Slot -> Fd \union {NULL}] /\ full' \subseteq Conn
    BY <1>4 DEF LegacyInv, LegacyTypeOK
  <2> QED
    BY <1>2, <1>4, <2>1, <2>2, <2>4, <2>5
<1> QED
  BY <1>1, <1>3, <1>4

LEMMA DropLegacy == LegacyInv /\ DropClient => LegacyInv'
<1> SUFFICES ASSUME LegacyInv, DropClient
             PROVE  LegacyInv'
  OBVIOUS
<1>1. CASE pc' = "hung" /\ UNCHANGED <<version, fds, slot, clients, world>>
  BY <1>1, QuietLegacy DEF LegacyInv, LegacyTypeOK
<1>2. CASE \E i \in Used :
             /\ KernelInv' /\ UNCHANGED <<version, fds, pc, backlog>> /\ slot' = i + 1
             /\ pc = "serve" /\ full' \subseteq Conn
             /\ \A g \in Fd : socket'[g] = IF g = clients[i] THEN NULL ELSE socket[g]
             /\ \A j \in Slot : clients'[j] = IF j = i THEN NULL ELSE clients[j]
             /\ clients' \in [Slot -> Fd \union {NULL}]
  <2>1. PICK i \in Used :
             /\ KernelInv' /\ UNCHANGED <<version, fds, pc, backlog>> /\ slot' = i + 1
             /\ pc = "serve" /\ full' \subseteq Conn
             /\ \A g \in Fd : socket'[g] = IF g = clients[i] THEN NULL ELSE socket[g]
             /\ \A j \in Slot : clients'[j] = IF j = i THEN NULL ELSE clients[j]
             /\ clients' \in [Slot -> Fd \union {NULL}]
    BY <1>2
  <2>2. LegacyTypeOK'
    BY <2>1, TableAssumption DEF LegacyInv, LegacyTypeOK, KernelInv, Used, Slot
  <2>3. SlotsOwnSockets'
    <3> SUFFICES ASSUME NEW j \in Slot, clients'[j] # NULL
                 PROVE  /\ socket'[clients'[j]] # NULL
                        /\ \A k \in Slot : clients'[k] = clients'[j] => k = j
      BY DEF SlotsOwnSockets, FreeSlots
    <3>1. j # i /\ clients'[j] = clients[j] /\ j \in Used
      BY <2>1 DEF Used, FreeSlots
    <3>2. /\ clients[j] \in Fd /\ clients[j] # NULL /\ clients[j] # clients[i]
          /\ socket[clients[j]] # NULL
          /\ \A k \in Slot : clients[k] = clients[j] => k = j
      BY <2>1, <3>1, UsedOwns, NULLAssumption
    <3> QED
      BY <2>1, <3>1, <3>2
  <2>4. BacklogHolds' /\ AnswersClient'
    BY <2>1 DEF LegacyInv, BacklogHolds, AnswersClient
  <2> QED
    BY <2>1, <2>2, <2>3, <2>4 DEF LegacyInv
<1> QED
  BY <1>1, <1>2, DropDoes

LEMMA IgnoreLegacy == LegacyInv /\ IgnoreError => LegacyInv'
<1> SUFFICES ASSUME LegacyInv, IgnoreError
             PROVE  LegacyInv'
  OBVIOUS
<1>1. PICK i \in Slot : /\ AtSlot(i) /\ unread[socket[clients[i]]] = 0
                        /\ ended' = [ended EXCEPT ![socket[clients[i]]] = "closed"]
                        /\ slot' = i + 1
  BY Zenon DEF IgnoreError, NextSlot
<1>2. UNCHANGED <<version, pc, fds, clients, full, socket, backlog, conn, unread>>
  BY DEF IgnoreError
<1>3. /\ i \in Used /\ i \in 1 .. MaxClients /\ pc = "serve"
      /\ ended[socket[clients[i]]] # "no" /\ socket[clients[i]] \in Conn
  BY <1>1, AtUsed, UsedOwns
<1>4. /\ ended' \in [Conn -> {"no", "closed", "reset", "broken"}]
      /\ \A d \in Conn : ended'[d] = "no" <=> ended[d] = "no"
  BY <1>1, <1>3 DEF LegacyInv, KernelInv, KernelTypeOK
<1>5. KernelInv'
  BY <1>2, <1>4 DEF LegacyInv, KernelInv, KernelTypeOK, WaitsOnce, OpenIsOwned, EndedExists
<1>6. LegacyTypeOK'
  BY <1>1, <1>2, <1>3, <1>5, TableAssumption DEF LegacyInv, LegacyTypeOK, KernelInv
<1> QED
  BY <1>2, <1>3, <1>5, <1>6 DEF LegacyInv, SlotsOwnSockets, BacklogHolds, AnswersClient, FreeSlots

LEMMA ClientLegacy ==
    ASSUME LegacyInv, NEW c \in Conn, Client(c), UNCHANGED <<program, full>>
    PROVE  LegacyInv'
<1>1. KernelInv' /\ UNCHANGED socket
  BY ClientKernel DEF LegacyInv
<1>2. UNCHANGED <<version, pc, fds, slot, clients, full>>
  BY DEF program
<1>3. backlog # <<>> => backlog' # <<>>
  <2>1. backlog' \in {backlog, Append(backlog, c)}
    BY DEF Client, Connect, Send, HangUp
  <2> QED
    BY <2>1 DEF LegacyInv, KernelInv, KernelTypeOK
<1>4. LegacyTypeOK'
  BY <1>1, <1>2 DEF LegacyInv, LegacyTypeOK, KernelInv
<1> QED
  BY <1>1, <1>2, <1>3, <1>4
     DEF LegacyInv, SlotsOwnSockets, BacklogHolds, AnswersClient, Used, FreeSlots

\* A client that reads, or resets what it had half closed.
LEMMA TakeDoes ==
    ASSUME LegacyInv, NEW c \in Conn, TakeAnswers(c)
    PROVE  /\ KernelInv' /\ UNCHANGED <<socket, backlog, conn, unread>>
           /\ full' \subseteq Conn
           /\ \A d \in Conn : ended'[d] = "no" <=> ended[d] = "no"
<1>1. UNCHANGED <<socket, backlog, conn, unread>>
  BY DEF TakeAnswers, kernel
<1>2. full' \subseteq Conn
  BY DEF TakeAnswers, LegacyInv, LegacyTypeOK
<1>3. /\ ended' \in [Conn -> {"no", "closed", "reset", "broken"}]
      /\ \A d \in Conn : ended'[d] = "no" <=> ended[d] = "no"
  BY DEF TakeAnswers, kernel, LegacyInv, KernelInv, KernelTypeOK
<1>4. KernelInv'
  BY <1>1, <1>3 DEF LegacyInv, KernelInv, KernelTypeOK, WaitsOnce, OpenIsOwned, EndedExists
<1> QED
  BY <1>1, <1>2, <1>3, <1>4

LEMMA TakeAnswersLegacy ==
    ASSUME LegacyInv, NEW c \in Conn, TakeAnswers(c), UNCHANGED program
    PROVE  LegacyInv'
<1>1. UNCHANGED <<version, pc, fds, slot, clients>>
  BY DEF program
<1>2. LegacyTypeOK'
  BY <1>1, TakeDoes DEF LegacyInv, LegacyTypeOK, KernelInv
<1> QED
  BY <1>1, <1>2, TakeDoes
     DEF LegacyInv, SlotsOwnSockets, BacklogHolds, AnswersClient, Used, FreeSlots

LEMMA NextLegacy == LegacyInv /\ [Next]_vars => LegacyInv'
<1> SUFFICES ASSUME LegacyInv, [Next]_vars
             PROVE  LegacyInv'
  OBVIOUS
<1>1. CASE Server
  BY <1>1, SelectLegacy, PassLegacy, AcceptLegacy, ReadLegacy, AnswerLegacy, DropLegacy, IgnoreLegacy
     DEF Server
<1>2. CASE Clients /\ UNCHANGED program
  BY <1>2, ClientLegacy, TakeAnswersLegacy DEF Clients
<1>3. CASE UNCHANGED vars
  <2>1. UNCHANGED <<version, pc, fds, slot, clients, full, socket, backlog, conn, ended, unread>>
    BY <1>3 DEF vars, program, world, kernel
  <2> QED
    BY <2>1 DEF LegacyInv, LegacyTypeOK, KernelInv, KernelTypeOK, WaitsOnce, OpenIsOwned, EndedExists,
                SlotsOwnSockets, BacklogHolds, AnswersClient, Used, FreeSlots
<1> QED
  BY <1>1, <1>2, <1>3 DEF Next

\* The inductive invariant holds of every version: each action keeps it.
THEOREM LegacyCorrect == Spec => []LegacyInv
BY InitLegacy, NextLegacy, PTL DEF Spec

\* A slot in use always holds an open socket that no other slot holds, though
\* descriptors are closed and given out again (net_remove_client clears the
\* slot it closes the socket of).
THEOREM LegacySlotsCorrect == Spec => []SlotsOwnSockets
<1>1. LegacyInv => SlotsOwnSockets
  BY DEF LegacyInv
<1> QED
  BY <1>1, LegacyCorrect, PTL

\* The variables have the types of the C structures.
THEOREM LegacyTypeCorrect == Spec => []LegacyTypeOK
<1>1. LegacyInv => LegacyTypeOK
  BY DEF LegacyInv
<1> QED
  BY <1>1, LegacyCorrect, PTL

-----------------------------------------------------------------------------
\* The refinement.

Leaving == {c \in Conn : Standing(c) \in {"waiting", "served"} /\ ended[c] # "no"}

\* The connections of the slots in use.
Holders == {c \in Conn : \E i \in Used : socket[clients[i]] = c}

\* What Standing says of a reachable state: a connection that is open and in no
\* slot is as gone as one that is closed.
StandingFits(c) ==
    /\ Standing(c) = "away" <=> conn[c] = "new"
    /\ Standing(c) = "waiting" <=> conn[c] = "queued"
    /\ Standing(c) = "served" <=> c \in Holders
    /\ Standing(c) \in {"away", "waiting", "served", "gone"}

LEMMA StandingIs == LegacyInv => \A c \in Conn : StandingFits(c)
<1> SUFFICES ASSUME LegacyInv, NEW c \in Conn
             PROVE  StandingFits(c)
  OBVIOUS
<1>1. c \in Holders => conn[c] = "open"
  BY UsedOwns DEF Holders
<1>2. Standing(c) = CASE conn[c] = "new" -> "away"
                      [] conn[c] = "queued" -> "waiting"
                      [] c \in Holders -> "served"
                      [] OTHER -> "gone"
  BY DEF Standing, Served, Holders, Used
<1> QED
  BY <1>1, <1>2 DEF StandingFits

LEMMA StandingIsNext == LegacyInv' => (\A c \in Conn : StandingFits(c))'
BY StandingIs, PTL

\* ClientService brings its own FiniteSets: both count alike.
LEMMA CountedAlike == \A S : Service!Cardinality(S) = Cardinality(S)
BY Zenon DEF Service!Cardinality, Cardinality

LEMMA SlotsCounted == IsFiniteSet(Slot) /\ Cardinality(Slot) = MaxClients
<1>1. MaxClients \in Nat /\ Slot = 1 .. MaxClients
  BY TableAssumption DEF Slot
<1>2. IsFiniteSet(1 .. MaxClients) /\ Cardinality(1 .. MaxClients) = MaxClients - 1 + 1
  BY <1>1, FS_Interval
<1> QED
  BY <1>1, <1>2

\* As many clients are served as slots are in use.
LEMMA ServedAreUsed ==
    ASSUME LegacyInv
    PROVE  /\ Service!Served = Holders
           /\ IsFiniteSet(Used)
           /\ Cardinality(Holders) = Cardinality(Used)
<1>1. Service!Served = Holders
  BY StandingIs DEF Service!Served, StandingFits, Holders
<1>2. IsFiniteSet(Used)
  BY SlotsCounted, FS_Subset DEF Used
<1> DEFINE conns == [i \in Used |-> socket[clients[i]]]
<1>3. conns \in [Used -> Holders]
  BY UsedOwns DEF Holders
<1>4. conns \in Surjection(Used, Holders)
  BY <1>3 DEF Holders, Surjection
<1>5. conns \in Injection(Used, Holders)
  <2>1. \A i, j \in Used : conns[i] = conns[j] => clients[i] = clients[j]
    BY UsedOwns, NULLAssumption DEF LegacyInv, KernelInv, OpenIsOwned
  <2> QED
    BY <1>3, <2>1, UsedOwns DEF Injection, IsInjective
<1>6. Cardinality(Holders) = Cardinality(Used)
  BY <1>2, <1>4, <1>5, FS_Surjection
<1> QED
  BY <1>1, <1>2, <1>6

\* A change of one client's standing is a move of the service.
LEMMA ServiceMove ==
    ASSUME NEW c \in Conn, NEW from, NEW to, Standing(c) = from,
           \A d \in Conn : Standing(d)' = IF d = c THEN to ELSE Standing(d)
    PROVE  Service!Move(c, from, to)
BY DEF Service!Move

\* A step that changes no slot and ends no connection.
LEMMA QuietService ==
    ASSUME UNCHANGED <<socket, conn, clients>>,
           \A c \in Conn : ended'[c] = "no" <=> ended[c] = "no"
    PROVE  UNCHANGED Service!service
<1>1. \A c \in Conn : Standing(c)' = Standing(c)
  BY DEF Standing, Served, FreeSlots
<1> QED
  BY <1>1 DEF Service!service

\* accept: into a slot while one is free, else turned away.
LEMMA AcceptService ==
    ASSUME LegacyInv, LegacyInv', Accept
    PROVE  \E c \in Conn : Service!Admit(c) \/ Service!TurnAway(c)
<1>1. PICK f \in Fd, c \in Conn :
        /\ socket[f] = NULL /\ conn[c] = "queued"
        /\ \A g \in Fd : socket'[g] = IF g = f THEN c ELSE socket[g]
        /\ \A d \in Conn : conn'[d] = IF d = c THEN "open" ELSE conn[d]
        /\ UNCHANGED ended
        /\ \A i \in Slot : clients'[i] = IF i \in Seat(f) THEN f ELSE clients[i]
        /\ \A i \in Used : clients[i] # f
  BY AcceptDoes
<1>2. f # NULL /\ c # NULL
  BY NULLAssumption
<1>3. Standing(c) = "waiting" /\ c \notin Holders
  BY <1>1, StandingIs DEF StandingFits
<1>4. CASE FreeSlots = {} /\ Seat(f) = {}
  <2>1. Used = Slot /\ Used' = Used /\ \A i \in Used : clients'[i] = clients[i]
    BY <1>1, <1>4 DEF Used, FreeSlots
  <2>2. \A i \in Used : socket'[clients'[i]] = socket[clients[i]]
    BY <1>1, <2>1, UsedOwns
  <2>3. Holders' = Holders
    BY <2>1, <2>2 DEF Holders
  <2>4. \A d \in Conn : Standing(d)' = IF d = c THEN "gone" ELSE Standing(d)
    BY <1>1, <1>3, <2>3, StandingIs, StandingIsNext DEF StandingFits
  <2>5. Cardinality(Service!Served) = MaxClients
    BY <2>1, ServedAreUsed, SlotsCounted
  <2>6. Leaving' = Leaving \ {c}
    BY <1>1, <2>4 DEF Leaving
  <2>7. Service!Move(c, "waiting", "gone")
    BY <1>3, <2>4, ServiceMove
  <2> QED
    BY <2>5, <2>6, <2>7, CountedAlike DEF Service!TurnAway, Leaving
<1>5. CASE \E i \in FreeSlots : Seat(f) = {i}
  <2>1. PICK i \in FreeSlots : Seat(f) = {i}
    BY <1>5
  <2>2. /\ i \in Slot /\ i \notin Used /\ clients'[i] = f
        /\ \A j \in Slot \ {i} : clients'[j] = clients[j]
    BY <1>1, <2>1 DEF Used, FreeSlots
  <2>3. Used' = Used \union {i} /\ \A j \in Used : clients'[j] = clients[j]
    <3>1. Used' = {j \in Slot : clients'[j] # NULL} /\ Used = {j \in Slot : clients[j] # NULL}
      BY DEF Used, FreeSlots
    <3> QED
      BY <1>2, <2>2, <3>1
  <2>4. \A j \in Used : socket'[clients'[j]] = socket[clients[j]]
    BY <1>1, <2>3, UsedOwns
  <2>5. Holders' = Holders \union {c}
    BY <1>1, <2>2, <2>3, <2>4 DEF Holders
  <2>6. \A d \in Conn : Standing(d)' = IF d = c THEN "served" ELSE Standing(d)
    BY <1>1, <1>3, <2>5, StandingIs, StandingIsNext DEF StandingFits
  <2>7. Cardinality(Service!Served) < MaxClients
    <3>1. IsFiniteSet(Slot) /\ Cardinality(Slot) = MaxClients
      BY SlotsCounted
    <3>2. Used \in SUBSET Slot /\ Used # Slot
      BY <2>2 DEF Used
    <3>3. Cardinality(Used) <= Cardinality(Slot) /\ Cardinality(Used) # Cardinality(Slot)
      BY <3>1, <3>2, FS_Subset
    <3>4. Cardinality(Used) \in Nat
      BY ServedAreUsed, FS_CardinalityType
    <3> QED
      BY <3>1, <3>3, <3>4, ServedAreUsed, TableAssumption
  <2>8. Leaving' = Leaving
    BY <1>1, <1>3, <2>6 DEF Leaving
  <2>9. Service!Move(c, "waiting", "served")
    BY <1>3, <2>6, ServiceMove
  <2> QED
    BY <2>7, <2>8, <2>9, CountedAlike DEF Service!Admit, Leaving
<1> QED
  BY <1>4, <1>5, SeatIsFree

\* Only a client that hung up is dropped.
LEMMA DropService ==
    ASSUME LegacyInv, LegacyInv', DropClient
    PROVE  [Service!Next]_(Service!service)
<1>1. CASE pc' = "hung" /\ UNCHANGED <<version, fds, slot, clients, world>>
  BY <1>1, QuietService DEF world, kernel
<1>2. CASE \E i \in Used :
             /\ ended[socket[clients[i]]] # "no"
             /\ \A g \in Fd : socket'[g] = IF g = clients[i] THEN NULL ELSE socket[g]
             /\ \A d \in Conn : conn'[d] = IF d = socket[clients[i]] THEN "closed" ELSE conn[d]
             /\ \A d \in Conn : ended'[d] = IF d = socket[clients[i]] THEN "no" ELSE ended[d]
             /\ \A j \in Slot : clients'[j] = IF j = i THEN NULL ELSE clients[j]
  <2>1. PICK i \in Used :
             /\ ended[socket[clients[i]]] # "no"
             /\ \A g \in Fd : socket'[g] = IF g = clients[i] THEN NULL ELSE socket[g]
             /\ \A d \in Conn : conn'[d] = IF d = socket[clients[i]] THEN "closed" ELSE conn[d]
             /\ \A d \in Conn : ended'[d] = IF d = socket[clients[i]] THEN "no" ELSE ended[d]
             /\ \A j \in Slot : clients'[j] = IF j = i THEN NULL ELSE clients[j]
    BY <1>2
  <2> DEFINE c == socket[clients[i]]
  <2>2. c \in Holders /\ c \in Conn /\ conn[c] = "open"
    BY UsedOwns DEF Holders
  <2>3. Used' = Used \ {i} /\ \A j \in Used' : clients'[j] = clients[j]
    <3>1. Used' = {j \in Slot : clients'[j] # NULL} /\ Used = {j \in Slot : clients[j] # NULL}
      BY DEF Used, FreeSlots
    <3> QED
      BY <2>1, <3>1
  <2>4. \A j \in Used' : clients[j] # clients[i] /\ socket'[clients'[j]] = socket[clients[j]]
    BY <2>1, <2>3, UsedOwns
  <2>5. \A j \in Used : socket[clients[j]] = c <=> j = i
    BY UsedOwns, NULLAssumption DEF LegacyInv, KernelInv, OpenIsOwned
  <2>6. Holders' = Holders \ {c}
    BY <2>3, <2>4, <2>5 DEF Holders
  <2> HIDE DEF c
  <2>7. Standing(c) = "served"
    BY <2>2, StandingIs DEF StandingFits
  <2>8. \A d \in Conn : Standing(d)' = IF d = c THEN "gone" ELSE Standing(d)
    BY <2>1, <2>2, <2>6, StandingIs, StandingIsNext DEF StandingFits, c
  <2>9. c \in Leaving /\ Leaving' = Leaving \ {c}
    BY <2>1, <2>2, <2>7, <2>8 DEF Leaving, c
  <2>10. Service!Move(c, "served", "gone")
    BY <2>2, <2>7, <2>8, ServiceMove
  <2> QED
    BY <2>2, <2>9, <2>10 DEF Service!Next, Service!Drop, Leaving
<1> QED
  BY <1>1, <1>2, DropDoes

\* What a client does is what a client of the service does; one without a slot
\* or a place in the backlog does nothing the service sees.
LEMMA VisitorService ==
    ASSUME LegacyInv, LegacyInv', NEW c \in Conn, Client(c), UNCHANGED program
    PROVE  [Service!Next]_(Service!service)
<1>1. UNCHANGED <<clients, socket>>
  BY ClientKernel DEF program, LegacyInv
<1>2. Holders' = Holders
  BY <1>1 DEF Holders, Used, FreeSlots
<1>3. CASE Connect(c)
  <2>1. conn[c] = "new" /\ UNCHANGED ended /\ \A d \in Conn : conn'[d] = IF d = c THEN "queued" ELSE conn[d]
    BY <1>3 DEF Connect, LegacyInv, KernelInv, KernelTypeOK
  <2>2. Standing(c) = "away" /\ ended[c] = "no"
    BY <2>1, StandingIs DEF StandingFits, LegacyInv, KernelInv, EndedExists
  <2>3. \A d \in Conn : Standing(d)' = IF d = c THEN "waiting" ELSE Standing(d)
    BY <1>2, <2>1, StandingIs, StandingIsNext DEF StandingFits
  <2>4. Leaving' = Leaving
    BY <2>1, <2>2, <2>3 DEF Leaving
  <2>5. Service!Move(c, "away", "waiting")
    BY <2>2, <2>3, ServiceMove
  <2> QED
    BY <2>4, <2>5 DEF Service!Next, Service!Arrive, Leaving
<1>4. CASE Send(c)
  BY <1>1, <1>4, QuietService DEF Send
<1>5. CASE HangUp(c)
  <2>1. /\ UNCHANGED conn
        /\ \A d \in Conn : ended'[d] # "no" <=> d = c \/ ended[d] # "no"
    BY <1>5 DEF HangUp, Here, LegacyInv, KernelInv, KernelTypeOK
  <2>2. \A d \in Conn : Standing(d)' = Standing(d)
    BY <1>1, <2>1 DEF Standing, Served, FreeSlots
  <2>3. CASE Standing(c) \in {"waiting", "served"}
    <3>1. Leaving' = Leaving \union {c}
      BY <2>1, <2>2, <2>3 DEF Leaving
    <3> QED
      BY <2>2, <2>3, <3>1 DEF Service!Next, Service!HangUp, Leaving
  <2>4. CASE Standing(c) \notin {"waiting", "served"}
    <3>1. Leaving' = Leaving
      BY <2>1, <2>2, <2>4 DEF Leaving
    <3> QED
      BY <2>2, <3>1 DEF Service!service, Leaving
  <2> QED
    BY <2>3, <2>4
<1> QED
  BY <1>3, <1>4, <1>5 DEF Client

LEMMA NextService == LegacyInv /\ LegacyInv' /\ [Next]_vars => [Service!Next]_(Service!service)
<1> SUFFICES ASSUME LegacyInv, LegacyInv', [Next]_vars
             PROVE  [Service!Next]_(Service!service)
  OBVIOUS
<1>1. CASE \/ Select \/ ReceiveFails \/ AcceptFails \/ NothingToAccept \/ PassOver
          \/ UNCHANGED vars
  <2>1. UNCHANGED <<world, clients>>
    BY <1>1 DEF Select, ReceiveFails, AcceptFails, NothingToAccept, PassOver, vars, program
  <2> QED
    BY <2>1, QuietService DEF world, kernel
<1>2. CASE ReadCommand
  BY <1>2, QuietService DEF ReadCommand, Receive
<1>3. CASE IgnoreError
  <2>1. PICK i \in Slot : /\ AtSlot(i) /\ unread[socket[clients[i]]] = 0
                          /\ ended' = [ended EXCEPT ![socket[clients[i]]] = "closed"]
    BY <1>3, Zenon DEF IgnoreError
  <2>2. UNCHANGED <<socket, conn, clients>>
    BY <1>3 DEF IgnoreError
  <2>3. \A d \in Conn : ended'[d] = "no" <=> ended[d] = "no"
    BY <2>1, AtUsed, UsedOwns DEF LegacyInv, KernelInv, KernelTypeOK
  <2> QED
    BY <2>2, <2>3, QuietService
<1>4. CASE Answer
  BY <1>4, AnswerDoes, QuietService
<1>5. CASE Accept \/ DropClient
  BY <1>5, AcceptService, DropService DEF Service!Next
<1>6. CASE Clients /\ UNCHANGED program
  <2>1. PICK c \in Conn : (Client(c) /\ UNCHANGED full) \/ TakeAnswers(c)
    BY <1>6 DEF Clients
  <2>2. CASE Client(c)
    BY <1>6, <2>2, VisitorService
  <2>3. CASE TakeAnswers(c)
    BY <1>6, <2>3, TakeDoes, QuietService DEF program
  <2> QED
    BY <2>1, <2>2, <2>3
<1> QED
  BY <1>1, <1>2, <1>3, <1>4, <1>5, <1>6 DEF Next, Server

\* Each of the four loops implements ClientService: a client is admitted while
\* there is a slot, turned away only when there is none (though its connection
\* stays open), and dropped only after it hung up.
THEOREM LegacyImplemented == Spec => ImplementsService
<1>1. Init => Service!Init
  <2> SUFFICES ASSUME Init
               PROVE  Service!Init
    OBVIOUS
  <2>1. \A c \in Conn : conn[c] = "new"
    BY DEF Init, KernelInit
  <2>2. \A c \in Conn : Standing(c) = "away"
    BY <2>1, InitLegacy, StandingIs DEF StandingFits
  <2> QED
    BY <2>2 DEF Service!Init
<1> QED
  BY <1>1, NextService, LegacyCorrect, PTL DEF Spec, ImplementsService, Service!Spec
=============================================================================
