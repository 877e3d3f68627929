------------------------------ MODULE Sockets ------------------------------
(***************************************************************************)
(* The kernel's side of an event loop, as the loops of this repository use *)
(* it: a connection waits in the backlog until accept gives it a           *)
(* descriptor; recv gives what has arrived, or 0 or an error once the      *)
(* client has ended the connection; close gives the descriptor back.       *)
(* A command is what one send of a client carries; which one is left out.  *)
(***************************************************************************)
EXTENDS Naturals, Sequences, FiniteSets

CONSTANTS Conn,         \* the connections clients may make
          Fd,           \* the descriptors the process can open, numbers
          NULL,         \* no connection, no descriptor
          Listener,     \* the descriptor of the server endpoint
          Backlog,      \* the connections the kernel queues
          MaxUnread     \* bound: the commands a client has unread

ASSUME FdAssumption == Fd \subseteq Nat /\ Listener \notin Fd
ASSUME NULLAssumption == NULL \notin Conn \union Fd \union {Listener}
ASSUME BacklogAssumption == Backlog \in Nat \ {0} /\ MaxUnread \in Nat \ {0}

VARIABLES socket,       \* the connection of each descriptor
          backlog,      \* the connections not accepted yet
          conn,         \* the state of each connection
          ended,        \* how the client ended it, as far as this end knows
          unread        \* the number of commands sent and not received

kernel == <<socket, backlog, conn, ended, unread>>

KernelInit ==
    /\ socket = [f \in Fd |-> NULL]
    /\ backlog = <<>>
    /\ conn = [c \in Conn |-> "new"]
    /\ ended = [c \in Conn |-> "no"]
    /\ unread = [c \in Conn |-> 0]

KernelTypeOK ==
    /\ socket \in [Fd -> Conn \union {NULL}]
    /\ backlog \in Seq(Conn) /\ Len(backlog) <= Backlog
    /\ conn \in [Conn -> {"new", "queued", "open", "closed"}]
    /\ ended \in [Conn -> {"no", "closed", "reset", "broken"}]
    /\ unread \in [Conn -> 0 .. MaxUnread]

-----------------------------------------------------------------------------
\* The clients.

Connect(c) ==
    /\ conn[c] = "new" /\ Len(backlog) < Backlog
    /\ conn' = [conn EXCEPT ![c] = "queued"]
    /\ backlog' = Append(backlog, c)
    /\ UNCHANGED <<socket, ended, unread>>

Here(c) == conn[c] \in {"queued", "open"} /\ ended[c] = "no"

Send(c) ==
    /\ Here(c) /\ unread[c] < MaxUnread
    /\ unread' = [unread EXCEPT ![c] = @ + 1]
    /\ UNCHANGED <<socket, backlog, conn, ended>>

\* A client closes its end, or resets the connection, which takes what is
\* unread with it (when it does not, only the answer of the last recv tells it
\* from a close).
HangUp(c) ==
    /\ Here(c)
    /\ \/ ended' = [ended EXCEPT ![c] = "closed"] /\ UNCHANGED unread
       \/ ended' = [ended EXCEPT ![c] = "reset"] /\ unread' = [unread EXCEPT ![c] = 0]
    /\ UNCHANGED <<socket, backlog, conn>>

Client(c) == Connect(c) \/ Send(c) \/ HangUp(c)

-----------------------------------------------------------------------------
\* The calls of the program.

\* A read of f would not block.
Ready(f) == IF f = Listener THEN backlog # <<>>
            ELSE socket[f] # NULL /\ (unread[socket[f]] > 0 \/ ended[socket[f]] # "no")

FreeFds == {f \in Fd : socket[f] = NULL}

\* accept takes the first connection and the lowest free descriptor, f.
Take(f) ==
    /\ f \in FreeFds /\ \A g \in FreeFds : f <= g
    /\ socket' = [socket EXCEPT ![f] = Head(backlog)]
    /\ conn' = [conn EXCEPT ![Head(backlog)] = "open"]
    /\ backlog' = Tail(backlog)
    /\ UNCHANGED <<ended, unread>>

\* recv with a buffer that all the unread commands fit in.
Receive(c) == unread' = [unread EXCEPT ![c] = 0] /\ UNCHANGED <<socket, backlog, conn, ended>>

\* send to c: the end of a client that has closed, not only stopped sending,
\* answers with a reset.
Transmit(c) ==
    /\ \E e \in (IF ended[c] = "closed" THEN {"closed", "broken"} ELSE {ended[c]}) :
         ended' = [ended EXCEPT ![c] = e]
    /\ UNCHANGED <<socket, backlog, conn, unread>>

\* close: the descriptors go back to the kernel, and their connections end.
Close(fs) ==
    LET over == {c \in Conn : \E f \in fs : socket[f] = c} IN
    /\ socket' = [f \in Fd |-> IF f \in fs THEN NULL ELSE socket[f]]
    /\ conn' = [c \in Conn |-> IF c \in over THEN "closed" ELSE conn[c]]
    /\ ended' = [c \in Conn |-> IF c \in over THEN "no" ELSE ended[c]]
    /\ unread' = [c \in Conn |-> IF c \in over THEN 0 ELSE unread[c]]
    /\ UNCHANGED backlog
=============================================================================
