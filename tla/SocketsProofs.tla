--------------------------- MODULE SocketsProofs ---------------------------
(***************************************************************************)
(* What the kernel keeps true of sockets and connections whatever the      *)
(* clients and an event loop do: lemmas for the proofs of NetLoop and      *)
(* LegacyLoop.                                                             *)
(***************************************************************************)
EXTENDS Sockets, TLAPS

\* A connection waits in one place of the backlog.
WaitsOnce ==
    /\ \A i, j \in 1 .. Len(backlog) : backlog[i] = backlog[j] => i = j
    /\ \A i \in 1 .. Len(backlog) : conn[backlog[i]] = "queued"

\* The open connections and the open descriptors correspond.
OpenIsOwned ==
    /\ \A f \in Fd : socket[f] # NULL => conn[socket[f]] = "open"
    /\ \A f, g \in Fd : socket[f] # NULL /\ socket[f] = socket[g] => f = g
    /\ \A c \in Conn : conn[c] = "open" => \E f \in Fd : socket[f] = c

\* Only a connection that exists can have been ended.
EndedExists == \A c \in Conn : conn[c] \in {"new", "closed"} => ended[c] = "no"

KernelInv == KernelTypeOK /\ WaitsOnce /\ OpenIsOwned /\ EndedExists

\* No connection at the start.
LEMMA KernelStarts == KernelInit => KernelInv
BY NULLAssumption, BacklogAssumption
   DEF KernelInit, KernelInv, KernelTypeOK, WaitsOnce, OpenIsOwned, EndedExists

\* A client connects, sends or hangs up.
LEMMA ClientKernel ==
    ASSUME KernelInv, NEW c \in Conn, Client(c)
    PROVE  KernelInv' /\ UNCHANGED socket
<1> USE DEF KernelInv
<1>1. CASE Connect(c)
  <2>1. /\ backlog' \in Seq(Conn) /\ Len(backlog') = Len(backlog) + 1
        /\ \A i \in 1 .. Len(backlog) + 1 :
             backlog'[i] = IF i <= Len(backlog) THEN backlog[i] ELSE c
    BY <1>1 DEF Connect, KernelTypeOK
  <2>2. Len(backlog) \in Nat /\ Len(backlog') <= Backlog
    BY <1>1, <2>1, BacklogAssumption DEF Connect, KernelTypeOK
  <2>3. \A i \in 1 .. Len(backlog) : backlog[i] # c
    BY <1>1 DEF Connect, WaitsOnce
  <2>4. \A d \in Conn : conn'[d] = IF d = c THEN "queued" ELSE conn[d]
    BY <1>1 DEF Connect, KernelTypeOK
  <2>5. conn[c] = "new" /\ UNCHANGED <<socket, ended, unread>>
    BY <1>1 DEF Connect
  <2>6. KernelTypeOK'
    BY <1>1, <2>1, <2>2, <2>5 DEF Connect, KernelTypeOK
  <2>7. WaitsOnce'
    <3>1. \A i, j \in 1 .. Len(backlog') : backlog'[i] = backlog'[j] => i = j
      BY <2>1, <2>2, <2>3 DEF WaitsOnce
    <3>2. \A i \in 1 .. Len(backlog) : backlog[i] \in Conn
      BY DEF KernelTypeOK
    <3>3. \A i \in 1 .. Len(backlog') : conn'[backlog'[i]] = "queued"
      BY <2>1, <2>2, <2>3, <2>4, <3>2 DEF WaitsOnce
    <3> QED
      BY <3>1, <3>3 DEF WaitsOnce
  <2>8. OpenIsOwned' /\ EndedExists'
    BY <2>4, <2>5, NULLAssumption DEF OpenIsOwned, EndedExists, KernelTypeOK
  <2> QED
    BY <2>5, <2>6, <2>7, <2>8
<1>2. CASE Send(c)
  BY <1>2, BacklogAssumption DEF Send, KernelTypeOK, WaitsOnce, OpenIsOwned, EndedExists
<1>3. CASE HangUp(c)
  <2>1. UNCHANGED <<socket, backlog, conn>>
    BY <1>3 DEF HangUp
  <2>2. /\ ended' \in [Conn -> {"no", "closed", "reset", "broken"}]
        /\ unread' \in [Conn -> 0 .. MaxUnread]
    <3>1. CASE ended' = [ended EXCEPT ![c] = "closed"] /\ UNCHANGED unread
      BY <3>1 DEF KernelTypeOK
    <3>2. CASE ended' = [ended EXCEPT ![c] = "reset"] /\ unread' = [unread EXCEPT ![c] = 0]
      BY <3>2, BacklogAssumption DEF KernelTypeOK
    <3> QED
      BY <1>3, <3>1, <3>2 DEF HangUp
  <2>3. EndedExists'
    BY <1>3 DEF HangUp, Here, KernelTypeOK, EndedExists
  <2> QED
    BY <2>1, <2>2, <2>3 DEF KernelTypeOK, WaitsOnce, OpenIsOwned
<1> QED
  BY <1>1, <1>2, <1>3 DEF Client

\* accept: the connection that waited first has the lowest free descriptor.
LEMMA TakeKernel ==
    ASSUME KernelInv, backlog # <<>>, NEW f \in Fd, Take(f)
    PROVE  /\ KernelInv'
           /\ socket[f] = NULL /\ conn[Head(backlog)] = "queued" /\ Head(backlog) \in Conn
           /\ \A g \in Fd : socket'[g] = IF g = f THEN Head(backlog) ELSE socket[g]
           /\ \A d \in Conn : conn'[d] = IF d = Head(backlog) THEN "open" ELSE conn[d]
           /\ UNCHANGED <<ended, unread>>
<1> USE DEF KernelInv
<1> DEFINE c == Head(backlog)
<1>1. c = backlog[1] /\ Len(backlog) \in Nat \ {0} /\ c \in Conn
  BY DEF KernelTypeOK
<1>2. /\ backlog' \in Seq(Conn) /\ Len(backlog') = Len(backlog) - 1
      /\ \A i \in 1 .. Len(backlog) - 1 : backlog'[i] = backlog[i + 1]
  BY DEF Take, KernelTypeOK
<1>3. socket[f] = NULL /\ conn[c] = "queued"
  BY <1>1 DEF Take, FreeFds, WaitsOnce
<1>4. /\ \A g \in Fd : socket'[g] = IF g = f THEN c ELSE socket[g]
      /\ \A d \in Conn : conn'[d] = IF d = c THEN "open" ELSE conn[d]
      /\ UNCHANGED <<ended, unread>>
  BY DEF Take, KernelTypeOK
<1>5. KernelTypeOK'
  BY <1>1, <1>2, BacklogAssumption DEF Take, KernelTypeOK
<1> HIDE DEF c
<1>6. WaitsOnce'
  <2>1. \A i \in 1 .. Len(backlog) - 1 : i + 1 \in 1 .. Len(backlog) /\ backlog'[i] # c
    BY <1>1, <1>2 DEF WaitsOnce
  <2>2. \A i \in 1 .. Len(backlog') : conn[backlog'[i]] = "queued" /\ backlog'[i] \in Conn
    <3>1. \A i \in 1 .. Len(backlog') : backlog'[i] \in Conn
      BY <1>2
    <3> QED
      BY <1>1, <1>2, <2>1, <3>1 DEF WaitsOnce
  <2>3. \A i, j \in 1 .. Len(backlog') : backlog'[i] = backlog'[j] => i = j
    BY <1>1, <1>2, <2>1 DEF WaitsOnce
  <2>4. \A i \in 1 .. Len(backlog') : conn'[backlog'[i]] = "queued"
    BY <1>1, <1>2, <1>4, <2>1, <2>2
  <2> QED
    BY <2>3, <2>4 DEF WaitsOnce
<1>7. OpenIsOwned'
  <2>1. \A g \in Fd : socket[g] # c
    BY <1>1, <1>3, NULLAssumption DEF OpenIsOwned
  <2>2. \A g \in Fd : socket'[g] # NULL => conn'[socket'[g]] = "open"
    BY <1>1, <1>4, <2>1 DEF OpenIsOwned, KernelTypeOK
  <2>3. \A g, h \in Fd : socket'[g] # NULL /\ socket'[g] = socket'[h] => g = h
    BY <1>4, <2>1 DEF OpenIsOwned
  <2>4. ASSUME NEW d \in Conn, conn'[d] = "open"
        PROVE  \E g \in Fd : socket'[g] = d
    <3>1. CASE d = c
      BY <1>4, <3>1
    <3>2. CASE d # c
      <4>1. PICK g \in Fd : socket[g] = d
        BY <1>4, <2>4, <3>2 DEF OpenIsOwned
      <4>2. g # f
        BY <1>3, <4>1, NULLAssumption
      <4> QED
        BY <1>4, <4>1, <4>2
    <3> QED
      BY <3>1, <3>2
  <2> QED
    BY <2>2, <2>3, <2>4 DEF OpenIsOwned
<1>8. EndedExists'
  BY <1>1, <1>4 DEF EndedExists
<1> QED
  BY <1>1, <1>3, <1>4, <1>5, <1>6, <1>7, <1>8 DEF c

\* recv
LEMMA ReceiveKernel ==
    ASSUME KernelInv, NEW c \in Conn, Receive(c)
    PROVE  KernelInv'
BY BacklogAssumption
   DEF Receive, KernelInv, KernelTypeOK, WaitsOnce, OpenIsOwned, EndedExists

\* send
LEMMA TransmitKernel ==
    ASSUME KernelInv, NEW c \in Conn, conn[c] = "open", Transmit(c)
    PROVE  /\ KernelInv' /\ UNCHANGED <<socket, backlog, conn, unread>>
           /\ \A d \in Conn : ended'[d] = "no" <=> ended[d] = "no"
<1> USE DEF KernelInv
<1>1. PICK e \in {"closed", "broken", ended[c]} :
          ended' = [ended EXCEPT ![c] = e] /\ (e = "no" <=> ended[c] = "no")
  BY DEF Transmit
<1>2. UNCHANGED <<socket, backlog, conn, unread>>
  BY DEF Transmit
<1>3. e \in {"no", "closed", "reset", "broken"}
  BY DEF KernelTypeOK
<1>4. \A d \in Conn : ended'[d] = IF d = c THEN e ELSE ended[d]
  BY <1>1 DEF KernelTypeOK
<1>5. KernelTypeOK'
  BY <1>1, <1>2, <1>3 DEF KernelTypeOK
<1> QED
  BY <1>1, <1>2, <1>4, <1>5 DEF WaitsOnce, OpenIsOwned, EndedExists

\* close of one descriptor.
LEMMA CloseKernel ==
    ASSUME KernelInv, NEW f \in Fd, socket[f] # NULL, Close({f})
    PROVE  /\ KernelInv'
           /\ \A g \in Fd : socket'[g] = IF g = f THEN NULL ELSE socket[g]
           /\ \A d \in Conn : conn'[d] = IF d = socket[f] THEN "closed" ELSE conn[d]
           /\ \A d \in Conn : ended'[d] = IF d = socket[f] THEN "no" ELSE ended[d]
           /\ \A d \in Conn : unread'[d] = IF d = socket[f] THEN 0 ELSE unread[d]
           /\ UNCHANGED backlog
<1> USE DEF KernelInv
<1>1. /\ \A g \in Fd : socket'[g] = IF g = f THEN NULL ELSE socket[g]
      /\ \A d \in Conn : conn'[d] = IF d = socket[f] THEN "closed" ELSE conn[d]
      /\ \A d \in Conn : ended'[d] = IF d = socket[f] THEN "no" ELSE ended[d]
      /\ \A d \in Conn : unread'[d] = IF d = socket[f] THEN 0 ELSE unread[d]
      /\ UNCHANGED backlog
  BY DEF Close
<1>2. KernelTypeOK'
  BY BacklogAssumption DEF Close, KernelTypeOK
<1>3. WaitsOnce'
  <2>1. \A i \in 1 .. Len(backlog) : backlog[i] # socket[f] /\ backlog[i] \in Conn
    BY DEF WaitsOnce, OpenIsOwned, KernelTypeOK
  <2> QED
    BY <1>1, <2>1 DEF WaitsOnce
<1>4. OpenIsOwned'
  <2>1. \A g \in Fd : socket'[g] # NULL => conn'[socket'[g]] = "open"
    BY <1>1 DEF OpenIsOwned, KernelTypeOK
  <2>2. \A g, h \in Fd : socket'[g] # NULL /\ socket'[g] = socket'[h] => g = h
    BY <1>1 DEF OpenIsOwned
  <2>3. ASSUME NEW d \in Conn, conn'[d] = "open"
        PROVE  \E g \in Fd : socket'[g] = d
    <3>1. d # socket[f] /\ conn[d] = "open"
      BY <1>1, <2>3
    <3>2. PICK g \in Fd : socket[g] = d
      BY <3>1 DEF OpenIsOwned
    <3> QED
      BY <1>1, <3>1, <3>2
  <2> QED
    BY <2>1, <2>2, <2>3 DEF OpenIsOwned
<1>5. EndedExists'
  BY <1>1 DEF EndedExists
<1> QED
  BY <1>1, <1>2, <1>3, <1>4, <1>5
=============================================================================
