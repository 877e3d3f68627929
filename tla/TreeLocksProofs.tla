-------------------------- MODULE TreeLocksProofs --------------------------
(***************************************************************************)
(* What TreeLocks guarantees for any number of threads and nodes, whatever *)
(* a second lock of tree_lock does: the locks are nested and given back,   *)
(* the calls implement the atomic operations of PhantomTree, and a search  *)
(* or listing is complete as far as its queue suffices.                    *)
(***************************************************************************)
EXTENDS TreeLocks, TLAPS, FiniteSetTheorems, SequenceTheorems

\* The theorems about the atomic operations, of the tree last complete.
TP == INSTANCE PhantomTreeProofs WITH
    live <- committed.live, parent <- committed.parent, children <- committed.children,
    isRoot <- committed.isRoot, isAdmin <- committed.isAdmin,
    root <- committed.root, totalNodes <- committed.totalNodes

-----------------------------------------------------------------------------
\* The invariant.

TreeRecord ==
    [live : SUBSET Node, root : Pointer, totalNodes : Nat,
     parent : [Node -> Pointer], children : [Node -> Seq(Node)],
     isRoot : [Node -> BOOLEAN], isAdmin : [Node -> BOOLEAN]]

\* A place of dfs in the tree: a node and the child to visit next.
Place == [node : Node, next : Nat]

Return == {"idle", "messageTo", "insertParent", "deleteHold"}

Frame ==
    [op : {"none", "insert", "delete", "find", "message", "bfs", "dfs"},
     id : Pointer \union {Unknown}, to : Pointer, ret : Return,
     found : Pointer, first : Pointer, queue : Seq(Node),
     stack : Seq(Place), visited : Seq(Node), kid : Nat]

\* The places inside the region of tree_lock, and those outside.
Body == {"insertTest", "insertParent", "insertLink", "deleteSeek", "deleteHold",
         "deleteUnlink", "deleteMove", "findScan", "bfsScan", "dfsScan", "hung"}

Outside == {"idle", "insert", "delete", "find", "bfs", "dfs", "message", "messageTo"}

LockTypes ==
    /\ tree \in TreeRecord /\ committed \in TreeRecord
    /\ created \subseteq Node /\ committed.live \subseteq created
    /\ treeLock \in [owner : Thread \union {NULL}, depth : Nat]
    /\ nodeLock \in [Node -> Thread \union {NULL}]
    /\ pc \in [Thread -> Body \union Outside]
    /\ frame \in [Thread -> Frame]
    /\ calls \in 0 .. MaxCalls

\* The find of thread t is called by its insert or delete.
Nested(t) == frame[t].ret \in {"insertParent", "deleteHold"}

Inside(t) == pc[t] \in Body \/ (pc[t] = "find" /\ Nested(t))

Depth(t) == IF pc[t] = "findScan" /\ Nested(t) THEN 2 ELSE 1

\* tree_lock is owned by the thread inside its region.
OwnerInside ==
    /\ \A t \in Thread : Inside(t) <=> treeLock.owner = t
    /\ treeLock.depth = IF treeLock.owner = NULL THEN 0 ELSE Depth(treeLock.owner)

StackNodes(s) == {s[i].node : i \in DOMAIN s}

\* The nodes whose lock thread t holds.
Held(t) ==
    IF pc[t] \in {"insertLink", "deleteUnlink", "deleteMove"} THEN {frame[t].found}
    ELSE IF pc[t] = "dfsScan" THEN StackNodes(frame[t].stack)
    ELSE {}

NodesHeld == \A t \in Thread, n \in Node : nodeLock[n] = t <=> n \in Held(t)

\* The tree while d is deleted: d is out of its parent's array and the first
\* k - 1 of its children have moved.
Moved(d, k) == {committed.children[d][i] : i \in 1 .. k - 1}

HalfDeleted(d, k) ==
    LET p == committed.parent[d] IN
    [committed EXCEPT
        !.root = IF p = NULL THEN NULL ELSE @,
        !.parent = [n \in Node |-> IF n \in Moved(d, k) THEN p ELSE committed.parent[n]],
        !.isAdmin = [n \in Node |-> IF n \in Moved(d, k) THEN committed.isAdmin[d]
                                    ELSE committed.isAdmin[n]],
        !.children = [n \in Node |-> IF n = p
                                     THEN API!Unlink(committed.children[p], d)
                                            \o SubSeq(committed.children[d], 1, k - 1)
                                     ELSE committed.children[n]]]

\* The tree is complete but for a deletion in its loop.
TreeAgrees ==
    /\ (\A t \in Thread : pc[t] # "deleteMove") => tree = committed
    /\ \A t \in Thread : pc[t] = "deleteMove" => tree = HalfDeleted(frame[t].found, frame[t].kid)

\* A traversal has seen the nodes V and has the queue q to go: what it met it
\* met through its parent, once, and the children of V if the queue has room.
Scanned(V, q) ==
    /\ V \subseteq committed.live /\ Range(q) \subseteq committed.live
    /\ API!NoRepeat(q) /\ V \intersect Range(q) = {} /\ Len(q) <= QueueSize
    /\ committed.root # NULL => committed.root \in V \union Range(q)
    /\ \A m \in V \union Range(q) : m = committed.root \/ committed.parent[m] \in V
    /\ Cardinality(committed.live) <= QueueSize + 1 =>
         \A v \in V : Range(committed.children[v]) \subseteq V \union Range(q)

\* Of the children of the node of place e exactly those before e.next are in s.
UpTo(s, e) ==
    LET kids == committed.children[e.node] IN
    /\ e.next \in 1 .. Len(kids) + 1
    /\ \A j \in DOMAIN kids : j < e.next <=> kids[j] \in Range(s)

\* dfs has visited s; it is below the nodes of stack.
Descended(s, stack) ==
    /\ API!NoRepeat(s) /\ Range(s) \subseteq committed.live
    /\ IF s = <<>> THEN stack = <<>> ELSE committed.root \in Range(s)
    /\ StackNodes(stack) \subseteq Range(s)
    /\ \A i, j \in DOMAIN stack : stack[i].node = stack[j].node => i = j
    /\ \A i \in DOMAIN stack : UpTo(s, stack[i])
    /\ \A v \in Range(s) \ StackNodes(stack) : Range(committed.children[v]) \subseteq Range(s)
    /\ \A v \in Range(s) : v = committed.root \/ committed.parent[v] \in Range(s)

\* What thread t knows of the tree at each place.
Knows(t) ==
    LET f == frame[t] IN
    /\ Len(f.queue) <= QueueSize
    /\ pc[t] \in {"bfs", "dfs"} => f.visited = <<>> /\ f.stack = <<>>
    /\ pc[t] \in {"insertParent", "deleteHold"} => f.found \in committed.live \union {NULL}
    /\ pc[t] \in {"insertLink", "deleteUnlink", "deleteMove"} => f.found \in committed.live
    /\ pc[t] \in {"deleteUnlink", "deleteMove"} => ~API!RootPinned(f.found)
    /\ pc[t] = "deleteMove" => ~API!Overrun /\ f.kid \in 1 .. Len(committed.children[f.found]) + 1
    /\ pc[t] = "findScan" => \E V \in SUBSET committed.live : Scanned(V, f.queue) /\ f.id \notin V
    /\ pc[t] = "bfsScan" => API!NoRepeat(f.visited) /\ Scanned(Range(f.visited), f.queue)
    /\ pc[t] = "dfsScan" => Descended(f.visited, f.stack)

LocksInv ==
    /\ LockTypes
    /\ OwnerInside
    /\ NodesHeld
    /\ TreeAgrees
    /\ TP!TreeInv
    /\ \A t \in Thread : Knows(t)

-----------------------------------------------------------------------------
\* Steps in general.

\* A step of thread t leaves the other threads where they are.
OthersStay(t) == \A u \in Thread \ {t} : pc'[u] = pc[u] /\ frame'[u] = frame[u]

LEMMA GotoDoes ==
    ASSUME LockTypes, NEW t \in Thread, NEW label \in Body \union Outside, Goto(t, label)
    PROVE  /\ pc' \in [Thread -> Body \union Outside] /\ pc'[t] = label
           /\ \A u \in Thread \ {t} : pc'[u] = pc[u]
BY DEF LockTypes, Goto

LEMMA SetDoes ==
    ASSUME LockTypes, NEW t \in Thread, NEW f \in Frame, frame' = [frame EXCEPT ![t] = f]
    PROVE  /\ frame' \in [Thread -> Frame] /\ frame'[t] = f
           /\ \A u \in Thread \ {t} : frame'[u] = frame[u]
BY DEF LockTypes

LEMMA Outsiders ==
    ASSUME LocksInv, NEW t \in Thread, treeLock.owner \in {t, NULL}
    PROVE  \A u \in Thread \ {t} : ~Inside(u)
BY DistinctAssumption DEF LocksInv, OwnerInside

\* The three things a step may do to tree_lock.
LEMMA OwnerStays ==
    ASSUME LocksInv, NEW t \in Thread, OthersStay(t), treeLock' = treeLock,
           Inside(t)' <=> Inside(t), Inside(t) => Depth(t)' = Depth(t)
    PROVE  OwnerInside'
<1>1. \A u \in Thread : Inside(u)' <=> Inside(u)
  BY DEF OthersStay, Inside, Nested
<1>2. \A u \in Thread : Inside(u) => Depth(u)' = Depth(u)
  BY DEF OthersStay, Depth, Nested
<1>3. treeLock.owner # NULL => treeLock.owner \in Thread
  BY DEF LocksInv, LockTypes
<1> QED
  BY <1>1, <1>2, <1>3 DEF LocksInv, OwnerInside

LEMMA OwnerEnters ==
    ASSUME LocksInv, NEW t \in Thread, OthersStay(t), treeLock.owner \in {t, NULL},
           treeLock' = [owner |-> t, depth |-> Depth(t)'], Inside(t)'
    PROVE  OwnerInside' /\ treeLock' \in [owner : Thread \union {NULL}, depth : Nat]
<1>1. \A u \in Thread \ {t} : ~Inside(u)'
  BY Outsiders DEF OthersStay, Inside, Nested
<1>2. treeLock'.owner = t /\ treeLock'.depth = Depth(t)' /\ t # NULL
  BY DistinctAssumption
<1>3. Depth(t)' \in Nat
  BY DEF Depth
<1> QED
  BY <1>1, <1>2, <1>3 DEF OwnerInside

LEMMA OwnerLeaves ==
    ASSUME LocksInv, NEW t \in Thread, OthersStay(t), treeLock.owner = t,
           treeLock' = [owner |-> NULL, depth |-> 0], ~Inside(t)'
    PROVE  OwnerInside' /\ treeLock' \in [owner : Thread \union {NULL}, depth : Nat]
<1>1. \A u \in Thread \ {t} : ~Inside(u)'
  BY Outsiders DEF OthersStay, Inside, Nested
<1>2. treeLock'.owner = NULL /\ treeLock'.depth = 0
  OBVIOUS
<1> QED
  BY <1>1, <1>2, DistinctAssumption DEF OwnerInside

\* pthread_mutex_lock: a thread outside enters, one inside comes to its end or
\* counts.
LEMMA LockTreeDoes ==
    ASSUME LocksInv, NEW t \in Thread, NEW label, LockTree(t, label)
    PROVE  \/ /\ ~Inside(t) /\ treeLock.owner = NULL
              /\ treeLock' = [owner |-> t, depth |-> 1] /\ Goto(t, label)
           \/ /\ Inside(t) /\ treeLock.owner = t
              /\ treeLock' = treeLock /\ Goto(t, "hung")
           \/ /\ Inside(t) /\ treeLock.owner = t
              /\ treeLock' = [owner |-> t, depth |-> Depth(t) + 1] /\ Goto(t, label)
<1>1. PICK outcome \in Relock :
         LET blocked == treeLock.owner = t /\ outcome = "block" IN
         /\ treeLock.owner \in {NULL, t}
         /\ treeLock' = IF blocked THEN treeLock ELSE [owner |-> t, depth |-> treeLock.depth + 1]
         /\ Goto(t, IF blocked THEN "hung" ELSE label)
  BY DEF LockTree
<1>2. /\ Inside(t) <=> treeLock.owner = t
      /\ treeLock.owner = NULL => treeLock.depth = 0
      /\ treeLock.owner = t => treeLock.depth = Depth(t)
      /\ t # NULL
  BY DistinctAssumption DEF LocksInv, OwnerInside
<1>3. CASE treeLock.owner = NULL
  BY <1>1, <1>2, <1>3
<1>4. CASE treeLock.owner = t /\ outcome = "block"
  BY <1>1, <1>2, <1>4
<1>5. CASE treeLock.owner = t /\ outcome # "block"
  BY <1>1, <1>2, <1>5
<1> QED
  BY <1>1, <1>3, <1>4, <1>5

\* pthread_mutex_unlock by the owner.
LEMMA UnlockTreeDoes ==
    ASSUME LocksInv, NEW t \in Thread, Inside(t), UnlockTree
    PROVE  /\ treeLock.owner = t
           /\ Depth(t) = 1 => treeLock' = [owner |-> NULL, depth |-> 0]
           /\ Depth(t) = 2 => treeLock' = [owner |-> t, depth |-> 1]
<1>1. treeLock.owner = t /\ treeLock.depth = Depth(t)
  BY DistinctAssumption DEF LocksInv, OwnerInside
<1>2. treeLock \in [owner : Thread \union {NULL}, depth : Nat]
  BY DEF LocksInv, LockTypes
<1>3. CASE Depth(t) = 1
  BY <1>1, <1>3 DEF UnlockTree
<1>4. CASE Depth(t) = 2
  BY <1>1, <1>2, <1>4 DEF UnlockTree
<1> QED
  BY <1>1, <1>3, <1>4

\* The three things a step may do to the locks of nodes.
LEMMA HeldNodes ==
    ASSUME LocksInv, NEW t \in Thread, OthersStay(t)
    PROVE  /\ \A u \in Thread \ {t} : Held(u)' = Held(u)
           /\ \A u \in Thread, n \in Node : nodeLock[n] = u <=> n \in Held(u)
BY DEF OthersStay, Held, LocksInv, NodesHeld

LEMMA NodesStay ==
    ASSUME LocksInv, NEW t \in Thread, OthersStay(t), nodeLock' = nodeLock, Held(t)' = Held(t)
    PROVE  NodesHeld' /\ nodeLock' \in [Node -> Thread \union {NULL}]
<1>1. nodeLock' \in [Node -> Thread \union {NULL}]
  BY DEF LocksInv, LockTypes
<1> QED
  BY <1>1, HeldNodes DEF NodesHeld

LEMMA NodeTaken ==
    ASSUME LocksInv, NEW t \in Thread, OthersStay(t), NEW n \in Node, NodeFree(n), Hold(n, t),
           Held(t)' = Held(t) \union {n}
    PROVE  NodesHeld' /\ nodeLock' \in [Node -> Thread \union {NULL}]
<1>1. nodeLock \in [Node -> Thread \union {NULL}]
  BY DEF LocksInv, LockTypes
<1>2. \A m \in Node : nodeLock'[m] = IF m = n THEN t ELSE nodeLock[m]
  BY <1>1 DEF Hold
<1>3. \A u \in Thread : n \notin Held(u)
  BY HeldNodes, DistinctAssumption DEF NodeFree
<1>4. \A u \in Thread, m \in Node : nodeLock'[m] = u <=> m \in Held(u)'
  BY <1>2, <1>3, HeldNodes
<1> QED
  BY <1>1, <1>4 DEF NodesHeld, Hold

LEMMA NodeGiven ==
    ASSUME LocksInv, NEW t \in Thread, OthersStay(t), NEW n \in Held(t), n \in Node, Release(n),
           Held(t)' = Held(t) \ {n}
    PROVE  NodesHeld' /\ nodeLock' \in [Node -> Thread \union {NULL}]
<1>1. nodeLock \in [Node -> Thread \union {NULL}]
  BY DEF LocksInv, LockTypes
<1>2. \A m \in Node : nodeLock'[m] = IF m = n THEN NULL ELSE nodeLock[m]
  BY <1>1 DEF Release
<1>3. \A u \in Thread \ {t} : n \notin Held(u)
  BY HeldNodes
<1>4. \A u \in Thread, m \in Node : nodeLock'[m] = u <=> m \in Held(u)'
  BY <1>2, <1>3, HeldNodes, DistinctAssumption
<1> QED
  BY <1>1, <1>4 DEF NodesHeld, Release

\* Knowledge of the other threads.
LEMMA OthersKnow ==
    ASSUME LocksInv, NEW t \in Thread, OthersStay(t), UNCHANGED committed \/ Inside(t)
    PROVE  \A u \in Thread \ {t} : Knows(u)'
<1> SUFFICES ASSUME NEW u \in Thread \ {t}
             PROVE  Knows(u)'
  OBVIOUS
<1>1. Knows(u) /\ pc'[u] = pc[u] /\ frame'[u] = frame[u]
  BY DEF LocksInv, OthersStay
<1>2. CASE UNCHANGED committed
  <2>1. /\ \A V, q : Scanned(V, q)' = Scanned(V, q)
        /\ \A s, stack : Descended(s, stack)' = Descended(s, stack)
        /\ \A d : API!RootPinned(d)' = API!RootPinned(d)
        /\ API!Overrun' = API!Overrun
    BY <1>2 DEF Scanned, Descended, UpTo, API!RootPinned, API!Overrun
  <2> QED
    BY <1>1, <1>2, <2>1 DEF Knows
<1>3. CASE Inside(t)
  <2>1. ~Inside(u)
    BY <1>3, Outsiders DEF LocksInv, OwnerInside
  <2> QED
    BY <1>1, <2>1 DEF Knows, Inside, Body
<1> QED
  BY <1>2, <1>3

\* A step that changes no tree.
LEMMA QuietStep ==
    ASSUME LocksInv, NEW t \in Thread, OthersStay(t), UNCHANGED <<tree, created, committed>>,
           pc' \in [Thread -> Body \union Outside], frame' \in [Thread -> Frame],
           calls' \in 0 .. MaxCalls,
           treeLock' \in [owner : Thread \union {NULL}, depth : Nat],
           nodeLock' \in [Node -> Thread \union {NULL}],
           pc[t] # "deleteMove", pc'[t] # "deleteMove",
           OwnerInside', NodesHeld', Knows(t)'
    PROVE  LocksInv'
<1>1. LockTypes'
  BY DEF LocksInv, LockTypes
<1>2. TreeAgrees'
  <2>1. \A u \in Thread : pc'[u] = "deleteMove" <=> pc[u] = "deleteMove"
    BY DEF OthersStay
  <2>2. \A u \in Thread : pc[u] = "deleteMove" => frame'[u] = frame[u]
    BY DEF OthersStay
  <2>3. \A d, k : HalfDeleted(d, k)' = HalfDeleted(d, k)
    BY DEF HalfDeleted, Moved, API!Unlink, API!Slot, API!Range
  <2> QED
    BY <2>1, <2>2, <2>3 DEF LocksInv, TreeAgrees
<1>3. TP!TreeInv'
  BY DEF LocksInv, TP!TreeInv, TP!TypeOK, TP!LinksAgree, TP!FreedIsBlank, TP!ParentsAgree,
         TP!RootAgrees, TP!AllReachable, TP!AdminIsRoot, TP!CountExact
<1>4. \A u \in Thread : Knows(u)'
  BY OthersKnow
<1> QED
  BY <1>1, <1>2, <1>3, <1>4 DEF LocksInv

\* Whoever is inside tree_lock, but for the loop of delete, sees a complete
\* tree, and so does whoever finds tree_lock free.
LEMMA SeesComplete ==
    ASSUME LocksInv, NEW t \in Thread,
           treeLock.owner = NULL \/ (treeLock.owner = t /\ pc[t] # "deleteMove")
    PROVE  tree = committed
<1>1. ASSUME NEW u \in Thread, pc[u] = "deleteMove"
      PROVE  treeLock.owner = u
  BY <1>1 DEF LocksInv, OwnerInside, Inside, Body
<1>2. \A u \in Thread : pc[u] # "deleteMove"
  BY <1>1, DistinctAssumption
<1> QED
  BY <1>2 DEF LocksInv, TreeAgrees

LEMMA Theirs ==
    ASSUME LocksInv, NEW t \in Thread
    PROVE  /\ LockTypes /\ frame[t] \in Frame /\ Knows(t) /\ TP!TreeInv
           /\ Inside(t) <=> treeLock.owner = t
           /\ committed \in TreeRecord /\ tree \in TreeRecord
           /\ calls \in 0 .. MaxCalls
           /\ nodeLock \in [Node -> Thread \union {NULL}]
           /\ treeLock \in [owner : Thread \union {NULL}, depth : Nat]
BY DEF LocksInv, LockTypes, OwnerInside

LEMMA PCs ==
    ASSUME LocksInv, NEW t \in Thread
    PROVE  /\ pc[t] \in Body \union Outside
           /\ pc[t] \in Body => Inside(t)
           /\ pc[t] \in Outside \ {"find"} => ~Inside(t)
BY DEF LocksInv, LockTypes, Inside, Body, Outside

-----------------------------------------------------------------------------
\* The callers.

LEMMA EntryIsFrame ==
    ASSUME LockTypes, NEW t \in Thread, NEW f \in Entries(t)
    PROVE  /\ f \in Frame
           /\ f.op \in {"insert", "delete", "find", "message", "bfs", "dfs"}
           /\ f.ret = "idle" /\ f.queue = <<>> /\ f.stack = <<>> /\ f.visited = <<>>
<1>1. PICK op \in {"insert", "delete", "find", "message", "bfs", "dfs"},
           id \in Pointer \union {Unknown}, to \in Pointer : f = NewFrame(op, id, to)
  BY DEF Entries, LockTypes, Pointer
<1>2. <<>> \in Seq(Node) /\ <<>> \in Seq(Place) /\ 1 \in Nat /\ NULL \in Pointer
  BY DEF Pointer
<1>3. f \in Frame
  BY <1>1, <1>2 DEF NewFrame, Frame, Return
<1> QED
  BY <1>1, <1>3 DEF NewFrame

LEMMA CallKeeps ==
    ASSUME LocksInv, NEW t \in Thread, Call(t)
    PROVE  LocksInv'
<1>1. PICK f \in Entries(t) : frame' = [frame EXCEPT ![t] = f] /\ Goto(t, f.op)
  BY DEF Call
<1>2. pc[t] = "idle" /\ calls < MaxCalls /\ calls' = calls + 1
      /\ UNCHANGED <<tree, created, treeLock, nodeLock, committed>>
  BY DEF Call, At
<1>3. /\ f \in Frame
      /\ f.op \in {"insert", "delete", "find", "message", "bfs", "dfs"}
      /\ f.ret = "idle" /\ f.queue = <<>> /\ f.stack = <<>> /\ f.visited = <<>>
  BY EntryIsFrame DEF LocksInv
<1>4. /\ pc' \in [Thread -> Body \union Outside] /\ pc'[t] = f.op
      /\ frame' \in [Thread -> Frame] /\ frame'[t] = f
      /\ OthersStay(t)
  BY <1>1, <1>3, GotoDoes, SetDoes DEF Outside, OthersStay, LocksInv
<1>5. ~Inside(t) /\ ~Inside(t)'
  BY <1>2, <1>3, <1>4 DEF Inside, Nested, Body
<1>6. Held(t) = {} /\ Held(t)' = {}
  BY <1>2, <1>3, <1>4 DEF Held
<1>7. Knows(t)'
  BY <1>3, <1>4, BoundsAssumption DEF Knows
<1>8. calls' \in 0 .. MaxCalls
  BY <1>2, BoundsAssumption DEF LocksInv, LockTypes
<1> QED
  BY <1>2, <1>3, <1>4, <1>5, <1>6, <1>7, <1>8, Theirs, OwnerStays, NodesStay, QuietStep

-----------------------------------------------------------------------------
\* Taking tree_lock.

\* From outside.
LEMMA EnterKeeps ==
    ASSUME LocksInv, NEW t \in Thread, ~Inside(t), NEW label \in Body, LockTree(t, label),
           label \notin {"hung", "deleteMove", "insertLink", "deleteUnlink"},
           label = "findScan" => ~Nested(t)',
           label = "dfsScan" => frame'[t].stack = <<>>,
           frame' \in [Thread -> Frame], \A u \in Thread \ {t} : frame'[u] = frame[u],
           UNCHANGED <<tree, created, nodeLock, calls, committed>>, Knows(t)'
    PROVE  LocksInv'
<1>1. treeLock.owner = NULL /\ treeLock' = [owner |-> t, depth |-> 1] /\ Goto(t, label)
  BY LockTreeDoes
<1>2. pc' \in [Thread -> Body \union Outside] /\ pc'[t] = label /\ OthersStay(t)
  BY <1>1, GotoDoes, Theirs DEF OthersStay
<1>3. Inside(t)' /\ Depth(t)' = 1
  BY <1>2 DEF Inside, Depth
<1>4. Held(t) = {}
  BY DEF Inside, Held, Body
<1>5. Held(t)' = {}
  BY <1>2 DEF Held, StackNodes
<1>6. OwnerInside' /\ treeLock' \in [owner : Thread \union {NULL}, depth : Nat]
  BY <1>1, <1>2, <1>3, OwnerEnters
<1>7. NodesHeld' /\ nodeLock' \in [Node -> Thread \union {NULL}]
  BY <1>2, <1>4, <1>5, NodesStay
<1>8. pc[t] # "deleteMove"
  BY DEF Inside, Body
<1> QED
  BY <1>2, <1>6, <1>7, <1>8, Theirs, QuietStep

LEMMA InsertOrDeleteLockKeeps ==
    ASSUME LocksInv, NEW t \in Thread, InsertLock(t) \/ DeleteLock(t)
    PROVE  LocksInv'
<1>1. PICK label \in {"insertTest", "deleteSeek"} :
         LockTree(t, label) /\ UNCHANGED <<tree, created, nodeLock, frame, calls, committed>>
  BY DEF InsertLock, DeleteLock
<1>2. pc[t] \in {"insert", "delete"}
  BY DEF InsertLock, DeleteLock, At
<1>3. ~Inside(t)
  BY <1>2, PCs DEF Outside
<1>4. pc'[t] = label
  BY <1>1, <1>3, LockTreeDoes, GotoDoes, Theirs DEF Body
<1>5. Knows(t)'
  BY <1>1, <1>4, Theirs DEF Knows
<1> QED
  BY <1>1, <1>3, <1>5, Theirs, EnterKeeps DEF LockTypes, Body

\* A traversal starts at the root.
LEMMA SeedScanned ==
    ASSUME LocksInv, tree = committed
    PROVE  /\ Seed \in Seq(Node) /\ Scanned({}, Seed)
<1> USE DEF LocksInv, LockTypes
<1>1. committed.root \in Pointer /\ (committed.root # NULL => committed.root \in committed.live)
  BY DEF TreeRecord, TP!TreeInv, TP!LinksAgree, TP!RootAgrees
<1>2. CASE committed.root = NULL
  <2>1. Seed = <<>>
    BY <1>2 DEF Seed
  <2>2. Range(<<>>) = {} /\ API!NoRepeat(<<>>) /\ Len(<<>>) <= QueueSize
    BY BoundsAssumption DEF Range, API!NoRepeat
  <2> QED
    BY <1>2, <2>1, <2>2 DEF Scanned
<1>3. CASE committed.root # NULL
  <2> DEFINE r == committed.root
  <2>1. Seed = <<r>> /\ r \in Node
    BY <1>1, <1>3 DEF Seed, Pointer
  <2>2. Range(<<r>>) = {r} /\ API!NoRepeat(<<r>>) /\ Len(<<r>>) <= QueueSize
    BY BoundsAssumption DEF Range, API!NoRepeat
  <2> QED
    BY <1>1, <1>3, <2>1, <2>2 DEF Scanned
<1> QED
  BY <1>2, <1>3

LEMMA ScannedFits ==
    ASSUME NEW V, NEW q, Scanned(V, q)
    PROVE  Len(q) <= QueueSize
BY DEF Scanned

\* What Set(t, "queue", Seed) does.
LEMMA SeedDoes ==
    ASSUME LocksInv, NEW t \in Thread, Seed \in Seq(Node), Set(t, "queue", Seed)
    PROVE  /\ frame' \in [Thread -> Frame] /\ \A u \in Thread \ {t} : frame'[u] = frame[u]
           /\ frame'[t].queue = Seed /\ frame'[t].ret = frame[t].ret /\ frame'[t].id = frame[t].id
           /\ frame'[t].visited = frame[t].visited
<1>1. frame[t] \in Frame
  BY Theirs
<1> DEFINE f == [frame[t] EXCEPT !.queue = Seed]
<1>2. f \in Frame
  BY <1>1 DEF Frame
<1>3. frame' = [frame EXCEPT ![t] = f]
  BY <1>1 DEF Set, Frame
<1>4. f.queue = Seed /\ f.ret = frame[t].ret /\ f.id = frame[t].id /\ f.visited = frame[t].visited
  BY <1>1 DEF Frame
<1> HIDE DEF f
<1> QED
  BY <1>2, <1>3, <1>4, SetDoes, Theirs

LEMMA BfsLockKeeps ==
    ASSUME LocksInv, NEW t \in Thread, BfsLock(t)
    PROVE  LocksInv'
<1>1. /\ pc[t] = "bfs" /\ LockTree(t, "bfsScan") /\ Set(t, "queue", Seed)
      /\ UNCHANGED <<tree, created, nodeLock, calls, committed>>
  BY DEF BfsLock, At
<1>2. ~Inside(t)
  BY <1>1, PCs DEF Outside
<1>3. treeLock.owner = NULL /\ pc'[t] = "bfsScan"
  BY <1>1, <1>2, LockTreeDoes, GotoDoes, Theirs DEF Body
<1>4. Seed \in Seq(Node) /\ Scanned({}, Seed)
  BY <1>3, SeesComplete, SeedScanned
<1>5. /\ frame' \in [Thread -> Frame] /\ \A u \in Thread \ {t} : frame'[u] = frame[u]
      /\ frame'[t].queue = Seed /\ frame'[t].visited = frame[t].visited
  BY <1>1, <1>4, SeedDoes
<1>6. frame[t].visited = <<>>
  BY <1>1, Theirs DEF Knows
<1>7. API!NoRepeat(<<>>) /\ Range(<<>>) = {}
  BY DEF API!NoRepeat, Range
<1>8. Scanned({}, Seed)'
  BY <1>1, <1>4 DEF Scanned, Seed
<1>9. Seed' = Seed
  BY <1>1 DEF Seed
<1>10. Knows(t)'
  BY <1>3, <1>5, <1>6, <1>7, <1>8, <1>9, ScannedFits, <1>4 DEF Knows
<1> QED
  BY <1>1, <1>2, <1>3, <1>5, <1>10, EnterKeeps DEF Body

LEMMA DfsLockKeeps ==
    ASSUME LocksInv, NEW t \in Thread, DfsLock(t)
    PROVE  LocksInv'
<1>1. /\ pc[t] = "dfs" /\ LockTree(t, "dfsScan")
      /\ UNCHANGED <<tree, created, nodeLock, frame, calls, committed>>
  BY DEF DfsLock, At
<1>2. ~Inside(t)
  BY <1>1, PCs DEF Outside
<1>3. pc'[t] = "dfsScan"
  BY <1>1, <1>2, LockTreeDoes, GotoDoes, Theirs DEF Body
<1>4. frame[t].visited = <<>> /\ frame[t].stack = <<>>
  BY <1>1, Theirs DEF Knows
<1>5. Descended(<<>>, <<>>)'
  BY DEF Descended, StackNodes, Range, API!NoRepeat
<1>6. Knows(t)'
  BY <1>1, <1>3, <1>4, <1>5, Theirs DEF Knows
<1> QED
  BY <1>1, <1>2, <1>4, <1>6, Theirs, EnterKeeps DEF LockTypes, Body

\* From inside, by find: it counts or blocks.
LEMMA FindLockKeeps ==
    ASSUME LocksInv, NEW t \in Thread, FindLock(t)
    PROVE  LocksInv'
<1>1. /\ pc[t] = "find" /\ LockTree(t, "findScan") /\ Set(t, "queue", Seed)
      /\ UNCHANGED <<tree, created, nodeLock, calls, committed>>
  BY DEF FindLock, At
<1>2. Inside(t) <=> Nested(t)
  BY <1>1 DEF Inside, Body
<1>3. tree = committed
  BY <1>1, LockTreeDoes, SeesComplete, Theirs
<1>4. Seed \in Seq(Node) /\ Scanned({}, Seed)
  BY <1>3, SeedScanned
<1>5. /\ frame' \in [Thread -> Frame] /\ \A u \in Thread \ {t} : frame'[u] = frame[u]
      /\ frame'[t].queue = Seed /\ frame'[t].ret = frame[t].ret /\ frame'[t].id = frame[t].id
  BY <1>1, <1>4, SeedDoes
<1>6. Scanned({}, Seed)'
  BY <1>1, <1>4 DEF Scanned, Seed
<1>7. Seed' = Seed /\ Nested(t)' = Nested(t)
  BY <1>1, <1>5 DEF Seed, Nested
<1>8. Knows(t)' \/ pc'[t] \notin {"findScan", "hung"}
  BY <1>4, <1>5, <1>6, <1>7, ScannedFits DEF Knows
<1>9. CASE ~Inside(t)
  <2>1. pc'[t] = "findScan"
    BY <1>1, <1>9, LockTreeDoes, GotoDoes, Theirs DEF Body
  <2> QED
    BY <1>1, <1>2, <1>5, <1>7, <1>8, <1>9, <2>1, EnterKeeps DEF Body
<1>10. CASE Inside(t) /\ treeLock' = treeLock /\ Goto(t, "hung")
  <2>1. pc' \in [Thread -> Body \union Outside] /\ pc'[t] = "hung" /\ OthersStay(t)
    BY <1>5, <1>10, GotoDoes, Theirs DEF OthersStay, Body
  <2>2. Inside(t)' /\ Depth(t)' = Depth(t)
    BY <1>1, <2>1 DEF Inside, Body, Depth
  <2>3. Held(t) = {} /\ Held(t)' = {}
    BY <1>1, <2>1 DEF Held
  <2> QED
    BY <1>1, <1>5, <1>8, <1>10, <2>1, <2>2, <2>3, Theirs, OwnerStays, NodesStay, QuietStep
<1>11. CASE Inside(t) /\ treeLock' = [owner |-> t, depth |-> Depth(t) + 1] /\ Goto(t, "findScan")
  <2>1. pc' \in [Thread -> Body \union Outside] /\ pc'[t] = "findScan" /\ OthersStay(t)
    BY <1>5, <1>11, GotoDoes, Theirs DEF OthersStay, Body
  <2>2. Inside(t)' /\ Depth(t) = 1 /\ Depth(t)' = 2
    BY <1>1, <1>2, <1>7, <1>11, <2>1 DEF Inside, Body, Depth
  <2>3. Held(t) = {} /\ Held(t)' = {}
    BY <1>1, <2>1 DEF Held
  <2>4. OwnerInside' /\ treeLock' \in [owner : Thread \union {NULL}, depth : Nat]
    BY <1>11, <2>1, <2>2, Theirs, OwnerEnters
  <2> QED
    BY <1>1, <1>5, <1>8, <2>1, <2>3, <2>4, Theirs, NodesStay, QuietStep
<1> QED
  BY <1>1, <1>9, <1>10, <1>11, LockTreeDoes

-----------------------------------------------------------------------------
\* Giving tree_lock back.

\* At the end of a call that changes no tree.
LEMMA LeaveKeeps ==
    ASSUME LocksInv, NEW t \in Thread, Inside(t), Depth(t) = 1, pc[t] # "deleteMove", UnlockTree,
           NEW label \in {"idle", "messageTo"}, Goto(t, label),
           frame' \in [Thread -> Frame], \A u \in Thread \ {t} : frame'[u] = frame[u],
           UNCHANGED <<tree, created, calls, committed>>, Len(frame'[t].queue) <= QueueSize,
           (Held(t) = {} /\ UNCHANGED nodeLock)
             \/ (\E n \in Node : Held(t) = {n} /\ Release(n))
    PROVE  LocksInv'
<1>1. treeLock.owner = t /\ treeLock' = [owner |-> NULL, depth |-> 0]
  BY UnlockTreeDoes
<1>2. pc' \in [Thread -> Body \union Outside] /\ pc'[t] = label /\ OthersStay(t)
  BY GotoDoes, Theirs DEF OthersStay, Outside
<1>3. ~Inside(t)' /\ Held(t)' = {}
  BY <1>2 DEF Inside, Body, Held
<1>4. Knows(t)'
  BY <1>2 DEF Knows
<1>5. OwnerInside' /\ treeLock' \in [owner : Thread \union {NULL}, depth : Nat]
  BY <1>1, <1>2, <1>3, OwnerLeaves
<1>6. NodesHeld' /\ nodeLock' \in [Node -> Thread \union {NULL}]
  <2>1. CASE Held(t) = {} /\ UNCHANGED nodeLock
    BY <1>2, <1>3, <2>1, NodesStay
  <2>2. CASE \E n \in Node : Held(t) = {n} /\ Release(n)
    <3>1. PICK n \in Node : Held(t) = {n} /\ Release(n)
      BY <2>2
    <3>2. n \in Held(t) /\ Held(t)' = Held(t) \ {n}
      BY <1>3, <3>1
    <3> QED
      BY <1>2, <3>1, <3>2, NodeGiven
  <2> QED
    BY <2>1, <2>2
<1> QED
  BY <1>2, <1>4, <1>5, <1>6, Theirs, QuietStep

LEMMA RefusalKeeps ==
    ASSUME LocksInv, NEW t \in Thread, InsertRefused(t) \/ DeleteNothing(t) \/ TraversalEnd(t)
    PROVE  LocksInv'
<1>1. UnlockTree /\ Goto(t, "idle") /\ UNCHANGED <<tree, created, nodeLock, frame, calls, committed>>
  BY DEF InsertRefused, DeleteNothing, TraversalEnd
<1>2. \/ pc[t] \in {"insertTest", "insertParent", "deleteHold", "bfsScan"}
      \/ pc[t] = "dfsScan" /\ frame[t].stack = <<>>
  BY DEF InsertRefused, DeleteNothing, TraversalEnd, TraversalOver, At
<1>3. Inside(t) /\ Depth(t) = 1 /\ pc[t] # "deleteMove"
  BY <1>2 DEF Inside, Body, Depth
<1>4. Held(t) = {}
  BY <1>2 DEF Held, StackNodes
<1>5. Len(frame'[t].queue) <= QueueSize /\ frame' \in [Thread -> Frame]
  BY <1>1, Theirs DEF Knows, LockTypes
<1> QED
  BY <1>1, <1>3, <1>4, <1>5, LeaveKeeps

LEMMA InsertFailsKeeps ==
    ASSUME LocksInv, NEW t \in Thread, InsertFails(t)
    PROVE  LocksInv'
<1> DEFINE p == frame[t].found
<1>1. /\ pc[t] = "insertLink" /\ Release(p) /\ UnlockTree /\ Goto(t, "idle")
      /\ UNCHANGED <<tree, created, frame, calls, committed>>
  BY DEF InsertFails, At, UnlockParent
<1>2. p \in committed.live /\ committed \in TreeRecord
  BY <1>1, Theirs DEF Knows
<1>3. p \in Node /\ Held(t) = {p}
  BY <1>1, <1>2 DEF Held, TreeRecord
<1>4. Inside(t) /\ Depth(t) = 1 /\ pc[t] # "deleteMove"
  BY <1>1 DEF Inside, Body, Depth
<1>5. Len(frame'[t].queue) <= QueueSize /\ frame' \in [Thread -> Frame]
  BY <1>1, Theirs DEF Knows, LockTypes
<1> HIDE DEF p
<1> QED
  BY <1>1, <1>3, <1>4, <1>5, LeaveKeeps

\* find returns to insert or delete, or to its caller outside.
LEMMA FindReturns ==
    ASSUME LocksInv, NEW t \in Thread, pc[t] = "findScan", UnlockTree, Goto(t, frame[t].ret),
           frame' \in [Thread -> Frame], \A u \in Thread \ {t} : frame'[u] = frame[u],
           frame'[t].found \in committed.live \union {NULL}, frame'[t].ret = frame[t].ret,
           Len(frame'[t].queue) <= QueueSize,
           UNCHANGED <<tree, created, nodeLock, calls, committed>>
    PROVE  LocksInv'
<1>1. Inside(t) /\ pc[t] # "deleteMove" /\ Held(t) = {}
  BY DEF Inside, Body, Held
<1>2. frame[t].ret \in Return
  BY Theirs DEF Frame
<1>3. CASE Nested(t)
  <2>1. Depth(t) = 2
    BY <1>3 DEF Depth
  <2>2. treeLock.owner = t /\ treeLock' = [owner |-> t, depth |-> 1]
    BY <1>1, <2>1, UnlockTreeDoes
  <2>3. /\ pc' \in [Thread -> Body \union Outside] /\ OthersStay(t)
        /\ pc'[t] \in {"insertParent", "deleteHold"}
    BY <1>3, GotoDoes, Theirs DEF Nested, OthersStay, Body
  <2>4. Inside(t)' /\ Depth(t)' = 1 /\ Held(t)' = {}
    BY <2>3 DEF Inside, Body, Depth, Held
  <2>5. Knows(t)'
    BY <2>3 DEF Knows
  <2>6. OwnerInside' /\ treeLock' \in [owner : Thread \union {NULL}, depth : Nat]
    BY <2>2, <2>3, <2>4, OwnerEnters
  <2>7. NodesHeld' /\ nodeLock' \in [Node -> Thread \union {NULL}]
    BY <1>1, <2>3, <2>4, NodesStay
  <2> QED
    BY <1>1, <2>3, <2>5, <2>6, <2>7, Theirs, QuietStep
<1>4. CASE ~Nested(t)
  <2>1. Depth(t) = 1
    BY <1>4 DEF Depth
  <2>2. frame[t].ret \in {"idle", "messageTo"}
    BY <1>2, <1>4 DEF Return, Nested
  <2> QED
    BY <1>1, <2>1, <2>2, LeaveKeeps
<1> QED
  BY <1>3, <1>4

LEMMA FindNothingKeeps ==
    ASSUME LocksInv, NEW t \in Thread, FindNothing(t)
    PROVE  LocksInv'
<1>1. /\ pc[t] = "findScan" /\ Set(t, "found", NULL) /\ UnlockTree /\ Goto(t, frame[t].ret)
      /\ UNCHANGED <<tree, created, nodeLock, calls, committed>>
  BY DEF FindNothing, At
<1> DEFINE f == [frame[t] EXCEPT !.found = NULL]
<1>2. frame[t] \in Frame
  BY Theirs
<1>3. f \in Frame /\ f.found = NULL /\ f.ret = frame[t].ret /\ f.queue = frame[t].queue
  BY <1>2 DEF Frame, Pointer
<1>4. frame' = [frame EXCEPT ![t] = f]
  BY <1>1, <1>2 DEF Set, Frame
<1> HIDE DEF f
<1>5. frame' \in [Thread -> Frame] /\ frame'[t] = f /\ \A u \in Thread \ {t} : frame'[u] = frame[u]
  BY <1>3, <1>4, SetDoes, Theirs
<1>6. Len(frame'[t].queue) <= QueueSize
  BY <1>3, <1>5, Theirs DEF Knows
<1> QED
  BY <1>1, <1>3, <1>5, <1>6, FindReturns

-----------------------------------------------------------------------------
\* Searches.

LEMMA SameOperators ==
    /\ \A f : TP!Range(f) = Range(f) /\ API!Range(f) = Range(f)
    /\ \A s : TP!NoRepeat(s) <=> API!NoRepeat(s)
    /\ \A S : TP!IsFiniteSet(S) <=> IsFiniteSet(S)
    /\ \A S : TP!Cardinality(S) = Cardinality(S)
<1>1. \A f : TP!Range(f) = Range(f) /\ API!Range(f) = Range(f)
  BY DEF TP!Range, API!Range, Range
<1>2. \A s : TP!NoRepeat(s) <=> API!NoRepeat(s)
  BY DEF TP!NoRepeat, API!NoRepeat
<1>3. \A S : TP!IsFiniteSet(S) <=> IsFiniteSet(S)
  BY Zenon DEF TP!IsFiniteSet, IsFiniteSet
<1>4. \A S : TP!Cardinality(S) = Cardinality(S)
  BY Zenon DEF TP!Cardinality, TP!IsFiniteSet, Cardinality, IsFiniteSet
<1> QED
  BY <1>1, <1>2, <1>3, <1>4

\* The assumptions of PhantomTree hold of its instance.
LEMMA TreeAssumptions == TP!NULLAssumption /\ TP!MaxChildrenAssumption
BY DistinctAssumption, BoundsAssumption DEF TP!NULLAssumption, TP!MaxChildrenAssumption

LEMMA TailHolds ==
    ASSUME NEW q \in Seq(Node), q # <<>>, API!NoRepeat(q)
    PROVE  /\ Head(q) \in Range(q) /\ Tail(q) \in Seq(Node) /\ Len(Tail(q)) = Len(q) - 1
           /\ API!NoRepeat(Tail(q)) /\ Range(Tail(q)) = Range(q) \ {Head(q)}
<1>1. /\ Len(q) \in Nat \ {0} /\ Head(q) = q[1] /\ Tail(q) \in Seq(Node) /\ Len(Tail(q)) = Len(q) - 1
      /\ \A i \in 1 .. Len(q) - 1 : Tail(q)[i] = q[i + 1]
  OBVIOUS
<1>2. API!NoRepeat(Tail(q))
  BY <1>1 DEF API!NoRepeat
<1>3. Range(Tail(q)) \subseteq Range(q) \ {Head(q)}
  <2> SUFFICES ASSUME NEW i \in 1 .. Len(q) - 1
               PROVE  Tail(q)[i] \in Range(q) \ {Head(q)}
    BY <1>1 DEF Range
  <2> QED
    BY <1>1 DEF Range, API!NoRepeat
<1>4. Range(q) \ {Head(q)} \subseteq Range(Tail(q))
  <2> SUFFICES ASSUME NEW x \in Range(q) \ {Head(q)}
               PROVE  x \in Range(Tail(q))
    OBVIOUS
  <2>1. PICK i \in 1 .. Len(q) : q[i] = x
    BY DEF Range
  <2>2. i # 1
    BY <1>1, <2>1
  <2>3. i - 1 \in 1 .. Len(q) - 1 /\ (i - 1) + 1 = i
    BY <1>1, <2>2
  <2>4. Tail(q)[i - 1] = x
    BY <1>1, <2>1, <2>3
  <2>5. DOMAIN Tail(q) = 1 .. Len(q) - 1
    BY <1>1
  <2> QED
    BY <2>3, <2>4, <2>5 DEF Range
<1>5. Head(q) \in Range(q)
  BY <1>1 DEF Range
<1> QED
  BY <1>1, <1>2, <1>3, <1>4, <1>5

\* A sequence without repeats is as long as what it holds is large.
LEMMA LengthIsSize ==
    ASSUME NEW s \in Seq(Node), API!NoRepeat(s)
    PROVE  IsFiniteSet(Range(s)) /\ Cardinality(Range(s)) = Len(s)
<1>1. Len(s) \in Nat /\ DOMAIN s = 1 .. Len(s)
  OBVIOUS
<1>2. IsFiniteSet(1 .. Len(s)) /\ Cardinality(1 .. Len(s)) = Len(s)
  BY <1>1, FS_Interval
<1>3. s \in Bijection(1 .. Len(s), Range(s))
  BY <1>1 DEF Bijection, Injection, Surjection, IsInjective, Range, API!NoRepeat
<1>4. ExistsBijection(1 .. Len(s), Range(s))
  BY <1>3 DEF ExistsBijection
<1> QED
  BY <1>2, <1>4, FS_Bijection

\* queue_push keeps the order, and loses nothing when there is room.
LEMMA PushAllHolds ==
    ASSUME NEW q \in Seq(Node), NEW s \in Seq(Node), Len(q) <= QueueSize,
           API!NoRepeat(q), API!NoRepeat(s), Range(q) \intersect Range(s) = {}
    PROVE  /\ PushAll(q, s) \in Seq(Node) /\ Len(PushAll(q, s)) <= QueueSize
           /\ API!NoRepeat(PushAll(q, s))
           /\ Range(q) \subseteq Range(PushAll(q, s))
           /\ Range(PushAll(q, s)) \subseteq Range(q) \union Range(s)
           /\ Cardinality(Range(q) \union Range(s)) <= QueueSize =>
                Range(PushAll(q, s)) = Range(q) \union Range(s)
<1> DEFINE all == q \o s
<1>1. /\ all \in Seq(Node) /\ Range(all) = Range(q) \union Range(s) /\ API!NoRepeat(all)
  BY TP!ConcatHolds, TreeAssumptions, SameOperators
<1>2. Len(all) = Len(q) + Len(s) /\ \A i \in 1 .. Len(q) : all[i] = q[i]
  OBVIOUS
<1>3. Cardinality(Range(q) \union Range(s)) = Len(all)
  BY <1>1, LengthIsSize
<1>4. QueueSize \in Nat /\ Len(q) \in Nat /\ Len(s) \in Nat /\ Len(all) \in Nat
  BY BoundsAssumption, <1>2
<1> HIDE DEF all
<1>5. CASE Len(all) <= QueueSize
  BY <1>1, <1>5 DEF PushAll, all
<1>6. CASE ~(Len(all) <= QueueSize)
  <2> DEFINE u == SubSeq(all, 1, QueueSize)
  <2>1. PushAll(q, s) = u
    BY <1>6 DEF PushAll, all
  <2>2. u \in Seq(Node) /\ Len(u) = QueueSize /\ \A i \in 1 .. QueueSize : u[i] = all[i]
    BY <1>1, <1>4, <1>6
  <2> HIDE DEF u
  <2>3. API!NoRepeat(u)
    BY <1>1, <1>4, <1>6, <2>2 DEF API!NoRepeat
  <2>4. Range(u) \subseteq Range(all)
    BY <1>1, <1>4, <1>6, <2>2 DEF Range
  <2>5. Range(q) \subseteq Range(u)
    <3> SUFFICES ASSUME NEW i \in 1 .. Len(q)
                 PROVE  q[i] \in Range(u)
      BY DEF Range
    <3>1. i \in 1 .. QueueSize /\ u[i] = q[i]
      BY <1>2, <1>4, <2>2
    <3> QED
      BY <2>2, <3>1 DEF Range
  <2> QED
    BY <1>1, <1>3, <1>6, <2>1, <2>2, <2>3, <2>4, <2>5
<1> QED
  BY <1>5, <1>6

\* The links of the complete tree, in the terms used here.
LEMMA Links ==
    ASSUME LocksInv, NEW n \in committed.live
    PROVE  /\ n \in Node /\ n # NULL /\ committed.children[n] \in Seq(Node)
           /\ API!NoRepeat(committed.children[n])
           /\ \A m \in Node : m \in Range(committed.children[n]) <=>
                                m \in committed.live /\ committed.parent[m] = n
           /\ n \notin Range(committed.children[n])
           /\ committed.root # n => committed.parent[n] \in committed.live
           /\ committed.parent[n] = NULL <=> n = committed.root
           /\ IsFiniteSet(committed.live)
<1> USE DEF LocksInv, LockTypes, TreeRecord
<1>1. n \in Node /\ n # NULL /\ committed.children[n] \in Seq(Node)
  BY DistinctAssumption
<1>2. /\ TP!NoRepeat(committed.children[n])
      /\ \A m \in Node : m \in TP!Range(committed.children[n]) <=>
                           m \in committed.live /\ committed.parent[m] = n
  BY DEF TP!TreeInv, TP!LinksAgree, TP!ParentsAgree
<1>3. /\ committed.parent[n] = NULL <=> n = committed.root
      /\ n # committed.root => committed.parent[n] \in committed.live /\ committed.parent[n] # n
  BY TP!ParentHolds, TreeAssumptions
<1>4. IsFiniteSet(committed.live)
  BY SameOperators DEF TP!TreeInv
<1>5. n \notin Range(committed.children[n])
  BY <1>1, <1>2, <1>3, SameOperators
<1> QED
  BY <1>1, <1>2, <1>3, <1>4, <1>5, SameOperators

\* One turn of a search.
LEMMA ScanStep ==
    ASSUME LocksInv, NEW V, NEW q \in Seq(Node), q # <<>>, Scanned(V, q), NEW n, n = Head(q)
    PROVE  /\ n \in committed.live /\ n \notin V
           /\ PushAll(Tail(q), committed.children[n]) \in Seq(Node)
           /\ Scanned(V \union {n}, PushAll(Tail(q), committed.children[n]))
<1> DEFINE kids == committed.children[n]
           q2 == PushAll(Tail(q), kids)
<1>1. /\ n \in Range(q) /\ Tail(q) \in Seq(Node) /\ Len(Tail(q)) = Len(q) - 1
      /\ API!NoRepeat(Tail(q)) /\ Range(Tail(q)) = Range(q) \ {n}
  BY TailHolds DEF Scanned
<1>2. n \in committed.live /\ n \notin V
  BY <1>1 DEF Scanned
<1>3. /\ n # NULL /\ kids \in Seq(Node) /\ API!NoRepeat(kids) /\ n \notin Range(kids)
      /\ \A m \in Range(kids) : m \in committed.live /\ committed.parent[m] = n
      /\ IsFiniteSet(committed.live)
  BY <1>2, Links DEF Range
<1>4. \A m \in Range(kids) : m # committed.root
  BY <1>3, Links
<1>5. \A m \in Range(kids) : m \notin V \union Range(q)
  BY <1>2, <1>3, <1>4 DEF Scanned
<1>6. Len(Tail(q)) <= QueueSize
  BY <1>1, BoundsAssumption DEF Scanned
<1>7. Range(Tail(q)) \intersect Range(kids) = {}
  BY <1>1, <1>5
<1> HIDE DEF kids
<1>8. /\ q2 \in Seq(Node) /\ Len(q2) <= QueueSize /\ API!NoRepeat(q2)
      /\ Range(Tail(q)) \subseteq Range(q2)
      /\ Range(q2) \subseteq Range(Tail(q)) \union Range(kids)
      /\ Cardinality(Range(Tail(q)) \union Range(kids)) <= QueueSize =>
           Range(q2) = Range(Tail(q)) \union Range(kids)
  BY <1>1, <1>3, <1>6, <1>7, PushAllHolds
<1> HIDE DEF q2
<1>9. ASSUME Cardinality(committed.live) <= QueueSize + 1
      PROVE  Range(q2) = Range(Tail(q)) \union Range(kids)
  <2>1. Range(Tail(q)) \union Range(kids) \subseteq committed.live \ {n}
    BY <1>1, <1>3 DEF Scanned
  <2>2. IsFiniteSet(committed.live \ {n}) /\ Cardinality(committed.live \ {n}) = Cardinality(committed.live) - 1
    BY <1>2, <1>3, FS_RemoveElement
  <2>3. Cardinality(Range(Tail(q)) \union Range(kids)) <= Cardinality(committed.live) - 1
        /\ IsFiniteSet(Range(Tail(q)) \union Range(kids))
    BY <2>1, <2>2, FS_Subset
  <2>4. /\ Cardinality(Range(Tail(q)) \union Range(kids)) \in Nat /\ Cardinality(committed.live) \in Nat
        /\ QueueSize \in Nat
    BY <1>3, <2>3, FS_CardinalityType, BoundsAssumption
  <2> QED
    BY <1>8, <1>9, <2>3, <2>4
<1>10. ASSUME Cardinality(committed.live) <= QueueSize + 1, NEW v \in V \union {n}
       PROVE  Range(committed.children[v]) \subseteq (V \union {n}) \union Range(q2)
  <2>1. CASE v = n
    BY <1>9, <1>10, <2>1 DEF kids
  <2>2. CASE v \in V
    BY <1>1, <1>9, <1>10, <2>2 DEF Scanned
  <2> QED
    BY <1>10, <2>1, <2>2
<1>11. Scanned(V \union {n}, q2)
  <2>1. V \union {n} \subseteq committed.live /\ Range(q2) \subseteq committed.live
    BY <1>1, <1>2, <1>3, <1>8 DEF Scanned
  <2>2. (V \union {n}) \intersect Range(q2) = {}
    BY <1>1, <1>3, <1>5, <1>8 DEF Scanned
  <2>3. committed.root # NULL => committed.root \in (V \union {n}) \union Range(q2)
    BY <1>1, <1>8 DEF Scanned
  <2>4. \A m \in (V \union {n}) \union Range(q2) : m = committed.root \/ committed.parent[m] \in V \union {n}
    BY <1>1, <1>3, <1>8 DEF Scanned
  <2> QED
    BY <1>8, <1>10, <2>1, <2>2, <2>3, <2>4 DEF Scanned
<1> QED
  BY <1>2, <1>8, <1>11 DEF kids, q2

\* A search whose queue is empty has seen every account, if the queue sufficed.
LEMMA ScanOver ==
    ASSUME LocksInv, NEW V, Scanned(V, <<>>), Cardinality(committed.live) <= QueueSize + 1
    PROVE  V = committed.live
<1>1. Range(<<>>) = {}
  BY DEF Range
<1>2. V \subseteq committed.live /\ (committed.root # NULL => committed.root \in V)
      /\ \A v \in V : Range(committed.children[v]) \subseteq V
  BY <1>1 DEF Scanned
<1>3. \A v \in V : TP!Range(committed.children[v]) \subseteq V
  BY <1>2, SameOperators
<1> QED
  BY <1>2, <1>3 DEF LocksInv, TP!TreeInv, TP!AllReachable

LEMMA ScannedStays ==
    ASSUME UNCHANGED committed
    PROVE  \A V, q : Scanned(V, q)' = Scanned(V, q)
BY DEF Scanned

LEMMA FindVisitKeeps ==
    ASSUME LocksInv, NEW t \in Thread, FindVisit(t)
    PROVE  LocksInv'
<1> DEFINE q == frame[t].queue
           n == Head(q)
           q2 == PushAll(Tail(q), committed.children[n])
<1>1. /\ pc[t] = "findScan" /\ q # <<>>
      /\ UNCHANGED <<tree, created, nodeLock, calls, committed>>
  BY DEF FindVisit, At
<1>2. frame \in [Thread -> Frame] /\ frame[t] \in Frame /\ q \in Seq(Node)
  BY Theirs DEF Frame, LockTypes
<1>3. PICK V \in SUBSET committed.live : Scanned(V, q) /\ frame[t].id \notin V
  BY <1>1, Theirs DEF Knows
<1>4. tree = committed
  BY <1>1, PCs, SeesComplete, Theirs DEF Body
<1>5. n \in committed.live /\ n \notin V /\ q2 \in Seq(Node) /\ Scanned(V \union {n}, q2)
  BY <1>1, <1>2, <1>3, ScanStep
<1>6. n \in Node
  BY <1>5, Theirs DEF TreeRecord
<1>7. CASE n = frame[t].id
  <2> DEFINE f == [frame[t] EXCEPT !.found = n, !.queue = <<>>]
  <2>1. frame' = [frame EXCEPT ![t].found = n, ![t].queue = <<>>] /\ UnlockTree /\ Goto(t, frame[t].ret)
    BY <1>7 DEF FindVisit
  <2> HIDE DEF n, q
  <2>2. frame' = [frame EXCEPT ![t] = f]
    BY <1>2, <2>1 DEF Frame
  <2>3. f \in Frame /\ f.found = n /\ f.ret = frame[t].ret /\ f.queue = <<>>
    <3>1. n \in Pointer
      BY <1>6 DEF Pointer
    <3> DEFINE nothing == <<>>
    <3>2. nothing \in Seq(Node)
      OBVIOUS
    <3> HIDE DEF nothing
    <3>3. [frame[t] EXCEPT !.found = n, !.queue = nothing] \in Frame
      BY <1>2, <3>1, <3>2 DEF Frame
    <3> QED
      BY <1>2, <3>3 DEF Frame, nothing
  <2> HIDE DEF f
  <2>4. frame' \in [Thread -> Frame] /\ frame'[t] = f /\ \A u \in Thread \ {t} : frame'[u] = frame[u]
    BY <2>2, <2>3, SetDoes, Theirs
  <2>5. Len(frame'[t].queue) <= QueueSize
    BY <2>3, <2>4, BoundsAssumption
  <2> QED
    BY <1>1, <1>5, <2>1, <2>3, <2>4, <2>5, FindReturns
<1>8. CASE n # frame[t].id
  <2> DEFINE f == [frame[t] EXCEPT !.queue = q2]
  <2>1. Set(t, "queue", q2) /\ UNCHANGED <<treeLock, pc>>
    BY <1>4, <1>8 DEF FindVisit
  <2> HIDE DEF q2
  <2>2. frame' = [frame EXCEPT ![t] = f]
    BY <1>2, <2>1 DEF Set, Frame
  <2>3. f \in Frame /\ f.id = frame[t].id /\ f.ret = frame[t].ret /\ f.queue = q2
    BY <1>2, <1>5 DEF Frame
  <2> HIDE DEF f, n, q
  <2>4. frame' \in [Thread -> Frame] /\ frame'[t] = f /\ OthersStay(t)
    BY <2>1, <2>2, <2>3, SetDoes, Theirs DEF OthersStay
  <2>5. Scanned(V \union {n}, f.queue) /\ f.id \notin V \union {n} /\ V \union {n} \in SUBSET committed.live
    BY <1>3, <1>5, <1>8, <2>3
  <2>6. Knows(t)'
    BY <1>1, <2>1, <2>4, <2>5, ScannedStays, ScannedFits DEF Knows
  <2>7. Inside(t)' /\ Inside(t) /\ Depth(t)' = Depth(t) /\ Held(t)' = {} /\ Held(t) = {}
    BY <1>1, <2>1, <2>3, <2>4 DEF Inside, Body, Depth, Nested, Held
  <2>8. pc' \in [Thread -> Body \union Outside] /\ pc[t] # "deleteMove" /\ pc'[t] # "deleteMove"
    BY <1>1, <2>1, Theirs DEF LockTypes
  <2> QED
    BY <1>1, <2>1, <2>4, <2>6, <2>7, <2>8, Theirs, OwnerStays, NodesStay, QuietStep
<1> QED
  BY <1>7, <1>8

LEMMA BfsVisitKeeps ==
    ASSUME LocksInv, NEW t \in Thread, BfsVisit(t)
    PROVE  LocksInv'
<1> DEFINE q == frame[t].queue
           n == Head(q)
           q2 == PushAll(Tail(q), committed.children[n])
           seen == frame[t].visited
           f == [frame[t] EXCEPT !.visited = Append(seen, n), !.queue = q2]
<1>1. /\ pc[t] = "bfsScan" /\ q # <<>>
      /\ UNCHANGED <<tree, created, treeLock, nodeLock, pc, calls, committed>>
      /\ frame' = [frame EXCEPT ![t].visited = Append(@, n),
                                ![t].queue = PushAll(Tail(q), tree.children[n])]
  BY DEF BfsVisit, At
<1>2. frame \in [Thread -> Frame] /\ frame[t] \in Frame /\ q \in Seq(Node) /\ seen \in Seq(Node)
  BY Theirs DEF Frame, LockTypes
<1>3. Scanned(Range(seen), q) /\ API!NoRepeat(seen)
  BY <1>1, Theirs DEF Knows
<1>4. tree = committed
  BY <1>1, PCs, SeesComplete, Theirs DEF Body
<1>5. n \in committed.live /\ n \notin Range(seen) /\ q2 \in Seq(Node) /\ Scanned(Range(seen) \union {n}, q2)
  BY <1>1, <1>2, <1>3, ScanStep
<1>6. n \in Node
  BY <1>5, Theirs DEF TreeRecord
<1>7. /\ Append(seen, n) \in Seq(Node) /\ Range(Append(seen, n)) = Range(seen) \union {n}
      /\ API!NoRepeat(Append(seen, n))
  BY <1>2, <1>3, <1>5, <1>6, TP!AppendHolds, TreeAssumptions, SameOperators
<1> HIDE DEF q2
<1>8. frame' = [frame EXCEPT ![t] = f]
  BY <1>1, <1>2, <1>4 DEF Frame, q2
<1>9. f \in Frame /\ f.visited = Append(seen, n) /\ f.queue = q2
  BY <1>2, <1>5, <1>7 DEF Frame
<1> HIDE DEF f, n, q, seen
<1>10. frame' \in [Thread -> Frame] /\ frame'[t] = f /\ OthersStay(t)
  BY <1>1, <1>8, <1>9, SetDoes, Theirs DEF OthersStay
<1>11. Scanned(Range(f.visited), f.queue) /\ API!NoRepeat(f.visited)
  BY <1>5, <1>7, <1>9
<1>12. Knows(t)'
  BY <1>1, <1>10, <1>11, ScannedStays, ScannedFits DEF Knows
<1>13. Inside(t)' /\ Inside(t) /\ Depth(t)' = Depth(t) /\ Held(t)' = {} /\ Held(t) = {}
  BY <1>1 DEF Inside, Body, Depth, Held
<1>14. pc' \in [Thread -> Body \union Outside] /\ pc[t] # "deleteMove" /\ pc'[t] # "deleteMove"
  BY <1>1, Theirs DEF LockTypes
<1> QED
  BY <1>1, <1>10, <1>12, <1>13, <1>14, Theirs, OwnerStays, NodesStay, QuietStep

\* insert and delete look for an account with tree_lock held.
LEMMA SeekKeeps ==
    ASSUME LocksInv, NEW t \in Thread, pc[t] \in {"insertTest", "deleteSeek"},
           NEW label \in {"insertParent", "deleteHold"}, CallFind(t, frame[t].id, label),
           UNCHANGED <<tree, created, treeLock, nodeLock, calls, committed>>
    PROVE  LocksInv'
<1> DEFINE f == [frame[t] EXCEPT !.ret = label]
<1>1. frame \in [Thread -> Frame] /\ frame[t] \in Frame /\ Len(frame[t].queue) <= QueueSize
  BY Theirs DEF Knows, LockTypes
<1>2. frame' = [frame EXCEPT ![t] = f]
  BY <1>1 DEF CallFind, Frame
<1>3. f \in Frame /\ f.ret = label /\ f.queue = frame[t].queue
  BY <1>1 DEF Frame, Return
<1> HIDE DEF f
<1>4. frame' \in [Thread -> Frame] /\ frame'[t] = f /\ \A u \in Thread \ {t} : frame'[u] = frame[u]
  BY <1>2, <1>3, SetDoes, Theirs
<1>5. pc' \in [Thread -> Body \union Outside] /\ pc'[t] = "find" /\ OthersStay(t)
  BY <1>4, GotoDoes, Theirs DEF CallFind, OthersStay, Outside
<1>6. Inside(t) /\ Inside(t)' /\ Depth(t)' = Depth(t) /\ Held(t) = {} /\ Held(t)' = {}
  BY <1>3, <1>4, <1>5 DEF Inside, Body, Depth, Nested, Held
<1>7. Knows(t)'
  BY <1>1, <1>3, <1>4, <1>5 DEF Knows
<1> QED
  BY <1>4, <1>5, <1>6, <1>7, Theirs, OwnerStays, NodesStay, QuietStep

LEMMA InsertSeekKeeps ==
    ASSUME LocksInv, NEW t \in Thread, InsertSeek(t)
    PROVE  LocksInv'
<1>1. /\ pc[t] = "insertTest" /\ tree.root # NULL
      /\ UNCHANGED <<tree, created, treeLock, nodeLock, calls, committed>>
  BY DEF InsertSeek, At
<1>2. CASE frame[t].id = NULL
  <2> DEFINE f == [frame[t] EXCEPT !.found = tree.root]
  <2>1. Set(t, "found", tree.root) /\ Goto(t, "insertParent")
    BY <1>2 DEF InsertSeek
  <2>2. frame \in [Thread -> Frame] /\ frame[t] \in Frame /\ Len(frame[t].queue) <= QueueSize
    BY Theirs DEF Knows, LockTypes
  <2>3. tree = committed
    BY <1>1, PCs, SeesComplete, Theirs DEF Body
  <2>4. tree.root \in committed.live /\ tree.root \in Pointer
    BY <1>1, <2>3, Theirs DEF TP!TreeInv, TP!LinksAgree, TP!RootAgrees, TreeRecord
  <2>5. frame' = [frame EXCEPT ![t] = f]
    BY <2>1, <2>2 DEF Set, Frame
  <2>6. f \in Frame /\ f.found = tree.root /\ f.queue = frame[t].queue
    BY <2>2, <2>4 DEF Frame
  <2> HIDE DEF f
  <2>7. frame' \in [Thread -> Frame] /\ frame'[t] = f /\ \A u \in Thread \ {t} : frame'[u] = frame[u]
    BY <2>5, <2>6, SetDoes, Theirs
  <2>8. pc' \in [Thread -> Body \union Outside] /\ pc'[t] = "insertParent" /\ OthersStay(t)
    BY <2>1, <2>7, GotoDoes, Theirs DEF OthersStay, Body
  <2>9. Inside(t) /\ Inside(t)' /\ Depth(t)' = Depth(t) /\ Held(t) = {} /\ Held(t)' = {}
    BY <1>1, <2>8 DEF Inside, Body, Depth, Held
  <2>10. Knows(t)'
    BY <1>1, <2>2, <2>4, <2>6, <2>7, <2>8 DEF Knows
  <2> QED
    BY <1>1, <2>7, <2>8, <2>9, <2>10, Theirs, OwnerStays, NodesStay, QuietStep
<1>3. CASE frame[t].id # NULL
  BY <1>1, <1>3, SeekKeeps DEF InsertSeek
<1> QED
  BY <1>2, <1>3

LEMMA DeleteSeekKeeps ==
    ASSUME LocksInv, NEW t \in Thread, DeleteSeek(t)
    PROVE  LocksInv'
BY SeekKeeps DEF DeleteSeek, At

\* message_send looks for its two accounts outside tree_lock.
LEMMA MessageKeeps ==
    ASSUME LocksInv, NEW t \in Thread, MessageFrom(t) \/ MessageTo(t)
    PROVE  LocksInv'
<1>1. /\ pc[t] \in {"message", "messageTo"} /\ Goto(t, "find")
      /\ UNCHANGED <<tree, created, treeLock, nodeLock, calls, committed>>
  BY DEF MessageFrom, MessageTo, At, CallFind
<1>2. frame \in [Thread -> Frame] /\ frame[t] \in Frame /\ Len(frame[t].queue) <= QueueSize
  BY Theirs DEF Knows, LockTypes
<1>3. PICK f \in Frame : /\ frame' = [frame EXCEPT ![t] = f]
                         /\ f.ret \in {"messageTo", "idle"} /\ f.queue = frame[t].queue
  <2>1. CASE MessageFrom(t)
    <3> DEFINE f == [frame[t] EXCEPT !.ret = "messageTo"]
    <3>1. frame' = [frame EXCEPT ![t] = f]
      BY <1>2, <2>1 DEF MessageFrom, CallFind, Frame
    <3>2. f \in Frame /\ f.ret = "messageTo" /\ f.queue = frame[t].queue
      BY <1>2 DEF Frame, Return
    <3> QED
      BY <3>1, <3>2
  <2>2. CASE MessageTo(t)
    <3> DEFINE f == [frame[t] EXCEPT !.id = frame[t].to, !.ret = "idle", !.first = frame[t].found]
    <3>1. frame' = [frame EXCEPT ![t] = f]
      BY <1>2, <2>2 DEF MessageTo, Frame
    <3>2. f \in Frame /\ f.ret = "idle" /\ f.queue = frame[t].queue
      BY <1>2 DEF Frame, Return
    <3> QED
      BY <3>1, <3>2
  <2> QED
    BY <2>1, <2>2
<1>4. frame' \in [Thread -> Frame] /\ frame'[t] = f /\ \A u \in Thread \ {t} : frame'[u] = frame[u]
  BY <1>3, SetDoes, Theirs
<1>5. pc' \in [Thread -> Body \union Outside] /\ pc'[t] = "find" /\ OthersStay(t)
  BY <1>1, <1>4, GotoDoes, Theirs DEF OthersStay, Outside
<1>6. ~Inside(t) /\ ~Inside(t)' /\ Held(t) = {} /\ Held(t)' = {}
  BY <1>1, <1>3, <1>4, <1>5 DEF Inside, Body, Nested, Held
<1>7. Knows(t)'
  BY <1>2, <1>3, <1>4, <1>5 DEF Knows
<1> QED
  BY <1>1, <1>4, <1>5, <1>6, <1>7, Theirs, OwnerStays, NodesStay, QuietStep

-----------------------------------------------------------------------------
\* Taking the lock of a node.

LEMMA HoldKeeps ==
    ASSUME LocksInv, NEW t \in Thread, NEW n \in committed.live, n = frame[t].found,
           pc[t] \in {"insertParent", "deleteHold"}, NodeFree(n), Hold(n, t),
           NEW label \in {"insertLink", "deleteUnlink"}, Goto(t, label),
           label = "deleteUnlink" => ~API!RootPinned(n),
           UNCHANGED <<tree, created, treeLock, frame, calls, committed>>
    PROVE  LocksInv'
<1>1. n \in Node /\ frame' \in [Thread -> Frame]
  BY Theirs DEF TreeRecord, LockTypes
<1>2. pc' \in [Thread -> Body \union Outside] /\ pc'[t] = label /\ OthersStay(t)
  BY GotoDoes, Theirs DEF OthersStay, Body
<1>3. Inside(t) /\ Inside(t)' /\ Depth(t)' = Depth(t) /\ Held(t) = {} /\ Held(t)' = {n}
  BY <1>2 DEF Inside, Body, Depth, Held
<1>4. API!RootPinned(n)' = API!RootPinned(n)
  BY DEF API!RootPinned
<1>5. Knows(t)'
  BY <1>2, <1>4, Theirs DEF Knows
<1>6. NodesHeld' /\ nodeLock' \in [Node -> Thread \union {NULL}]
  BY <1>1, <1>2, <1>3, NodeTaken
<1> QED
  BY <1>1, <1>2, <1>3, <1>5, <1>6, Theirs, OwnerStays, QuietStep

LEMMA InsertHoldKeeps ==
    ASSUME LocksInv, NEW t \in Thread, InsertHold(t)
    PROVE  LocksInv'
<1>1. pc[t] = "insertParent" /\ frame[t].found # NULL
  BY DEF InsertHold, At
<1>2. frame[t].found \in committed.live
  BY <1>1, Theirs DEF Knows
<1> QED
  BY <1>1, <1>2, HoldKeeps DEF InsertHold

LEMMA DeleteHoldKeeps ==
    ASSUME LocksInv, NEW t \in Thread, DeleteHold(t)
    PROVE  LocksInv'
<1> DEFINE d == frame[t].found
<1>1. pc[t] = "deleteHold" /\ d # NULL /\ NodeFree(d) /\ UNCHANGED <<tree, created, frame, calls, committed>>
  BY DEF DeleteHold, At
<1>2. d \in committed.live
  BY <1>1, Theirs DEF Knows
<1>3. tree = committed
  BY <1>1, PCs, SeesComplete, Theirs DEF Body
<1>4. CASE API!RootPinned(d)
  <2>1. UnlockTree /\ Goto(t, "idle") /\ UNCHANGED nodeLock
    BY <1>3, <1>4 DEF DeleteHold, API!RootPinned
  <2>2. Inside(t) /\ Depth(t) = 1 /\ Held(t) = {}
    BY <1>1 DEF Inside, Body, Depth, Held
  <2>3. Len(frame'[t].queue) <= QueueSize /\ frame' \in [Thread -> Frame]
    BY <1>1, Theirs DEF Knows, LockTypes
  <2> QED
    BY <1>1, <2>1, <2>2, <2>3, LeaveKeeps
<1>5. CASE ~API!RootPinned(d)
  <2>1. Hold(d, t) /\ Goto(t, "deleteUnlink") /\ UNCHANGED treeLock
    BY <1>3, <1>5 DEF DeleteHold, API!RootPinned
  <2> QED
    BY <1>1, <1>2, <1>5, <2>1, HoldKeeps
<1> QED
  BY <1>4, <1>5

-----------------------------------------------------------------------------
\* The depth-first listing.

LEMMA DescendedStays ==
    ASSUME UNCHANGED committed
    PROVE  \A s, stack : Descended(s, stack)' = Descended(s, stack)
BY DEF Descended, UpTo

\* The top of the stack, and what is under it.
LEMMA StackTop ==
    ASSUME NEW stack \in Seq(Place), stack # <<>>
    PROVE  /\ Len(stack) \in Nat \ {0} /\ DOMAIN stack = 1 .. Len(stack)
           /\ Last(stack) = stack[Len(stack)] /\ Last(stack) \in Place
           /\ Front(stack) \in Seq(Place) /\ Len(Front(stack)) = Len(stack) - 1
           /\ \A i \in 1 .. Len(stack) - 1 : Front(stack)[i] = stack[i]
<1>1. Len(stack) \in Nat \ {0} /\ DOMAIN stack = 1 .. Len(stack)
  OBVIOUS
<1>2. Last(stack) = stack[Len(stack)] /\ Last(stack) \in Place
  BY <1>1 DEF Last
<1>3. 1 \in 1 .. Len(stack) + 1 /\ Len(stack) - 1 \in 0 .. Len(stack)
  BY <1>1
<1>4. Front(stack) = SubSeq(stack, 1, Len(stack) - 1)
  BY DEF Front
<1>5. Front(stack) \in Seq(Place) /\ Len(Front(stack)) = Len(stack) - 1
  BY <1>1, <1>3, <1>4
<1>6. \A i \in 1 .. Len(stack) - 1 : Front(stack)[i] = stack[i]
  BY <1>1, <1>3, <1>4
<1> QED
  BY <1>1, <1>2, <1>5, <1>6

\* stack2 is the stack with its top replaced by a, and b on it.
Grown(stack2, stack, a, b) ==
    /\ stack2 \in Seq(Place) /\ Len(stack2) = Len(stack) + 1
    /\ \A i \in 1 .. Len(stack) - 1 : stack2[i] = stack[i]
    /\ stack2[Len(stack)] = a /\ stack2[Len(stack) + 1] = b

LEMMA StackDown ==
    ASSUME NEW stack \in Seq(Place), stack # <<>>, NEW a \in Place, NEW b \in Place
    PROVE  Grown(Append(Append(Front(stack), a), b), stack, a, b)
<1> DEFINE under == Front(stack)
           w == Append(under, a)
           m == Len(stack)
<1>1. /\ under \in Seq(Place) /\ Len(under) = m - 1 /\ m \in Nat \ {0}
      /\ \A i \in 1 .. m - 1 : under[i] = stack[i]
  BY StackTop
<1> HIDE DEF under, m
<1>2. /\ w \in Seq(Place) /\ Len(w) = m /\ w[m] = a
      /\ \A i \in 1 .. m - 1 : w[i] = stack[i]
  BY <1>1
<1> HIDE DEF w
<1>3. /\ Append(w, b) \in Seq(Place) /\ Len(Append(w, b)) = m + 1 /\ Append(w, b)[m + 1] = b
      /\ \A i \in 1 .. m : Append(w, b)[i] = w[i]
  BY <1>1, <1>2
<1>4. m \in 1 .. m /\ \A i \in 1 .. m - 1 : i \in 1 .. m
  BY <1>1
<1> QED
  BY <1>2, <1>3, <1>4 DEF Grown, w, under, m

\* A step down to the next child of the node on top.
LEMMA DescendStep ==
    ASSUME LocksInv, NEW s \in Seq(Node), NEW stack \in Seq(Place), stack # <<>>,
           Descended(s, stack), NEW top, top = Last(stack),
           NEW c, c = committed.children[top.node][top.next],
           top.next <= Len(committed.children[top.node]),
           NEW a \in Place, a.node = top.node, a.next = top.next + 1,
           NEW b \in Place, b.node = c, b.next = 1,
           NEW stack2, Grown(stack2, stack, a, b)
    PROVE  /\ StackNodes(stack2) = StackNodes(stack) \union {c}
           /\ Append(s, c) \in Seq(Node) /\ Descended(Append(s, c), stack2)
<1> DEFINE m == Len(stack)
           s2 == Append(s, c)
           kids == committed.children[top.node]
<1>1. m \in Nat \ {0} /\ DOMAIN stack = 1 .. m /\ top = stack[m] /\ m \in 1 .. m /\ top \in Place
  BY StackTop
<1>2. top.node \in Range(s) /\ top.node \in committed.live /\ UpTo(s, top)
  <2>1. top.node \in StackNodes(stack)
    BY <1>1 DEF StackNodes
  <2>2. UpTo(s, top)
    BY <1>1 DEF Descended
  <2> QED
    BY <2>1, <2>2 DEF Descended
<1>3. /\ kids \in Seq(Node) /\ API!NoRepeat(kids) /\ top.node \in Node
      /\ \A x \in Range(kids) : x \in Node /\ x \in committed.live /\ committed.parent[x] = top.node
  <2>1. kids \in Seq(Node)
    BY <1>2, Links
  <2>2. \A x \in Range(kids) : x \in Node
    BY <2>1 DEF Range
  <2> QED
    BY <1>2, <2>1, <2>2, Links
<1>4. /\ top.next \in 1 .. Len(kids) /\ top.next + 1 \in 1 .. Len(kids) + 1
      /\ DOMAIN kids = 1 .. Len(kids) /\ Len(kids) \in Nat
      /\ \A j \in DOMAIN kids : j < top.next <=> kids[j] \in Range(s)
  <2>1. top.next \in 1 .. Len(kids) + 1 /\ \A j \in DOMAIN kids : j < top.next <=> kids[j] \in Range(s)
    BY <1>2 DEF UpTo
  <2> QED
    BY <1>3, <2>1
<1>5. c \notin Range(s) /\ c \in Range(kids) /\ c \in Node /\ c \in committed.live /\ committed.parent[c] = top.node
  <2>1. c = kids[top.next] /\ top.next \in DOMAIN kids
    BY <1>4
  <2> HIDE DEF kids
  <2>2. c \in Range(kids)
    BY <2>1 DEF Range
  <2>3. c \notin Range(s)
    BY <1>4, <2>1
  <2> QED
    BY <1>3, <2>2, <2>3
<1>6. /\ stack2 \in Seq(Place) /\ DOMAIN stack2 = 1 .. m + 1
      /\ \A i \in 1 .. m - 1 : stack2[i] = stack[i]
      /\ stack2[m] = a /\ stack2[m + 1] = b
  BY <1>1 DEF Grown
<1> HIDE DEF m
<1>7. /\ \A i \in 1 .. m + 1 : i \in 1 .. m \/ i = m + 1
      /\ \A i \in 1 .. m : i \in 1 .. m - 1 \/ i = m
      /\ \A i \in 1 .. m : i \in 1 .. m + 1
      /\ \A i \in 1 .. m - 1 : i \in 1 .. m /\ i # m
      /\ m + 1 \in 1 .. m + 1
  BY <1>1
<1>8. stack2[m + 1].node = c /\ \A i \in 1 .. m : stack2[i].node = stack[i].node
  <2>1. stack2[m + 1].node = c /\ stack2[m].node = top.node
    BY <1>6
  <2> QED
    BY <1>1, <1>6, <1>7, <2>1
<1>9. StackNodes(stack2) = StackNodes(stack) \union {c}
  <2>1. ASSUME NEW i \in 1 .. m + 1
        PROVE  stack2[i].node \in StackNodes(stack) \union {c}
    BY <1>1, <1>7, <1>8 DEF StackNodes
  <2>2. ASSUME NEW i \in 1 .. m
        PROVE  stack[i].node \in StackNodes(stack2)
    <3>1. i \in 1 .. m + 1 /\ stack2[i].node = stack[i].node
      BY <1>7, <1>8
    <3> QED
      BY <1>6, <3>1 DEF StackNodes
  <2>3. c \in StackNodes(stack2)
    BY <1>6, <1>7, <1>8 DEF StackNodes
  <2>4. StackNodes(stack2) \subseteq StackNodes(stack) \union {c}
    BY <1>6, <2>1 DEF StackNodes
  <2>5. StackNodes(stack) \subseteq StackNodes(stack2)
    BY <1>1, <2>2 DEF StackNodes
  <2> QED
    BY <2>3, <2>4, <2>5
<1>10. s2 \in Seq(Node) /\ Range(s2) = Range(s) \union {c} /\ API!NoRepeat(s2) /\ s2 # <<>>
  <2>1. API!NoRepeat(s)
    BY DEF Descended
  <2> DEFINE e == c
  <2>2. e \in Node /\ e \notin Range(s)
    BY <1>5
  <2> HIDE DEF e
  <2>3. /\ Append(s, e) \in Seq(Node) /\ Range(Append(s, e)) = Range(s) \union {e}
        /\ API!NoRepeat(Append(s, e))
    BY <2>1, <2>2, TP!AppendHolds, TreeAssumptions, SameOperators
  <2>4. Range(<<>>) = {}
    BY DEF Range
  <2>5. Append(s, e) # <<>>
    BY <2>3, <2>4
  <2> QED
    BY <2>3, <2>5 DEF e
<1> HIDE DEF s2, kids
<1>11. StackNodes(stack2) \subseteq Range(s2) /\ Range(s2) \subseteq committed.live /\ committed.root \in Range(s2)
  <2>1. s # <<>>
    BY <1>2 DEF Range
  <2> QED
    BY <1>5, <1>9, <1>10, <2>1 DEF Descended
<1>12. ASSUME NEW i \in DOMAIN stack2, NEW j \in DOMAIN stack2, stack2[i].node = stack2[j].node
       PROVE  i = j
  <2>1. \A h \in 1 .. m : stack[h].node \in Range(s)
    BY <1>1 DEF Descended, StackNodes
  <2>2. \A h, k \in 1 .. m : stack[h].node = stack[k].node => h = k
    BY <1>1 DEF Descended
  <2>3. CASE i \in 1 .. m /\ j \in 1 .. m
    BY <1>8, <1>12, <2>2, <2>3
  <2>4. CASE i \in 1 .. m /\ j = m + 1
    BY <1>5, <1>8, <1>12, <2>1, <2>4
  <2>5. CASE i = m + 1 /\ j \in 1 .. m
    BY <1>5, <1>8, <1>12, <2>1, <2>5
  <2> QED
    BY <1>6, <1>7, <2>3, <2>4, <2>5
<1>13. ASSUME NEW i \in 1 .. m - 1
       PROVE  UpTo(s2, stack[i])
  <2> DEFINE ks == committed.children[stack[i].node]
  <2> HIDE DEF ks
  <2>1. UpTo(s, stack[i]) /\ i \in 1 .. m /\ i # m
    BY <1>1, <1>7 DEF Descended
  <2>2. stack[i].node # top.node /\ stack[i].node \in committed.live
    <3>1. stack[i].node \in StackNodes(stack)
      BY <1>1, <2>1 DEF StackNodes
    <3> QED
      BY <1>1, <2>1, <3>1 DEF Descended
  <2>3. \A x \in Range(ks) : x \in Node => committed.parent[x] = stack[i].node
    BY <2>2, Links DEF ks
  <2>4. c \notin Range(ks)
    BY <1>5, <2>2, <2>3
  <2>5. \A j \in DOMAIN ks : ks[j] # c
    BY <2>4 DEF Range
  <2> QED
    BY <1>10, <2>1, <2>5 DEF UpTo, ks
<1>14. UpTo(s2, a)
  <2>1. \A j \in DOMAIN kids : kids[j] = c <=> j = top.next
    BY <1>3, <1>4 DEF API!NoRepeat, kids
  <2>2. ASSUME NEW j \in DOMAIN kids
        PROVE  j < top.next + 1 <=> j < top.next \/ j = top.next
    BY <1>4
  <2>3. \A j \in DOMAIN kids : j < top.next + 1 <=> kids[j] \in Range(s2)
    BY <1>4, <1>10, <2>1, <2>2
  <2> QED
    BY <1>4, <2>3 DEF UpTo, kids
<1>15. UpTo(s2, b)
  <2> DEFINE ks == committed.children[c]
  <2>1. ks \in Seq(Node) /\ c \notin Range(ks) /\ c # NULL
    BY <1>5, Links
  <2> HIDE DEF ks
  <2>2. \A x \in Range(ks) : x \in Node
    BY <2>1 DEF Range
  <2>3. \A x \in Range(ks) : x \in committed.live /\ committed.parent[x] = c
    BY <1>5, <2>2, Links DEF ks
  <2>4. \A x \in Range(ks) : x # committed.root
    <3> SUFFICES ASSUME NEW x \in Range(ks)
                 PROVE  x # committed.root
      OBVIOUS
    <3>1. x \in committed.live /\ committed.parent[x] # NULL
      BY <2>1, <2>3
    <3> QED
      BY <3>1, Links
  <2>5. \A x \in Range(s) : x = committed.root \/ committed.parent[x] \in Range(s)
    BY DEF Descended
  <2>6. \A x \in Range(ks) : x \notin Range(s2)
    BY <1>5, <1>10, <2>1, <2>3, <2>4, <2>5
  <2>7. \A j \in DOMAIN ks : ks[j] \notin Range(s2)
    BY <2>6 DEF Range
  <2>8. 1 \in 1 .. Len(ks) + 1 /\ \A j \in DOMAIN ks : ~(j < 1)
    BY <2>1
  <2> QED
    BY <2>7, <2>8 DEF UpTo, ks
<1>16. \A i \in DOMAIN stack2 : UpTo(s2, stack2[i])
  BY <1>6, <1>7, <1>13, <1>14, <1>15
<1>17. \A v \in Range(s2) \ StackNodes(stack2) : Range(committed.children[v]) \subseteq Range(s2)
  BY <1>9, <1>10 DEF Descended
<1>18. \A v \in Range(s2) : v = committed.root \/ committed.parent[v] \in Range(s2)
  BY <1>2, <1>5, <1>10 DEF Descended
<1>19. Descended(s2, stack2)
  BY <1>10, <1>11, <1>12, <1>16, <1>17, <1>18 DEF Descended
<1> QED
  BY <1>9, <1>10, <1>19 DEF s2

\* A step back up from a node whose children are all listed.
LEMMA AscendStep ==
    ASSUME LocksInv, NEW s \in Seq(Node), NEW stack \in Seq(Place), stack # <<>>,
           Descended(s, stack), NEW top, top = Last(stack),
           top.next > Len(committed.children[top.node]), NEW stack2, stack2 = Front(stack)
    PROVE  /\ top.node \in Node /\ top.node \in StackNodes(stack) /\ stack2 \in Seq(Place)
           /\ StackNodes(stack2) = StackNodes(stack) \ {top.node}
           /\ Descended(s, stack2)
<1> DEFINE m == Len(stack)
           kids == committed.children[top.node]
<1>1. /\ m \in Nat \ {0} /\ DOMAIN stack = 1 .. m /\ top = stack[m] /\ top \in Place
      /\ stack2 \in Seq(Place) /\ Len(stack2) = m - 1 /\ \A i \in 1 .. m - 1 : stack2[i] = stack[i]
  BY StackTop
<1> HIDE DEF m
<1>2. DOMAIN stack2 = 1 .. m - 1 /\ m \in 1 .. m /\ \A i \in 1 .. m : i \in 1 .. m - 1 <=> i # m
  BY <1>1
<1>3. top.node \in Node /\ top.node \in StackNodes(stack) /\ top.next \in Nat
  BY <1>1, <1>2 DEF StackNodes, Place
<1>4. \A i \in 1 .. m - 1 : i \in 1 .. m /\ i # m
  BY <1>1
<1>5. \A i \in 1 .. m - 1 : stack[i].node # top.node
  BY <1>1, <1>2, <1>4 DEF Descended
<1>6. StackNodes(stack2) = StackNodes(stack) \ {top.node}
  BY <1>1, <1>2, <1>4, <1>5 DEF StackNodes
<1>7. top.node \in committed.live /\ s # <<>>
  <2>1. top.node \in Range(s)
    BY <1>3 DEF Descended
  <2> QED
    BY <2>1 DEF Descended, Range
<1>8. kids \in Seq(Node)
  BY <1>7, Links
<1>9. Range(kids) \subseteq Range(s)
  <2>1. UpTo(s, top)
    BY <1>1, <1>2 DEF Descended
  <2>2. \A j \in DOMAIN kids : j < top.next
    BY <1>3, <1>8
  <2>3. \A j \in DOMAIN kids : kids[j] \in Range(s)
    BY <2>1, <2>2 DEF UpTo
  <2> HIDE DEF kids
  <2> QED
    BY <2>3 DEF Range
<1>10. \A v \in Range(s) \ StackNodes(stack2) : Range(committed.children[v]) \subseteq Range(s)
  BY <1>6, <1>9 DEF Descended
<1>11. \A i, j \in DOMAIN stack2 : stack2[i].node = stack2[j].node => i = j
  BY <1>1, <1>2, <1>4 DEF Descended
<1>12. \A i \in DOMAIN stack2 : UpTo(s, stack2[i])
  BY <1>1, <1>2, <1>4 DEF Descended
<1>13. Descended(s, stack2)
  BY <1>6, <1>7, <1>10, <1>11, <1>12 DEF Descended
<1> QED
  BY <1>1, <1>3, <1>6, <1>13

\* dfs_helper is entered: the node's lock is taken.
LEMMA DescendKeeps ==
    ASSUME LocksInv, NEW t \in Thread, pc[t] = "dfsScan", NEW n \in Node, NEW below, DfsEnter(t, n, below),
           NEW stack2, stack2 = Append(below, [node |-> n, next |-> 1]),
           stack2 \in Seq(Place),
           StackNodes(stack2) = StackNodes(frame[t].stack) \union {n},
           Append(frame[t].visited, n) \in Seq(Node), Descended(Append(frame[t].visited, n), stack2),
           UNCHANGED <<tree, created, treeLock, pc, calls, committed>>
    PROVE  LocksInv'
<1> DEFINE s2 == Append(frame[t].visited, n)
           f == [frame[t] EXCEPT !.visited = s2, !.stack = stack2]
<1>1. frame \in [Thread -> Frame] /\ frame[t] \in Frame /\ Len(frame[t].queue) <= QueueSize
  BY Theirs DEF LockTypes, Knows
<1>2. frame' = [frame EXCEPT ![t] = f]
  BY <1>1 DEF DfsEnter, Frame
<1> HIDE DEF s2
<1>3. f \in Frame /\ f.visited = s2 /\ f.stack = stack2 /\ f.queue = frame[t].queue
  BY <1>1 DEF Frame, s2
<1> HIDE DEF f
<1>4. frame' \in [Thread -> Frame] /\ frame'[t] = f /\ OthersStay(t)
  BY <1>2, <1>3, SetDoes, Theirs DEF OthersStay
<1>5. Descended(f.visited, f.stack)
  BY <1>3 DEF s2
<1>6. Knows(t)'
  BY <1>1, <1>3, <1>4, <1>5, DescendedStays DEF Knows
<1>7. Inside(t)' /\ Inside(t) /\ Depth(t)' = Depth(t)
  BY DEF Inside, Body, Depth
<1>8. Held(t) = StackNodes(frame[t].stack) /\ Held(t)' = StackNodes(stack2)
  BY <1>3, <1>4 DEF Held, StackNodes
<1>9. NodesHeld' /\ nodeLock' \in [Node -> Thread \union {NULL}]
  BY <1>4, <1>8, NodeTaken DEF DfsEnter
<1>10. pc' \in [Thread -> Body \union Outside]
  BY Theirs DEF LockTypes
<1> QED
  BY <1>4, <1>6, <1>7, <1>9, <1>10, Theirs, OwnerStays, QuietStep

LEMMA DfsRootKeeps ==
    ASSUME LocksInv, NEW t \in Thread, DfsRoot(t)
    PROVE  LocksInv'
<1> DEFINE r == tree.root
           stack2 == Append(<<>>, [node |-> r, next |-> 1])
<1>1. /\ pc[t] = "dfsScan" /\ frame[t].visited = <<>> /\ r # NULL /\ DfsEnter(t, r, <<>>)
      /\ UNCHANGED <<tree, created, treeLock, pc, calls, committed>>
  BY DEF DfsRoot, At
<1>2. tree = committed
  BY <1>1, PCs, SeesComplete, Theirs DEF Body
<1>3. r \in committed.live /\ r = committed.root
  BY <1>1, <1>2, Theirs DEF TP!TreeInv, TP!LinksAgree, TP!RootAgrees
<1>4. /\ r \in Node /\ committed.children[r] \in Seq(Node) /\ r \notin Range(committed.children[r])
  BY <1>3, Links
<1>5. frame[t].stack = <<>> /\ StackNodes(frame[t].stack) = {}
  BY <1>1, Theirs DEF Knows, Descended, StackNodes
<1> HIDE DEF r
<1>6. /\ stack2 = <<[node |-> r, next |-> 1]>> /\ stack2 \in Seq(Place)
      /\ DOMAIN stack2 = {1} /\ stack2[1] = [node |-> r, next |-> 1]
  <2> DEFINE e == [node |-> r, next |-> 1]
  <2>1. e \in Place
    BY <1>4 DEF Place
  <2> HIDE DEF e
  <2>2. Append(<<>>, e) = <<e>> /\ <<e>> \in Seq(Place) /\ DOMAIN <<e>> = {1} /\ <<e>>[1] = e
    BY <2>1
  <2> QED
    BY <2>2 DEF e
<1>7. Append(<<>>, r) = <<r>> /\ <<r>> \in Seq(Node) /\ <<r>> # <<>> /\ Range(<<r>>) = {r} /\ API!NoRepeat(<<r>>)
  BY <1>4 DEF Range, API!NoRepeat
<1> HIDE DEF stack2
<1>8. StackNodes(stack2) = {r}
  BY <1>6 DEF StackNodes
<1>9. UpTo(<<r>>, [node |-> r, next |-> 1])
  <2> DEFINE ks == committed.children[r]
  <2>1. \A j \in DOMAIN ks : ks[j] # r
    BY <1>4 DEF Range
  <2>2. 1 \in 1 .. Len(ks) + 1 /\ \A j \in DOMAIN ks : ~(j < 1)
    BY <1>4
  <2> QED
    BY <1>7, <2>1, <2>2 DEF UpTo
<1>10. \A v \in {r} : v = committed.root
  BY <1>3
<1>11. Descended(<<r>>, stack2)
  BY <1>3, <1>6, <1>7, <1>8, <1>9, <1>10 DEF Descended
<1> QED
  BY <1>1, <1>4, <1>5, <1>6, <1>7, <1>8, <1>11, DescendKeeps DEF stack2

LEMMA DfsChildKeeps ==
    ASSUME LocksInv, NEW t \in Thread, DfsChild(t)
    PROVE  LocksInv'
<1> DEFINE s == frame[t].stack
           top == Last(s)
           kids == committed.children[top.node]
           c == kids[top.next]
           below == Append(Front(s), [top EXCEPT !.next = @ + 1])
           stack2 == Append(below, [node |-> c, next |-> 1])
<1>1. pc[t] = "dfsScan" /\ s # <<>> /\ UNCHANGED <<tree, created, treeLock, pc, calls, committed>>
  BY DEF DfsChild, At
<1>2. tree = committed
  BY <1>1, PCs, SeesComplete, Theirs DEF Body
<1>3. top.next <= Len(kids) /\ DfsEnter(t, c, below)
  BY <1>2 DEF DfsChild
<1>4. s \in Seq(Place) /\ frame[t].visited \in Seq(Node)
  BY Theirs DEF Frame
<1>5. Descended(frame[t].visited, s)
  BY <1>1, Theirs DEF Knows
<1>6. top \in Place /\ top.next \in DOMAIN kids /\ kids \in Seq(Node)
  <2> HIDE DEF s
  <2>1. top \in Place /\ Len(s) \in 1 .. Len(s) /\ DOMAIN s = 1 .. Len(s) /\ top = s[Len(s)]
    BY <1>1, <1>4, StackTop
  <2>2. top.node \in StackNodes(s) /\ UpTo(frame[t].visited, top)
    BY <1>5, <2>1 DEF Descended, StackNodes
  <2>3. top.node \in committed.live
    BY <1>5, <2>2 DEF Descended
  <2>4. kids \in Seq(Node)
    BY <2>3, Links
  <2>5. top.next \in 1 .. Len(kids) + 1
    BY <2>2 DEF UpTo
  <2> HIDE DEF kids
  <2> QED
    BY <1>3, <2>1, <2>4, <2>5
<1>7. c \in Node
  <2> HIDE DEF kids, top
  <2> QED
    BY <1>6
<1> DEFINE a == [top EXCEPT !.next = @ + 1]
           b == [node |-> c, next |-> 1]
<1>8. a \in Place /\ a.node = top.node /\ a.next = top.next + 1 /\ b \in Place /\ b.node = c /\ b.next = 1
  <2> HIDE DEF top, c, kids, s
  <2> QED
    BY <1>6, <1>7 DEF Place
<1>9. stack2 = Append(Append(Front(s), a), b) /\ stack2 = Append(below, [node |-> c, next |-> 1])
  OBVIOUS
<1>10. top = Last(s) /\ c = committed.children[top.node][top.next] /\ top.next <= Len(committed.children[top.node])
  BY <1>3
<1> HIDE DEF s, top, c, kids, a, b, below, stack2
<1>11. Grown(stack2, s, a, b)
  <2>1. Grown(Append(Append(Front(s), a), b), s, a, b)
    BY <1>1, <1>4, <1>8, StackDown, Zenon
  <2> QED
    BY <1>9, <2>1, Zenon
<1>12. /\ StackNodes(stack2) = StackNodes(s) \union {c}
       /\ Append(frame[t].visited, c) \in Seq(Node) /\ Descended(Append(frame[t].visited, c), stack2)
  <2>1. /\ a \in Place /\ a.node = top.node /\ a.next = top.next + 1
        /\ b \in Place /\ b.node = c /\ b.next = 1
    BY <1>8
  <2> QED
    BY <1>1, <1>4, <1>5, <1>10, <1>11, <2>1, DescendStep, Zenon
<1> QED
  <2>1. stack2 \in Seq(Place) /\ stack2 = Append(below, [node |-> c, next |-> 1])
    BY <1>9, <1>11 DEF Grown
  <2> QED
    BY <1>1, <1>3, <1>7, <1>12, <2>1, DescendKeeps DEF s

LEMMA DfsLeaveKeeps ==
    ASSUME LocksInv, NEW t \in Thread, DfsLeave(t)
    PROVE  LocksInv'
<1> DEFINE s == frame[t].stack
           top == Last(s)
           f == [frame[t] EXCEPT !.stack = Front(s)]
<1>1. /\ pc[t] = "dfsScan" /\ s # <<>> /\ Release(top.node) /\ Set(t, "stack", Front(s))
      /\ UNCHANGED <<tree, created, treeLock, pc, calls, committed>>
  BY DEF DfsLeave, At
<1>2. tree = committed
  BY <1>1, PCs, SeesComplete, Theirs DEF Body
<1>3. top.next > Len(committed.children[top.node])
  BY <1>2 DEF DfsLeave
<1>4. /\ frame \in [Thread -> Frame] /\ frame[t] \in Frame /\ Len(frame[t].queue) <= QueueSize
      /\ s \in Seq(Place) /\ frame[t].visited \in Seq(Node)
  BY Theirs DEF LockTypes, Frame, Knows
<1>5. Descended(frame[t].visited, s)
  BY <1>1, Theirs DEF Knows
<1>6. /\ top.node \in Node /\ top.node \in StackNodes(s)
      /\ Front(s) \in Seq(Place)
      /\ StackNodes(Front(s)) = StackNodes(s) \ {top.node}
      /\ Descended(frame[t].visited, Front(s))
  <2> HIDE DEF s, top
  <2> QED
    BY <1>1, <1>3, <1>4, <1>5, AscendStep DEF top
<1>7. frame' = [frame EXCEPT ![t] = f]
  <2> HIDE DEF s
  <2> QED
    BY <1>1, <1>4 DEF Set, Frame
<1>8. /\ f \in Frame /\ f.stack = Front(s) /\ f.queue = frame[t].queue
      /\ f.visited = frame[t].visited
  <2> HIDE DEF s
  <2> QED
    BY <1>4, <1>6 DEF Frame
<1> HIDE DEF f, top
<1>9. frame' \in [Thread -> Frame] /\ frame'[t] = f /\ OthersStay(t)
  BY <1>1, <1>7, <1>8, SetDoes, Theirs DEF OthersStay
<1>10. Descended(f.visited, f.stack)
  BY <1>6, <1>8
<1>11. Knows(t)'
  BY <1>1, <1>4, <1>8, <1>9, <1>10, DescendedStays DEF Knows
<1>12. Inside(t)' /\ Inside(t) /\ Depth(t)' = Depth(t)
  BY <1>1 DEF Inside, Body, Depth
<1>13. Held(t) = StackNodes(s) /\ Held(t)' = StackNodes(Front(s))
  BY <1>1, <1>8, <1>9 DEF Held, StackNodes
<1>14. NodesHeld' /\ nodeLock' \in [Node -> Thread \union {NULL}]
  BY <1>1, <1>6, <1>9, <1>13, NodeGiven
<1>15. pc' \in [Thread -> Body \union Outside]
  BY <1>1, Theirs DEF LockTypes
<1> QED
  BY <1>1, <1>9, <1>11, <1>12, <1>14, <1>15, Theirs, OwnerStays, QuietStep

-----------------------------------------------------------------------------
\* The changes of the tree.

\* The operations of the two instances of PhantomTree are the same.
LEMMA SameSteps ==
    /\ API!Next <=> TP!Next
    /\ API!vars = TP!vars
    /\ API!Init <=> TP!Init
    /\ API!Overrun <=> TP!Overrun
    /\ \A d : API!RootPinned(d) <=> TP!RootPinned(d)
    /\ \A s, d : API!Unlink(s, d) = TP!Unlink(s, d)
<1>1. \A s, d : API!Slot(s, d) = TP!Slot(s, d)
  BY DEF API!Slot, TP!Slot
<1>2. \A s, d : API!Unlink(s, d) = TP!Unlink(s, d)
  BY <1>1, SameOperators DEF API!Unlink, TP!Unlink
<1>3. /\ API!Overrun <=> TP!Overrun
      /\ \A d : API!RootPinned(d) <=> TP!RootPinned(d)
  BY DEF API!Overrun, TP!Overrun, API!RootPinned, TP!RootPinned
<1>4. API!vars = TP!vars
  BY DEF API!vars, TP!vars
<1>5. API!InsertRoot <=> TP!InsertRoot
  BY <1>3 DEF API!InsertRoot, TP!InsertRoot
<1>6. \A p : API!InsertChild(p) <=> TP!InsertChild(p)
  BY <1>3 DEF API!InsertChild, TP!InsertChild, API!HasRoom, TP!HasRoom
<1>7. \A d : API!Delete(d) <=> TP!Delete(d)
  <2>1. \A d : API!ChildrenWithout(d) = TP!ChildrenWithout(d)
    BY <1>2 DEF API!ChildrenWithout, TP!ChildrenWithout
  <2>2. \A d : API!ParentsWithout(d) = TP!ParentsWithout(d)
    BY SameOperators DEF API!ParentsWithout, TP!ParentsWithout
  <2>3. \A d : API!AdminsWithout(d) = TP!AdminsWithout(d)
    BY SameOperators DEF API!AdminsWithout, TP!AdminsWithout
  <2> QED
    BY <1>3, <2>1, <2>2, <2>3 DEF API!Delete, TP!Delete
<1>8. API!Corrupted <=> TP!Corrupted
  BY <1>3, <1>4 DEF API!Corrupted, TP!Corrupted, API!vars, TP!vars
<1>9. API!Next <=> TP!Next
  BY <1>5, <1>6, <1>7, <1>8 DEF API!Next, TP!Next
<1>10. API!Init <=> TP!Init
  BY DEF API!Init, TP!Init
<1> QED
  BY <1>2, <1>3, <1>4, <1>9, <1>10

\* A call that ends with a complete change of the tree.
LEMMA CommitStep ==
    ASSUME LocksInv, NEW t \in Thread, Inside(t), Depth(t) = 1,
           tree' \in TreeRecord, committed' = tree', TP!Next,
           created' \subseteq Node, committed'.live \subseteq created',
           UnlockTree, Goto(t, "idle"), UNCHANGED <<frame, calls>>,
           (Held(t) = {} /\ UNCHANGED nodeLock)
             \/ (\E n \in Node : Held(t) = {n} /\ Release(n))
    PROVE  LocksInv'
<1>1. treeLock.owner = t /\ treeLock' = [owner |-> NULL, depth |-> 0]
  BY UnlockTreeDoes
<1>2. pc' \in [Thread -> Body \union Outside] /\ pc'[t] = "idle" /\ OthersStay(t)
  BY GotoDoes, Theirs DEF OthersStay, Outside
<1>3. ~Inside(t)' /\ Held(t)' = {}
  BY <1>2 DEF Inside, Body, Held
<1>4. Knows(t)'
  BY <1>2, Theirs DEF Knows
<1>5. OwnerInside' /\ treeLock' \in [owner : Thread \union {NULL}, depth : Nat]
  BY <1>1, <1>2, <1>3, OwnerLeaves
<1>6. NodesHeld' /\ nodeLock' \in [Node -> Thread \union {NULL}]
  <2>1. CASE Held(t) = {} /\ UNCHANGED nodeLock
    BY <1>2, <1>3, <2>1, NodesStay
  <2>2. CASE \E n \in Node : Held(t) = {n} /\ Release(n)
    <3>1. PICK n \in Node : Held(t) = {n} /\ Release(n)
      BY <2>2
    <3>2. n \in Held(t) /\ Held(t)' = Held(t) \ {n}
      BY <1>3, <3>1
    <3> QED
      BY <1>2, <3>1, <3>2, NodeGiven
  <2> QED
    BY <2>1, <2>2
<1>7. \A u \in Thread : pc'[u] # "deleteMove"
  BY <1>1, <1>2, Outsiders DEF OthersStay, Inside, Body
<1>8. TreeAgrees'
  BY <1>7 DEF TreeAgrees
<1>9. TP!TreeInv'
  BY TP!NextTree, TreeAssumptions, Theirs
<1>10. LockTypes'
  BY <1>2, <1>5, <1>6 DEF LocksInv, LockTypes
<1>11. \A u \in Thread : Knows(u)'
  BY <1>2, <1>4, OthersKnow
<1> QED
  BY <1>5, <1>6, <1>8, <1>9, <1>10, <1>11 DEF LocksInv

\* insert into an empty tree.
LEMMA InsertRootDoes ==
    ASSUME LocksInv, NEW t \in Thread, InsertRoot(t)
    PROVE  /\ tree' \in TreeRecord /\ committed' = tree' /\ TP!Next
           /\ created' \subseteq Node /\ committed'.live \subseteq created'
<1>1. pc[t] = "insertTest" /\ ~Overrun /\ tree.root = NULL
  BY DEF InsertRoot, At
<1>2. PICK n \in Node \ created :
        /\ created' = created \union {n}
        /\ Commit([tree EXCEPT !.live = {n}, !.root = n, !.totalNodes = 1,
                               !.isRoot[n] = TRUE, !.isAdmin[n] = TRUE])
  BY DEF InsertRoot
<1>3. tree = committed
  BY <1>1, PCs, SeesComplete, Theirs DEF Body
<1>4. committed \in TreeRecord /\ created \subseteq Node /\ committed.live \subseteq created
  BY Theirs DEF LockTypes
<1>5. /\ committed' = tree' /\ tree' \in TreeRecord
      /\ committed'.live = {n} /\ committed'.root = n /\ committed'.totalNodes = 1
      /\ committed'.isRoot = [committed.isRoot EXCEPT ![n] = TRUE]
      /\ committed'.isAdmin = [committed.isAdmin EXCEPT ![n] = TRUE]
      /\ committed'.parent = committed.parent /\ committed'.children = committed.children
  BY <1>2, <1>3, <1>4 DEF Commit, TreeRecord, Pointer
<1>6. committed.live = {} /\ n \notin committed.live
  BY <1>1, <1>3, Theirs DEF TP!TreeInv, TP!LinksAgree, TP!RootAgrees
<1>7. ~TP!Overrun
  BY <1>6 DEF TP!Overrun
<1>8. TP!InsertRoot
  BY <1>1, <1>2, <1>3, <1>5, <1>6, <1>7 DEF TP!InsertRoot
<1> QED
  BY <1>2, <1>4, <1>5, <1>8 DEF TP!Next

LEMMA InsertRootKeeps ==
    ASSUME LocksInv, NEW t \in Thread, InsertRoot(t)
    PROVE  LocksInv'
<1>1. pc[t] = "insertTest" /\ UnlockTree /\ Goto(t, "idle") /\ UNCHANGED <<nodeLock, frame, calls>>
  BY DEF InsertRoot, At
<1>2. Inside(t) /\ Depth(t) = 1 /\ Held(t) = {}
  BY <1>1 DEF Inside, Body, Depth, Held
<1> QED
  BY <1>1, <1>2, InsertRootDoes, CommitStep

\* insert under a node with room.
LEMMA InsertLinkDoes ==
    ASSUME LocksInv, NEW t \in Thread, InsertLink(t)
    PROVE  /\ tree' \in TreeRecord /\ committed' = tree' /\ TP!Next
           /\ created' \subseteq Node /\ committed'.live \subseteq created'
<1> DEFINE p == frame[t].found
<1>1. pc[t] = "insertLink" /\ ~Overrun /\ Len(tree.children[p]) < MaxChildren
  BY DEF InsertLink, At
<1>2. PICK n \in Node \ created :
        /\ created' = created \union {n}
        /\ Commit([tree EXCEPT !.live = @ \union {n}, !.parent[n] = p,
                               !.children[p] = Append(@, n), !.totalNodes = @ + 1])
  BY DEF InsertLink
<1>3. tree = committed
  BY <1>1, PCs, SeesComplete, Theirs DEF Body
<1>4. committed \in TreeRecord /\ created \subseteq Node /\ committed.live \subseteq created
  BY Theirs DEF LockTypes
<1>5. p \in committed.live
  BY <1>1, Theirs DEF Knows
<1>6. p \in Node /\ n \notin committed.live
  BY <1>4, <1>5, <1>2 DEF TreeRecord
<1> HIDE DEF p
<1>7. Append(committed.children[p], n) \in Seq(Node)
  BY <1>4, <1>6 DEF TreeRecord
<1> DEFINE kids == Append(committed.children[p], n)
<1>8. /\ committed' = [committed EXCEPT !.live = @ \union {n}, !.parent[n] = p,
                                        !.children[p] = kids, !.totalNodes = @ + 1]
      /\ committed' = tree'
  BY <1>2, <1>3 DEF Commit
<1>9. kids \in Seq(Node)
  BY <1>7
<1> HIDE DEF kids
<1>10. /\ committed' = tree' /\ tree' \in TreeRecord
       /\ committed'.live = committed.live \union {n} /\ committed'.root = committed.root
       /\ committed'.totalNodes = committed.totalNodes + 1
       /\ committed'.isRoot = committed.isRoot /\ committed'.isAdmin = committed.isAdmin
       /\ committed'.parent = [committed.parent EXCEPT ![n] = p]
       /\ committed'.children = [committed.children EXCEPT ![p] = kids]
  <2> DEFINE parent2 == [committed.parent EXCEPT ![n] = p]
             children2 == [committed.children EXCEPT ![p] = kids]
             live2 == committed.live \union {n}
             total2 == committed.totalNodes + 1
  <2>1. parent2 \in [Node -> Pointer]
    BY <1>4, <1>6 DEF TreeRecord, Pointer
  <2>2. children2 \in [Node -> Seq(Node)]
    BY <1>4, <1>6, <1>9 DEF TreeRecord
  <2>3. live2 \in SUBSET Node /\ total2 \in Nat
    BY <1>4 DEF TreeRecord
  <2>4. committed' = [committed EXCEPT !.live = live2, !.parent = parent2,
                                       !.children = children2, !.totalNodes = total2]
    BY <1>4, <1>8 DEF TreeRecord
  <2> HIDE DEF parent2, children2, live2, total2
  <2>5. /\ committed' \in TreeRecord
        /\ committed'.live = live2 /\ committed'.root = committed.root
        /\ committed'.totalNodes = total2
        /\ committed'.isRoot = committed.isRoot /\ committed'.isAdmin = committed.isAdmin
        /\ committed'.parent = parent2 /\ committed'.children = children2
    BY <1>4, <2>1, <2>2, <2>3, <2>4 DEF TreeRecord
  <2> QED
    BY <1>8, <2>5, Zenon DEF live2, total2, parent2, children2
<1>11. committed.root # NULL
  BY <1>5, Theirs DEF TP!TreeInv, TP!LinksAgree, TP!RootAgrees
<1>12. ~TP!Overrun /\ TP!HasRoom(p)
  BY <1>1, <1>3 DEF TP!Overrun, Overrun, TP!HasRoom, p
<1>13. TP!InsertChild(p)
  BY <1>6, <1>10, <1>11, <1>12 DEF TP!InsertChild, kids
<1> QED
  BY <1>2, <1>4, <1>5, <1>10, <1>13 DEF TP!Next

LEMMA InsertLinkKeeps ==
    ASSUME LocksInv, NEW t \in Thread, InsertLink(t)
    PROVE  LocksInv'
<1>1. /\ pc[t] = "insertLink" /\ Release(frame[t].found)
      /\ UnlockTree /\ Goto(t, "idle") /\ UNCHANGED <<frame, calls>>
  BY DEF InsertLink, At
<1>2. Inside(t) /\ Depth(t) = 1 /\ Held(t) = {frame[t].found}
  BY <1>1 DEF Inside, Body, Depth, Held
<1>3. frame[t].found \in Node
  BY <1>1, Theirs DEF Knows, TreeRecord
<1> QED
  BY <1>1, <1>2, <1>3, InsertLinkDoes, CommitStep

-----------------------------------------------------------------------------
\* Deletion.

LEMMA SubSeqGrows ==
    ASSUME NEW u \in Seq(Node), NEW s \in Seq(Node), NEW k \in 1 .. Len(s)
    PROVE  /\ u \o SubSeq(s, 1, k - 1) \in Seq(Node)
           /\ u \o SubSeq(s, 1, k) = Append(u \o SubSeq(s, 1, k - 1), s[k])
<1> DEFINE a == SubSeq(s, 1, k - 1)
           b == SubSeq(s, 1, k)
<1>1. /\ a \in Seq(Node) /\ Len(a) = k - 1 /\ \A i \in 1 .. k - 1 : a[i] = s[i]
      /\ b \in Seq(Node) /\ Len(b) = k /\ \A i \in 1 .. k : b[i] = s[i]
      /\ k \in Nat \ {0} /\ s[k] \in Node /\ Len(u) \in Nat
  OBVIOUS
<1> HIDE DEF a, b
<1> DEFINE w == u \o a
           v == u \o b
           z == Append(w, s[k])
<1>2. /\ w \in Seq(Node) /\ Len(w) = Len(u) + Len(a)
      /\ \A i \in 1 .. Len(u) + Len(a) : w[i] = IF i <= Len(u) THEN u[i] ELSE a[i - Len(u)]
  BY <1>1, ConcatProperties
<1>3. /\ v \in Seq(Node) /\ Len(v) = Len(u) + Len(b)
      /\ \A i \in 1 .. Len(u) + Len(b) : v[i] = IF i <= Len(u) THEN u[i] ELSE b[i - Len(u)]
  BY <1>1, ConcatProperties
<1> HIDE DEF w, v
<1>4. /\ z \in Seq(Node) /\ Len(z) = Len(w) + 1 /\ z[Len(w) + 1] = s[k]
      /\ \A i \in 1 .. Len(w) : z[i] = w[i]
  BY <1>1, <1>2, AppendProperties
<1> HIDE DEF z
<1>5. Len(w) = Len(u) + (k - 1) /\ Len(v) = Len(u) + k /\ Len(z) = Len(v)
  BY <1>1, <1>2, <1>3, <1>4
<1>6. ASSUME NEW i \in 1 .. Len(v)
      PROVE  v[i] = z[i]
  <2>1. CASE i <= Len(u)
    <3>1. i \in 1 .. Len(w) /\ i \in 1 .. Len(u) + Len(a) /\ i \in 1 .. Len(u) + Len(b)
      BY <1>1, <1>5, <1>6, <2>1
    <3> QED
      BY <1>2, <1>3, <1>4, <2>1, <3>1
  <2>2. CASE ~(i <= Len(u)) /\ i # Len(u) + k
    <3>1. /\ i \in 1 .. Len(w) /\ i \in 1 .. Len(u) + Len(a) /\ i \in 1 .. Len(u) + Len(b)
          /\ i - Len(u) \in 1 .. k - 1 /\ i - Len(u) \in 1 .. k
      BY <1>1, <1>5, <1>6, <2>2
    <3> QED
      BY <1>1, <1>2, <1>3, <1>4, <2>2, <3>1
  <2>3. CASE i = Len(u) + k
    <3>1. ~(i <= Len(u)) /\ i - Len(u) = k /\ k \in 1 .. k /\ i = Len(w) + 1 /\ i \in 1 .. Len(u) + Len(b)
      BY <1>1, <1>5, <1>6, <2>3
    <3>2. v[i] = b[k]
      BY <1>3, <3>1
    <3> QED
      BY <1>1, <1>4, <3>1, <3>2
  <2> QED
    BY <2>1, <2>2, <2>3
<1>7. v = z
  BY <1>3, <1>4, <1>5, <1>6, SeqEqual
<1> QED
  BY <1>2, <1>7, Zenon DEF w, v, z, a, b

LEMMA SubSeqEnds ==
    ASSUME NEW u \in Seq(Node), NEW s \in Seq(Node)
    PROVE  u \o SubSeq(s, 1, 0) = u /\ SubSeq(s, 1, Len(s)) = s
OBVIOUS

LEMMA HalfStays ==
    ASSUME UNCHANGED committed
    PROVE  \A d, k : HalfDeleted(d, k)' = HalfDeleted(d, k)
BY DEF HalfDeleted, Moved, API!Unlink, API!Slot, API!Range

\* What a thread that deletes d can rely on: a d without parent has no children.
LEMMA Deleting ==
    ASSUME LocksInv, NEW d \in committed.live, ~API!RootPinned(d)
    PROVE  /\ d \in Node /\ committed.parent[d] # d /\ d \notin Range(committed.children[d])
           /\ committed.children[d] \in Seq(Node)
           /\ committed.parent[d] = NULL => committed.children[d] = <<>>
           /\ committed.parent[d] # NULL =>
                /\ committed.parent[d] \in committed.live /\ committed.parent[d] \in Node
                /\ committed.children[committed.parent[d]] \in Seq(Node)
                /\ API!Unlink(committed.children[committed.parent[d]], d) \in Seq(Node)
<1> DEFINE p == committed.parent[d]
<1>1. /\ d \in Node /\ d # NULL /\ committed.children[d] \in Seq(Node) /\ d \notin Range(committed.children[d])
      /\ committed.root # d => p \in committed.live
      /\ p = NULL <=> d = committed.root
  BY Links
<1>2. p = NULL => committed.children[d] = <<>>
  BY <1>1 DEF LocksInv, TP!TreeInv, TP!LinksAgree, TP!RootAgrees, API!RootPinned
<1>3. ASSUME p # NULL
      PROVE  /\ p \in committed.live /\ p \in Node /\ p # d
             /\ committed.children[p] \in Seq(Node) /\ API!Unlink(committed.children[p], d) \in Seq(Node)
  <2>1. p \in committed.live
    BY <1>1, <1>3
  <2>2. /\ p \in Node /\ committed.children[p] \in Seq(Node) /\ API!NoRepeat(committed.children[p])
        /\ d \in Range(committed.children[p]) /\ p \notin Range(committed.children[p])
    BY <1>1, <2>1, Links
  <2>3. TP!Unlink(committed.children[p], d) \in Seq(Node)
    BY <2>2, TP!UnlinkRemoves, TreeAssumptions, SameOperators
  <2> QED
    BY <2>1, <2>2, <2>3, SameSteps
<1> QED
  BY <1>1, <1>2, <1>3

\* The fields of the tree while d is deleted.
LEMMA HalfFields ==
    ASSUME LocksInv, NEW d \in committed.live, ~API!RootPinned(d),
           NEW k \in 1 .. Len(committed.children[d]) + 1, NEW h, h = HalfDeleted(d, k)
    PROVE  /\ h \in TreeRecord
           /\ h.live = committed.live /\ h.totalNodes = committed.totalNodes /\ h.isRoot = committed.isRoot
           /\ h.root = IF committed.parent[d] = NULL THEN NULL ELSE committed.root
           /\ \A n \in Node : h.parent[n] = IF n \in Moved(d, k) THEN committed.parent[d] ELSE committed.parent[n]
           /\ \A n \in Node : h.isAdmin[n] = IF n \in Moved(d, k) THEN committed.isAdmin[d]
                                                                 ELSE committed.isAdmin[n]
           /\ \A n \in Node : h.children[n] = IF n = committed.parent[d]
                                              THEN API!Unlink(committed.children[n], d)
                                                     \o SubSeq(committed.children[d], 1, k - 1)
                                              ELSE committed.children[n]
<1> DEFINE p == committed.parent[d]
           parent2 == [n \in Node |-> IF n \in Moved(d, k) THEN p ELSE committed.parent[n]]
           admin2 == [n \in Node |-> IF n \in Moved(d, k) THEN committed.isAdmin[d] ELSE committed.isAdmin[n]]
           children2 == [n \in Node |-> IF n = p
                                        THEN API!Unlink(committed.children[p], d)
                                               \o SubSeq(committed.children[d], 1, k - 1)
                                        ELSE committed.children[n]]
           root2 == IF p = NULL THEN NULL ELSE committed.root
<1>1. committed \in TreeRecord /\ d \in Node
  BY Theirs, Links DEF LocksInv, LockTypes
<1>2. parent2 \in [Node -> Pointer] /\ admin2 \in [Node -> BOOLEAN] /\ root2 \in Pointer
  BY <1>1 DEF TreeRecord, Pointer
<1>3. children2 \in [Node -> Seq(Node)]
  <2> SUFFICES ASSUME NEW n \in Node
               PROVE  children2[n] \in Seq(Node)
    OBVIOUS
  <2>1. CASE n = p
    <3>1. p # NULL
      BY <2>1, DistinctAssumption
    <3>2. /\ API!Unlink(committed.children[p], d) \in Seq(Node)
          /\ committed.children[d] \in Seq(Node)
      BY <3>1, Deleting
    <3>3. SubSeq(committed.children[d], 1, k - 1) \in Seq(Node)
      BY <3>2
    <3> QED
      BY <2>1, <3>2, <3>3
  <2>2. CASE n # p
    BY <1>1, <2>2 DEF TreeRecord
  <2> QED
    BY <2>1, <2>2
<1>4. h = [committed EXCEPT !.root = root2, !.parent = parent2, !.isAdmin = admin2, !.children = children2]
  BY DEF HalfDeleted
<1>5. /\ \A n \in Node : parent2[n] = IF n \in Moved(d, k) THEN committed.parent[d] ELSE committed.parent[n]
      /\ \A n \in Node : admin2[n] = IF n \in Moved(d, k) THEN committed.isAdmin[d] ELSE committed.isAdmin[n]
      /\ \A n \in Node : children2[n] = IF n = committed.parent[d]
                                        THEN API!Unlink(committed.children[n], d)
                                               \o SubSeq(committed.children[d], 1, k - 1)
                                        ELSE committed.children[n]
  OBVIOUS
<1>6. root2 = IF committed.parent[d] = NULL THEN NULL ELSE committed.root
  OBVIOUS
<1> HIDE DEF parent2, admin2, children2, root2
<1>7. /\ h \in TreeRecord
      /\ h.live = committed.live /\ h.totalNodes = committed.totalNodes /\ h.isRoot = committed.isRoot
      /\ h.root = root2 /\ h.parent = parent2 /\ h.isAdmin = admin2 /\ h.children = children2
  BY <1>1, <1>2, <1>3, <1>4 DEF TreeRecord
<1> QED
  BY <1>5, <1>6, <1>7

\* Trees are equal if their fields are.
LEMMA SameTree ==
    ASSUME NEW x \in TreeRecord, NEW y \in TreeRecord,
           x.live = y.live, x.root = y.root, x.totalNodes = y.totalNodes, x.isRoot = y.isRoot,
           \A n \in Node : x.parent[n] = y.parent[n] /\ x.isAdmin[n] = y.isAdmin[n],
           \A n \in Node : x.children[n] = y.children[n]
    PROVE  x = y
<1>1. x.parent = y.parent /\ x.isAdmin = y.isAdmin /\ x.children = y.children
  BY DEF TreeRecord
<1> QED
  BY <1>1 DEF TreeRecord

\* A step on the way through a deletion.
LEMMA HalfStep ==
    ASSUME LocksInv, NEW t \in Thread, pc[t] \in {"deleteUnlink", "deleteMove"},
           pc' \in [Thread -> Body \union Outside], pc'[t] = "deleteMove",
           frame' \in [Thread -> Frame], OthersStay(t),
           frame'[t].found = frame[t].found, frame'[t].queue = frame[t].queue,
           NEW k, k = frame'[t].kid, k \in 1 .. Len(committed.children[frame[t].found]) + 1,
           tree' \in TreeRecord, tree' = HalfDeleted(frame[t].found, k), ~API!Overrun,
           UNCHANGED <<created, treeLock, nodeLock, calls, committed>>
    PROVE  LocksInv'
<1> DEFINE d == frame[t].found
<1>1. Inside(t) /\ Inside(t)' /\ Depth(t) = 1 /\ Depth(t)' = 1 /\ Held(t) = {d} /\ Held(t)' = {d}
  BY DEF Inside, Body, Depth, Held
<1>2. OwnerInside'
  BY <1>1, OwnerStays
<1>3. NodesHeld' /\ nodeLock' \in [Node -> Thread \union {NULL}]
  BY <1>1, NodesStay
<1>4. LockTypes'
  BY <1>3 DEF LocksInv, LockTypes
<1>5. API!RootPinned(d)' = API!RootPinned(d) /\ API!Overrun' = API!Overrun
  BY DEF API!RootPinned, API!Overrun
<1>6. d \in committed.live /\ ~API!RootPinned(d) /\ Len(frame[t].queue) <= QueueSize
  BY Theirs DEF Knows
<1>7. Knows(t)'
  BY <1>5, <1>6 DEF Knows
<1>8. \A u \in Thread \ {t} : pc'[u] # "deleteMove"
  <2>1. treeLock.owner = t
    BY <1>1, Theirs
  <2> QED
    BY <2>1, Outsiders DEF OthersStay, Inside, Body
<1>9. TreeAgrees'
  <2>1. \A e, m : HalfDeleted(e, m)' = HalfDeleted(e, m)
    BY HalfStays
  <2>2. (tree = HalfDeleted(frame[t].found, frame[t].kid))'
    BY <2>1
  <2> QED
    BY <1>8, <2>2 DEF TreeAgrees
<1>10. TP!TreeInv'
  BY DEF LocksInv, TP!TreeInv, TP!TypeOK, TP!LinksAgree, TP!FreedIsBlank, TP!ParentsAgree,
         TP!RootAgrees, TP!AllReachable, TP!AdminIsRoot, TP!CountExact
<1>11. \A u \in Thread : Knows(u)'
  BY <1>7, OthersKnow
<1> QED
  BY <1>2, <1>3, <1>4, <1>9, <1>10, <1>11 DEF LocksInv

\* What Set(t, "kid", k) does.
LEMMA KidDoes ==
    ASSUME LocksInv, NEW t \in Thread, NEW k \in Nat, Set(t, "kid", k)
    PROVE  /\ frame' \in [Thread -> Frame] /\ \A u \in Thread \ {t} : frame'[u] = frame[u]
           /\ frame'[t].kid = k /\ frame'[t].found = frame[t].found /\ frame'[t].queue = frame[t].queue
<1>1. frame[t] \in Frame
  BY Theirs
<1> DEFINE f == [frame[t] EXCEPT !.kid = k]
<1>2. f \in Frame
  BY <1>1 DEF Frame
<1>3. frame' = [frame EXCEPT ![t] = f]
  BY <1>1 DEF Set, Frame
<1>4. f.kid = k /\ f.found = frame[t].found /\ f.queue = frame[t].queue
  BY <1>1 DEF Frame
<1> HIDE DEF f
<1> QED
  BY <1>2, <1>3, <1>4, SetDoes, Theirs

LEMMA DeleteUnlinkKeeps ==
    ASSUME LocksInv, NEW t \in Thread, DeleteUnlink(t)
    PROVE  LocksInv'
<1> DEFINE d == frame[t].found
           p == committed.parent[d]
           h == HalfDeleted(d, 1)
<1>1. /\ pc[t] = "deleteUnlink" /\ ~Overrun /\ Set(t, "kid", 1) /\ Goto(t, "deleteMove")
      /\ UNCHANGED <<created, treeLock, nodeLock, calls, committed>>
  BY DEF DeleteUnlink, At, BetweenLoops
<1>2. tree = committed
  BY <1>1, PCs, SeesComplete, Theirs DEF Body
<1>3. d \in committed.live /\ ~API!RootPinned(d) /\ ~API!Overrun
  BY <1>1, <1>2, Theirs DEF Knows, Overrun, API!Overrun
<1>4. tree' = IF p = NULL THEN [committed EXCEPT !.root = NULL]
              ELSE [committed EXCEPT !.children[p] = API!Unlink(@, d)]
  BY <1>2 DEF DeleteUnlink
<1>5. committed \in TreeRecord
  BY Theirs
<1>6. /\ committed.children[d] \in Seq(Node) /\ 1 \in 1 .. Len(committed.children[d]) + 1
      /\ p # NULL => p \in Node /\ API!Unlink(committed.children[p], d) \in Seq(Node)
  BY <1>3, Deleting
<1> DEFINE unlinked == API!Unlink(committed.children[p], d)
<1> HIDE DEF d, h
<1>7. Moved(d, 1) = {}
  BY DEF Moved
<1>8. /\ h \in TreeRecord
      /\ h.live = committed.live /\ h.totalNodes = committed.totalNodes /\ h.isRoot = committed.isRoot
      /\ h.root = IF p = NULL THEN NULL ELSE committed.root
      /\ \A n \in Node : h.parent[n] = committed.parent[n]
      /\ \A n \in Node : h.isAdmin[n] = committed.isAdmin[n]
      /\ \A n \in Node : h.children[n] = IF n = p
                                         THEN API!Unlink(committed.children[n], d)
                                                \o SubSeq(committed.children[d], 1, 1 - 1)
                                         ELSE committed.children[n]
  BY <1>3, <1>6, <1>7, HalfFields DEF h
<1>9. p # NULL => unlinked \o SubSeq(committed.children[d], 1, 1 - 1) = unlinked
  BY <1>6, SubSeqEnds
<1>10. tree' \in TreeRecord /\ tree' = h
  <2>1. CASE p = NULL
    <3>1. tree' = [committed EXCEPT !.root = NULL]
      BY <1>4, <2>1
    <3>2. /\ tree' \in TreeRecord /\ tree'.live = committed.live /\ tree'.root = NULL
          /\ tree'.totalNodes = committed.totalNodes /\ tree'.isRoot = committed.isRoot
          /\ tree'.parent = committed.parent /\ tree'.isAdmin = committed.isAdmin
          /\ tree'.children = committed.children
      BY <1>5, <3>1 DEF TreeRecord, Pointer
    <3>3. \A n \in Node : h.children[n] = committed.children[n]
      BY <1>8, <2>1, DistinctAssumption
    <3> QED
      BY <1>8, <2>1, <3>2, <3>3, SameTree
  <2>2. CASE p # NULL
    <3> DEFINE children2 == [committed.children EXCEPT ![p] = unlinked]
    <3>1. p \in Node /\ unlinked \in Seq(Node)
      BY <1>6, <2>2
    <3>2. \A n \in Node : h.children[n] = IF n = p THEN unlinked ELSE committed.children[n]
      BY <1>8, <1>9, <2>2
    <3>3. tree' = [committed EXCEPT !.children[p] = unlinked]
      BY <1>4, <2>2
    <3> HIDE DEF unlinked, p
    <3>4. tree' = [committed EXCEPT !.children = children2]
      BY <1>5, <3>3 DEF TreeRecord
    <3>5. /\ children2 \in [Node -> Seq(Node)]
          /\ \A n \in Node : children2[n] = IF n = p THEN unlinked ELSE committed.children[n]
      BY <1>5, <3>1 DEF TreeRecord
    <3> HIDE DEF children2
    <3>6. /\ tree' \in TreeRecord /\ tree'.live = committed.live /\ tree'.root = committed.root
          /\ tree'.totalNodes = committed.totalNodes /\ tree'.isRoot = committed.isRoot
          /\ tree'.parent = committed.parent /\ tree'.isAdmin = committed.isAdmin
          /\ tree'.children = children2
      BY <1>5, <3>4, <3>5 DEF TreeRecord
    <3>7. \A n \in Node : tree'.children[n] = h.children[n]
      BY <3>2, <3>5, <3>6
    <3>8. \A n \in Node : tree'.parent[n] = h.parent[n] /\ tree'.isAdmin[n] = h.isAdmin[n]
      BY <1>8, <3>6
    <3>9. tree'.live = h.live /\ tree'.root = h.root /\ tree'.totalNodes = h.totalNodes /\ tree'.isRoot = h.isRoot
      BY <1>8, <2>2, <3>6
    <3> QED
      BY <1>8, <3>6, <3>7, <3>8, <3>9, SameTree
  <2> QED
    BY <2>1, <2>2
<1>11. /\ frame' \in [Thread -> Frame] /\ \A u \in Thread \ {t} : frame'[u] = frame[u]
       /\ frame'[t].kid = 1 /\ frame'[t].found = frame[t].found /\ frame'[t].queue = frame[t].queue
  BY <1>1, KidDoes
<1>12. pc' \in [Thread -> Body \union Outside] /\ pc'[t] = "deleteMove" /\ OthersStay(t)
  BY <1>1, <1>11, GotoDoes, Theirs DEF OthersStay, Body
<1> QED
  BY <1>1, <1>3, <1>6, <1>10, <1>11, <1>12, HalfStep DEF d, h

LEMMA DeleteMoveKeeps ==
    ASSUME LocksInv, NEW t \in Thread, DeleteMove(t)
    PROVE  LocksInv'
<1> DEFINE d == frame[t].found
           k == frame[t].kid
           p == committed.parent[d]
           kids == committed.children[d]
           c == kids[k]
           h1 == HalfDeleted(d, k)
           h2 == HalfDeleted(d, k + 1)
<1>1. /\ pc[t] = "deleteMove" /\ k <= Len(tree.children[d]) /\ Set(t, "kid", k + 1)
      /\ UNCHANGED <<created, treeLock, nodeLock, pc, calls, committed>>
  BY DEF DeleteMove, At
<1>2. d \in committed.live /\ ~API!RootPinned(d) /\ ~API!Overrun /\ k \in 1 .. Len(kids) + 1
  BY <1>1, Theirs DEF Knows
<1>3. tree = h1
  BY <1>1 DEF LocksInv, TreeAgrees
<1>4. /\ d \in Node /\ p # d /\ kids \in Seq(Node) /\ d \notin Range(kids)
      /\ p = NULL => kids = <<>>
      /\ p # NULL => p \in Node /\ API!Unlink(committed.children[p], d) \in Seq(Node)
  BY <1>2, Deleting
<1>5. d \notin Moved(d, k)
  <2>1. \A i \in 1 .. k - 1 : i \in DOMAIN kids /\ kids[i] # d
    BY <1>2, <1>4 DEF Range
  <2> QED
    BY <2>1 DEF Moved
<1> HIDE DEF h1, h2, d, k
<1>6. /\ h1 \in TreeRecord
      /\ h1.live = committed.live /\ h1.totalNodes = committed.totalNodes /\ h1.isRoot = committed.isRoot
      /\ h1.root = IF p = NULL THEN NULL ELSE committed.root
      /\ \A n \in Node : h1.parent[n] = IF n \in Moved(d, k) THEN p ELSE committed.parent[n]
      /\ \A n \in Node : h1.isAdmin[n] = IF n \in Moved(d, k) THEN committed.isAdmin[d] ELSE committed.isAdmin[n]
      /\ \A n \in Node : h1.children[n] = IF n = p
                                          THEN API!Unlink(committed.children[n], d) \o SubSeq(kids, 1, k - 1)
                                          ELSE committed.children[n]
  BY <1>2, HalfFields DEF h1
<1>7. tree.parent[d] = p /\ tree.children[d] = kids /\ tree.isAdmin[d] = committed.isAdmin[d]
  BY <1>3, <1>4, <1>5, <1>6
<1>8. k \in 1 .. Len(kids) /\ k + 1 \in 1 .. Len(kids) + 1 /\ k + 1 \in Nat
  BY <1>1, <1>2, <1>4, <1>7 DEF d, k
<1>9. c \in Node /\ p \in Node /\ p # NULL
  BY <1>4, <1>8, DistinctAssumption
<1>10. tree' = [tree EXCEPT !.parent[c] = p, !.isAdmin[c] = committed.isAdmin[d],
                            !.children[p] = Append(@, c)]
  BY <1>7, <1>9 DEF DeleteMove, d, k
<1>11. /\ h2 \in TreeRecord
       /\ h2.live = committed.live /\ h2.totalNodes = committed.totalNodes /\ h2.isRoot = committed.isRoot
       /\ h2.root = IF p = NULL THEN NULL ELSE committed.root
       /\ \A n \in Node : h2.parent[n] = IF n \in Moved(d, k + 1) THEN p ELSE committed.parent[n]
       /\ \A n \in Node : h2.isAdmin[n] = IF n \in Moved(d, k + 1) THEN committed.isAdmin[d]
                                                                   ELSE committed.isAdmin[n]
       /\ \A n \in Node : h2.children[n] = IF n = p
                                           THEN API!Unlink(committed.children[n], d)
                                                  \o SubSeq(kids, 1, (k + 1) - 1)
                                           ELSE committed.children[n]
  BY <1>2, <1>8, HalfFields DEF h2
<1>12. \A n : n \in Moved(d, k + 1) <=> n \in Moved(d, k) \/ n = c
  <2>1. \A i : i \in 1 .. (k + 1) - 1 <=> i \in 1 .. k - 1 \/ i = k
    BY <1>8
  <2> QED
    BY <2>1 DEF Moved
<1>13. /\ API!Unlink(committed.children[p], d) \o SubSeq(kids, 1, k - 1) \in Seq(Node)
       /\ API!Unlink(committed.children[p], d) \o SubSeq(kids, 1, (k + 1) - 1)
            = Append(API!Unlink(committed.children[p], d) \o SubSeq(kids, 1, k - 1), c)
  <2>1. (k + 1) - 1 = k
    BY <1>8
  <2> DEFINE u == API!Unlink(committed.children[p], d)
  <2>2. u \in Seq(Node) /\ kids \in Seq(Node) /\ k \in 1 .. Len(kids)
    BY <1>4, <1>8, <1>9
  <2> HIDE DEF u, kids
  <2>3. /\ u \o SubSeq(kids, 1, k - 1) \in Seq(Node)
        /\ u \o SubSeq(kids, 1, k) = Append(u \o SubSeq(kids, 1, k - 1), kids[k])
    BY <2>2, SubSeqGrows, Zenon
  <2> QED
    BY <2>1, <2>3, Zenon DEF u
<1> HIDE DEF c, p, kids
<1>14. h1.children[p] \in Seq(Node) /\ h2.children[p] = Append(h1.children[p], c)
  BY <1>6, <1>9, <1>11, <1>13
<1>15. \A n \in Node : n # p => h2.children[n] = h1.children[n]
  BY <1>6, <1>11
<1>16. \A n \in Node : /\ h2.parent[n] = IF n = c THEN p ELSE h1.parent[n]
                       /\ h2.isAdmin[n] = IF n = c THEN committed.isAdmin[d] ELSE h1.isAdmin[n]
  BY <1>6, <1>11, <1>12
<1>17. h2.live = h1.live /\ h2.totalNodes = h1.totalNodes /\ h2.isRoot = h1.isRoot /\ h2.root = h1.root
  BY <1>6, <1>11
<1>18. tree' \in TreeRecord /\ tree' = h2
  <2> DEFINE parent2 == [h1.parent EXCEPT ![c] = p]
             admin2 == [h1.isAdmin EXCEPT ![c] = committed.isAdmin[d]]
             children2 == [h1.children EXCEPT ![p] = Append(h1.children[p], c)]
             all2 == Append(h1.children[p], c)
  <2>1. /\ parent2 \in [Node -> Pointer] /\ \A n \in Node : parent2[n] = h2.parent[n]
    BY <1>6, <1>9, <1>16 DEF TreeRecord, Pointer
  <2>2. /\ admin2 \in [Node -> BOOLEAN] /\ \A n \in Node : admin2[n] = h2.isAdmin[n]
    <3>1. committed.isAdmin[d] \in BOOLEAN
      BY <1>4, Theirs DEF TreeRecord
    <3> QED
      BY <1>6, <1>9, <1>16, <3>1 DEF TreeRecord
  <2>3. all2 \in Seq(Node) /\ all2 = h2.children[p]
    BY <1>9, <1>14
  <2>4. children2 = [h1.children EXCEPT ![p] = all2]
    OBVIOUS
  <2> HIDE DEF all2, children2
  <2>5. children2 \in [Node -> Seq(Node)] /\ \A n \in Node : children2[n] = h2.children[n]
    BY <1>6, <1>9, <1>15, <2>3, <2>4 DEF TreeRecord
  <2>6. tree' = [h1 EXCEPT !.parent = parent2, !.isAdmin = admin2, !.children = children2]
    BY <1>3, <1>6, <1>10 DEF TreeRecord, children2
  <2> HIDE DEF parent2, admin2
  <2>7. /\ tree' \in TreeRecord
        /\ tree'.live = h1.live /\ tree'.totalNodes = h1.totalNodes /\ tree'.isRoot = h1.isRoot
        /\ tree'.root = h1.root
        /\ tree'.parent = parent2 /\ tree'.isAdmin = admin2 /\ tree'.children = children2
    BY <1>6, <2>1, <2>2, <2>5, <2>6 DEF TreeRecord
  <2>8. \A n \in Node : tree'.parent[n] = h2.parent[n] /\ tree'.isAdmin[n] = h2.isAdmin[n]
    BY <2>1, <2>2, <2>7
  <2>9. \A n \in Node : tree'.children[n] = h2.children[n]
    BY <2>5, <2>7
  <2>10. tree'.live = h2.live /\ tree'.root = h2.root /\ tree'.totalNodes = h2.totalNodes /\ tree'.isRoot = h2.isRoot
    BY <1>17, <2>7
  <2> QED
    BY <1>11, <2>7, <2>8, <2>9, <2>10, SameTree
<1>19. /\ frame' \in [Thread -> Frame] /\ \A u \in Thread \ {t} : frame'[u] = frame[u]
       /\ frame'[t].kid = k + 1 /\ frame'[t].found = d /\ frame'[t].queue = frame[t].queue
  BY <1>1, <1>8, KidDoes DEF d
<1>20. pc' \in [Thread -> Body \union Outside] /\ pc'[t] = "deleteMove" /\ OthersStay(t)
  BY <1>1, <1>19, Theirs DEF LockTypes, OthersStay
<1> QED
  BY <1>1, <1>2, <1>8, <1>18, <1>19, <1>20, HalfStep DEF d, h2, kids

\* The node is freed: the whole deletion is the atomic one.
LEMMA DeleteFreeDoes ==
    ASSUME LocksInv, NEW t \in Thread, DeleteFree(t)
    PROVE  /\ tree' \in TreeRecord /\ committed' = tree' /\ TP!Next
           /\ created' \subseteq Node /\ committed'.live \subseteq created'
<1> DEFINE d == frame[t].found
           k == frame[t].kid
           p == committed.parent[d]
           kids == committed.children[d]
           h == HalfDeleted(d, k)
<1>1. /\ pc[t] = "deleteMove" /\ k > Len(tree.children[d]) /\ created' = created
      /\ Commit([tree EXCEPT !.live = @ \ {d}, !.totalNodes = @ - 1,
                             !.parent[d] = NULL, !.children[d] = <<>>,
                             !.isRoot[d] = FALSE, !.isAdmin[d] = FALSE])
  BY DEF DeleteFree, At, LoopDone
<1>2. d \in committed.live /\ ~API!RootPinned(d) /\ ~API!Overrun /\ k \in 1 .. Len(kids) + 1
  BY <1>1, Theirs DEF Knows
<1>3. tree = h
  BY <1>1 DEF LocksInv, TreeAgrees
<1>4. /\ d \in Node /\ p # d /\ kids \in Seq(Node) /\ d \notin Range(kids)
      /\ p # NULL => p \in Node /\ API!Unlink(committed.children[p], d) \in Seq(Node)
  BY <1>2, Deleting
<1>5. committed \in TreeRecord /\ created \subseteq Node /\ committed.live \subseteq created
  BY Theirs DEF LockTypes
<1> HIDE DEF h, d, k
<1>6. /\ h \in TreeRecord
      /\ h.live = committed.live /\ h.totalNodes = committed.totalNodes /\ h.isRoot = committed.isRoot
      /\ h.root = IF p = NULL THEN NULL ELSE committed.root
      /\ \A n \in Node : h.parent[n] = IF n \in Moved(d, k) THEN p ELSE committed.parent[n]
      /\ \A n \in Node : h.isAdmin[n] = IF n \in Moved(d, k) THEN committed.isAdmin[d] ELSE committed.isAdmin[n]
      /\ \A n \in Node : h.children[n] = IF n = p
                                         THEN API!Unlink(committed.children[n], d) \o SubSeq(kids, 1, k - 1)
                                         ELSE committed.children[n]
  BY <1>2, HalfFields DEF h
<1>7. tree.children[d] = kids
  BY <1>3, <1>4, <1>6
<1>8. k - 1 = Len(kids)
  <2>1. k > Len(tree.children[d])
    BY <1>1
  <2>2. k > Len(kids)
    BY <1>7, <2>1
  <2>3. Len(kids) \in Nat
    BY <1>4
  <2> QED
    BY <1>2, <2>2, <2>3
<1>9. SubSeq(kids, 1, k - 1) = kids
  BY <1>4, <1>8, SubSeqEnds
<1>10. Moved(d, k) = Range(kids)
  <2>1. DOMAIN kids = 1 .. k - 1
    BY <1>4, <1>8
  <2> QED
    BY <2>1 DEF Moved, Range
<1>11. committed.totalNodes - 1 \in Nat
  <2>1. IsFiniteSet(committed.live) /\ committed.totalNodes = Cardinality(committed.live)
    BY SameOperators, Theirs DEF TP!TreeInv, TP!CountExact
  <2>2. Cardinality(committed.live) \in Nat \ {0}
    BY <1>2, <2>1, FS_EmptySet, FS_CardinalityType
  <2> QED
    BY <2>1, <2>2
<1> HIDE DEF p, kids
<1> DEFINE live2 == h.live \ {d}
           total2 == h.totalNodes - 1
           parent2 == [h.parent EXCEPT ![d] = NULL]
           children2 == [h.children EXCEPT ![d] = <<>>]
           root2 == [h.isRoot EXCEPT ![d] = FALSE]
           admin2 == [h.isAdmin EXCEPT ![d] = FALSE]
<1>12. /\ committed' = tree'
       /\ committed' = [h EXCEPT !.live = live2, !.totalNodes = total2, !.parent = parent2,
                                 !.children = children2, !.isRoot = root2, !.isAdmin = admin2]
  <2>1. /\ committed' = tree'
        /\ committed' = [h EXCEPT !.live = @ \ {d}, !.totalNodes = @ - 1,
                                  !.parent[d] = NULL, !.children[d] = <<>>,
                                  !.isRoot[d] = FALSE, !.isAdmin[d] = FALSE]
    BY <1>1, <1>3 DEF Commit, d
  <2> QED
    BY <1>6, <2>1 DEF TreeRecord
<1>13. /\ live2 \in SUBSET Node /\ total2 \in Nat /\ parent2 \in [Node -> Pointer]
       /\ root2 \in [Node -> BOOLEAN] /\ admin2 \in [Node -> BOOLEAN]
  BY <1>4, <1>6, <1>11 DEF TreeRecord, Pointer
<1>14. children2 \in [Node -> Seq(Node)]
  BY <1>4, <1>6 DEF TreeRecord
<1>15. /\ \A n \in Node : parent2[n] = IF n = d THEN NULL ELSE h.parent[n]
       /\ \A n \in Node : admin2[n] = IF n = d THEN FALSE ELSE h.isAdmin[n]
       /\ root2 = [committed.isRoot EXCEPT ![d] = FALSE]
       /\ live2 = committed.live \ {d} /\ total2 = committed.totalNodes - 1
  BY <1>6 DEF TreeRecord
<1>16. \A n \in Node : children2[n] = IF n = d THEN <<>> ELSE h.children[n]
  BY <1>6 DEF TreeRecord
<1> HIDE DEF live2, total2, parent2, children2, root2, admin2
<1>17. /\ committed' \in TreeRecord
       /\ committed'.live = live2 /\ committed'.totalNodes = total2 /\ committed'.parent = parent2
       /\ committed'.children = children2 /\ committed'.isRoot = root2 /\ committed'.isAdmin = admin2
       /\ committed'.root = h.root
  BY <1>6, <1>12, <1>13, <1>14 DEF TreeRecord
<1>18. ~TP!Overrun /\ ~TP!RootPinned(d)
  BY <1>2, SameSteps
<1>19. committed'.children = TP!ChildrenWithout(d)
  <2>1. \A n \in Node : children2[n] = IF n = d THEN <<>>
                                       ELSE IF n = p THEN API!Unlink(committed.children[n], d) \o kids
                                       ELSE committed.children[n]
    BY <1>6, <1>9, <1>16
  <2>2. TP!ChildrenWithout(d) =
          [n \in Node |-> IF n = d THEN <<>>
                          ELSE IF n = p THEN TP!Unlink(committed.children[n], d) \o kids
                          ELSE committed.children[n]]
    BY <1>4 DEF TP!ChildrenWithout, p, kids
  <2>3. \A n \in Node : TP!ChildrenWithout(d)[n] = children2[n]
    BY <2>1, <2>2, SameSteps
  <2>4. children2 = TP!ChildrenWithout(d)
    BY <1>14, <2>2, <2>3
  <2> QED
    BY <1>17, <2>4
<1>20. committed'.parent = TP!ParentsWithout(d)
  <2>1. \A n \in Node : parent2[n] = IF n = d THEN NULL ELSE IF n \in Range(kids) THEN p ELSE committed.parent[n]
    BY <1>6, <1>10, <1>15
  <2>2. TP!ParentsWithout(d) =
          [n \in Node |-> IF n = d THEN NULL ELSE IF n \in Range(kids) THEN p ELSE committed.parent[n]]
    BY <1>4, SameOperators DEF TP!ParentsWithout, p, kids
  <2> QED
    BY <1>13, <1>17, <2>1, <2>2
<1>21. committed'.isAdmin = TP!AdminsWithout(d)
  <2>1. \A n \in Node : admin2[n] = IF n = d THEN FALSE
                                    ELSE IF n \in Range(kids) THEN committed.isAdmin[d] ELSE committed.isAdmin[n]
    BY <1>6, <1>10, <1>15
  <2>2. TP!AdminsWithout(d) =
          [n \in Node |-> IF n = d THEN FALSE
                          ELSE IF n \in Range(kids) THEN committed.isAdmin[d] ELSE committed.isAdmin[n]]
    BY <1>4, SameOperators DEF TP!AdminsWithout, kids
  <2> QED
    BY <1>13, <1>17, <2>1, <2>2
<1>22. TP!Delete(d)
  BY <1>6, <1>15, <1>17, <1>18, <1>19, <1>20, <1>21 DEF TP!Delete, p
<1>23. TP!Next
  BY <1>2, <1>22 DEF TP!Next
<1> QED
  BY <1>1, <1>5, <1>12, <1>15, <1>17, <1>23

LEMMA DeleteFreeKeeps ==
    ASSUME LocksInv, NEW t \in Thread, DeleteFree(t)
    PROVE  LocksInv'
<1>1. /\ pc[t] = "deleteMove" /\ Release(frame[t].found)
      /\ UnlockTree /\ Goto(t, "idle") /\ UNCHANGED <<frame, calls>>
  BY DEF DeleteFree, At
<1>2. Inside(t) /\ Depth(t) = 1 /\ Held(t) = {frame[t].found}
  BY <1>1 DEF Inside, Body, Depth, Held
<1>3. frame[t].found \in Node
  BY <1>1, Theirs DEF Knows, TreeRecord
<1> QED
  BY <1>1, <1>2, <1>3, DeleteFreeDoes, CommitStep

-----------------------------------------------------------------------------
\* Only the links change before the node is freed.
LEMMA SameLive ==
    ASSUME LocksInv
    PROVE  tree.live = committed.live
<1>1. CASE \A t \in Thread : pc[t] # "deleteMove"
  BY <1>1 DEF LocksInv, TreeAgrees
<1>2. CASE \E t \in Thread : pc[t] = "deleteMove"
  <2>1. PICK t \in Thread : pc[t] = "deleteMove"
    BY <1>2
  <2> DEFINE d == frame[t].found
             k == frame[t].kid
  <2>2. tree = HalfDeleted(d, k)
    BY <2>1 DEF LocksInv, TreeAgrees
  <2>3. d \in committed.live /\ ~API!RootPinned(d) /\ k \in 1 .. Len(committed.children[d]) + 1
    BY <2>1 DEF LocksInv, Knows
  <2> QED
    BY <2>2, <2>3, HalfFields
<1> QED
  BY <1>1, <1>2

-----------------------------------------------------------------------------
\* The invariant holds.

LEMMA InitLocks == Init => LocksInv
<1> SUFFICES ASSUME Init
             PROVE  LocksInv
  OBVIOUS
<1> USE DEF Init
<1>1. BlankTree \in TreeRecord
  BY DEF BlankTree, TreeRecord, Pointer
<1>2. NewFrame("none", NULL, NULL) \in Frame
  <2>1. <<>> \in Seq(Node) /\ <<>> \in Seq(Place) /\ 1 \in Nat /\ NULL \in Pointer
    BY DEF Pointer
  <2> QED
    BY <2>1 DEF NewFrame, Frame, Return
<1>3. LockTypes
  BY <1>1, <1>2, BoundsAssumption DEF LockTypes, Outside, BlankTree
<1>4. \A t \in Thread : ~Inside(t) /\ Held(t) = {} /\ pc[t] = "idle" /\ frame[t].queue = <<>>
  BY DEF Inside, Body, Held, NewFrame
<1>5. OwnerInside
  BY <1>4, DistinctAssumption DEF OwnerInside
<1>6. NodesHeld
  BY <1>4, DistinctAssumption DEF NodesHeld
<1>7. TreeAgrees
  BY <1>4 DEF TreeAgrees
<1>8. TP!TreeInv
  <2>1. TP!Init
    BY DEF TP!Init, BlankTree
  <2> QED
    BY <2>1, TP!InitTree, TreeAssumptions
<1>9. \A t \in Thread : Knows(t)
  BY <1>4, BoundsAssumption DEF Knows
<1> QED
  BY <1>3, <1>5, <1>6, <1>7, <1>8, <1>9 DEF LocksInv

LEMMA StutterKeeps ==
    ASSUME LocksInv, UNCHANGED vars
    PROVE  LocksInv'
<1>1. UNCHANGED <<tree, created, treeLock, nodeLock, pc, frame, calls, committed>>
  BY DEF vars
<1>2. LockTypes'
  BY <1>1 DEF LocksInv, LockTypes
<1>3. OwnerInside'
  BY <1>1 DEF LocksInv, OwnerInside, Inside, Nested, Depth
<1>4. NodesHeld'
  BY <1>1 DEF LocksInv, NodesHeld, Held
<1>5. TreeAgrees'
  BY <1>1, HalfStays DEF LocksInv, TreeAgrees
<1>6. TP!TreeInv'
  <2>1. UNCHANGED TP!vars
    BY <1>1 DEF TP!vars
  <2> QED
    BY <2>1, TP!NextTree, TreeAssumptions DEF LocksInv
<1>7. ASSUME NEW t \in Thread
      PROVE  Knows(t)'
  <2>1. Knows(t) /\ pc'[t] = pc[t] /\ frame'[t] = frame[t]
    BY <1>1 DEF LocksInv
  <2>2. /\ \A V, q : Scanned(V, q)' = Scanned(V, q)
        /\ \A s, stack : Descended(s, stack)' = Descended(s, stack)
    BY <1>1, ScannedStays, DescendedStays
  <2>3. /\ \A d : API!RootPinned(d)' = API!RootPinned(d)
        /\ API!Overrun' = API!Overrun
    BY <1>1 DEF API!RootPinned, API!Overrun
  <2> QED
    BY <1>1, <2>1, <2>2, <2>3 DEF Knows
<1> QED
  BY <1>2, <1>3, <1>4, <1>5, <1>6, <1>7 DEF LocksInv

LEMMA NextLocks == LocksInv /\ [Next]_vars => LocksInv'
<1> SUFFICES ASSUME LocksInv, [Next]_vars
             PROVE  LocksInv'
  OBVIOUS
<1>1. ASSUME NEW t \in Thread, Call(t)
      PROVE  LocksInv'
  BY <1>1, CallKeeps
<1>2. ASSUME NEW t \in Thread, FindLock(t) \/ FindVisit(t) \/ FindNothing(t)
      PROVE  LocksInv'
  BY <1>2, FindLockKeeps, FindVisitKeeps, FindNothingKeeps
<1>3. ASSUME NEW t \in Thread,
             \/ InsertLock(t) \/ InsertRefused(t) \/ InsertRoot(t) \/ InsertSeek(t)
             \/ InsertHold(t) \/ InsertFails(t) \/ InsertLink(t)
      PROVE  LocksInv'
  BY <1>3, InsertOrDeleteLockKeeps, RefusalKeeps, InsertRootKeeps, InsertSeekKeeps, InsertHoldKeeps,
     InsertFailsKeeps, InsertLinkKeeps
<1>4. ASSUME NEW t \in Thread,
             \/ DeleteLock(t) \/ DeleteSeek(t) \/ DeleteNothing(t) \/ DeleteHold(t)
             \/ DeleteUnlink(t) \/ DeleteMove(t) \/ DeleteFree(t)
      PROVE  LocksInv'
  BY <1>4, InsertOrDeleteLockKeeps, RefusalKeeps, DeleteSeekKeeps, DeleteHoldKeeps, DeleteUnlinkKeeps,
     DeleteMoveKeeps, DeleteFreeKeeps
<1>5. ASSUME NEW t \in Thread,
             \/ BfsLock(t) \/ BfsVisit(t) \/ DfsLock(t) \/ DfsRoot(t) \/ DfsChild(t) \/ DfsLeave(t)
             \/ TraversalEnd(t)
      PROVE  LocksInv'
  BY <1>5, BfsLockKeeps, BfsVisitKeeps, DfsLockKeeps, DfsRootKeeps, DfsChildKeeps, DfsLeaveKeeps,
     RefusalKeeps
<1>6. ASSUME NEW t \in Thread, MessageFrom(t) \/ MessageTo(t)
      PROVE  LocksInv'
  BY <1>6, MessageKeeps
<1>7. CASE UNCHANGED vars
  BY <1>7, StutterKeeps
<1> QED
  BY <1>1, <1>2, <1>3, <1>4, <1>5, <1>6, <1>7 DEF Next, Step, Stopped

\* The invariant of the calls of phantomid.c, lock by lock.
THEOREM LocksCorrect == Spec => []LocksInv
BY InitLocks, NextLocks, PTL DEF Spec

-----------------------------------------------------------------------------
\* What the invariant gives.

\* The variables keep the types of the C structures, and tree_lock is held at
\* most twice.
THEOREM TypeCorrect == Spec => []TypeOK
<1>1. ASSUME LocksInv
      PROVE  TypeOK
  <2> USE <1>1
  <2>1. /\ tree \in TreeRecord /\ committed \in TreeRecord
        /\ created \subseteq Node /\ committed.live \subseteq created
        /\ treeLock \in [owner : Thread \union {NULL}, depth : Nat]
        /\ nodeLock \in [Node -> Thread \union {NULL}] /\ calls \in 0 .. MaxCalls
        /\ frame \in [Thread -> Frame]
    BY DEF LocksInv, LockTypes
  <2>2. tree.live \subseteq created
    BY <2>1, SameLive
  <2>3. \A n \in Node : Range(tree.children[n]) \subseteq Node
    BY <2>1 DEF TreeRecord, Range
  <2>4. treeLock.depth \in 0 .. 2
    BY DEF LocksInv, OwnerInside, Depth
  <2>5. \A t \in Thread : /\ frame[t].queue \in Seq(Node) /\ Len(frame[t].queue) <= QueueSize
                          /\ frame[t].found \in Pointer
    BY <2>1 DEF LocksInv, Knows, Frame
  <2> QED
    BY <2>1, <2>2, <2>3, <2>4, <2>5 DEF TypeOK, TreeRecord
<1> QED
  BY <1>1, LocksCorrect, PTL

\* No call unlocks the tree in the middle of its changes.
THEOREM CompleteCorrect == Spec => []CompleteWhenUnlocked
<1>1. ASSUME LocksInv, treeLock.owner = NULL
      PROVE  tree = committed
  <2>1. \A t \in Thread : pc[t] # "deleteMove"
    BY <1>1, DistinctAssumption DEF LocksInv, OwnerInside, Inside, Body
  <2> QED
    BY <1>1, <2>1 DEF LocksInv, TreeAgrees
<1>2. LocksInv => CompleteWhenUnlocked
  BY <1>1 DEF CompleteWhenUnlocked
<1> QED
  BY <1>2, LocksCorrect, PTL

\* Every path of every call gives back what it locked, and node locks are only
\* held, on nodes of the tree, by the owner of tree_lock.
THEOREM LocksNestedCorrect == Spec => []LocksNested
<1>1. ASSUME LocksInv
      PROVE  LocksNested
  <2> USE <1>1
  <2>1. treeLock.owner # NULL => pc[treeLock.owner] # "idle"
    <3> SUFFICES ASSUME treeLock.owner # NULL
                 PROVE  pc[treeLock.owner] # "idle"
      OBVIOUS
    <3>1. treeLock.owner \in Thread
      BY DEF LocksInv, LockTypes
    <3> QED
      BY <3>1 DEF LocksInv, OwnerInside, Inside, Body
  <2>2. ASSUME NEW n \in Node, nodeLock[n] # NULL
        PROVE  nodeLock[n] = treeLock.owner /\ n \in tree.live
    <3> DEFINE t == nodeLock[n]
    <3>1. t \in Thread
      BY <2>2 DEF LocksInv, LockTypes
    <3>2. n \in Held(t)
      BY <3>1 DEF LocksInv, NodesHeld
    <3> HIDE DEF t
    <3>3. pc[t] \in {"insertLink", "deleteUnlink", "deleteMove", "dfsScan"}
      BY <3>2 DEF Held
    <3>4. treeLock.owner = t
      BY <3>1, <3>3 DEF LocksInv, OwnerInside, Inside, Body
    <3>5. n \in committed.live
      <4>1. CASE pc[t] = "dfsScan"
        <5>1. n \in StackNodes(frame[t].stack) /\ Descended(frame[t].visited, frame[t].stack)
          BY <3>1, <3>2, <4>1 DEF Held, LocksInv, Knows
        <5> QED
          BY <5>1 DEF Descended
      <4>2. CASE pc[t] # "dfsScan"
        <5>1. n = frame[t].found
          BY <3>2, <3>3, <4>2 DEF Held
        <5> QED
          BY <3>1, <3>3, <4>2, <5>1 DEF LocksInv, Knows
      <4> QED
        BY <4>1, <4>2
    <3> QED
      BY <3>4, <3>5, SameLive DEF t
  <2> QED
    BY <2>1, <2>2 DEF LocksNested
<1> QED
  BY <1>1, LocksCorrect, PTL

\* A listing that ends has shown every account once, if the queue suffices.
THEOREM ListsCorrect == Spec => []ListsEveryAccountOnce
<1>1. ASSUME LocksInv
      PROVE  ListsEveryAccountOnce
  <2> SUFFICES ASSUME NEW t \in Thread, TraversalOver(t), QueueSuffices
               PROVE  /\ Range(frame[t].visited) = tree.live
                      /\ Len(frame[t].visited) = Cardinality(tree.live)
    BY DEF ListsEveryAccountOnce
  <2> USE <1>1
  <2> DEFINE s == frame[t].visited
  <2>1. pc[t] \in {"bfsScan", "dfsScan"}
    BY DEF TraversalOver, At
  <2>2. tree = committed
    BY <2>1, PCs, SeesComplete, Theirs DEF Body
  <2>3. s \in Seq(Node)
    BY Theirs DEF Frame
  <2>4. API!NoRepeat(s) /\ Range(s) = committed.live
    <3>1. CASE pc[t] = "bfsScan"
      <4>1. frame[t].queue = <<>>
        BY <3>1 DEF TraversalOver, At
      <4>2. API!NoRepeat(s) /\ Scanned(Range(s), <<>>)
        BY <3>1, <4>1, Theirs DEF Knows
      <4>3. Cardinality(committed.live) <= QueueSize + 1
        BY <2>2 DEF QueueSuffices
      <4> QED
        BY <4>2, <4>3, ScanOver
    <3>2. CASE pc[t] = "dfsScan"
      <4>1. frame[t].stack = <<>> /\ (s # <<>> \/ committed.root = NULL)
        BY <2>2, <3>2 DEF TraversalOver, At
      <4>2. Descended(s, <<>>)
        BY <3>2, <4>1, Theirs DEF Knows
      <4> HIDE DEF s
      <4>3. StackNodes(<<>>) = {}
        BY DEF StackNodes
      <4>4. API!NoRepeat(s) /\ Range(s) \subseteq committed.live
        BY <4>2 DEF Descended
      <4>5. \A v \in Range(s) : TP!Range(committed.children[v]) \subseteq Range(s)
        BY <4>2, <4>3, SameOperators DEF Descended
      <4>6. committed.root # NULL => committed.root \in Range(s)
        BY <4>1, <4>2 DEF Descended
      <4> QED
        BY <4>4, <4>5, <4>6 DEF LocksInv, TP!TreeInv, TP!AllReachable
    <3> QED
      BY <2>1, <3>1, <3>2
  <2> QED
    BY <2>2, <2>3, <2>4, LengthIsSize
<1> QED
  BY <1>1, LocksCorrect, PTL

\* A step of one thread leaves the place of another.
LEMMA OthersWait ==
    ASSUME LocksInv, NEW u \in Thread, Call(u) \/ Step(u), NEW t \in Thread \ {u}
    PROVE  pc'[t] = pc[t]
<1>1. pc \in [Thread -> Body \union Outside]
  BY DEF LocksInv, LockTypes
<1> DEFINE Moves == pc' = pc \/ \E label : pc' = [pc EXCEPT ![u] = label]
<1>2. \A label : Goto(u, label) => Moves
  BY DEF Goto
<1>3. \A label : LockTree(u, label) => Moves
  BY <1>2 DEF LockTree
<1> HIDE DEF Moves
<1>4. CASE Call(u)
  BY <1>1, <1>4 DEF Call, Goto
<1>5. CASE FindLock(u) \/ InsertLock(u) \/ DeleteLock(u) \/ BfsLock(u) \/ DfsLock(u)
  <2>1. Moves
    BY <1>3, <1>5 DEF FindLock, InsertLock, DeleteLock, BfsLock, DfsLock
  <2> QED
    BY <1>1, <2>1 DEF Moves
<1>6. CASE InsertRefused(u) \/ InsertRoot(u) \/ InsertHold(u) \/ InsertFails(u) \/ InsertLink(u)
             \/ DeleteNothing(u) \/ DeleteUnlink(u) \/ DeleteFree(u) \/ TraversalEnd(u) \/ FindNothing(u)
  <2>1. Moves
    BY <1>2, <1>6 DEF InsertRefused, InsertRoot, InsertHold, InsertFails, InsertLink, DeleteNothing,
       DeleteUnlink, DeleteFree, TraversalEnd, FindNothing
  <2> QED
    BY <1>1, <2>1 DEF Moves
<1>7. CASE InsertSeek(u) \/ DeleteSeek(u) \/ MessageFrom(u) \/ MessageTo(u)
  <2>1. Moves
    BY <1>2, <1>7 DEF InsertSeek, DeleteSeek, MessageFrom, MessageTo, CallFind
  <2> QED
    BY <1>1, <2>1 DEF Moves
<1>8. CASE DeleteHold(u) \/ FindVisit(u)
  <2>1. Moves
    <3>1. CASE DeleteHold(u)
      BY <1>2, <3>1 DEF DeleteHold
    <3>2. CASE FindVisit(u)
      <4>1. Goto(u, frame[u].ret) \/ pc' = pc
        BY <3>2 DEF FindVisit
      <4> QED
        BY <1>2, <4>1 DEF Moves
    <3> QED
      BY <1>8, <3>1, <3>2
  <2> QED
    BY <1>1, <2>1 DEF Moves
<1>9. CASE DeleteMove(u) \/ BfsVisit(u) \/ DfsRoot(u) \/ DfsChild(u) \/ DfsLeave(u)
  BY <1>9 DEF DeleteMove, BfsVisit, DfsRoot, DfsChild, DfsLeave
<1> QED
  BY <1>4, <1>5, <1>6, <1>7, <1>8, <1>9 DEF Step

\* A search ends in one of two ways.
LEMMA SearchEnds ==
    ASSUME LocksInv, [Next]_vars, NEW t \in Thread, pc[t] = "findScan", pc'[t] # "findScan"
    PROVE  FindVisit(t) \/ FindNothing(t)
<1>1. ~UNCHANGED vars
  BY DEF vars
<1>2. PICK u \in Thread : Call(u) \/ Step(u)
  BY <1>1 DEF Next, Stopped
<1>3. u = t
  BY <1>2, OthersWait
<1>4. ~Call(t)
  BY DEF Call, At
<1>5. ~( \/ FindLock(t)
         \/ InsertLock(t) \/ InsertRefused(t) \/ InsertRoot(t) \/ InsertSeek(t)
         \/ InsertHold(t) \/ InsertFails(t) \/ InsertLink(t)
         \/ DeleteLock(t) \/ DeleteSeek(t) \/ DeleteNothing(t) \/ DeleteHold(t)
         \/ DeleteUnlink(t) \/ DeleteMove(t) \/ DeleteFree(t) )
  BY DEF At, FindLock, InsertLock, InsertRefused, InsertRoot, InsertSeek, InsertHold, InsertFails,
     InsertLink, DeleteLock, DeleteSeek, DeleteNothing, DeleteHold, DeleteUnlink, DeleteMove, DeleteFree
<1>6. ~( \/ BfsLock(t) \/ BfsVisit(t) \/ DfsLock(t) \/ DfsRoot(t) \/ DfsChild(t) \/ DfsLeave(t)
         \/ TraversalEnd(t) \/ MessageFrom(t) \/ MessageTo(t) )
  BY DEF At, BfsLock, BfsVisit, DfsLock, DfsRoot, DfsChild, DfsLeave, TraversalEnd, TraversalOver,
     MessageFrom, MessageTo
<1> QED
  BY <1>2, <1>3, <1>4, <1>5, <1>6 DEF Step

\* phantom_tree_find returns the account with the id exactly if the tree has
\* it, if the queue suffices.
THEOREM FindCorrect == Spec => FindComplete
<1> DEFINE Complete == \A t \in Thread :
                          pc[t] = "findScan" /\ pc'[t] # "findScan" /\ QueueSuffices =>
                              frame'[t].found = IF frame[t].id \in tree.live THEN frame[t].id ELSE NULL
<1>1. LocksInv /\ [Next]_vars => [Complete]_vars
  <2> SUFFICES ASSUME LocksInv, [Next]_vars, NEW t \in Thread,
                      pc[t] = "findScan", pc'[t] # "findScan", QueueSuffices
               PROVE  frame'[t].found = IF frame[t].id \in tree.live THEN frame[t].id ELSE NULL
    OBVIOUS
  <2> DEFINE f == frame[t]
             q == frame[t].queue
  <2>1. tree = committed /\ Cardinality(committed.live) <= QueueSize + 1
    BY PCs, SeesComplete, Theirs DEF Body, QueueSuffices
  <2>2. frame \in [Thread -> Frame] /\ f \in Frame /\ q \in Seq(Node)
    BY Theirs DEF Frame, LockTypes
  <2>3. PICK V \in SUBSET committed.live : Scanned(V, q) /\ f.id \notin V
    BY Theirs DEF Knows
  <2>4. CASE FindVisit(t)
    <3>1. q # <<>> /\ Head(q) = f.id /\ frame' = [frame EXCEPT ![t].found = Head(q), ![t].queue = <<>>]
      BY <2>4 DEF FindVisit
    <3>2. Head(q) \in committed.live
      BY <2>2, <2>3, <3>1, ScanStep
    <3>3. frame'[t].found = Head(q)
      BY <2>2, <3>1 DEF Frame
    <3> QED
      BY <2>1, <3>1, <3>2, <3>3
  <2>5. CASE FindNothing(t)
    <3>1. q = <<>> /\ Set(t, "found", NULL)
      BY <2>5 DEF FindNothing
    <3>2. f.id \notin committed.live
      BY <2>1, <2>3, <3>1, ScanOver
    <3>3. frame'[t].found = NULL
      BY <2>2, <3>1 DEF Set, Frame
    <3> QED
      BY <2>1, <3>2, <3>3
  <2> QED
    BY <2>4, <2>5, SearchEnds
<1> QED
  BY <1>1, LocksCorrect, PTL DEF Spec, FindComplete

-----------------------------------------------------------------------------
\* The calls are atomic.

\* Only the last step of insert and of delete changes the committed tree.
LEMMA OnlyCommits ==
    ASSUME NEW t \in Thread, Call(t) \/ Step(t)
    PROVE  InsertRoot(t) \/ InsertLink(t) \/ DeleteFree(t) \/ UNCHANGED committed
<1>1. CASE Call(t)
  BY <1>1 DEF Call
<1>2. CASE FindLock(t) \/ FindVisit(t) \/ FindNothing(t) \/ MessageFrom(t) \/ MessageTo(t)
  BY <1>2 DEF FindLock, FindVisit, FindNothing, MessageFrom, MessageTo
<1>3. CASE InsertLock(t) \/ InsertRefused(t) \/ InsertSeek(t) \/ InsertHold(t) \/ InsertFails(t)
  BY <1>3 DEF InsertLock, InsertRefused, InsertSeek, InsertHold, InsertFails
<1>4. CASE DeleteLock(t) \/ DeleteSeek(t) \/ DeleteNothing(t) \/ DeleteHold(t) \/ DeleteUnlink(t) \/ DeleteMove(t)
  BY <1>4 DEF DeleteLock, DeleteSeek, DeleteNothing, DeleteHold, DeleteUnlink, DeleteMove
<1>5. CASE \/ BfsLock(t) \/ BfsVisit(t) \/ DfsLock(t) \/ DfsRoot(t) \/ DfsChild(t) \/ DfsLeave(t)
           \/ TraversalEnd(t)
  BY <1>5 DEF BfsLock, BfsVisit, DfsLock, DfsRoot, DfsChild, DfsLeave, TraversalEnd
<1> QED
  BY <1>1, <1>2, <1>3, <1>4, <1>5 DEF Step

LEMMA NextTreeStep == LocksInv /\ [Next]_vars => [API!Next]_(API!vars)
<1> SUFFICES ASSUME LocksInv, [Next]_vars
             PROVE  API!Next \/ UNCHANGED API!vars
  OBVIOUS
<1>1. UNCHANGED committed => UNCHANGED API!vars
  BY DEF API!vars
<1>2. ASSUME NEW t \in Thread, InsertRoot(t) \/ InsertLink(t) \/ DeleteFree(t)
      PROVE  API!Next
  BY <1>2, InsertRootDoes, InsertLinkDoes, DeleteFreeDoes, SameSteps
<1>3. CASE UNCHANGED vars
  BY <1>1, <1>3 DEF vars
<1>4. CASE \E t \in Thread : Call(t) \/ Step(t)
  BY <1>1, <1>2, <1>4, OnlyCommits
<1> QED
  BY <1>3, <1>4 DEF Next, Stopped

\* The calls, lock by lock, implement the atomic operations of PhantomTree:
\* each takes effect in one step, the last under tree_lock.
THEOREM TreeImplemented == Spec => ImplementsTree
<1>1. Init => API!Init
  BY SameSteps DEF Init, API!Init, BlankTree
<1> QED
  BY <1>1, NextTreeStep, LocksCorrect, PTL DEF Spec, ImplementsTree, API!Spec
=============================================================================
