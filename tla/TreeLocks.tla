----------------------------- MODULE TreeLocks -----------------------------
(***************************************************************************)
(* The calls of the tree API of phantomid-with-tree, lock by lock, made by *)
(* the threads of a process (the daemon itself makes them from one thread, *)
(* its event loop).  tree_lock is a default pthread mutex: a thread that   *)
(* locks it again while it holds it gets one of the outcomes in Relock.    *)
(*   "block"    it waits for itself for ever (glibc, musl, winpthreads);   *)
(*   "reenter"  the mutex counts, as POSIX allows of a default mutex.      *)
(* insert and delete call find, which locks tree_lock, with tree_lock held.*)
(* A Node is an address and the account created there; no address is used  *)
(* twice, so that an id held by a caller never comes to name a new account.*)
(* Not modelled: size, depth and has_root, which take no lock and change   *)
(* nothing, and the visitors, which only print.                            *)
(***************************************************************************)
EXTENDS Naturals, Sequences, SequencesExt, FiniteSets

CONSTANTS Thread,       \* the threads that call the API
          Node,         \* the nodes create_node may return
          NULL,         \* the null pointer
          Unknown,      \* an id no account has
          MaxChildren,  \* MAX_CHILDREN
          QueueSize,    \* QUEUE_SIZE, the capacity of a traversal's queue
          Relock,       \* what locking an owned tree_lock may do
          MaxCalls      \* bound: the calls made in a behaviour

ASSUME RelockAssumption == Relock # {} /\ Relock \subseteq {"block", "reenter"}
ASSUME DistinctAssumption == NULL \notin Node /\ NULL \notin Thread /\ Unknown \notin Node \union {NULL}
ASSUME BoundsAssumption == {MaxChildren, QueueSize, MaxCalls} \subseteq Nat \ {0}

VARIABLES tree,       \* the fields of the tree and of its nodes
          created,    \* the nodes allocated so far
          treeLock,   \* tree_lock: its owner and how often it holds it
          nodeLock,   \* the owner of each node_lock
          pc,         \* where each thread is
          frame,      \* the local variables of each thread
          calls,      \* the calls made so far
          committed   \* auxiliary: the tree when a change was last complete

vars == <<tree, created, treeLock, nodeLock, pc, frame, calls, committed>>

API == INSTANCE PhantomTree WITH
    live <- committed.live, parent <- committed.parent, children <- committed.children,
    isRoot <- committed.isRoot, isAdmin <- committed.isAdmin,
    root <- committed.root, totalNodes <- committed.totalNodes

-----------------------------------------------------------------------------
BlankTree == [live |-> {}, root |-> NULL, totalNodes |-> 0,
              parent |-> [n \in Node |-> NULL], children |-> [n \in Node |-> <<>>],
              isRoot |-> [n \in Node |-> FALSE], isAdmin |-> [n \in Node |-> FALSE]]

\* op: the call; id, to: its arguments; ret: where find returns to; found:
\* what find returned; first: the sender found by message_send; queue, stack:
\* the traversal; visited: the nodes the visitor was called with; kid: the
\* index of the redistribution loop.
NewFrame(op, id, to) ==
    [op |-> op, id |-> id, to |-> to, ret |-> "idle", found |-> NULL, first |-> NULL,
     queue |-> <<>>, stack |-> <<>>, visited |-> <<>>, kid |-> 1]

Init ==
    /\ tree = BlankTree
    /\ committed = BlankTree
    /\ created = {}
    /\ treeLock = [owner |-> NULL, depth |-> 0]
    /\ nodeLock = [n \in Node |-> NULL]
    /\ pc = [t \in Thread |-> "idle"]
    /\ frame = [t \in Thread |-> NewFrame("none", NULL, NULL)]
    /\ calls = 0

\* A children array was written past its end: undefined from there on.
Overrun == \E n \in tree.live : Len(tree.children[n]) > MaxChildren

At(t, label) == pc[t] = label /\ ~Overrun
Goto(t, label) == pc' = [pc EXCEPT ![t] = label]
Set(t, field, value) == frame' = [frame EXCEPT ![t][field] = value]

\* pthread_mutex_lock(&tree->tree_lock) on the way to label.
LockTree(t, label) ==
    \E outcome \in Relock :
        LET blocked == treeLock.owner = t /\ outcome = "block" IN
        /\ treeLock.owner \in {NULL, t}
        /\ treeLock' = IF blocked THEN treeLock ELSE [owner |-> t, depth |-> treeLock.depth + 1]
        /\ Goto(t, IF blocked THEN "hung" ELSE label)

\* pthread_mutex_unlock(&tree->tree_lock).
UnlockTree ==
    treeLock' = IF treeLock.depth = 1 THEN [owner |-> NULL, depth |-> 0]
                ELSE [treeLock EXCEPT !.depth = @ - 1]

NodeFree(n) == nodeLock[n] = NULL
Hold(n, t) == nodeLock' = [nodeLock EXCEPT ![n] = t]
Release(n) == nodeLock' = [nodeLock EXCEPT ![n] = NULL]

-----------------------------------------------------------------------------
\* A caller, with an id it was given when the account was created or a wrong one.
Entries(t) ==
    {NewFrame("insert", id, NULL) : id \in created \union {NULL, Unknown}}
      \union {NewFrame(op, id, NULL) : op \in {"delete", "find"}, id \in created \union {Unknown}}
      \union {NewFrame("message", id, to) : id \in created \union {Unknown}, to \in created}
      \union {NewFrame(op, NULL, NULL) : op \in {"bfs", "dfs"}}

Call(t) ==
    /\ At(t, "idle") /\ calls < MaxCalls
    /\ \E f \in Entries(t) : /\ frame' = [frame EXCEPT ![t] = f]
                             /\ Goto(t, f.op)
    /\ calls' = calls + 1
    /\ UNCHANGED <<tree, created, treeLock, nodeLock, committed>>

-----------------------------------------------------------------------------
\* phantom_tree_find

\* A slip of PushAll: the last place of the queue is not used.
PushAllOffByOne(q, s) ==
    IF Len(q \o s) < QueueSize THEN q \o s ELSE SubSeq(q \o s, 1, QueueSize - 1)

\* queue_push for each node of s: on a full queue it is refused, and no caller
\* looks.
PushAll(q, s) == IF Len(q \o s) <= QueueSize THEN q \o s ELSE SubSeq(q \o s, 1, QueueSize)

\* A slip of Seed: the check for an empty tree is dropped.
SeedUnchecked == <<tree.root>>

\* What a traversal's queue starts with: the root, if there is one.
Seed == IF tree.root = NULL THEN <<>> ELSE <<tree.root>>

FindLock(t) ==
    /\ At(t, "find")
    /\ LockTree(t, "findScan")
    /\ Set(t, "queue", Seed)
    /\ UNCHANGED <<tree, created, nodeLock, calls, committed>>

\* Pop a node; return it if its id matches, else queue its children.
FindVisit(t) ==
    LET q == frame[t].queue  n == Head(q) IN
    /\ At(t, "findScan") /\ q # <<>> /\ NodeFree(n)
    /\ IF n = frame[t].id
       THEN /\ frame' = [frame EXCEPT ![t].found = n, ![t].queue = <<>>]
            /\ UnlockTree
            /\ Goto(t, frame[t].ret)
       ELSE /\ Set(t, "queue", PushAll(Tail(q), tree.children[n]))
            /\ UNCHANGED <<treeLock, pc>>
    /\ UNCHANGED <<tree, created, nodeLock, calls, committed>>

FindNothing(t) ==
    /\ At(t, "findScan") /\ frame[t].queue = <<>>
    /\ Set(t, "found", NULL)
    /\ UnlockTree
    /\ Goto(t, frame[t].ret)
    /\ UNCHANGED <<tree, created, nodeLock, calls, committed>>

\* A call of find for id that returns to label.
CallFind(t, id, label) ==
    /\ Goto(t, "find")
    /\ frame' = [frame EXCEPT ![t].id = id, ![t].ret = label]

-----------------------------------------------------------------------------
\* phantom_tree_insert

InsertLock(t) ==
    /\ At(t, "insert")
    /\ LockTree(t, "insertTest")
    /\ UNCHANGED <<tree, created, nodeLock, frame, calls, committed>>

\* Give up: a parent for an empty tree, a parent not found, or no memory for
\* the root.
InsertRefused(t) ==
    /\ \/ At(t, "insertTest") /\ tree.root = NULL
       \/ At(t, "insertParent") /\ frame[t].found = NULL
    /\ UnlockTree
    /\ Goto(t, "idle")
    /\ UNCHANGED <<tree, created, nodeLock, frame, calls, committed>>

\* The new tree, complete: the change is committed.
Commit(newTree) == tree' = newTree /\ committed' = newTree

InsertRoot(t) ==
    /\ At(t, "insertTest") /\ tree.root = NULL /\ frame[t].id = NULL
    /\ \E n \in Node \ created :
         /\ created' = created \union {n}
         /\ Commit([tree EXCEPT !.live = {n}, !.root = n, !.totalNodes = 1,
                                !.isRoot[n] = TRUE, !.isAdmin[n] = TRUE])
    /\ UnlockTree
    /\ Goto(t, "idle")
    /\ UNCHANGED <<nodeLock, frame, calls>>

InsertSeek(t) ==
    /\ At(t, "insertTest") /\ tree.root # NULL
    /\ IF frame[t].id = NULL THEN Set(t, "found", tree.root) /\ Goto(t, "insertParent")
                             ELSE CallFind(t, frame[t].id, "insertParent")
    /\ UNCHANGED <<tree, created, treeLock, nodeLock, calls, committed>>

InsertHold(t) ==
    /\ At(t, "insertParent") /\ frame[t].found # NULL /\ NodeFree(frame[t].found)
    /\ Hold(frame[t].found, t)
    /\ Goto(t, "insertLink")
    /\ UNCHANGED <<tree, created, treeLock, frame, calls, committed>>

\* A slip of UnlockParent: the error path forgets the parent's lock.
UnlockParentForgotten(p) == UNCHANGED nodeLock

UnlockParent(p) == Release(p)

\* The parent is full, or there is no memory for the node.
InsertFails(t) ==
    /\ At(t, "insertLink")
    /\ UnlockParent(frame[t].found)
    /\ UnlockTree
    /\ Goto(t, "idle")
    /\ UNCHANGED <<tree, created, frame, calls, committed>>

InsertLink(t) ==
    LET p == frame[t].found IN
    /\ At(t, "insertLink") /\ Len(tree.children[p]) < MaxChildren
    /\ \E n \in Node \ created :
         /\ created' = created \union {n}
         /\ Commit([tree EXCEPT !.live = @ \union {n}, !.parent[n] = p,
                                !.children[p] = Append(@, n), !.totalNodes = @ + 1])
    /\ Release(p)
    /\ UnlockTree
    /\ Goto(t, "idle")
    /\ UNCHANGED <<frame, calls>>

-----------------------------------------------------------------------------
\* phantom_tree_delete

DeleteLock(t) ==
    /\ At(t, "delete")
    /\ LockTree(t, "deleteSeek")
    /\ UNCHANGED <<tree, created, nodeLock, frame, calls, committed>>

DeleteSeek(t) ==
    /\ At(t, "deleteSeek")
    /\ CallFind(t, frame[t].id, "deleteHold")
    /\ UNCHANGED <<tree, created, treeLock, nodeLock, calls, committed>>

DeleteNothing(t) ==
    /\ At(t, "deleteHold") /\ frame[t].found = NULL
    /\ UnlockTree
    /\ Goto(t, "idle")
    /\ UNCHANGED <<tree, created, nodeLock, frame, calls, committed>>

\* Lock the node; a root with children is refused.
DeleteHold(t) ==
    LET d == frame[t].found IN
    /\ At(t, "deleteHold") /\ d # NULL /\ NodeFree(d)
    /\ IF tree.isRoot[d] /\ tree.children[d] # <<>>
       THEN UnlockTree /\ Goto(t, "idle") /\ UNCHANGED nodeLock
       ELSE Hold(d, t) /\ Goto(t, "deleteUnlink") /\ UNCHANGED treeLock
    /\ UNCHANGED <<tree, created, frame, calls, committed>>

\* A slip of BetweenLoops: tree_lock is given up as soon as the node is unlinked.
BetweenLoopsUnlocked == UnlockTree

\* What happens to tree_lock between the unlinking and the redistribution.
BetweenLoops == UNCHANGED treeLock

\* Take the node out of its parent's array, under the parent's lock, or
\* leave the tree without a root.
DeleteUnlink(t) ==
    LET d == frame[t].found  p == tree.parent[d] IN
    /\ At(t, "deleteUnlink")
    /\ IF p = NULL THEN tree' = [tree EXCEPT !.root = NULL]
       ELSE NodeFree(p) /\ tree' = [tree EXCEPT !.children[p] = API!Unlink(@, d)]
    /\ Set(t, "kid", 1)
    /\ Goto(t, "deleteMove")
    /\ BetweenLoops
    /\ UNCHANGED <<created, nodeLock, calls, committed>>

\* One turn of the redistribution loop: the child's lock, then the parent's.
DeleteMove(t) ==
    LET d == frame[t].found  p == tree.parent[d]  c == tree.children[d][frame[t].kid] IN
    /\ At(t, "deleteMove") /\ frame[t].kid <= Len(tree.children[d])
    /\ NodeFree(c) /\ (p # NULL => p # c /\ NodeFree(p))
    /\ tree' = IF p = NULL THEN [tree EXCEPT !.parent[c] = p, !.isAdmin[c] = tree.isAdmin[d]]
               ELSE [tree EXCEPT !.parent[c] = p, !.isAdmin[c] = tree.isAdmin[d],
                                 !.children[p] = Append(@, c)]
    /\ Set(t, "kid", frame[t].kid + 1)
    /\ UNCHANGED <<created, treeLock, nodeLock, pc, calls, committed>>

\* A slip of LoopDone: the last child is left behind.
LoopDoneEarly(t) == frame[t].kid >= Len(tree.children[frame[t].found])

LoopDone(t) == frame[t].kid > Len(tree.children[frame[t].found])

\* Unlock and free the node, count it out, unlock the tree.
DeleteFree(t) ==
    LET d == frame[t].found IN
    /\ At(t, "deleteMove") /\ LoopDone(t)
    /\ Commit([tree EXCEPT !.live = @ \ {d}, !.totalNodes = @ - 1,
                           !.parent[d] = NULL, !.children[d] = <<>>,
                           !.isRoot[d] = FALSE, !.isAdmin[d] = FALSE])
    /\ Release(d)
    /\ UnlockTree
    /\ Goto(t, "idle")
    /\ UNCHANGED <<created, frame, calls>>

-----------------------------------------------------------------------------
\* phantom_tree_bfs

BfsLock(t) ==
    /\ At(t, "bfs")
    /\ LockTree(t, "bfsScan")
    /\ Set(t, "queue", Seed)
    /\ UNCHANGED <<tree, created, nodeLock, calls, committed>>

BfsVisit(t) ==
    LET q == frame[t].queue  n == Head(q) IN
    /\ At(t, "bfsScan") /\ q # <<>> /\ NodeFree(n)
    /\ frame' = [frame EXCEPT ![t].visited = Append(@, n),
                              ![t].queue = PushAll(Tail(q), tree.children[n])]
    /\ UNCHANGED <<tree, created, treeLock, nodeLock, pc, calls, committed>>

\* phantom_tree_dfs: the locks of the path to a node are held below it.

DfsLock(t) ==
    /\ At(t, "dfs")
    /\ LockTree(t, "dfsScan")
    /\ UNCHANGED <<tree, created, nodeLock, frame, calls, committed>>

\* dfs_helper is entered for n: lock, visit, and start with its first child.
DfsEnter(t, n, below) ==
    /\ NodeFree(n)
    /\ Hold(n, t)
    /\ frame' = [frame EXCEPT ![t].visited = Append(@, n),
                              ![t].stack = Append(below, [node |-> n, next |-> 1])]

DfsRoot(t) ==
    /\ At(t, "dfsScan") /\ frame[t].visited = <<>> /\ tree.root # NULL
    /\ DfsEnter(t, tree.root, <<>>)
    /\ UNCHANGED <<tree, created, treeLock, pc, calls, committed>>

DfsChild(t) ==
    LET s == frame[t].stack  top == Last(s)  kids == tree.children[top.node] IN
    /\ At(t, "dfsScan") /\ s # <<>> /\ top.next <= Len(kids)
    /\ DfsEnter(t, kids[top.next], Append(Front(s), [top EXCEPT !.next = @ + 1]))
    /\ UNCHANGED <<tree, created, treeLock, pc, calls, committed>>

DfsLeave(t) ==
    LET s == frame[t].stack  top == Last(s) IN
    /\ At(t, "dfsScan") /\ s # <<>> /\ top.next > Len(tree.children[top.node])
    /\ Release(top.node)
    /\ Set(t, "stack", Front(s))
    /\ UNCHANGED <<tree, created, treeLock, pc, calls, committed>>

\* Nothing is left to visit.
TraversalOver(t) ==
    \/ At(t, "bfsScan") /\ frame[t].queue = <<>>
    \/ /\ At(t, "dfsScan") /\ frame[t].stack = <<>>
       /\ frame[t].visited # <<>> \/ tree.root = NULL

TraversalEnd(t) ==
    /\ TraversalOver(t)
    /\ UnlockTree
    /\ Goto(t, "idle")
    /\ UNCHANGED <<tree, created, nodeLock, frame, calls, committed>>

-----------------------------------------------------------------------------
\* phantom_message_send: two lookups, each with a tree_lock of its own.

MessageFrom(t) ==
    /\ At(t, "message")
    /\ CallFind(t, frame[t].id, "messageTo")
    /\ UNCHANGED <<tree, created, treeLock, nodeLock, calls, committed>>

MessageTo(t) ==
    /\ At(t, "messageTo")
    /\ Goto(t, "find")
    /\ frame' = [frame EXCEPT ![t].id = frame[t].to, ![t].ret = "idle",
                              ![t].first = frame[t].found]
    /\ UNCHANGED <<tree, created, treeLock, nodeLock, calls, committed>>

-----------------------------------------------------------------------------
Step(t) ==
    \/ FindLock(t) \/ FindVisit(t) \/ FindNothing(t)
    \/ InsertLock(t) \/ InsertRefused(t) \/ InsertRoot(t) \/ InsertSeek(t)
    \/ InsertHold(t) \/ InsertFails(t) \/ InsertLink(t)
    \/ DeleteLock(t) \/ DeleteSeek(t) \/ DeleteNothing(t) \/ DeleteHold(t)
    \/ DeleteUnlink(t) \/ DeleteMove(t) \/ DeleteFree(t)
    \/ BfsLock(t) \/ BfsVisit(t) \/ DfsLock(t) \/ DfsRoot(t) \/ DfsChild(t) \/ DfsLeave(t)
    \/ TraversalEnd(t) \/ MessageFrom(t) \/ MessageTo(t)

\* The callers are done, or the heap is corrupt.
Stopped ==
    /\ Overrun \/ (calls = MaxCalls /\ \A t \in Thread : pc[t] = "idle")
    /\ UNCHANGED vars

Next == \/ \E t \in Thread : Call(t) \/ Step(t)
        \/ Stopped

\* A thread that can run does run; a caller need not call.
Spec == Init /\ [][Next]_vars /\ \A t \in Thread : WF_vars(Step(t))

-----------------------------------------------------------------------------
Pointer == Node \union {NULL}

\* The variables have the types of the C structures.
TypeOK ==
    /\ tree.live \subseteq created /\ created \subseteq Node
    /\ tree.parent \in [Node -> Pointer]
    /\ \A n \in Node : Range(tree.children[n]) \subseteq Node
    /\ tree.isRoot \in [Node -> BOOLEAN] /\ tree.isAdmin \in [Node -> BOOLEAN]
    /\ tree.root \in Pointer /\ tree.totalNodes \in Nat
    /\ treeLock.owner \in Thread \union {NULL} /\ treeLock.depth \in 0 .. 2
    /\ nodeLock \in [Node -> Thread \union {NULL}]
    /\ \A t \in Thread : /\ frame[t].queue \in Seq(Node) /\ Len(frame[t].queue) <= QueueSize
                          /\ frame[t].found \in Pointer
    /\ calls \in 0 .. MaxCalls

\* The tree API implements the atomic operations of PhantomTree.
ImplementsTree == API!Spec

\* Whoever takes tree_lock finds a tree that the atomic operations can
\* produce: no path of insert or delete unlocks in the middle of its changes.
CompleteWhenUnlocked == treeLock.owner = NULL => tree = committed

\* Every path of every call gives back what it locked: a thread between calls
\* owns no lock, and a node_lock is only ever held under tree_lock, so that
\* the order in which node locks are taken (delete: child before parent, dfs:
\* parent before child) cannot make two threads wait for each other.
LocksNested ==
    /\ treeLock.owner # NULL => pc[treeLock.owner] # "idle"
    /\ \A n \in Node : nodeLock[n] # NULL => nodeLock[n] = treeLock.owner
    /\ \A n \in Node : nodeLock[n] # NULL => n \in tree.live

\* The queue never holds the whole tree: the root is popped before its
\* children are pushed, so that one account more than it has places fits.
QueueSuffices == Cardinality(tree.live) <= QueueSize + 1

\* find returns the account with the id exactly if the tree has it, as long
\* as the queue can hold the tree.
FindComplete ==
    [][\A t \in Thread :
          pc[t] = "findScan" /\ pc'[t] # "findScan" /\ QueueSuffices =>
              frame'[t].found = IF frame[t].id \in tree.live THEN frame[t].id ELSE NULL]_vars

\* A listing shows every account once.
ListsEveryAccountOnce ==
    \A t \in Thread : TraversalOver(t) /\ QueueSuffices =>
        /\ Range(frame[t].visited) = tree.live
        /\ Len(frame[t].visited) = Cardinality(tree.live)

\* Every call returns.
CallsReturn == \A t \in Thread : pc[t] # "idle" ~> (pc[t] = "idle" \/ Overrun)

\* "delete <id>  Delete account" (the help text, phantomid.c:621): the command
\* comes to an end.
DeleteReturns == \A t \in Thread : pc[t] = "delete" ~> (pc[t] = "idle" \/ Overrun)
=============================================================================
