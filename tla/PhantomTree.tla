---------------------------- MODULE PhantomTree ----------------------------
(***************************************************************************)
(* The account tree of phantomid-with-tree: what each exported call does   *)
(* to the tree, as one step.  This is the promise of the API in phantomid.h*)
(* ("thread-safe": every call runs under tree_lock); TreeLocks models the  *)
(* calls lock by lock and is shown to implement this module.               *)
(*                                                                         *)
(* A Node is the address of a PhantomNode and stands for the account the   *)
(* node holds: an account id is the SHA-256 of 32 random bytes, so ids and *)
(* live nodes correspond one to one.  An address may be reused after free. *)
(* A call that fails (parent full, not found, root with children, out of   *)
(* memory) leaves the tree as it was and is a stuttering step here.        *)
(***************************************************************************)
EXTENDS Naturals, Sequences, FiniteSets, Functions

CONSTANTS Node,         \* addresses create_node may return
          NULL,         \* the null pointer
          MaxChildren   \* MAX_CHILDREN, the capacity of a children array

ASSUME NULLAssumption == NULL \notin Node
ASSUME MaxChildrenAssumption == MaxChildren \in Nat \ {0}

VARIABLES live,        \* the nodes allocated and not freed
          parent,      \* node->parent
          children,    \* node->children[0 .. child_count-1]
          isRoot,      \* node->is_root
          isAdmin,     \* node->is_admin
          root,        \* tree->root
          totalNodes   \* tree->total_nodes

vars == <<live, parent, children, isRoot, isAdmin, root, totalNodes>>

Pointer == Node \union {NULL}

-----------------------------------------------------------------------------
\* phantom_tree_init: no node, no root.  A node that is not live has blank fields.
Init ==
    /\ live = {}
    /\ parent = [n \in Node |-> NULL]
    /\ children = [n \in Node |-> <<>>]
    /\ isRoot = [n \in Node |-> FALSE]
    /\ isAdmin = [n \in Node |-> FALSE]
    /\ root = NULL
    /\ totalNodes = 0

\* A children array has been written past its MaxChildren slots (only the
\* redistribution of phantom_tree_delete writes without the capacity check).
\* The behaviour of the program is undefined from there on: the model stops.
Overrun == \E n \in live : Len(children[n]) > MaxChildren

\* The first slot of the array s that holds d.
Slot(s, d) == CHOOSE i \in DOMAIN s : s[i] = d /\ \A j \in DOMAIN s : j < i => s[j] # d

\* A slip of Unlink: the count is not decremented.
UnlinkUncounted(s, d) == s

\* The search and memmove that take d out of its parent's array.
Unlink(s, d) ==
    IF d \notin Range(s) THEN s
    ELSE [i \in 1 .. Len(s) - 1 |-> IF i < Slot(s, d) THEN s[i] ELSE s[i + 1]]

\* A slip of HasRoom: one child too many.
HasRoomOffByOne(p) == Len(children[p]) <= MaxChildren

\* The capacity check of phantom_tree_insert.
HasRoom(p) == Len(children[p]) < MaxChildren

\* phantom_tree_insert into an empty tree.
InsertRoot ==
    /\ ~Overrun
    /\ root = NULL
    /\ \E n \in Node \ live :
         /\ live' = live \union {n}
         /\ isRoot' = [isRoot EXCEPT ![n] = TRUE]
         /\ isAdmin' = [isAdmin EXCEPT ![n] = TRUE]
         /\ root' = n
    /\ totalNodes' = 1
    /\ UNCHANGED <<parent, children>>

\* phantom_tree_insert under p, a node found by id or, by default, the root.
InsertChild(p) ==
    /\ ~Overrun
    /\ root # NULL
    /\ HasRoom(p)
    /\ \E n \in Node \ live :
         /\ live' = live \union {n}
         /\ parent' = [parent EXCEPT ![n] = p]
         /\ children' = [children EXCEPT ![p] = Append(@, n)]
    /\ totalNodes' = totalNodes + 1
    /\ UNCHANGED <<isRoot, isAdmin, root>>

\* A slip of RootPinned: the check is dropped.
RootUnpinned(d) == FALSE

\* A root that still has children cannot be deleted.
RootPinned(d) == isRoot[d] /\ children[d] # <<>>

\* Slips of ChildrenWithout: the children of d are handed on last one first;
\* they are not handed on.
ChildrenBackwards(d) ==
    LET backwards == [i \in DOMAIN children[d] |-> children[d][Len(children[d]) + 1 - i]] IN
    [n \in Node |-> CASE n = d         -> <<>>
                      [] n = parent[d] -> Unlink(children[n], d) \o backwards
                      [] OTHER         -> children[n]]
ChildrenDropped(d) ==
    [n \in Node |-> CASE n = d         -> <<>>
                      [] n = parent[d] -> Unlink(children[n], d)
                      [] OTHER         -> children[n]]

\* The arrays after d is unlinked and its children are appended to its parent's.
ChildrenWithout(d) ==
    [n \in Node |-> CASE n = d         -> <<>>
                      [] n = parent[d] -> Unlink(children[n], d) \o children[d]
                      [] OTHER         -> children[n]]

\* A slip of ParentsWithout: the children of d are moved below the root.
ParentsToRoot(d) ==
    [n \in Node |-> CASE n = d                    -> NULL
                      [] n \in Range(children[d]) -> root
                      [] OTHER                    -> parent[n]]

\* The parent pointers after the children of d are handed to its parent.
ParentsWithout(d) ==
    [n \in Node |-> CASE n = d                    -> NULL
                      [] n \in Range(children[d]) -> parent[d]
                      [] OTHER                    -> parent[n]]

\* A slip of AdminsWithout: children inherit from the new parent.
AdminsFromParent(d) ==
    [n \in Node |-> CASE n = d                    -> FALSE
                      [] n \in Range(children[d]) -> isAdmin[parent[d]]
                      [] OTHER                    -> isAdmin[n]]

\* The admin flags after the children of d inherit the one of d.
AdminsWithout(d) ==
    [n \in Node |-> CASE n = d                    -> FALSE
                      [] n \in Range(children[d]) -> isAdmin[d]
                      [] OTHER                    -> isAdmin[n]]

\* phantom_tree_delete of d: unlink, redistribute the children, free.
Delete(d) ==
    /\ ~Overrun
    /\ ~RootPinned(d)
    /\ live' = live \ {d}
    /\ children' = ChildrenWithout(d)
    /\ parent' = ParentsWithout(d)
    /\ isAdmin' = AdminsWithout(d)
    /\ isRoot' = [isRoot EXCEPT ![d] = FALSE]
    /\ root' = IF parent[d] = NULL THEN NULL ELSE root
    /\ totalNodes' = totalNodes - 1

\* The process after an overrun: whatever it does, the tree is lost.
Corrupted == Overrun /\ UNCHANGED vars

Next == \/ InsertRoot
        \/ \E p \in live : InsertChild(p)
        \/ \E d \in live : Delete(d)
        \/ Corrupted

Spec == Init /\ [][Next]_vars

-----------------------------------------------------------------------------
\* The variables have the types of the C structures.
TypeOK ==
    /\ live \subseteq Node
    /\ parent \in [Node -> Pointer]
    /\ children \in [Node -> Seq(Node)]
    /\ isRoot \in [Node -> BOOLEAN]
    /\ isAdmin \in [Node -> BOOLEAN]
    /\ root \in Pointer
    /\ totalNodes \in Nat

NoRepeat(s) == \A i, j \in DOMAIN s : s[i] = s[j] => i = j

\* A node that is not live is out of every array and blank.
FreedIsBlank ==
    \A n \in Node \ live : parent[n] = NULL /\ children[n] = <<>> /\ ~isRoot[n] /\ ~isAdmin[n]

\* A node is in the array of p exactly if p is its parent, and once.
ParentsAgree ==
    \A p \in live : /\ NoRepeat(children[p])
                    /\ \A n \in Node : n \in Range(children[p]) <=> (n \in live /\ parent[n] = p)

\* The one live node without a parent is the root, and an empty root means
\* an empty tree.
RootAgrees ==
    /\ root = NULL <=> live = {}
    /\ root # NULL => root \in live
    /\ \A n \in live : /\ parent[n] \in live \union {NULL}
                       /\ parent[n] = NULL <=> n = root
                       /\ isRoot[n] <=> n = root

\* The links of the tree agree: no stored pointer (root, parent, child slot)
\* refers to a freed node, children arrays and parent pointers say the same,
\* and is_root marks the root and nothing else.  phantom_tree_delete patches
\* all of them by hand; a missed one is a use after free in the next call.
LinksAgree == FreedIsBlank /\ ParentsAgree /\ RootAgrees

\* Every account can be reached from the root by child links: any set that
\* holds the root and is closed under children holds every live node.  A
\* traversal, a lookup by id and cleanup_node would otherwise miss accounts
\* (phantom_tree_delete of an inner node must not lose its subtrees).
AllReachable ==
    \A S \in SUBSET live :
        (/\ root # NULL => root \in S
         /\ \A n \in S : Range(children[n]) \subseteq S) => live \subseteq S

\* The admin is the root and no one else: a child never gains the flag when
\* it inherits from a deleted node (phantomid.c:280).
AdminIsRoot == \A n \in live : isAdmin[n] <=> n = root

\* total_nodes, kept by hand by insert and delete, is the number of accounts.
CountExact == totalNodes = Cardinality(live)

-----------------------------------------------------------------------------
\* a is an ancestor of n: every set that holds n and is closed under parent
\* pointers holds a.
Ancestor(a, n) ==
    a # n /\ \A S \in SUBSET live : (n \in S /\ \A m \in S : parent[m] \in S \union {NULL}) => a \in S

\* Deleting an account contracts the tree and inserting one adds a leaf: among
\* the accounts that stay, who is above whom does not change.
AncestryKept ==
    [][\A a, n \in live \intersect live' : Ancestor(a, n) <=> Ancestor(a, n)']_vars

Precedes(s, x, y) == \E i, j \in DOMAIN s : i < j /\ s[i] = x /\ s[j] = y

\* Accounts that stay siblings, under their parent or, when it is deleted, under
\* its parent, keep their order, the order in which the listings show them.
SiblingOrderKept ==
    [][\A x, y \in live \intersect live', p \in live, q \in live' :
          Precedes(children[p], x, y) => ~Precedes(children'[q], y, x)]_vars

\* Only a deletion can overrun a children array: insert checks the capacity
\* (phantomid.c:210), redistribution does not (phantomid.c:284).
OverrunOnlyByDelete ==
    [][~Overrun /\ Overrun' => \E d \in live : live' = live \ {d} /\ children[d] # <<>>]_vars
=============================================================================
