------------------------- MODULE PhantomTreeProofs -------------------------
(***************************************************************************)
(* What PhantomTree guarantees for every set of nodes and every capacity:  *)
(* the conjunction TreeInv of the invariants TLC checks is inductive.      *)
(***************************************************************************)
EXTENDS PhantomTree, TLAPS, FiniteSetTheorems

\* TreeInv: the invariants that the runs check, and that the heap holds
\* finitely many nodes (so that total_nodes can be compared with a size).
TreeInv ==
    /\ TypeOK
    /\ LinksAgree
    /\ AllReachable
    /\ AdminIsRoot
    /\ CountExact
    /\ IsFiniteSet(live)

-----------------------------------------------------------------------------
\* Arrays.

\* Slot(s, d) is the only slot that holds d in an array without repeats.
LEMMA SlotIsIndex ==
    ASSUME NEW s \in Seq(Node), NEW d \in Range(s), NoRepeat(s)
    PROVE  Slot(s, d) \in 1 .. Len(s) /\ s[Slot(s, d)] = d
<1>1. PICK i \in DOMAIN s : s[i] = d
  BY DEF Range
<1>2. s[i] = d /\ \A j \in DOMAIN s : j < i => s[j] # d
  BY <1>1 DEF NoRepeat
<1>3. Slot(s, d) \in DOMAIN s /\ s[Slot(s, d)] = d
  BY <1>2 DEF Slot
<1> QED
  BY <1>3

\* The memmove of phantom_tree_delete takes out d and nothing else.
LEMMA UnlinkRemoves ==
    ASSUME NEW s \in Seq(Node), NEW d \in Range(s), NoRepeat(s)
    PROVE  /\ Unlink(s, d) \in Seq(Node)
           /\ Len(Unlink(s, d)) = Len(s) - 1
           /\ NoRepeat(Unlink(s, d))
           /\ Range(Unlink(s, d)) = Range(s) \ {d}
<1> DEFINE k == Slot(s, d)
           u == [i \in 1 .. Len(s) - 1 |-> IF i < k THEN s[i] ELSE s[i + 1]]
<1>1. k \in 1 .. Len(s) /\ s[k] = d
  BY SlotIsIndex
<1>2. Unlink(s, d) = u
  BY DEF Unlink
<1> HIDE DEF k
<1>3. u \in Seq(Node) /\ Len(u) = Len(s) - 1
  <2>1. Len(s) - 1 \in Nat
    BY <1>1
  <2>2. \A i \in 1 .. Len(s) - 1 : u[i] \in Node
    BY <1>1
  <2> QED
    BY <2>1, <2>2
<1>4. NoRepeat(u)
  BY <1>1 DEF NoRepeat
<1>5. Range(u) \subseteq Range(s) \ {d}
  <2> SUFFICES ASSUME NEW i \in 1 .. Len(s) - 1
               PROVE  u[i] \in Range(s) \ {d}
    BY <1>3 DEF Range
  <2>1. CASE i < k
    BY <1>1, <2>1 DEF Range, NoRepeat
  <2>2. CASE ~(i < k)
    BY <1>1, <2>2 DEF Range, NoRepeat
  <2> QED
    BY <2>1, <2>2
<1>6. Range(s) \ {d} \subseteq Range(u)
  <2> SUFFICES ASSUME NEW j \in 1 .. Len(s), s[j] # d
               PROVE  s[j] \in Range(u)
    BY DEF Range
  <2>1. CASE j < k
    <3>1. j \in 1 .. Len(s) - 1 /\ u[j] = s[j]
      BY <1>1, <2>1
    <3> QED
      BY <3>1 DEF Range
  <2>2. CASE ~(j < k)
    <3>1. j - 1 \in 1 .. Len(s) - 1 /\ u[j - 1] = s[j]
      BY <1>1, <2>2
    <3> QED
      BY <3>1 DEF Range
  <2> QED
    BY <2>1, <2>2
<1> QED
  BY <1>2, <1>3, <1>4, <1>5, <1>6

\* Appending an array to another.
LEMMA ConcatHolds ==
    ASSUME NEW s \in Seq(Node), NEW t \in Seq(Node)
    PROVE  /\ s \o t \in Seq(Node)
           /\ Range(s \o t) = Range(s) \union Range(t)
           /\ NoRepeat(s) /\ NoRepeat(t) /\ Range(s) \intersect Range(t) = {} => NoRepeat(s \o t)
<1>1. s \o t \in Seq(Node) /\ Len(s \o t) = Len(s) + Len(t)
  OBVIOUS
<1>2. \A i \in 1 .. Len(s) + Len(t) :
          (s \o t)[i] = IF i <= Len(s) THEN s[i] ELSE t[i - Len(s)]
  OBVIOUS
<1>3. Range(s \o t) \subseteq Range(s) \union Range(t)
  BY <1>1, <1>2 DEF Range
<1>4. Range(s) \subseteq Range(s \o t)
  <2> SUFFICES ASSUME NEW i \in 1 .. Len(s)
               PROVE  s[i] \in Range(s \o t)
    BY DEF Range
  <2>1. i \in 1 .. Len(s) + Len(t) /\ (s \o t)[i] = s[i]
    BY <1>2
  <2> QED
    BY <1>1, <2>1 DEF Range
<1>5. Range(t) \subseteq Range(s \o t)
  <2> SUFFICES ASSUME NEW i \in 1 .. Len(t)
               PROVE  t[i] \in Range(s \o t)
    BY DEF Range
  <2>1. Len(s) + i \in 1 .. Len(s) + Len(t) /\ (s \o t)[Len(s) + i] = t[i]
    BY <1>2
  <2> QED
    BY <1>1, <2>1 DEF Range
<1>6. ASSUME NoRepeat(s), NoRepeat(t), Range(s) \intersect Range(t) = {}
      PROVE  NoRepeat(s \o t)
  <2> SUFFICES ASSUME NEW i \in 1 .. Len(s) + Len(t), NEW j \in 1 .. Len(s) + Len(t),
                      (s \o t)[i] = (s \o t)[j]
               PROVE  i = j
    BY <1>1 DEF NoRepeat
  <2>1. CASE i <= Len(s) /\ j <= Len(s)
    BY <1>2, <1>6, <2>1 DEF NoRepeat
  <2>2. CASE ~(i <= Len(s)) /\ ~(j <= Len(s))
    BY <1>2, <1>6, <2>2 DEF NoRepeat
  <2>3. \A a \in 1 .. Len(s), b \in 1 .. Len(t) : s[a] # t[b]
    BY <1>6 DEF Range
  <2>4. CASE i <= Len(s) <=> ~(j <= Len(s))
    BY <1>2, <2>3, <2>4
  <2> QED
    BY <2>1, <2>2, <2>3, <2>4
<1> QED
  BY <1>1, <1>3, <1>4, <1>5, <1>6

\* Appending one child.
LEMMA AppendHolds ==
    ASSUME NEW s \in Seq(Node), NEW n \in Node
    PROVE  /\ Append(s, n) \in Seq(Node)
           /\ Range(Append(s, n)) = Range(s) \union {n}
           /\ NoRepeat(s) /\ n \notin Range(s) => NoRepeat(Append(s, n))
<1>1. Append(s, n) \in Seq(Node) /\ Len(Append(s, n)) = Len(s) + 1
  OBVIOUS
<1>2. \A i \in 1 .. Len(s) + 1 : Append(s, n)[i] = IF i <= Len(s) THEN s[i] ELSE n
  OBVIOUS
<1>3. Range(Append(s, n)) \subseteq Range(s) \union {n}
  BY <1>1, <1>2 DEF Range
<1>4. Range(s) \union {n} \subseteq Range(Append(s, n))
  <2>1. n \in Range(Append(s, n))
    <3>1. Len(s) + 1 \in 1 .. Len(s) + 1 /\ Append(s, n)[Len(s) + 1] = n
      BY <1>2
    <3> QED
      BY <1>1, <3>1 DEF Range
  <2>2. ASSUME NEW i \in 1 .. Len(s)
        PROVE  s[i] \in Range(Append(s, n))
    <3>1. i \in 1 .. Len(s) + 1 /\ Append(s, n)[i] = s[i]
      BY <1>2
    <3> QED
      BY <1>1, <3>1 DEF Range
  <2> QED
    BY <2>1, <2>2 DEF Range
<1>5. ASSUME NoRepeat(s), n \notin Range(s)
      PROVE  NoRepeat(Append(s, n))
  <2> SUFFICES ASSUME NEW i \in 1 .. Len(s) + 1, NEW j \in 1 .. Len(s) + 1,
                      Append(s, n)[i] = Append(s, n)[j]
               PROVE  i = j
    BY <1>1 DEF NoRepeat
  <2>1. \A k \in 1 .. Len(s) : s[k] # n
    BY <1>5 DEF Range
  <2> QED
    BY <1>2, <1>5, <2>1 DEF NoRepeat
<1> QED
  BY <1>1, <1>3, <1>4, <1>5

-----------------------------------------------------------------------------
\* The tree.

\* A live node that is not the root is in the array of its parent, and a node
\* is never its own parent.
LEMMA ParentHolds ==
    ASSUME TreeInv, NEW d \in live
    PROVE  /\ parent[d] = NULL <=> d = root
           /\ d # root => /\ parent[d] \in live
                          /\ parent[d] # d
                          /\ d \in Range(children[parent[d]])
<1> USE DEF TreeInv, LinksAgree, RootAgrees
<1>1. parent[d] = NULL <=> d = root
  OBVIOUS
<1>2. ASSUME d # root
      PROVE  parent[d] \in live /\ d \in Range(children[parent[d]])
  BY <1>1, <1>2 DEF ParentsAgree, TypeOK
<1>3. ASSUME d # root
      PROVE  parent[d] # d
  <2> SUFFICES ASSUME parent[d] = d
               PROVE  FALSE
    OBVIOUS
  <2>1. root # NULL /\ root \in live \ {d}
    BY <1>3
  <2>2. \A m \in live \ {d} : Range(children[m]) \subseteq live \ {d}
    BY DEF ParentsAgree, TypeOK, Range
  <2> QED
    BY <2>1, <2>2 DEF AllReachable
<1> QED
  BY <1>1, <1>2, <1>3

LEMMA InitTree == Init => TreeInv
<1> SUFFICES ASSUME Init
             PROVE  TreeInv
  OBVIOUS
<1>1. TypeOK
  BY DEF Init, TypeOK, Pointer
<1>2. LinksAgree
  BY DEF Init, LinksAgree, FreedIsBlank, ParentsAgree, RootAgrees
<1>3. AllReachable /\ AdminIsRoot
  BY DEF Init, AllReachable, AdminIsRoot
<1>4. CountExact /\ IsFiniteSet(live)
  BY FS_EmptySet DEF Init, CountExact
<1> QED
  BY <1>1, <1>2, <1>3, <1>4 DEF TreeInv

LEMMA InsertRootTree == TreeInv /\ InsertRoot => TreeInv'
<1> SUFFICES ASSUME TreeInv, InsertRoot
             PROVE  TreeInv'
  OBVIOUS
<1> USE DEF TreeInv
<1>1. PICK n \in Node \ live : /\ live' = live \union {n}
                               /\ isRoot' = [isRoot EXCEPT ![n] = TRUE]
                               /\ isAdmin' = [isAdmin EXCEPT ![n] = TRUE]
                               /\ root' = n
  BY DEF InsertRoot
<1>2. totalNodes' = 1 /\ UNCHANGED <<parent, children>>
  BY DEF InsertRoot
<1>3. live = {} /\ live' = {n}
  BY <1>1 DEF InsertRoot, LinksAgree, RootAgrees
<1>4. TypeOK'
  BY <1>1, <1>2 DEF TypeOK, Pointer
<1>5. parent[n] = NULL /\ children[n] = <<>>
  BY DEF LinksAgree, FreedIsBlank
<1>6. LinksAgree'
  <2>1. FreedIsBlank'
    BY <1>1, <1>2, <1>3 DEF LinksAgree, FreedIsBlank, TypeOK
  <2>2. ParentsAgree'
    BY <1>2, <1>3, <1>5, NULLAssumption DEF ParentsAgree, NoRepeat, Range
  <2>3. RootAgrees'
    BY <1>1, <1>2, <1>3, <1>5, NULLAssumption DEF RootAgrees, TypeOK
  <2> QED
    BY <2>1, <2>2, <2>3 DEF LinksAgree
<1>7. AllReachable'
  BY <1>1, <1>3, NULLAssumption DEF AllReachable
<1>8. AdminIsRoot'
  BY <1>1, <1>3 DEF AdminIsRoot, TypeOK
<1>9. CountExact' /\ IsFiniteSet(live)'
  BY <1>2, <1>3, FS_Singleton DEF CountExact
<1> QED
  BY <1>4, <1>6, <1>7, <1>8, <1>9

LEMMA InsertChildTree ==
    ASSUME TreeInv, NEW p \in live, InsertChild(p)
    PROVE  TreeInv'
<1> USE DEF TreeInv
<1>1. PICK n \in Node \ live : /\ live' = live \union {n}
                               /\ parent' = [parent EXCEPT ![n] = p]
                               /\ children' = [children EXCEPT ![p] = Append(@, n)]
  BY DEF InsertChild
<1>2. totalNodes' = totalNodes + 1 /\ UNCHANGED <<isRoot, isAdmin, root>> /\ root # NULL
  BY DEF InsertChild
<1>3. p \in Node /\ p # n /\ children[p] \in Seq(Node)
  BY DEF TypeOK
<1>4. /\ Append(children[p], n) \in Seq(Node)
      /\ Range(Append(children[p], n)) = Range(children[p]) \union {n}
      /\ NoRepeat(children[p]) /\ n \notin Range(children[p]) => NoRepeat(Append(children[p], n))
  BY <1>3, AppendHolds
<1>5. /\ children'[p] = Append(children[p], n)
      /\ \A m \in Node \ {p} : children'[m] = children[m]
      /\ parent'[n] = p
      /\ \A m \in Node \ {n} : parent'[m] = parent[m]
  BY <1>1, <1>3 DEF TypeOK
<1>6. TypeOK'
  BY <1>1, <1>2, <1>3, <1>4 DEF TypeOK, Pointer
<1>7. /\ parent[n] = NULL /\ children[n] = <<>> /\ ~isRoot[n] /\ ~isAdmin[n]
      /\ \A m \in live : n \notin Range(children[m])
  BY DEF LinksAgree, FreedIsBlank, ParentsAgree
<1>8. LinksAgree'
  <2>1. FreedIsBlank'
    BY <1>1, <1>2, <1>5 DEF LinksAgree, FreedIsBlank
  <2>2. ParentsAgree'
    <3> SUFFICES ASSUME NEW m \in live'
                 PROVE  /\ NoRepeat(children'[m])
                        /\ \A x \in Node : x \in Range(children'[m]) <=> (x \in live' /\ parent'[x] = m)
      BY DEF ParentsAgree
    <3>1. CASE m = p
      BY <1>1, <1>4, <1>5, <1>7, <3>1 DEF LinksAgree, ParentsAgree
    <3>2. CASE m = n
      <4>1. \A x \in live : parent[x] # n
        BY NULLAssumption DEF LinksAgree, RootAgrees
      <4>2. children'[m] = <<>>
        BY <1>3, <1>5, <1>7, <3>2
      <4> QED
        BY <1>1, <1>3, <1>5, <3>2, <4>1, <4>2 DEF NoRepeat, Range
    <3>3. CASE m \notin {p, n}
      BY <1>1, <1>5, <1>7, <3>3 DEF LinksAgree, ParentsAgree, TypeOK
    <3> QED
      BY <3>1, <3>2, <3>3
  <2>3. RootAgrees'
    BY <1>1, <1>2, <1>3, <1>5, <1>7, NULLAssumption DEF LinksAgree, RootAgrees, TypeOK
  <2> QED
    BY <2>1, <2>2, <2>3 DEF LinksAgree
<1>9. AllReachable'
  <2> SUFFICES ASSUME NEW S \in SUBSET live', root \in S,
                      \A m \in S : Range(children'[m]) \subseteq S
               PROVE  live' \subseteq S
    BY <1>2 DEF AllReachable
  <2> DEFINE T == S \ {n}
  <2>1. T \in SUBSET live /\ root \in T
    BY <1>1, <1>2 DEF LinksAgree, RootAgrees
  <2>2. \A m \in T : Range(children[m]) \subseteq T
    <3> SUFFICES ASSUME NEW m \in T
                 PROVE  Range(children[m]) \subseteq S /\ n \notin Range(children[m])
      OBVIOUS
    <3>1. m \in live /\ m \in Node
      BY <2>1 DEF TypeOK
    <3>2. Range(children[m]) \subseteq Range(children'[m])
      BY <1>4, <1>5, <3>1
    <3> QED
      BY <1>7, <3>1, <3>2
  <2>3. live \subseteq T
    BY <2>1, <2>2 DEF AllReachable
  <2>4. n \in S
    BY <1>4, <1>5, <2>3
  <2> QED
    BY <1>1, <2>3, <2>4
<1>10. AdminIsRoot'
  BY <1>1, <1>2, <1>7 DEF AdminIsRoot, LinksAgree, RootAgrees
<1>11. CountExact' /\ IsFiniteSet(live)'
  BY <1>1, <1>2, FS_AddElement DEF CountExact
<1> QED
  BY <1>6, <1>8, <1>9, <1>10, <1>11

\* The two shapes of a deletion: the last account, or one below the root.
LEMMA DeleteRootEmpties ==
    ASSUME TreeInv, NEW d \in live, Delete(d), d = root
    PROVE  live = {d} /\ children[d] = <<>>
<1>1. children[d] = <<>>
  BY DEF Delete, RootPinned, TreeInv, LinksAgree, RootAgrees
<1>2. \A m \in {d} : Range(children[m]) \subseteq {d}
  BY <1>1 DEF Range
<1> QED
  BY <1>1, <1>2 DEF TreeInv, AllReachable

\* Below the root, the children of d move to the array of its parent q.
LEMMA DeleteInnerMoves ==
    ASSUME TreeInv, NEW d \in live, Delete(d), d # root, NEW q, q = parent[d]
    PROVE  /\ q \in live' /\ q \in Node /\ d \in Node /\ q # d
           /\ children'[q] \in Seq(Node)
           /\ NoRepeat(children'[q])
           /\ Range(children'[q]) = (Range(children[q]) \ {d}) \union Range(children[d])
           /\ children'[d] = <<>>
           /\ \A n \in Node \ {d, q} : children'[n] = children[n]
           /\ parent'[d] = NULL
           /\ \A n \in Range(children[d]) : parent'[n] = q
           /\ \A n \in Node : n # d /\ n \notin Range(children[d]) => parent'[n] = parent[n]
<1> USE DEF TreeInv
<1>1. q \in live /\ q # d /\ d \in Range(children[q])
  BY ParentHolds
<1>2. q \in Node /\ d \in Node /\ children[q] \in Seq(Node) /\ children[d] \in Seq(Node)
  BY <1>1 DEF TypeOK
<1>3. NoRepeat(children[q]) /\ NoRepeat(children[d])
  BY <1>1 DEF LinksAgree, ParentsAgree
<1> DEFINE u == Unlink(children[q], d)
<1>4. u \in Seq(Node) /\ NoRepeat(u) /\ Range(u) = Range(children[q]) \ {d}
  BY <1>1, <1>2, <1>3, UnlinkRemoves
<1>5. \A n \in Range(children[d]) : n \in live /\ n \in Node /\ parent[n] = d
  BY <1>2 DEF LinksAgree, ParentsAgree, Range
<1>6. \A n \in Range(children[q]) : parent[n] = q
  BY <1>1, <1>2 DEF LinksAgree, ParentsAgree, Range
<1>7. Range(u) \intersect Range(children[d]) = {}
  BY <1>1, <1>4, <1>5, <1>6
<1>8. children'[q] = u \o children[d] /\ children'[d] = <<>>
  BY <1>1, <1>2 DEF Delete, ChildrenWithout
<1>9. \A n \in Node \ {d, q} : children'[n] = children[n]
  BY DEF Delete, ChildrenWithout
<1>10. d \notin Range(children[d])
  BY <1>1, <1>5
<1>11. /\ parent'[d] = NULL
       /\ \A n \in Range(children[d]) : parent'[n] = q
       /\ \A n \in Node : n # d /\ n \notin Range(children[d]) => parent'[n] = parent[n]
  BY <1>2, <1>5, <1>10 DEF Delete, ParentsWithout
<1>12. q \in live'
  BY <1>1 DEF Delete
<1> HIDE DEF u
<1>13. /\ u \o children[d] \in Seq(Node)
       /\ Range(u \o children[d]) = Range(u) \union Range(children[d])
       /\ NoRepeat(u \o children[d])
  BY <1>2, <1>3, <1>4, <1>7, ConcatHolds
<1> QED
  BY <1>1, <1>2, <1>4, <1>8, <1>9, <1>11, <1>12, <1>13

LEMMA DeleteTypes ==
    ASSUME TreeInv, NEW d \in live, Delete(d)
    PROVE  TypeOK' /\ CountExact' /\ IsFiniteSet(live)'
<1> USE DEF TreeInv
<1>1. CountExact' /\ IsFiniteSet(live)' /\ totalNodes' \in Nat
  <2>1. IsFiniteSet(live \ {d}) /\ Cardinality(live \ {d}) = Cardinality(live) - 1
    BY FS_RemoveElement
  <2>2. Cardinality(live \ {d}) \in Nat
    BY <2>1, FS_CardinalityType
  <2> QED
    BY <2>1, <2>2 DEF Delete, CountExact
<1>2. children' \in [Node -> Seq(Node)]
  <2>1. children' = ChildrenWithout(d)
    BY DEF Delete
  <2>2. ASSUME NEW n \in Node
        PROVE  ChildrenWithout(d)[n] \in Seq(Node)
    <3>1. CASE d = root
      <4>1. parent[d] = NULL /\ children[d] = <<>>
        BY <3>1, ParentHolds, DeleteRootEmpties
      <4>2. ChildrenWithout(d)[n] = IF n = d THEN <<>> ELSE children[n]
        BY <4>1, NULLAssumption DEF ChildrenWithout
      <4> QED
        BY <4>2 DEF TypeOK
    <3>2. CASE d # root
      <4> DEFINE q == parent[d]
      <4>1. /\ children'[q] \in Seq(Node) /\ children'[d] = <<>>
            /\ \A m \in Node \ {d, q} : children'[m] = children[m]
        BY <3>2, DeleteInnerMoves
      <4> HIDE DEF q
      <4>2. CASE n = d
        <5>1. ChildrenWithout(d)[n] = <<>>
          BY <2>1, <4>1, <4>2
        <5> QED
          BY <5>1
      <4>3. CASE n = q
        BY <2>1, <4>1, <4>3
      <4>4. CASE n \notin {d, q}
        BY <2>1, <4>1, <4>4 DEF TypeOK
      <4> QED
        BY <4>2, <4>3, <4>4
    <3> QED
      BY <3>1, <3>2
  <2>3. ChildrenWithout(d) = [n \in Node |-> ChildrenWithout(d)[n]]
    BY DEF ChildrenWithout
  <2> QED
    BY <2>1, <2>2, <2>3
<1>3. parent' \in [Node -> Pointer]
  BY DEF Delete, ParentsWithout, TypeOK, Pointer
<1>4. isAdmin' \in [Node -> BOOLEAN] /\ isRoot' \in [Node -> BOOLEAN]
  BY DEF Delete, AdminsWithout, TypeOK
<1>5. live' \subseteq Node /\ root' \in Pointer
  BY DEF Delete, TypeOK, Pointer
<1> QED
  BY <1>1, <1>2, <1>3, <1>4, <1>5 DEF TypeOK

\* The deletion of the last account leaves a blank tree.
LEMMA DeleteLastTree ==
    ASSUME TreeInv, NEW d \in live, Delete(d), d = root
    PROVE  LinksAgree' /\ AllReachable' /\ AdminIsRoot'
<1> USE DEF TreeInv
<1>1. live = {d} /\ children[d] = <<>> /\ parent[d] = NULL
  BY ParentHolds, DeleteRootEmpties
<1>2. live' = {} /\ root' = NULL
  BY <1>1 DEF Delete
<1>3. \A n \in Node : children'[n] = <<>> /\ parent'[n] = NULL /\ ~isRoot'[n] /\ ~isAdmin'[n]
  <2> SUFFICES ASSUME NEW n \in Node
               PROVE  children'[n] = <<>> /\ parent'[n] = NULL /\ ~isRoot'[n] /\ ~isAdmin'[n]
    OBVIOUS
  <2>1. Range(children[d]) = {}
    BY <1>1 DEF Range
  <2>2. n # d => children[n] = <<>> /\ parent[n] = NULL /\ ~isRoot[n] /\ ~isAdmin[n]
    BY <1>1 DEF LinksAgree, FreedIsBlank
  <2>3. children'[n] = <<>>
    BY <1>1, <2>2, NULLAssumption DEF Delete, ChildrenWithout
  <2>4. parent'[n] = NULL /\ ~isAdmin'[n]
    BY <2>1, <2>2 DEF Delete, ParentsWithout, AdminsWithout
  <2>5. ~isRoot'[n]
    BY <2>2 DEF Delete, TypeOK
  <2> QED
    BY <2>3, <2>4, <2>5
<1>4. LinksAgree'
  BY <1>2, <1>3 DEF LinksAgree, FreedIsBlank, ParentsAgree, RootAgrees
<1> QED
  BY <1>2, <1>4 DEF AllReachable, AdminIsRoot

\* The deletion of an account below the root.
LEMMA DeleteInnerTree ==
    ASSUME TreeInv, NEW d \in live, Delete(d), d # root
    PROVE  LinksAgree' /\ AllReachable' /\ AdminIsRoot'
<1> USE DEF TreeInv
<1> DEFINE q == parent[d]
<1>1. /\ q \in live' /\ q \in Node /\ d \in Node /\ q # d
      /\ NoRepeat(children'[q])
      /\ Range(children'[q]) = (Range(children[q]) \ {d}) \union Range(children[d])
      /\ children'[d] = <<>>
      /\ \A n \in Node \ {d, q} : children'[n] = children[n]
      /\ parent'[d] = NULL
      /\ \A n \in Range(children[d]) : parent'[n] = q
      /\ \A n \in Node : n # d /\ n \notin Range(children[d]) => parent'[n] = parent[n]
  BY DeleteInnerMoves
<1> HIDE DEF q
<1>2. q \in live /\ q = parent[d] /\ d \in Range(children[q])
  BY ParentHolds DEF q
<1>3. \A p \in live, n \in Node : n \in Range(children[p]) <=> (n \in live /\ parent[n] = p)
  BY DEF LinksAgree, ParentsAgree
<1>4. live' = live \ {d} /\ root' = root /\ root # NULL /\ root \in live'
  <2>1. parent[d] # NULL
    BY ParentHolds
  <2> QED
    BY <2>1 DEF Delete, LinksAgree, RootAgrees
<1>5. /\ ~isRoot'[d] /\ ~isAdmin'[d]
      /\ \A n \in Node \ {d} : isRoot'[n] = isRoot[n]
      /\ \A n \in Node \ {d} : n \notin Range(children[d]) => isAdmin'[n] = isAdmin[n]
      /\ \A n \in Node \ {d} : n \in Range(children[d]) => isAdmin'[n] = isAdmin[d]
  <2>1. isAdmin' = AdminsWithout(d) /\ isRoot' = [isRoot EXCEPT ![d] = FALSE]
    BY DEF Delete
  <2>2. d \notin Range(children[d])
    BY <1>1, <1>2, <1>3
  <2>3. /\ AdminsWithout(d)[d] = FALSE
        /\ \A n \in Node \ {d} : n \in Range(children[d]) => AdminsWithout(d)[n] = isAdmin[d]
        /\ \A n \in Node \ {d} : n \notin Range(children[d]) => AdminsWithout(d)[n] = isAdmin[n]
    BY <1>1, <2>2 DEF AdminsWithout
  <2>4. isRoot'[d] = FALSE /\ \A n \in Node \ {d} : isRoot'[n] = isRoot[n]
    BY <1>1, <2>1 DEF TypeOK
  <2> QED
    BY <2>1, <2>3, <2>4
<1>6. \A n \in Range(children[d]) : n \in live' /\ n # root /\ n # d /\ n \in Node
  <2> SUFFICES ASSUME NEW n \in Range(children[d])
               PROVE  n \in live' /\ n # root /\ n # d /\ n \in Node
    OBVIOUS
  <2>1. n \in Node
    BY <1>1 DEF TypeOK, Range
  <2>2. n \in live /\ parent[n] = d
    BY <1>3, <2>1
  <2>3. n # d
    BY <1>1, <1>2, <2>2
  <2>4. n # root
    BY <2>2, <1>1, NULLAssumption DEF LinksAgree, RootAgrees
  <2> QED
    BY <1>4, <2>1, <2>2, <2>3, <2>4
<1>7. FreedIsBlank'
  BY <1>1, <1>2, <1>4, <1>5, <1>6 DEF LinksAgree, FreedIsBlank
<1>8. ParentsAgree'
  <2> SUFFICES ASSUME NEW m \in live'
               PROVE  /\ NoRepeat(children'[m])
                      /\ \A x \in Node : x \in Range(children'[m]) <=> (x \in live' /\ parent'[x] = m)
    BY DEF ParentsAgree
  <2>1. CASE m = q
    BY <1>1, <1>2, <1>3, <1>4, <1>6, <2>1
  <2>2. CASE m # q
    <3>1. m \in live /\ m \in Node \ {d, q} /\ children'[m] = children[m]
      BY <1>1, <1>4, <2>2 DEF TypeOK
    <3>2. NoRepeat(children[m])
      BY <3>1 DEF LinksAgree, ParentsAgree
    <3>3. ASSUME NEW x \in Node
          PROVE  x \in Range(children[m]) <=> (x \in live' /\ parent'[x] = m)
      <4>1. CASE x \in Range(children[d])
        BY <1>1, <1>3, <2>2, <3>1, <4>1
      <4>2. CASE x \notin Range(children[d])
        BY <1>1, <1>2, <1>3, <1>4, <2>2, <3>1, <4>2
      <4> QED
        BY <4>1, <4>2
    <3> QED
      BY <3>1, <3>2, <3>3
  <2> QED
    BY <2>1, <2>2
<1>9. RootAgrees'
  <2> SUFFICES ASSUME NEW n \in live'
               PROVE  /\ parent'[n] \in live' \union {NULL}
                      /\ parent'[n] = NULL <=> n = root
                      /\ isRoot'[n] <=> n = root
    BY <1>4 DEF RootAgrees
  <2>1. n \in live /\ n \in Node \ {d}
    BY <1>4 DEF TypeOK
  <2>2. isRoot'[n] <=> n = root
    BY <1>5, <2>1 DEF LinksAgree, RootAgrees
  <2>3. CASE n \in Range(children[d])
    BY <1>1, <1>6, <2>2, <2>3, NULLAssumption
  <2>4. CASE n \notin Range(children[d])
    <3>1. parent'[n] = parent[n] /\ parent[n] # d
      BY <1>1, <1>3, <2>1, <2>4
    <3> QED
      BY <1>4, <2>1, <2>2, <3>1 DEF LinksAgree, RootAgrees
  <2> QED
    BY <2>3, <2>4
<1>10. AllReachable'
  <2> SUFFICES ASSUME NEW S \in SUBSET live', root \in S,
                      \A n \in S : Range(children'[n]) \subseteq S
               PROVE  live' \subseteq S
    BY <1>4 DEF AllReachable
  <2>1. S \subseteq live /\ d \notin S
    BY <1>4
  <2>2. \A n \in S : n # q => children'[n] = children[n]
    BY <1>1, <2>1 DEF TypeOK
  <2>3. q \in S
    <3> SUFFICES ASSUME q \notin S
                 PROVE  FALSE
      OBVIOUS
    <3>1. \A n \in S : Range(children[n]) \subseteq S
      BY <2>2
    <3> QED
      BY <1>2, <2>1, <3>1 DEF AllReachable
  <2> DEFINE T == S \union {d}
  <2>4. \A n \in T : Range(children[n]) \subseteq T
    BY <1>1, <2>2, <2>3
  <2>5. T \subseteq live /\ root \in T
    BY <2>1
  <2>6. live \subseteq T
    BY <2>4, <2>5 DEF AllReachable
  <2> QED
    BY <1>4, <2>6
<1>11. AdminIsRoot'
  BY <1>4, <1>5, <1>6 DEF AdminIsRoot, TypeOK
<1> QED
  BY <1>7, <1>8, <1>9, <1>10, <1>11 DEF LinksAgree

LEMMA DeleteTree ==
    ASSUME TreeInv, NEW d \in live, Delete(d)
    PROVE  TreeInv'
<1>1. CASE d = root
  BY <1>1, DeleteTypes, DeleteLastTree DEF TreeInv
<1>2. CASE d # root
  BY <1>2, DeleteTypes, DeleteInnerTree DEF TreeInv
<1> QED
  BY <1>1, <1>2

LEMMA NextTree == TreeInv /\ [Next]_vars => TreeInv'
<1> SUFFICES ASSUME TreeInv, [Next]_vars
             PROVE  TreeInv'
  OBVIOUS
<1>1. CASE InsertRoot
  BY <1>1, InsertRootTree
<1>2. ASSUME NEW p \in live, InsertChild(p)
      PROVE  TreeInv'
  BY <1>2, InsertChildTree
<1>3. ASSUME NEW d \in live, Delete(d)
      PROVE  TreeInv'
  BY <1>3, DeleteTree
<1>4. CASE UNCHANGED vars
  BY <1>4 DEF vars, TreeInv, TypeOK, LinksAgree, FreedIsBlank, ParentsAgree, RootAgrees,
              AllReachable, AdminIsRoot, CountExact
<1> QED
  BY <1>1, <1>2, <1>3, <1>4 DEF Next, Corrupted

-----------------------------------------------------------------------------
\* Every reachable tree satisfies the whole invariant.
THEOREM TreeInvariant == Spec => []TreeInv
<1>1. Init => TreeInv
  BY InitTree
<1>2. TreeInv /\ [Next]_vars => TreeInv'
  BY NextTree
<1> QED
  BY <1>1, <1>2, PTL DEF Spec

\* The fields keep their types; total_nodes never goes below zero.
THEOREM TypeCorrect == Spec => []TypeOK
<1>1. TreeInv => TypeOK
  BY DEF TreeInv
<1> QED
  BY <1>1, TreeInvariant, PTL

\* No link of the tree refers to a freed node, and arrays and parents agree.
THEOREM LinksCorrect == Spec => []LinksAgree
<1>1. TreeInv => LinksAgree
  BY DEF TreeInv
<1> QED
  BY <1>1, TreeInvariant, PTL

\* No insertion and no deletion loses an account that it was not asked to.
THEOREM ReachableCorrect == Spec => []AllReachable
<1>1. TreeInv => AllReachable
  BY DEF TreeInv
<1> QED
  BY <1>1, TreeInvariant, PTL

\* No sequence of calls makes anyone but the root an admin.
THEOREM AdminCorrect == Spec => []AdminIsRoot
<1>1. TreeInv => AdminIsRoot
  BY DEF TreeInv
<1> QED
  BY <1>1, TreeInvariant, PTL

\* total_nodes is exact.
THEOREM CountCorrect == Spec => []CountExact
<1>1. TreeInv => CountExact
  BY DEF TreeInv
<1> QED
  BY <1>1, TreeInvariant, PTL

\* A children array outgrows its capacity only in the deletion of an account
\* that has children.
THEOREM OverrunCorrect == Spec => OverrunOnlyByDelete
<1> DEFINE Slip == ~Overrun /\ Overrun' => \E d \in live : live' = live \ {d} /\ children[d] # <<>>
<1>1. TreeInv /\ [Next]_vars => [Slip]_vars
  <2> SUFFICES ASSUME TreeInv, [Next]_vars, ~Overrun, Overrun'
               PROVE  \E d \in live : live' = live \ {d} /\ children[d] # <<>>
    BY DEF vars
  <2> USE DEF TreeInv
  <2>1. PICK x \in live' : Len(children'[x]) > MaxChildren
    BY DEF Overrun
  <2>2. CASE InsertRoot
    <3>1. live = {} /\ x \in Node \ live /\ children'[x] = children[x]
      BY <2>2, NULLAssumption DEF InsertRoot, LinksAgree, RootAgrees
    <3>2. Len(children'[x]) = 0
      BY <3>1 DEF LinksAgree, FreedIsBlank
    <3> QED
      BY <2>1, <3>2, MaxChildrenAssumption
  <2>3. ASSUME NEW p \in live, InsertChild(p)
        PROVE  FALSE
    <3>1. PICK n \in Node \ live : live' = live \union {n}
                                   /\ children' = [children EXCEPT ![p] = Append(@, n)]
      BY <2>3 DEF InsertChild
    <3>2. Len(children[p]) < MaxChildren /\ children[p] \in Seq(Node)
      BY <2>3 DEF InsertChild, HasRoom, TypeOK
    <3>3. CASE x = p
      <4>1. Len(children'[x]) = Len(children[p]) + 1
        BY <3>1, <3>2, <3>3 DEF TypeOK
      <4> QED
        BY <2>1, <3>2, <4>1, MaxChildrenAssumption
    <3>4. CASE x = n
      <4>1. children'[x] = <<>>
        BY <3>1, <3>4 DEF LinksAgree, FreedIsBlank, TypeOK
      <4> QED
        BY <2>1, <4>1, MaxChildrenAssumption
    <3>5. CASE x \in live \ {p}
      <4>1. children'[x] = children[x]
        BY <3>1, <3>5 DEF TypeOK
      <4> QED
        BY <2>1, <3>5, <4>1 DEF Overrun
    <3> QED
      BY <3>1, <3>3, <3>4, <3>5
  <2>4. ASSUME NEW d \in live, Delete(d), children[d] = <<>>
        PROVE  FALSE
    <3>1. x \in live /\ x # d
      BY <2>4 DEF Delete
    <3>2. ~(Len(children[x]) > MaxChildren)
      BY <3>1 DEF Overrun
    <3>3. Len(children'[x]) <= Len(children[x])
      <4>1. CASE x # parent[d]
        BY <2>4, <3>1, <4>1 DEF Delete, ChildrenWithout, TypeOK
      <4>2. CASE x = parent[d]
        <5> DEFINE u == Unlink(children[x], d)
        <5>1. d # root /\ d \in Range(children[x])
          BY <3>1, <4>2, ParentHolds, NULLAssumption DEF TypeOK
        <5>2. children[x] \in Seq(Node) /\ NoRepeat(children[x])
          BY <3>1 DEF TypeOK, LinksAgree, ParentsAgree
        <5>3. u \in Seq(Node) /\ Len(u) = Len(children[x]) - 1
          BY <5>1, <5>2, UnlinkRemoves
        <5>4. children'[x] = u \o <<>>
          BY <2>4, <3>1, <4>2 DEF Delete, ChildrenWithout, TypeOK
        <5> HIDE DEF u
        <5> QED
          BY <5>2, <5>3, <5>4
      <4> QED
        BY <4>1, <4>2
    <3>4. children[x] \in Seq(Node) /\ children'[x] \in Seq(Node)
      BY <2>4, <3>1, DeleteTypes DEF TypeOK
    <3> QED
      BY <2>1, <3>2, <3>3, <3>4, MaxChildrenAssumption
  <2>5. CASE UNCHANGED vars
    BY <2>5 DEF vars, Overrun
  <2>6. ASSUME NEW d \in live, Delete(d)
        PROVE  live' = live \ {d}
    BY <2>6 DEF Delete
  <2> QED
    BY <2>2, <2>3, <2>4, <2>5, <2>6 DEF Next, Corrupted
<1> QED
  BY <1>1, TreeInvariant, PTL DEF Spec, OverrunOnlyByDelete

-----------------------------------------------------------------------------
\* Ancestors.

\* A set of nodes that the parent pointers do not leave.
Upward(S) == \A m \in S : parent[m] \in S \union {NULL}

LEMMA AncestorByUpward ==
    ASSUME NEW a, NEW n
    PROVE  Ancestor(a, n) <=> a # n /\ \A S \in SUBSET live : n \in S /\ Upward(S) => a \in S
BY DEF Ancestor, Upward

\* The new leaf is above nobody.
LEMMA InsertKeepsAncestry ==
    ASSUME TreeInv, NEW p \in live, InsertChild(p), NEW a \in live, NEW n \in live
    PROVE  Ancestor(a, n) <=> Ancestor(a, n)'
<1> USE DEF TreeInv
<1>1. PICK x \in Node \ live : live' = live \union {x} /\ parent' = [parent EXCEPT ![x] = p]
  BY DEF InsertChild
<1>2. \A m \in live : parent'[m] = parent[m] /\ parent[m] # x
  BY <1>1, NULLAssumption DEF TypeOK, LinksAgree, RootAgrees
<1>3. ASSUME Ancestor(a, n), NEW S \in SUBSET live', n \in S, Upward(S)'
      PROVE  a \in S
  <2>1. S \ {x} \in SUBSET live /\ n \in S \ {x}
    BY <1>1, <1>3
  <2>2. Upward(S \ {x})
    BY <1>1, <1>2, <1>3, <2>1 DEF Upward
  <2> QED
    BY <1>3, <2>1, <2>2 DEF Ancestor, Upward
<1>4. ASSUME Ancestor(a, n)', NEW S \in SUBSET live, n \in S, Upward(S)
      PROVE  a \in S
  <2>1. S \in SUBSET live' /\ Upward(S)'
    BY <1>1, <1>2, <1>4 DEF Upward
  <2> QED
    BY <1>4, <2>1 DEF Ancestor, Upward
<1> QED
  BY <1>3, <1>4 DEF Ancestor, Upward

\* A deletion takes d out of every chain of parents that goes through it.
LEMMA DeleteKeepsAncestry ==
    ASSUME TreeInv, NEW d \in live, Delete(d), d # root,
           NEW a \in live \ {d}, NEW n \in live \ {d}
    PROVE  Ancestor(a, n) <=> Ancestor(a, n)'
<1> USE DEF TreeInv
<1> DEFINE q == parent[d]
<1>1. live' = live \ {d}
  BY DEF Delete
<1>2. q \in live' /\ q # d
  BY DeleteInnerMoves
<1>3. \A m \in live \ {d} : parent'[m] = IF parent[m] = d THEN q ELSE parent[m]
  <2>1. \A m \in live : m \in Range(children[d]) <=> parent[m] = d
    BY DEF LinksAgree, ParentsAgree, TypeOK
  <2>2. \A m \in Range(children[d]) : parent'[m] = q
    BY DeleteInnerMoves
  <2>3. \A m \in Node : m # d /\ m \notin Range(children[d]) => parent'[m] = parent[m]
    BY DeleteInnerMoves
  <2> QED
    BY <2>1, <2>2, <2>3 DEF TypeOK
<1>4. \A m \in live : parent[m] \in live \union {NULL}
  BY DEF LinksAgree, RootAgrees
<1> HIDE DEF q
<1>5. ASSUME Ancestor(a, n), NEW S \in SUBSET live', n \in S, Upward(S)'
      PROVE  a \in S
  <2>1. CASE \E m \in S : parent[m] = d
    <3>1. q \in S
      BY <1>1, <1>2, <1>3, <1>5, <2>1, NULLAssumption DEF Upward, TypeOK
    <3>2. S \union {d} \in SUBSET live /\ n \in S \union {d}
      BY <1>1, <1>5
    <3>3. Upward(S \union {d})
      BY <1>1, <1>2, <1>3, <1>5, <3>1 DEF Upward, q
    <3>4. a \in S \union {d}
      BY <1>5, <3>2, <3>3 DEF Ancestor, Upward
    <3> QED
      BY <3>4
  <2>2. CASE \A m \in S : parent[m] # d
    <3>1. S \in SUBSET live /\ Upward(S)
      BY <1>1, <1>3, <1>5, <2>2 DEF Upward
    <3> QED
      BY <1>5, <3>1 DEF Ancestor, Upward
  <2> QED
    BY <2>1, <2>2
<1>6. ASSUME Ancestor(a, n)', NEW S \in SUBSET live, n \in S, Upward(S)
      PROVE  a \in S
  <2>1. S \ {d} \in SUBSET live' /\ n \in S \ {d}
    BY <1>1, <1>6
  <2>2. ASSUME NEW m \in S \ {d}
        PROVE  parent'[m] \in (S \ {d}) \union {NULL}
    <3>1. CASE parent[m] = d
      <4>1. d \in S
        BY <1>6, <3>1, NULLAssumption DEF Upward, TypeOK
      <4>2. q \in S \ {d}
        BY <1>1, <1>2, <1>6, <4>1, NULLAssumption DEF Upward, q, TypeOK
      <4> QED
        BY <1>3, <1>6, <3>1, <4>2
    <3>2. CASE parent[m] # d
      BY <1>3, <1>6, <3>2 DEF Upward
    <3> QED
      BY <3>1, <3>2
  <2>3. Upward(S \ {d})'
    BY <2>2 DEF Upward
  <2> QED
    BY <1>6, <2>1, <2>3 DEF Ancestor, Upward
<1> QED
  BY <1>5, <1>6 DEF Ancestor, Upward

\* Among the accounts that stay, who is above whom does not change, whether a
\* call adds a leaf or takes out an inner account.
THEOREM AncestryCorrect == Spec => AncestryKept
<1> DEFINE Kept == \A a, n \in live \intersect live' : Ancestor(a, n) <=> Ancestor(a, n)'
<1>1. TreeInv /\ [Next]_vars => [Kept]_vars
  <2> SUFFICES ASSUME TreeInv, Next,
                      NEW a \in live \intersect live', NEW n \in live \intersect live'
               PROVE  Ancestor(a, n) <=> Ancestor(a, n)'
    OBVIOUS
  <2>1. CASE InsertRoot
    BY <2>1 DEF InsertRoot, TreeInv, LinksAgree, RootAgrees
  <2>2. ASSUME NEW p \in live, InsertChild(p)
        PROVE  Ancestor(a, n) <=> Ancestor(a, n)'
    BY <2>2, InsertKeepsAncestry
  <2>3. ASSUME NEW d \in live, Delete(d)
        PROVE  Ancestor(a, n) <=> Ancestor(a, n)'
    <3>1. live' = live \ {d}
      BY <2>3 DEF Delete
    <3>2. d # root
      BY <2>3, <3>1, DeleteRootEmpties
    <3> QED
      BY <2>3, <3>1, <3>2, DeleteKeepsAncestry
  <2>4. CASE UNCHANGED vars
    BY <2>4 DEF vars, Ancestor
  <2> QED
    BY <2>1, <2>2, <2>3, <2>4 DEF Next, Corrupted
<1> QED
  BY <1>1, TreeInvariant, PTL DEF Spec, AncestryKept

-----------------------------------------------------------------------------
\* The order of siblings.

\* In an array without repeats no two entries precede each other.
LEMMA OrderIsStrict ==
    ASSUME NEW s \in Seq(Node), NoRepeat(s), NEW x, NEW y, Precedes(s, x, y)
    PROVE  ~Precedes(s, y, x)
BY DEF Precedes, NoRepeat

\* The memmove keeps the order of the entries that stay.
LEMMA UnlinkKeepsOrder ==
    ASSUME NEW s \in Seq(Node), NEW d \in Range(s), NoRepeat(s),
           NEW x, NEW y, Precedes(Unlink(s, d), x, y)
    PROVE  Precedes(s, x, y)
<1> DEFINE k == Slot(s, d)
           u == [i \in 1 .. Len(s) - 1 |-> IF i < k THEN s[i] ELSE s[i + 1]]
<1>1. k \in 1 .. Len(s)
  BY SlotIsIndex
<1>2. Unlink(s, d) = u
  BY DEF Unlink
<1> HIDE DEF k
<1>3. PICK i \in 1 .. Len(s) - 1, j \in 1 .. Len(s) - 1 : i < j /\ u[i] = x /\ u[j] = y
  BY <1>2 DEF Precedes
<1> DEFINE From(h) == IF h < k THEN h ELSE h + 1
<1>4. /\ From(i) \in 1 .. Len(s) /\ From(j) \in 1 .. Len(s)
      /\ From(i) < From(j) /\ s[From(i)] = x /\ s[From(j)] = y
  BY <1>1, <1>3
<1> HIDE DEF From
<1> QED
  BY <1>4 DEF Precedes

\* Entries of the first array stand in a concatenation as they stood in it.
LEMMA ConcatKeepsOrder ==
    ASSUME NEW s \in Seq(Node), NEW t \in Seq(Node), NEW x, NEW y,
           x \notin Range(t), y \notin Range(t), Precedes(s \o t, x, y)
    PROVE  Precedes(s, x, y)
<1>1. PICK i \in 1 .. Len(s) + Len(t), j \in 1 .. Len(s) + Len(t) :
         i < j /\ (s \o t)[i] = x /\ (s \o t)[j] = y
  BY DEF Precedes
<1>2. ASSUME NEW h \in 1 .. Len(s) + Len(t), (s \o t)[h] \notin Range(t)
      PROVE  h \in 1 .. Len(s) /\ s[h] = (s \o t)[h]
  <2>1. CASE h <= Len(s)
    BY <2>1
  <2>2. CASE ~(h <= Len(s))
    <3>1. h - Len(s) \in 1 .. Len(t) /\ (s \o t)[h] = t[h - Len(s)]
      BY <2>2
    <3> QED
      BY <1>2, <3>1 DEF Range
  <2> QED
    BY <2>1, <2>2
<1> QED
  BY <1>1, <1>2 DEF Precedes

\* The same of the entries of the second array.
LEMMA ConcatKeepsOrderBehind ==
    ASSUME NEW s \in Seq(Node), NEW t \in Seq(Node), NEW x, NEW y,
           x \notin Range(s), y \notin Range(s), Precedes(s \o t, x, y)
    PROVE  Precedes(t, x, y)
<1>1. PICK i \in 1 .. Len(s) + Len(t), j \in 1 .. Len(s) + Len(t) :
         i < j /\ (s \o t)[i] = x /\ (s \o t)[j] = y
  BY DEF Precedes
<1>2. ASSUME NEW h \in 1 .. Len(s) + Len(t), (s \o t)[h] \notin Range(s)
      PROVE  h - Len(s) \in 1 .. Len(t) /\ t[h - Len(s)] = (s \o t)[h]
  <2>1. CASE h <= Len(s)
    <3>1. h \in 1 .. Len(s) /\ (s \o t)[h] = s[h]
      BY <2>1
    <3> QED
      BY <1>2, <3>1 DEF Range
  <2>2. CASE ~(h <= Len(s))
    BY <2>2
  <2> QED
    BY <2>1, <2>2
<1>3. i - Len(s) \in 1 .. Len(t) /\ t[i - Len(s)] = x /\ j - Len(s) \in 1 .. Len(t) /\ t[j - Len(s)] = y
  BY <1>1, <1>2
<1> QED
  BY <1>1, <1>3 DEF Precedes

\* An insertion puts the new account behind the others.
LEMMA AppendIsConcat ==
    ASSUME NEW s \in Seq(Node), NEW n \in Node
    PROVE  Append(s, n) = s \o <<n>>
OBVIOUS

\* Accounts that stay siblings keep their order: an insertion appends, and a
\* deletion closes the gap and puts the orphans behind, in their own order.
THEOREM SiblingOrderCorrect == Spec => SiblingOrderKept
<1> DEFINE Kept == \A x, y \in live \intersect live', p \in live, q \in live' :
                      Precedes(children[p], x, y) => ~Precedes(children'[q], y, x)
<1>1. TreeInv /\ [Next]_vars => [Kept]_vars
  <2> SUFFICES ASSUME TreeInv, Next, NEW x \in live \intersect live', NEW y \in live \intersect live',
                      NEW p \in live, NEW q \in live',
                      Precedes(children[p], x, y), Precedes(children'[q], y, x)
               PROVE  FALSE
    OBVIOUS
  <2> USE DEF TreeInv
  <2>1. \A r \in live : children[r] \in Seq(Node) /\ NoRepeat(children[r])
    BY DEF TypeOK, LinksAgree, ParentsAgree
  <2>2. \A r \in live : x \in Range(children[r]) \/ y \in Range(children[r]) => r = p
    <3>1. x \in Range(children[p]) /\ y \in Range(children[p])
      BY DEF Precedes, Range
    <3> QED
      BY <3>1 DEF LinksAgree, ParentsAgree, TypeOK
  <2>3. \A r \in live : ~Precedes(children[r], y, x)
    <3> SUFFICES ASSUME NEW r \in live, Precedes(children[r], y, x)
                 PROVE  FALSE
      OBVIOUS
    <3>1. r = p
      BY <2>2 DEF Precedes, Range
    <3> QED
      BY <2>1, <3>1, OrderIsStrict
  <2>4. q \in live => children'[q] # children[q]
    BY <2>3
  <2>5. CASE InsertRoot
    BY <2>5 DEF InsertRoot, LinksAgree, RootAgrees
  <2>6. ASSUME NEW r \in live, InsertChild(r)
        PROVE  FALSE
    <3>1. PICK n \in Node \ live : /\ live' = live \union {n}
                                   /\ children' = [children EXCEPT ![r] = Append(@, n)]
      BY <2>6 DEF InsertChild
    <3>2. CASE q = n
      <4>1. children'[q] = <<>>
        BY <3>1, <3>2 DEF TypeOK, LinksAgree, FreedIsBlank
      <4> QED
        BY <4>1 DEF Precedes
    <3>3. CASE q \in live
      <4>1. children'[q] = Append(children[q], n)
        BY <2>4, <3>1, <3>3 DEF TypeOK
      <4>2. Append(children[q], n) = children[q] \o <<n>>
        BY <2>1, <3>3, AppendIsConcat
      <4>3. <<n>> \in Seq(Node) /\ x \notin Range(<<n>>) /\ y \notin Range(<<n>>)
        BY DEF Range
      <4> QED
        BY <2>1, <2>3, <3>3, <4>1, <4>2, <4>3, ConcatKeepsOrder
    <3> QED
      BY <3>1, <3>2, <3>3
  <2>7. ASSUME NEW d \in live, Delete(d)
        PROVE  FALSE
    <3>1. q \in live \ {d}
      BY <2>7 DEF Delete
    <3>2. q = parent[d] /\ d # root
      BY <2>4, <2>7, <3>1, DeleteRootEmpties DEF Delete, ChildrenWithout, TypeOK
    <3>3. d \in Range(children[q])
      BY <3>2, ParentHolds
    <3>4. children'[q] = Unlink(children[q], d) \o children[d]
      BY <2>7, <3>1, <3>2 DEF Delete, ChildrenWithout, TypeOK
    <3>5. /\ Unlink(children[q], d) \in Seq(Node) /\ children[d] \in Seq(Node)
          /\ Range(Unlink(children[q], d)) \subseteq Range(children[q])
      BY <2>1, <3>1, <3>3, UnlinkRemoves
    <3>6. CASE p = d
      <4>1. x \notin Range(children[q]) /\ y \notin Range(children[q])
        BY <2>2, <3>1, <3>6
      <4>2. Precedes(children[d], y, x)
        BY <3>4, <3>5, <4>1, ConcatKeepsOrderBehind
      <4> QED
        BY <2>3, <4>2
    <3>7. CASE p # d
      <4>1. x \notin Range(children[d]) /\ y \notin Range(children[d])
        BY <2>2, <3>7
      <4>2. Precedes(Unlink(children[q], d), y, x)
        BY <3>4, <3>5, <4>1, ConcatKeepsOrder
      <4>3. Precedes(children[q], y, x)
        BY <2>1, <3>1, <3>3, <4>2, UnlinkKeepsOrder
      <4> QED
        BY <2>3, <3>1, <4>3
    <3> QED
      BY <3>6, <3>7
  <2>8. CASE UNCHANGED vars
    BY <2>4, <2>8 DEF vars
  <2> QED
    BY <2>5, <2>6, <2>7, <2>8 DEF Next, Corrupted
<1> QED
  BY <1>1, TreeInvariant, PTL DEF Spec, SiblingOrderKept
=============================================================================
