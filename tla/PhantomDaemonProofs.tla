------------------------ MODULE PhantomDaemonProofs ------------------------
(***************************************************************************)
(* The command handler drives the account tree by its operations only, so  *)
(* the theorems of PhantomTreeProofs hold of the daemon, and what clients  *)
(* are told agrees with the tree, the depth in a summary included, for     *)
(* every set of accounts and capacity.                                     *)
(***************************************************************************)
EXTENDS PhantomDaemon, PhantomTreeProofs, FiniteSetTheorems, WellFoundedInduction

\* ToldIsTrue is inductive together with: only accounts once told are told gone.
ToldInv == ToldIsTrue /\ gone \subseteq told

\* A command creates an account, deletes one, or leaves the tree and the
\* clients' knowledge alone.
LEMMA HandleCases ==
    ASSUME Handle
    PROVE  \/ \E id \in KnownIds \union {NULL} : Create(Command("create", id, NULL))
           \/ \E id \in KnownIds : DeleteAccount(Command("delete", id, NULL))
           \/ UNCHANGED <<tree, told, gone>>
BY DEF Handle, CreateFails, DeleteFails, Message, List, Fixed, Fail, Answer

\* A creation is an insertion of PhantomTree.
LEMMA CreateInserts ==
    ASSUME NEW cmd, Create(cmd)
    PROVE  InsertRoot \/ \E p \in live : InsertChild(p)
BY DEF Create

\* A deletion is a deletion of PhantomTree.
LEMMA DeleteDeletes ==
    ASSUME NEW cmd, DeleteAccount(cmd)
    PROVE  \E d \in live : Delete(d)
BY DEF DeleteAccount

\* A step of the daemon is a step of the account tree or leaves it alone.
LEMMA DaemonStep == [DaemonNext]_daemonVars => [Next]_vars
<1> SUFFICES ASSUME [DaemonNext]_daemonVars
             PROVE  [Next]_vars
  OBVIOUS
<1>1. CASE Handle
  <2>1. ASSUME NEW id \in KnownIds \union {NULL}, Create(Command("create", id, NULL))
        PROVE  Next
    BY <2>1, CreateInserts DEF Next
  <2>2. ASSUME NEW id \in KnownIds, DeleteAccount(Command("delete", id, NULL))
        PROVE  Next
    BY <2>2, DeleteDeletes DEF Next
  <2>3. CASE UNCHANGED <<tree, told, gone>>
    BY <2>3 DEF tree, vars
  <2> QED
    BY <1>1, <2>1, <2>2, <2>3, HandleCases
<1>2. CASE Corrupted /\ UNCHANGED daemonVars
  BY <1>2 DEF Next
<1>3. CASE UNCHANGED daemonVars
  BY <1>3 DEF daemonVars, tree, vars
<1> QED
  BY <1>1, <1>2, <1>3 DEF DaemonNext

\* The daemon (phantom_on_client_data) implements the account tree: whatever
\* clients send, the tree only sees complete insertions and deletions.
THEOREM DaemonImplementsTree == DaemonSpec => Spec
<1>1. DaemonInit => Init
  BY DEF DaemonInit
<1> QED
  BY <1>1, DaemonStep, PTL DEF DaemonSpec, Spec

\* The link structure of the tree is intact in every state of the daemon.
THEOREM DaemonLinksCorrect == DaemonSpec => []LinksAgree
BY DaemonImplementsTree, LinksCorrect, PTL

\* A creation adds one account that no client was told of.
LEMMA CreateTells ==
    ASSUME NEW cmd, Create(cmd), ToldInv
    PROVE  ToldInv'
<1>1. PICK n \in Node \ live : live' = live \union {n}
  BY DEF Create, InsertRoot, InsertChild
<1>2. live' \ live = {n}
  BY <1>1
<1>3. CreatedId(cmd) = n
  <2>1. \A m \in Node : live' \ live = {m} <=> m = n
    BY <1>2
  <2> QED
    BY <2>1 DEF CreatedId
<1>4. reply'.id = n
  BY <1>3 DEF Create, Reply
<1>5. n \notin told
  BY <1>2 DEF Create
<1> QED
  BY <1>1, <1>4, <1>5 DEF Create, ToldInv, ToldIsTrue

\* A deletion takes away the account the client is told of.
LEMMA DeleteTells ==
    ASSUME NEW cmd, DeleteAccount(cmd), ToldInv
    PROVE  ToldInv'
<1>1. live' = live \ {cmd.id} /\ cmd.id \in live
  BY DEF DeleteAccount, Delete
<1>2. gone' = gone \union {cmd.id} /\ told' = told
  BY DEF DeleteAccount
<1> QED
  BY <1>1, <1>2 DEF ToldInv, ToldIsTrue

LEMMA NextTells == ToldInv /\ [DaemonNext]_daemonVars => ToldInv'
<1> SUFFICES ASSUME ToldInv, [DaemonNext]_daemonVars
             PROVE  ToldInv'
  OBVIOUS
<1>1. CASE UNCHANGED <<tree, told, gone>>
  BY <1>1 DEF ToldInv, ToldIsTrue, tree
<1>2. CASE Handle
  BY <1>1, <1>2, HandleCases, CreateTells, DeleteTells
<1>3. UNCHANGED daemonVars => UNCHANGED <<tree, told, gone>>
  BY DEF daemonVars
<1> QED
  BY <1>1, <1>2, <1>3 DEF DaemonNext

\* Clients can rely on their answers: the accounts in the tree are those told
\* created and not told deleted.
THEOREM ToldCorrect == DaemonSpec => []ToldIsTrue
<1>1. DaemonInit => ToldInv
  BY DEF DaemonInit, Init, ToldInv, ToldIsTrue
<1>2. ToldInv => ToldIsTrue
  BY DEF ToldInv
<1> QED
  BY <1>1, <1>2, NextTells, PTL DEF DaemonSpec

\* A refused creation gives its own reason.
LEMMA CreateFailureExplained ==
    ASSUME NEW id, CreateFails(Command("create", id, NULL)), LinksAgree
    PROVE  Explains(reply'.error, reply'.cmd)
<1> DEFINE cmd == Command("create", id, NULL)
           p == ParentOf(id)
<1>1. reply'.error = Refusal(cmd) /\ reply'.cmd = cmd /\ cmd.op = "create" /\ cmd.id = id
  BY DEF CreateFails, Fail, Reply, Command
<1> HIDE DEF cmd
<1>2. CASE root = NULL /\ id # NULL
  BY <1>1, <1>2 DEF Explains, Refusal
<1>3. CASE root # NULL /\ p \notin live
  <2>1. id # NULL /\ id \notin live
    BY <1>3 DEF ParentOf, LinksAgree, RootAgrees
  <2>2. Refusal(cmd) = "Parent node not found"
    BY <1>1, <1>3 DEF Refusal, NotFoundError
  <2> QED
    BY <1>1, <1>3, <2>1, <2>2 DEF Explains
<1>4. CASE root # NULL /\ p \in live /\ ~HasRoom(p)
  <2>1. Refusal(cmd) = "Parent node full"
    BY <1>1, <1>4 DEF Refusal
  <2> QED
    BY <1>1, <1>4, <2>1 DEF Explains
<1>5. CASE /\ ~(root = NULL /\ id # NULL)
           /\ ~(root # NULL /\ p \notin live)
           /\ ~(root # NULL /\ p \in live /\ ~HasRoom(p))
  <2>1. Refusal(cmd) = "Failed to allocate node"
    BY <1>1, <1>5 DEF Refusal
  <2> QED
    BY <1>1, <2>1 DEF Explains
<1> QED
  BY <1>2, <1>3, <1>4, <1>5

\* A refused message gives its own reason.
LEMMA MessageFailureExplained ==
    ASSUME NEW id, NEW to, Message(Command("msg", id, to)), reply'.says = "failed"
    PROVE  Explains(reply'.error, reply'.cmd)
<1> DEFINE cmd == Command("msg", id, to)
<1>1. cmd.op = "msg"
  BY DEF Command
<1> HIDE DEF cmd
<1>2. Message(cmd) /\ reply'.says = "failed"
  BY DEF cmd
<1>3. ~BothFound(cmd)
  <2>1. Reply(cmd, "sent").says = "sent"
    BY DEF Reply
  <2>2. "sent" # "failed"
    OBVIOUS
  <2> QED
    BY <1>2, <2>1, <2>2, Zenon DEF Message, Answer
<1>4. Fail(cmd, "Source or destination node not found")
  BY <1>2, <1>3 DEF Message
<1>5. reply'.error = "Source or destination node not found" /\ reply'.cmd = cmd
  BY <1>4 DEF Fail, Reply
<1>6. Explains(reply'.error, reply'.cmd)
  BY <1>1, <1>3, <1>5 DEF Explains, BothFound
<1> QED
  BY <1>6

\* The answers that do not fail say so, and a delete answers a delete.
LEMMA OtherAnswers ==
    /\ \A cmd : Create(cmd) => reply'.says # "failed"
    /\ \A cmd : List(cmd) \/ Fixed(cmd) => reply'.says # "failed"
    /\ \A id : LET cmd == Command("delete", id, NULL) IN
                 DeleteAccount(cmd) \/ DeleteFails(cmd) => reply'.cmd.op = "delete"
<1>1. \A cmd : Create(cmd) => reply'.says # "failed"
  BY DEF Create, Reply
<1>2. ASSUME NEW cmd, List(cmd)
      PROVE  reply'.says # "failed"
  BY <1>2 DEF List, Answer, Reply
<1>3. ASSUME NEW cmd, Fixed(cmd)
      PROVE  reply'.says # "failed"
  BY <1>3 DEF Fixed, Answer, Reply
<1>4. ASSUME NEW cmd, DeleteAccount(cmd) \/ DeleteFails(cmd)
      PROVE  reply'.cmd = cmd
  <2>1. CASE DeleteAccount(cmd)
    BY <2>1 DEF DeleteAccount, Reply
  <2>2. CASE Fail(cmd, "Cannot delete root with children")
    BY <2>2 DEF Fail, Reply
  <2>3. CASE Answer([Reply(cmd, "failed") EXCEPT !.error = errorBuffer])
    BY <2>3 DEF Answer, Reply
  <2> QED
    BY <1>4, <2>1, <2>2, <2>3 DEF DeleteFails
<1>5. ASSUME NEW id
      PROVE  Command("delete", id, NULL).op = "delete"
  BY DEF Command
<1>6. \A id : LET cmd == Command("delete", id, NULL) IN
             DeleteAccount(cmd) \/ DeleteFails(cmd) => reply'.cmd.op = "delete"
  BY <1>4, <1>5
<1> QED
  BY <1>1, <1>2, <1>3, <1>6

\* A create or a msg that fails quotes the error of its own failure.
THEOREM FailuresCorrect == DaemonSpec => FailuresExplained
<1>1. ASSUME LinksAgree, [DaemonNext]_daemonVars
      PROVE  [reply' # reply /\ reply'.says = "failed" /\ reply'.cmd.op # "delete" =>
                 Explains(reply'.error, reply'.cmd)]_daemonVars
  <2> SUFFICES ASSUME DaemonNext, reply' # reply, reply'.says = "failed", reply'.cmd.op # "delete"
               PROVE  Explains(reply'.error, reply'.cmd)
    BY <1>1
  <2>1. Handle
    BY DEF DaemonNext, daemonVars
  <2>2. \/ \E id \in KnownIds \union {NULL} : CreateFails(Command("create", id, NULL))
        \/ \E id, to \in KnownIds : Message(Command("msg", id, to))
    BY <2>1, OtherAnswers DEF Handle
  <2> QED
    BY <1>1, <2>2, CreateFailureExplained, MessageFailureExplained
<1> QED
  BY <1>1, DaemonLinksCorrect, PTL DEF DaemonSpec, FailuresExplained

-----------------------------------------------------------------------------
\* The depth.

\* A set of numbers that is not empty has a least one.
LEMMA HasLeast ==
    ASSUME NEW S \in SUBSET Nat, S # {}
    PROVE  \E m \in S : \A n \in S : m <= n
<1> DEFINE R == OpToRel(<, Nat)
<1>1. \A x \in Nat : \A y \in Nat : <<x, y>> \in R <=> x < y
  BY Zenon DEF OpToRel
<1>2. IsWellFoundedOn(R, Nat)
  BY NatLessThanWellFounded, Zenon
<1>3. S \subseteq Nat
  OBVIOUS
<1> HIDE DEF R
<1>4. PICK m \in S : \A n \in S : ~(<<n, m>> \in R)
  BY <1>2, <1>3, WFMin, Zenon
<1>5. ASSUME NEW n \in S
      PROVE  m <= n
  <2>1. m \in Nat /\ n \in Nat
    BY <1>3
  <2>2. ~(n < m)
    BY <1>1, <1>4, <2>1
  <2> QED
    BY <2>1, <2>2
<1> QED
  BY <1>5

\* Max is the one member that no other exceeds.
LEMMA MaxIs ==
    ASSUME NEW S \in SUBSET Nat, NEW x \in S, \A y \in S : y <= x
    PROVE  Max(S) = x
<1>1. \A y \in S : x >= y
  OBVIOUS
<1>2. \A z \in S : (\A y \in S : z >= y) => z = x
  OBVIOUS
<1> QED
  BY <1>1, <1>2 DEF Max

\* A bounded set of numbers has a maximum.
LEMMA MaxHolds ==
    ASSUME NEW b \in Nat, NEW S \in SUBSET (0 .. b), S # {}
    PROVE  Max(S) \in S /\ \A y \in S : y <= Max(S)
<1> DEFINE T == {b - y : y \in S}
<1>1. T \in SUBSET Nat /\ T # {}
  <2>1. \A y \in S : y \in 0 .. b
    OBVIOUS
  <2>2. \A y \in S : b - y \in Nat
    BY <2>1
  <2> QED
    BY <2>2
<1>2. PICK m \in T : \A n \in T : m <= n
  BY <1>1, HasLeast
<1>3. PICK x \in S : m = b - x
  BY <1>2
<1>4. ASSUME NEW y \in S
      PROVE  y <= x
  <2>1. b - x <= b - y
    BY <1>2, <1>3
  <2>2. x \in 0 .. b /\ y \in 0 .. b
    OBVIOUS
  <2> QED
    BY <2>1, <2>2
<1>5. S \in SUBSET Nat
  OBVIOUS
<1>6. Max(S) = x
  BY <1>3, <1>4, <1>5, MaxIs
<1> QED
  BY <1>4, <1>6

\* What is above an account is its parent and what is above that.
LEMMA AncestorUp ==
    ASSUME TreeInv, NEW n \in live, n # root, NEW a, Ancestor(a, n), a # parent[n]
    PROVE  Ancestor(a, parent[n])
<1> DEFINE p == parent[n]
<1>1. p \in live
  BY ParentHolds
<1>2. ASSUME NEW S \in SUBSET live, p \in S, Upward(S)
      PROVE  a \in S
  <2>1. S \union {n} \in SUBSET live /\ n \in S \union {n} /\ Upward(S \union {n})
    BY <1>2 DEF Upward
  <2>2. a \in S \union {n}
    BY <2>1, AncestorByUpward
  <2> QED
    BY <2>2, AncestorByUpward
<1> QED
  BY <1>2, AncestorByUpward

\* Nothing is above the root.
LEMMA RootOnTop ==
    ASSUME TreeInv, NEW a
    PROVE  root \in live => ~Ancestor(a, root)
<1> SUFFICES ASSUME root \in live, Ancestor(a, root)
             PROVE  FALSE
  OBVIOUS
<1>1. parent[root] = NULL
  BY DEF TreeInv, LinksAgree, RootAgrees
<1>2. {root} \in SUBSET live /\ Upward({root})
  BY <1>1 DEF Upward
<1> QED
  BY <1>2, AncestorByUpward

\* Children of n, by their parent pointer.
LEMMA ChildHolds ==
    ASSUME TreeInv, NEW n \in live, NEW c
    PROVE  c \in Range(children[n]) <=> c \in live /\ c # root /\ parent[c] = n
<1>1. c \in Range(children[n]) => c \in Node
  BY DEF TreeInv, TypeOK, Range
<1>2. c \in live => c \in Node
  BY DEF TreeInv, TypeOK
<1>3. c \in Node => (c \in Range(children[n]) <=> c \in live /\ parent[c] = n)
  BY DEF TreeInv, LinksAgree, ParentsAgree
<1>4. c \in live /\ parent[c] = n => c # root
  BY NULLAssumption DEF TreeInv, TypeOK, LinksAgree, RootAgrees
<1> QED
  BY <1>1, <1>2, <1>3, <1>4

\* What holds of the root and passes from a node to its children holds of all.
LEMMA Downward ==
    ASSUME TreeInv, NEW S \in SUBSET live, root \in live => root \in S,
           \A n \in live : n # root /\ parent[n] \in S => n \in S
    PROVE  S = live
<1>1. root # NULL => root \in S
  BY DEF TreeInv, LinksAgree, RootAgrees
<1>2. \A n \in S : Range(children[n]) \subseteq S
  BY ChildHolds
<1> QED
  BY <1>1, <1>2 DEF TreeInv, AllReachable

\* The tree has no cycle.
LEMMA NoCycle ==
    ASSUME TreeInv, NEW n \in live, n # root
    PROVE  ~Ancestor(n, parent[n])
<1> SUFFICES ASSUME Ancestor(n, parent[n])
             PROVE  FALSE
  OBVIOUS
<1> DEFINE S == {x \in live : x # n /\ ~Ancestor(n, x)}
<1>1. root \in live => root \in S
  BY RootOnTop
<1>2. ASSUME NEW x \in live, x # root, parent[x] \in S
      PROVE  x \in S
  <2>1. x # n
    BY <1>2
  <2>2. ~Ancestor(n, x)
    BY <1>2, AncestorUp
  <2> QED
    BY <2>1, <2>2
<1>3. S = live
  BY <1>1, <1>2, Downward
<1> QED
  BY <1>3

LEMMA AncestorStep ==
    ASSUME TreeInv, NEW n \in live, n # root, NEW a \in live
    PROVE  Ancestor(a, n) <=> a = parent[n] \/ Ancestor(a, parent[n])
<1> DEFINE p == parent[n]
<1>1. p \in live /\ p # n /\ p # NULL
  BY ParentHolds, NULLAssumption DEF TreeInv, TypeOK
<1>2. ASSUME a = p \/ Ancestor(a, p)
      PROVE  Ancestor(a, n)
  <2>1. a # n
    BY <1>1, <1>2, NoCycle
  <2>2. ASSUME NEW S \in SUBSET live, n \in S, Upward(S)
        PROVE  a \in S
    <3>1. p \in S
      BY <1>1, <2>2 DEF Upward
    <3> QED
      BY <1>2, <2>2, <3>1, AncestorByUpward
  <2> QED
    BY <2>1, <2>2, AncestorByUpward
<1> QED
  BY <1>2, AncestorUp

\* An account is one further from the root than its parent.
LEMMA PathGrows ==
    ASSUME TreeInv, NEW n \in live
    PROVE  /\ PathLength(n) \in 1 .. Cardinality(live) /\ Cardinality(live) \in Nat
           /\ n = root => PathLength(n) = 1
           /\ n # root => /\ parent[n] \in live
                          /\ PathLength(n) = PathLength(parent[n]) + 1
<1> DEFINE Above(m) == {a \in live : Ancestor(a, m)}
<1>1. IsFiniteSet(live) /\ Cardinality(live) \in Nat
  BY FS_CardinalityType DEF TreeInv
<1>2. \A m \in live : IsFiniteSet(Above(m)) /\ Cardinality(Above(m)) \in Nat
  BY <1>1, FS_Subset, FS_CardinalityType
<1>3. Above(n) \subseteq live \ {n}
  BY DEF Ancestor
<1>4. IsFiniteSet(live \ {n}) /\ Cardinality(live \ {n}) = Cardinality(live) - 1
  BY <1>1, FS_RemoveElement
<1>5. Cardinality(Above(n)) <= Cardinality(live) - 1
  BY <1>3, <1>4, FS_Subset
<1>6. ASSUME n = root
      PROVE  Cardinality(Above(n)) = 0
  <2>1. Above(n) = {}
    BY <1>6, RootOnTop
  <2> QED
    BY <2>1, FS_EmptySet
<1>7. ASSUME n # root
      PROVE  parent[n] \in live /\ Cardinality(Above(n)) = Cardinality(Above(parent[n])) + 1
  <2>1. parent[n] \in live
    BY <1>7, ParentHolds
  <2>2. Above(n) = Above(parent[n]) \union {parent[n]}
    BY <1>7, <2>1, AncestorStep
  <2>3. parent[n] \notin Above(parent[n])
    BY DEF Ancestor
  <2> QED
    BY <1>2, <2>1, <2>2, <2>3, FS_AddElement
<1>8. \A m : PathLength(m) = 1 + Cardinality(Above(m))
  BY DEF PathLength
<1> HIDE DEF Above
<1>9. PathLength(n) \in 1 .. Cardinality(live)
  BY <1>1, <1>2, <1>5, <1>8
<1> QED
  BY <1>1, <1>2, <1>6, <1>7, <1>8, <1>9

\* The accounts of the subtree of n, and how far they are from the root.
Under(n) == {m \in live : m = n \/ Ancestor(n, m)}

Lengths(n) == {PathLength(m) : m \in Under(n)}

\* Everything is under the root.
LEMMA UnderRoot ==
    ASSUME TreeInv, root \in live
    PROVE  Under(root) = live
<1>1. ASSUME NEW n \in live, n # root, parent[n] \in Under(root)
      PROVE  n \in Under(root)
  BY <1>1, AncestorStep DEF Under
<1>2. Under(root) \in SUBSET live /\ root \in Under(root)
  BY DEF Under
<1> QED
  BY <1>1, <1>2, Downward

\* Under an account are itself and what is under its children.
LEMMA UnderChildren ==
    ASSUME TreeInv, NEW n \in live, NEW m \in live
    PROVE  m \in Under(n) <=> m = n \/ \E c \in Range(children[n]) : m \in Under(c)
<1> DEFINE S == {x \in live : Ancestor(n, x) => \E c \in Range(children[n]) : x \in Under(c)}
<1>1. root \in live => root \in S
  BY RootOnTop
<1>2. ASSUME NEW x \in live, x # root, parent[x] \in S
      PROVE  x \in S
  <2> SUFFICES ASSUME Ancestor(n, x)
               PROVE  \E c \in Range(children[n]) : x \in Under(c)
    BY <1>2
  <2>1. CASE n = parent[x]
    <3>1. x \in Range(children[n]) /\ x \in Under(x)
      BY <1>2, <2>1, ChildHolds DEF Under
    <3> QED
      BY <3>1
  <2>2. CASE n # parent[x]
    <3>1. Ancestor(n, parent[x])
      BY <1>2, <2>2, AncestorUp
    <3>2. PICK c \in Range(children[n]) : parent[x] \in Under(c)
      BY <1>2, <3>1
    <3>3. c \in live
      BY ChildHolds
    <3>4. Ancestor(c, x)
      BY <1>2, <3>2, <3>3, AncestorStep DEF Under
    <3> QED
      BY <1>2, <3>2, <3>4 DEF Under
  <2> QED
    BY <2>1, <2>2
<1>3. S = live
  BY <1>1, <1>2, Downward
<1>4. ASSUME NEW c \in Range(children[n]), m \in Under(c)
      PROVE  m \in Under(n)
  <2>1. c \in live /\ c # root /\ parent[c] = n
    BY ChildHolds
  <2>2. Ancestor(n, c) /\ ~Ancestor(c, n)
    BY <2>1, AncestorStep, NoCycle
  <2>3. CASE m = c
    BY <2>2, <2>3 DEF Under
  <2>4. CASE Ancestor(c, m)
    <3>1. n # m
      BY <2>2, <2>4
    <3>2. ASSUME NEW U \in SUBSET live, m \in U, Upward(U)
          PROVE  n \in U
      <4>1. c \in U
        BY <2>4, <3>2, AncestorByUpward
      <4> QED
        BY <2>2, <3>2, <4>1, AncestorByUpward
    <3> QED
      BY <3>1, <3>2, AncestorByUpward DEF Under
  <2> QED
    BY <1>4, <2>3, <2>4 DEF Under
<1> QED
  BY <1>3, <1>4 DEF Under

\* The lengths under an account have a maximum.
LEMMA LengthsHold ==
    ASSUME TreeInv, NEW n \in live
    PROVE  /\ Lengths(n) \in SUBSET (0 .. Cardinality(live)) /\ PathLength(n) \in Lengths(n)
           /\ Cardinality(live) \in Nat
           /\ Max(Lengths(n)) \in Lengths(n) /\ \A y \in Lengths(n) : y <= Max(Lengths(n))
<1>1. Cardinality(live) \in Nat /\ \A m \in live : PathLength(m) \in 1 .. Cardinality(live)
  BY PathGrows
<1>2. PathLength(n) \in Lengths(n)
  BY DEF Lengths, Under
<1>3. Lengths(n) \in SUBSET (0 .. Cardinality(live))
  BY <1>1 DEF Lengths, Under
<1> QED
  BY <1>1, <1>2, <1>3, MaxHolds

\* The height of the subtree of n.
Height(n) == IF n \in live THEN Max(Lengths(n)) - PathLength(n) + 1 ELSE 1

LEMMA HeightHolds ==
    ASSUME TreeInv, NEW n \in Node
    PROVE  /\ Height(n) \in Nat \ {0}
           /\ Height(n) = 1 + Max({0} \union {Height(c) : c \in Range(children[n])})
<1> DEFINE S == {0} \union {Height(c) : c \in Range(children[n])}
           P == PathLength(n)
           M == Max(Lengths(n))
<1>1. CASE n \notin live
  <2>1. children[n] = <<>>
    BY <1>1 DEF TreeInv, LinksAgree, FreedIsBlank
  <2>2. S = {0}
    BY <2>1 DEF Range
  <2>3. Max(S) = 0
    BY <2>2, MaxIs
  <2> QED
    BY <1>1, <2>3 DEF Height
<1>2. CASE n \in live
  <2>1. P \in Nat /\ M \in Nat /\ P <= M /\ P \in Lengths(n) /\ M \in Lengths(n)
    BY <1>2, LengthsHold
  <2>2. ASSUME NEW c \in Range(children[n])
        PROVE  /\ c \in live /\ PathLength(c) = P + 1 /\ Lengths(c) \subseteq Lengths(n)
               /\ Max(Lengths(c)) \in Lengths(c) /\ \A y \in Lengths(c) : y <= Max(Lengths(c))
               /\ Height(c) = Max(Lengths(c)) - P
               /\ Max(Lengths(c)) \in Nat /\ P + 1 <= Max(Lengths(c)) /\ Max(Lengths(c)) <= M
    <3>1. c \in live /\ c # root /\ parent[c] = n
      BY <1>2, ChildHolds
    <3>2. PathLength(c) = P + 1
      BY <3>1, PathGrows
    <3>3. Lengths(c) \subseteq Lengths(n)
      BY <1>2, UnderChildren DEF Lengths, Under
    <3>4. /\ Max(Lengths(c)) \in Lengths(c) /\ \A y \in Lengths(c) : y <= Max(Lengths(c))
          /\ PathLength(c) \in Lengths(c) /\ Max(Lengths(c)) \in Nat
      BY <3>1, LengthsHold
    <3>5. Max(Lengths(c)) <= M
      BY <1>2, <3>3, <3>4, LengthsHold
    <3>6. Height(c) = Max(Lengths(c)) - PathLength(c) + 1
      BY <3>1 DEF Height
    <3>7. Height(c) = Max(Lengths(c)) - P
      BY <2>1, <3>2, <3>4, <3>6
    <3>8. P + 1 <= Max(Lengths(c))
      BY <3>2, <3>4
    <3> QED
      BY <3>1, <3>2, <3>3, <3>4, <3>5, <3>7, <3>8
  <2> HIDE DEF P, M
  <2>3. S \in SUBSET Nat
    <3>1. \A c \in Range(children[n]) : Height(c) \in Nat
      BY <2>1, <2>2
    <3> QED
      BY <3>1
  <2>4. \A y \in S : y <= M - P
    BY <2>1, <2>2
  <2>5. M - P \in S
    <3>1. PICK m \in live : m \in Under(n) /\ M = PathLength(m)
      BY <2>1 DEF Lengths, Under
    <3>2. CASE m = n
      BY <2>1, <3>1, <3>2 DEF P
    <3>3. CASE \E c \in Range(children[n]) : m \in Under(c)
      <4>1. PICK c \in Range(children[n]) : m \in Under(c)
        BY <3>3
      <4>2. M \in Lengths(c)
        BY <3>1, <4>1 DEF Lengths
      <4>3. Max(Lengths(c)) = M
        BY <2>1, <2>2, <4>2
      <4>4. Height(c) = M - P
        BY <2>2, <4>3
      <4> QED
        BY <4>4
    <3> QED
      BY <1>2, <3>1, <3>2, <3>3, UnderChildren
  <2>6. Max(S) = M - P
    BY <2>3, <2>4, <2>5, MaxIs
  <2>7. Height(n) = M - P + 1
    BY <1>2 DEF Height, M, P
  <2> QED
    BY <2>1, <2>6, <2>7
<1> QED
  BY <1>1, <1>2

\* The recursion of get_depth_helper has a result, and it satisfies its equation.
LEMMA DepthBelowHolds ==
    ASSUME TreeInv
    PROVE  \A n \in Node : DepthBelow[n] = 1 + Max({0} \union {DepthBelow[c] : c \in Range(children[n])})
<1> DEFINE f == [n \in Node |-> Height(n)]
<1>1. ASSUME NEW n \in Node
      PROVE  f[n] = 1 + Max({0} \union {f[c] : c \in Range(children[n])})
  <2>1. \A c \in Range(children[n]) : c \in Node
    BY DEF TreeInv, TypeOK, Range
  <2>2. {f[c] : c \in Range(children[n])} = {Height(c) : c \in Range(children[n])}
    BY <2>1
  <2>3. f[n] = Height(n)
    OBVIOUS
  <2> QED
    BY <2>2, <2>3, HeightHolds
<1>2. f = [n \in Node |-> 1 + Max({0} \union {f[c] : c \in Range(children[n])})]
  <2> DEFINE g == [n \in Node |-> 1 + Max({0} \union {f[c] : c \in Range(children[n])})]
  <2>1. \A n \in Node : f[n] = g[n]
    BY <1>1
  <2> HIDE DEF g
  <2>2. f = [n \in Node |-> f[n]] /\ g = [n \in Node |-> g[n]]
    BY DEF g
  <2>3. f = g
    BY <2>1, <2>2
  <2> QED
    BY <2>3 DEF g
<1> HIDE DEF f
<1>3. DepthBelow = [n \in Node |-> 1 + Max({0} \union {DepthBelow[c] : c \in Range(children[n])})]
  BY <1>2, Zenon DEF DepthBelow
<1> QED
  BY <1>3, Zenon

\* Its result is the height: no account is the deepest one at which they differ.
LEMMA DepthBelowIsHeight ==
    ASSUME TreeInv, NEW n \in live
    PROVE  DepthBelow[n] = Height(n)
<1> DEFINE Bad == {m \in live : DepthBelow[m] # Height(m)}
           b == Cardinality(live)
<1> SUFFICES ASSUME Bad # {}
             PROVE  FALSE
  OBVIOUS
<1>1. b \in Nat /\ \A m \in live : PathLength(m) \in 1 .. b
  BY PathGrows
<1> HIDE DEF b
<1>2. PICK d \in Bad : \A m \in Bad : PathLength(m) <= PathLength(d)
  <2> DEFINE S == {PathLength(m) : m \in Bad}
  <2>1. S \in SUBSET (0 .. b) /\ S # {}
    BY <1>1
  <2>2. PICK x \in S : \A y \in S : y <= x
    BY <1>1, <2>1, MaxHolds
  <2> QED
    BY <2>2
<1>3. d \in live /\ d \in Node
  BY DEF TreeInv, TypeOK
<1>4. ASSUME NEW c \in Range(children[d])
      PROVE  DepthBelow[c] = Height(c)
  <2>1. c \in live /\ c # root /\ parent[c] = d
    BY <1>3, ChildHolds
  <2>2. PathLength(c) = PathLength(d) + 1
    BY <2>1, PathGrows
  <2>3. ~(PathLength(c) <= PathLength(d))
    BY <1>1, <1>3, <2>2
  <2> QED
    BY <1>2, <2>1, <2>3
<1>5. {DepthBelow[c] : c \in Range(children[d])} = {Height(c) : c \in Range(children[d])}
  BY <1>4
<1>6. DepthBelow[d] = Height(d)
  BY <1>3, <1>5, DepthBelowHolds, HeightHolds
<1> QED
  BY <1>6

\* phantom_tree_depth is the length of the longest path.
LEMMA DepthIsLongest ==
    ASSUME TreeInv
    PROVE  /\ Depth = Max({0} \union {PathLength(n) : n \in live})
           /\ Depth \in 0 .. Cardinality(live) /\ Cardinality(live) \in Nat
<1> DEFINE S == {0} \union {PathLength(n) : n \in live}
<1>0. Cardinality(live) \in Nat
  BY FS_CardinalityType DEF TreeInv
<1>1. CASE root = NULL
  <2>1. live = {}
    BY <1>1 DEF TreeInv, LinksAgree, RootAgrees
  <2>2. S = {0}
    BY <2>1
  <2>3. Max(S) = 0
    BY <2>2, MaxIs
  <2> QED
    BY <1>0, <1>1, <2>3 DEF Depth
<1>2. CASE root # NULL
  <2>1. root \in live
    BY <1>2 DEF TreeInv, LinksAgree, RootAgrees
  <2>2. PathLength(root) = 1
    BY <2>1, PathGrows
  <2>3. Lengths(root) = {PathLength(n) : n \in live}
    BY <2>1, UnderRoot DEF Lengths
  <2>4. /\ Lengths(root) \in SUBSET (0 .. Cardinality(live))
        /\ Max(Lengths(root)) \in Lengths(root) /\ \A y \in Lengths(root) : y <= Max(Lengths(root))
    BY <2>1, LengthsHold
  <2>5. Max(Lengths(root)) \in 0 .. Cardinality(live)
    BY <2>4
  <2>6. Depth = Max(Lengths(root))
    <3>1. Depth = Height(root)
      BY <1>2, <2>1, DepthBelowIsHeight DEF Depth
    <3> QED
      BY <1>0, <2>1, <2>2, <2>5, <3>1 DEF Height
  <2>7. S = {0} \union Lengths(root)
    BY <2>3
  <2> DEFINE M == Max(Lengths(root))
  <2>8. M \in S /\ S \in SUBSET Nat /\ \A y \in S : y <= M
    BY <1>0, <2>4, <2>5, <2>7
  <2> HIDE DEF M
  <2>9. Max(S) = M
    BY <2>8, MaxIs
  <2> QED
    BY <1>0, <2>5, <2>6, <2>9 DEF M
<1> QED
  BY <1>1, <1>2

\* The numbers of an answer: a list gives those of the tree, the others none.
LEMMA NumbersAnswered ==
    ASSUME TreeInv, Handle
    PROVE  /\ reply'.id \in Pointer
           /\ told' = told \/ \E n \in Node : told' = told \union {n}
           /\ IF reply'.says = "summary"
              THEN reply'.total = totalNodes /\ reply'.depth = Depth
              ELSE reply'.total = 0 /\ reply'.depth = 0
<1> DEFINE Plain == /\ reply'.says # "summary" /\ reply'.total = 0 /\ reply'.depth = 0
                    /\ reply'.id = NULL /\ told' = told
<1>1. ASSUME NEW cmd, NEW error, Fail(cmd, error)
      PROVE  Plain
  BY <1>1 DEF Fail, Reply
<1>2. ASSUME NEW cmd, NEW says \in {"sent", "fixed text"}, Answer(Reply(cmd, says))
      PROVE  Plain
  BY <1>2 DEF Answer, Reply
<1>3. ASSUME NEW cmd, Create(cmd)
      PROVE  /\ reply'.says # "summary" /\ reply'.total = 0 /\ reply'.depth = 0
             /\ reply'.id \in Node /\ told' = told \union {reply'.id}
  <2>1. PICK n \in Node \ live : live' = live \union {n}
    BY <1>3 DEF Create, InsertRoot, InsertChild
  <2>2. live' \ live = {n}
    BY <2>1
  <2>3. \E m \in Node : live' \ live = {m}
    BY <2>2
  <2>4. CreatedId(cmd) \in Node
    BY <2>3 DEF CreatedId
  <2>5. /\ reply' = [Reply(cmd, IF cmd.id = NULL THEN "rootCreated" ELSE "created")
                       EXCEPT !.id = CreatedId(cmd)]
        /\ told' = told \union {reply'.id}
    BY <1>3 DEF Create
  <2> QED
    BY <2>4, <2>5 DEF Reply
<1>4. ASSUME NEW cmd, DeleteAccount(cmd)
      PROVE  /\ reply'.says # "summary" /\ reply'.total = 0 /\ reply'.depth = 0
             /\ reply'.id \in Node /\ told' = told
  <2>1. cmd.id \in Node
    BY <1>4 DEF DeleteAccount, TreeInv, TypeOK
  <2> QED
    BY <1>4, <2>1 DEF DeleteAccount, Reply
<1>5. ASSUME NEW cmd, DeleteFails(cmd)
      PROVE  Plain
  <2>1. CASE Answer([Reply(cmd, "failed") EXCEPT !.error = errorBuffer])
    BY <2>1 DEF Answer, Reply
  <2> QED
    BY <1>1, <1>5, <2>1 DEF DeleteFails
<1>6. ASSUME NEW cmd, List(cmd)
      PROVE  /\ reply'.says = "summary" /\ reply'.total = totalNodes /\ reply'.depth = Depth
             /\ reply'.id = NULL /\ told' = told
  BY <1>6 DEF List, Answer, Reply
<1> DEFINE Goal == /\ reply'.id \in Pointer
                   /\ told' = told \/ \E n \in Node : told' = told \union {n}
                   /\ IF reply'.says = "summary"
                      THEN reply'.total = totalNodes /\ reply'.depth = Depth
                      ELSE reply'.total = 0 /\ reply'.depth = 0
<1>7. Plain => Goal
  BY DEF Pointer
<1>8. ASSUME NEW cmd
      PROVE  /\ Create(cmd) \/ DeleteAccount(cmd) \/ List(cmd) => Goal
             /\ CreateFails(cmd) \/ DeleteFails(cmd) \/ Message(cmd) \/ Fixed(cmd) => Plain
  <2>1. Create(cmd) => Goal
    BY <1>3 DEF Pointer
  <2>2. DeleteAccount(cmd) => Goal
    BY <1>4 DEF Pointer
  <2>3. List(cmd) => Goal
    BY <1>6 DEF Pointer
  <2>4. CreateFails(cmd) \/ DeleteFails(cmd) => Plain
    BY <1>1, <1>5 DEF CreateFails
  <2>5. Message(cmd) \/ Fixed(cmd) => Plain
    BY <1>1, <1>2 DEF Message, Fixed
  <2> QED
    BY <2>1, <2>2, <2>3, <2>4, <2>5
<1> HIDE DEF Goal, Plain
<1>9. Goal
  BY <1>7, <1>8 DEF Handle
<1> QED
  BY <1>9 DEF Goal

\* The summary that list answers with is right: total_nodes is the number of
\* accounts, and the recursion of get_depth_helper finds the longest path.
THEOREM SummaryCorrect == DaemonSpec => SummaryTrue
<1>1. ASSUME TreeInv, [DaemonNext]_daemonVars
      PROVE  [reply' # reply /\ reply'.says = "summary" =>
                 /\ reply'.total = Cardinality(live)
                 /\ reply'.depth = Max({0} \union {PathLength(n) : n \in live})]_daemonVars
  <2> SUFFICES ASSUME DaemonNext, reply' # reply, reply'.says = "summary"
               PROVE  /\ reply'.total = Cardinality(live)
                      /\ reply'.depth = Max({0} \union {PathLength(n) : n \in live})
    BY <1>1
  <2>1. Handle
    BY DEF DaemonNext, daemonVars
  <2>2. reply'.total = totalNodes /\ reply'.depth = Depth
    BY <1>1, <2>1, NumbersAnswered
  <2>3. totalNodes = Cardinality(live)
    BY <1>1 DEF TreeInv, CountExact
  <2> QED
    BY <1>1, <2>2, <2>3, DepthIsLongest
<1>2. DaemonSpec => []TreeInv
  BY DaemonImplementsTree, TreeInvariant, PTL
<1> QED
  BY <1>1, <1>2, PTL DEF DaemonSpec, SummaryTrue

\* What the handler's variables hold, next to the tree's.
AnswerTypes ==
    /\ told \subseteq Node /\ reply.id \in Pointer
    /\ reply.total \in Nat /\ reply.depth \in 0 .. Cardinality(Node)

\* The daemon keeps its types: with finitely many addresses, a depth in an
\* answer is at most their number.
THEOREM DaemonTypeCorrect == IsFiniteSet(Node) /\ DaemonSpec => []DaemonTypeOK
<1> SUFFICES ASSUME IsFiniteSet(Node)
             PROVE  DaemonSpec => []DaemonTypeOK
  OBVIOUS
<1>1. DaemonInit => AnswerTypes
  <2> SUFFICES ASSUME DaemonInit
               PROVE  AnswerTypes
    OBVIOUS
  <2>1. Cardinality(Node) \in Nat
    BY FS_CardinalityType
  <2>2. told = {} /\ reply.id = NULL /\ reply.total = 0 /\ reply.depth = 0
    BY DEF DaemonInit, Reply
  <2> QED
    BY <2>1, <2>2 DEF AnswerTypes, Pointer
<1>2. TreeInv /\ AnswerTypes /\ [DaemonNext]_daemonVars => AnswerTypes'
  <2> SUFFICES ASSUME TreeInv, AnswerTypes, [DaemonNext]_daemonVars
               PROVE  AnswerTypes'
    OBVIOUS
  <2>1. CASE UNCHANGED daemonVars
    BY <2>1 DEF AnswerTypes, daemonVars
  <2>2. CASE Handle
    <3>1. Cardinality(live) <= Cardinality(Node) /\ Cardinality(Node) \in Nat
      BY FS_Subset, FS_CardinalityType DEF TreeInv, TypeOK
    <3>2. Depth \in 0 .. Cardinality(Node) /\ totalNodes \in Nat
      BY <3>1, DepthIsLongest DEF TreeInv, TypeOK
    <3>3. reply'.total \in Nat /\ reply'.depth \in 0 .. Cardinality(Node)
      BY <2>2, <3>1, <3>2, NumbersAnswered
    <3>4. told' \subseteq Node /\ reply'.id \in Pointer
      BY <2>2, NumbersAnswered DEF AnswerTypes
    <3> QED
      BY <3>3, <3>4 DEF AnswerTypes
  <2> QED
    BY <2>1, <2>2 DEF DaemonNext
<1>3. DaemonSpec => []TreeInv
  BY DaemonImplementsTree, TreeInvariant, PTL
<1>4. DaemonInit => ToldInv
  BY DEF DaemonInit, Init, ToldInv, ToldIsTrue
<1>5. TreeInv /\ AnswerTypes /\ ToldInv => DaemonTypeOK
  BY DEF TreeInv, AnswerTypes, ToldInv, DaemonTypeOK
<1> QED
  BY <1>1, <1>2, <1>3, <1>4, <1>5, NextTells, PTL DEF DaemonSpec
=============================================================================
