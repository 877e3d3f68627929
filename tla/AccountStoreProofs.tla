------------------------- MODULE AccountStoreProofs -------------------------
(***************************************************************************)
(* The calls of the flat account store are atomic and its counter, its     *)
(* names and its locks are right, for any threads, sizes and bounds.       *)
(* state_lock makes it so: the thread that holds it is the only one that   *)
(* looks at an account, and what it has seen of the array so far is true.  *)
(***************************************************************************)
EXTENDS AccountStore, FiniteSetTheorems, TLAPS

Inside == {"loop", "look", "unlock", "leave", "end", "overrun"}

CallType ==
    [op : {NULL, "create", "delete", "list"},
     pc : {"idle", "begin"} \union Inside,
     at : 1 .. MAX_ACCOUNTS + 1,
     arg : Name \union {NULL},
     listed : SUBSET (Slot \X Name)]

\* The variables have the types of the C structures, those of a call as well.
StoreTypes ==
    /\ accounts \in [Slot -> Name \union {NULL}]
    /\ count \in 0 .. MAX_ACCOUNTS
    /\ stateLock \in Thread \union {NULL}
    /\ slotLock \in [Slot -> Thread \union {NULL}]
    /\ created \in 0 .. MaxIds
    /\ call \in [Thread -> CallType]
    /\ answer \in [Thread -> Answer \union {NULL}]

Used == {i \in Slot : accounts[i] # NULL}

\* Every account has a name of its own, one generated before.
NamesApart ==
    /\ \A i \in Used : accounts[i][1] <= created
    /\ \A i, j \in Used : accounts[i] = accounts[j] => i = j

\* A slot is locked by the thread inside, at the slot it is looking at.
SlotLocksInside ==
    \A i \in Slot : slotLock[i] # NULL =>
        /\ slotLock[i] = stateLock
        /\ call[stateLock].at = i /\ call[stateLock].pc \in {"look", "unlock", "leave", "overrun"}

\* The slots t has gone through.
Passed(t) == {i \in Slot : i < call[t].at \/ (i = call[t].at /\ call[t].pc \in {"unlock", "overrun"})}

\* What t has seen of the array is so.
Knows(t) ==
    call[t].pc \in {"loop", "look", "unlock", "overrun"} =>
        /\ call[t].op = "create" => \A i \in Passed(t) : accounts[i] # NULL
        /\ call[t].op = "delete" => \A i \in Passed(t) : accounts[i] # call[t].arg
        /\ call[t].op = "list" =>
             call[t].listed = {<<i, accounts[i]>> : i \in Passed(t) \intersect Used}

ThreadOK(t) ==
    /\ call[t].pc \in Inside <=> stateLock = t
    /\ call[t].pc \in {"leave", "end"} <=> answer[t] # NULL
    /\ call[t].pc # "idle" => call[t].op \in {"create", "delete", "list"}
    /\ call[t].pc # "idle" /\ call[t].op = "delete" => call[t].arg \in Name
    /\ call[t].pc = "idle" => call[t].op = NULL /\ call[t].arg = NULL
    /\ call[t].pc = "begin" => call[t].listed = {}
    /\ call[t].pc \in {"look", "unlock", "leave", "overrun"} => call[t].at \in Slot
    /\ call[t].pc = "overrun" => call[t].op = "list"
    /\ Knows(t)

\* The creates that have no id yet.
Creating == {t \in Thread : call[t].op = "create" /\ call[t].pc \in {"begin", "loop", "look", "unlock"}}

StoreInv ==
    /\ StoreTypes
    /\ count = Cardinality(Used)
    /\ NamesApart
    /\ SlotLocksInside
    /\ \A t \in Thread : ThreadOK(t)
    /\ created + Cardinality(Creating) <= MaxIds
    /\ ListWithinBuffer

-----------------------------------------------------------------------------
\* What a call is after Goes.
LEMMA GoesDoes ==
    ASSUME StoreTypes, NEW t \in Thread, NEW pc \in {"idle", "begin"} \union Inside,
           NEW at \in 1 .. MAX_ACCOUNTS + 1, Goes(t, pc, at)
    PROVE  /\ call' \in [Thread -> CallType]
           /\ \A u \in Thread \ {t} : call'[u] = call[u]
           /\ call'[t].pc = pc /\ call'[t].at = at
           /\ call'[t].op = call[t].op /\ call'[t].arg = call[t].arg /\ call'[t].listed = call[t].listed
<1>1. call[t] \in CallType
  BY DEF StoreTypes
<1>2. [call[t] EXCEPT !.pc = pc, !.at = at] \in CallType
  BY <1>1 DEF CallType
<1>3. call' = [call EXCEPT ![t] = [call[t] EXCEPT !.pc = pc, !.at = at]]
  BY <1>1 DEF Goes, StoreTypes, CallType
<1> QED
  BY <1>1, <1>2, <1>3 DEF StoreTypes, CallType

LEMMA ReturnsDoes ==
    ASSUME StoreTypes, NEW t \in Thread, NEW a \in Answer \union {NULL}, Returns(t, a)
    PROVE  /\ answer' \in [Thread -> Answer \union {NULL}] /\ answer'[t] = a
           /\ \A u \in Thread \ {t} : answer'[u] = answer[u]
BY DEF Returns, StoreTypes

LEMMA CreatingFinite == IsFiniteSet(Creating) /\ Cardinality(Creating) \in Nat
<1>1. Creating \in SUBSET Thread
  BY DEF Creating
<1> QED
  BY <1>1, ThreadAssumption, FS_Subset, FS_CardinalityType

\* A step that generates no id and begins no create keeps the ids in bounds.
LEMMA IdsKept ==
    ASSUME StoreInv, UNCHANGED created, Creating' \subseteq Creating
    PROVE  created' + Cardinality(Creating') <= MaxIds
<1>1. IsFiniteSet(Creating) /\ Cardinality(Creating) \in Nat
  BY CreatingFinite
<1>2. Cardinality(Creating') <= Cardinality(Creating) /\ IsFiniteSet(Creating')
  BY <1>1, FS_Subset
<1>3. Cardinality(Creating') \in Nat
  BY <1>2, FS_CardinalityType
<1>4. created \in Nat /\ created' = created /\ MaxIds \in Nat /\ created + Cardinality(Creating) <= MaxIds
  BY SizeAssumption DEF StoreInv, StoreTypes
<1> QED
  BY <1>1, <1>2, <1>3, <1>4

\* While a thread is inside or comes in the others are outside, and what they
\* know is nothing.
LEMMA OthersKeep ==
    ASSUME StoreInv, NEW t \in Thread, stateLock \in {t, NULL}, stateLock' \in {t, NULL},
           \A u \in Thread \ {t} : call'[u] = call[u] /\ answer'[u] = answer[u]
    PROVE  \A u \in Thread \ {t} : call[u].pc \in {"idle", "begin"} /\ ThreadOK(u)'
<1> SUFFICES ASSUME NEW u \in Thread \ {t}
             PROVE  call[u].pc \in {"idle", "begin"} /\ ThreadOK(u)'
  OBVIOUS
<1>1. stateLock # u /\ stateLock' # u /\ ThreadOK(u)
  BY NULLAssumption DEF StoreInv
<1>2. call[u].pc \notin Inside /\ call[u].pc \in {"idle", "begin"}
  BY <1>1 DEF ThreadOK, StoreInv, StoreTypes, CallType
<1>3. Knows(u)'
  BY <1>2 DEF Knows
<1> QED
  BY <1>1, <1>2, <1>3 DEF ThreadOK, Inside

\* The steps that leave the accounts as they are.
LEMMA QuietStore ==
    ASSUME StoreInv, NEW t \in Thread, ~Undefined, UNCHANGED <<accounts, count, created>>,
           stateLock \in {t, NULL}, stateLock' \in {t, NULL},
           slotLock' \in [Slot -> Thread \union {NULL}], SlotLocksInside',
           call' \in [Thread -> CallType], answer' \in [Thread -> Answer \union {NULL}],
           \A u \in Thread \ {t} : call'[u] = call[u] /\ answer'[u] = answer[u],
           ThreadOK(t)', call'[t].pc # "overrun" \/ ListWithinBuffer',
           call'[t].op = call[t].op \/ call'[t].pc = "idle",
           call'[t].pc \in {"begin", "loop", "look", "unlock"} =>
               call[t].pc \in {"begin", "loop", "look", "unlock"}
    PROVE  StoreInv'
<1>1. StoreTypes'
  BY DEF StoreInv, StoreTypes
<1>2. \A u \in Thread : ThreadOK(u)'
  BY OthersKeep
<1>3. created' + Cardinality(Creating') <= MaxIds
  <2>1. Creating' \subseteq Creating
    BY DEF Creating
  <2> QED
    BY <2>1, IdsKept
<1>4. ListWithinBuffer'
  BY DEF ListWithinBuffer, Undefined
<1>5. (count = Cardinality(Used) /\ NamesApart)'
  BY DEF StoreInv, NamesApart, Used
<1> QED
  BY <1>1, <1>2, <1>3, <1>4, <1>5 DEF StoreInv

LEMMA LockStateStore ==
    ASSUME StoreInv, ~Undefined, NEW t \in Thread, LockState(t)
    PROVE  StoreInv'
<1>1. /\ call[t].pc = "begin" /\ stateLock = NULL /\ stateLock' = t
      /\ UNCHANGED <<accounts, count, slotLock, created>>
  BY DEF LockState, MayEnter
<1>2. /\ ThreadOK(t) /\ StoreTypes /\ 1 \in 1 .. MAX_ACCOUNTS + 1 /\ answer[t] = NULL
      /\ call[t].listed = {}
  BY <1>1, SizeAssumption DEF StoreInv, ThreadOK
<1>3. SlotLocksInside'
  BY <1>1 DEF StoreInv, SlotLocksInside
<1>4. CASE Goes(t, "end", 1) /\ Returns(t, [created |-> NULL])
  <2>1. [created |-> NULL] \in Answer /\ [created |-> NULL] # NULL
    BY NULLAssumption DEF Answer
  <2>2. /\ call' \in [Thread -> CallType] /\ call'[t].pc = "end" /\ call'[t].op = call[t].op
        /\ call'[t].arg = call[t].arg
        /\ \A u \in Thread \ {t} : call'[u] = call[u]
    BY <1>2, <1>4, GoesDoes DEF Inside
  <2>3. /\ answer' \in [Thread -> Answer \union {NULL}] /\ answer'[t] = [created |-> NULL]
        /\ \A u \in Thread \ {t} : answer'[u] = answer[u]
    BY <1>2, <1>4, <2>1, ReturnsDoes
  <2>4. ThreadOK(t)'
    BY <1>1, <1>2, <2>1, <2>2, <2>3 DEF ThreadOK, Knows, Inside
  <2> QED
    BY <1>1, <1>2, <1>3, <2>2, <2>3, <2>4, QuietStore DEF StoreTypes
<1>5. CASE Goes(t, "loop", 1) /\ UNCHANGED answer
  <2>1. /\ call' \in [Thread -> CallType] /\ call'[t].pc = "loop" /\ call'[t].op = call[t].op
        /\ call'[t].at = 1 /\ call'[t].arg = call[t].arg /\ call'[t].listed = call[t].listed
        /\ \A u \in Thread \ {t} : call'[u] = call[u]
    BY <1>2, <1>5, GoesDoes DEF Inside
  <2>2. Passed(t)' = {}
    BY <2>1 DEF Passed, Slot
  <2>3. Knows(t)'
    BY <1>2, <2>1, <2>2 DEF Knows
  <2>4. ThreadOK(t)'
    BY <1>1, <1>2, <1>5, <2>1, <2>3 DEF ThreadOK, Inside
  <2> QED
    BY <1>1, <1>2, <1>3, <1>5, <2>1, <2>4, QuietStore DEF StoreTypes
<1> QED
  BY <1>4, <1>5 DEF LockState

\* What is known of a thread at a lock of a slot.
LEMMA InsideOwns ==
    ASSUME StoreInv, NEW t \in Thread, call[t].pc \in Inside
    PROVE  /\ stateLock = t /\ ThreadOK(t) /\ StoreTypes /\ call[t] \in CallType
           /\ \A i \in Slot : slotLock[i] # NULL =>
                slotLock[i] = t /\ call[t].at = i /\ call[t].pc \in {"look", "unlock", "leave", "overrun"}
<1>1. stateLock = t /\ ThreadOK(t) /\ StoreTypes
  BY DEF StoreInv, ThreadOK
<1> QED
  BY <1>1 DEF StoreInv, SlotLocksInside, StoreTypes

LEMMA LockSlotStore ==
    ASSUME StoreInv, ~Undefined, NEW t \in Thread, LockSlot(t)
    PROVE  StoreInv'
<1> DEFINE i == call[t].at
<1>1. /\ call[t].pc = "loop" /\ i <= MAX_ACCOUNTS
      /\ slotLock' = [slotLock EXCEPT ![i] = t] /\ Goes(t, "look", i)
      /\ UNCHANGED <<accounts, count, stateLock, answer, created>>
  BY DEF LockSlot
<1>2. stateLock = t /\ ThreadOK(t) /\ StoreTypes /\ i \in 1 .. MAX_ACCOUNTS + 1 /\ i \in Slot
  BY <1>1, InsideOwns, SizeAssumption DEF Inside, CallType, Slot
<1>3. /\ call' \in [Thread -> CallType] /\ call'[t].pc = "look" /\ call'[t].op = call[t].op
      /\ call'[t].at = i /\ call'[t].arg = call[t].arg /\ call'[t].listed = call[t].listed
      /\ \A u \in Thread \ {t} : call'[u] = call[u]
  BY <1>1, <1>2, GoesDoes DEF Inside
<1> HIDE DEF i
<1>4. SlotLocksInside' /\ slotLock' \in [Slot -> Thread \union {NULL}]
  <2>1. \A j \in Slot : slotLock'[j] = IF j = i THEN t ELSE NULL
    BY <1>1, <1>2, InsideOwns DEF Inside, StoreTypes
  <2> QED
    BY <1>1, <1>2, <1>3, <2>1 DEF SlotLocksInside, StoreTypes
<1>5. Passed(t)' = Passed(t)
  BY <1>1, <1>3 DEF Passed, i
<1>6. Knows(t)'
  BY <1>1, <1>2, <1>3, <1>5 DEF Knows, Used, ThreadOK
<1>7. ThreadOK(t)'
  BY <1>1, <1>2, <1>3, <1>6 DEF ThreadOK, Inside
<1> QED
  BY <1>1, <1>2, <1>3, <1>4, <1>7, QuietStore DEF StoreTypes

LEMMA PassSlotStore ==
    ASSUME StoreInv, ~Undefined, NEW t \in Thread, PassSlot(t)
    PROVE  StoreInv'
<1>1. PICK i \in Slot :
         /\ \/ Looks(t, "create", i) /\ accounts[i] # NULL
            \/ Looks(t, "delete", i) /\ accounts[i] # call[t].arg
            \/ Looks(t, "list", i) /\ ~IsListed(i)
         /\ Goes(t, "unlock", i)
  BY DEF PassSlot, Matches
<1>2. UNCHANGED <<accounts, count, stateLock, slotLock, answer, created>>
  BY DEF PassSlot
<1>3. call[t].pc = "look" /\ call[t].at = i
  BY <1>1 DEF Looks
<1>4. stateLock = t /\ ThreadOK(t) /\ StoreTypes /\ i \in 1 .. MAX_ACCOUNTS + 1
  BY <1>3, InsideOwns DEF Inside, CallType
<1>5. /\ call' \in [Thread -> CallType] /\ call'[t].pc = "unlock" /\ call'[t].op = call[t].op
      /\ call'[t].at = i /\ call'[t].arg = call[t].arg /\ call'[t].listed = call[t].listed
      /\ \A u \in Thread \ {t} : call'[u] = call[u]
  BY <1>1, <1>4, GoesDoes DEF Inside
<1>6. SlotLocksInside'
  BY <1>2, <1>3, <1>4, <1>5 DEF StoreInv, SlotLocksInside
<1>7. Passed(t)' = Passed(t) \union {i}
  BY <1>3, <1>5 DEF Passed
<1>8. Knows(t)'
  <2>1. call[t].op = "create" => \A j \in Passed(t)' : accounts[j] # NULL
    BY <1>1, <1>3, <1>4, <1>7 DEF ThreadOK, Knows, Looks
  <2>2. call[t].op = "delete" => \A j \in Passed(t)' : accounts[j] # call[t].arg
    BY <1>1, <1>3, <1>4, <1>7 DEF ThreadOK, Knows, Looks
  <2>3. call[t].op = "list" => i \notin Used
    BY <1>1 DEF Looks, IsListed, Used
  <2>4. call[t].op = "list" => Passed(t)' \intersect Used = Passed(t) \intersect Used
    BY <1>7, <2>3
  <2>5. call[t].op = "list" => call[t].listed = {<<j, accounts[j]>> : j \in Passed(t) \intersect Used}
    BY <1>3, <1>4 DEF ThreadOK, Knows
  <2>6. Used' = Used
    BY <1>2 DEF Used
  <2> QED
    BY <1>2, <1>5, <2>1, <2>2, <2>4, <2>5, <2>6 DEF Knows
<1>9. ThreadOK(t)'
  BY <1>2, <1>3, <1>4, <1>5, <1>8 DEF ThreadOK, Inside
<1> QED
  BY <1>2, <1>3, <1>4, <1>5, <1>6, <1>9, QuietStore DEF StoreTypes

LEMMA UnlockSlotStore ==
    ASSUME StoreInv, ~Undefined, NEW t \in Thread, UnlockSlot(t)
    PROVE  StoreInv'
<1> DEFINE i == call[t].at
<1>1. /\ call[t].pc \in {"unlock", "leave"} /\ slotLock' = [slotLock EXCEPT ![i] = NULL]
      /\ IF call[t].pc = "leave" THEN Goes(t, "end", i) ELSE Goes(t, "loop", i + 1)
      /\ UNCHANGED <<accounts, count, stateLock, answer, created>>
  BY DEF UnlockSlot, Breaks
<1>2. stateLock = t /\ ThreadOK(t) /\ StoreTypes /\ i \in Slot
  BY <1>1, InsideOwns DEF Inside, ThreadOK
<1>3. i \in 1 .. MAX_ACCOUNTS + 1 /\ i + 1 \in 1 .. MAX_ACCOUNTS + 1 /\ i \in Nat
  BY <1>2, SizeAssumption DEF Slot
<1>4. SlotLocksInside' /\ slotLock' \in [Slot -> Thread \union {NULL}]
  <2>1. \A j \in Slot : slotLock'[j] = NULL
    BY <1>1, <1>2, InsideOwns DEF Inside, StoreTypes
  <2> QED
    BY <1>1, <1>2, <2>1 DEF SlotLocksInside, StoreTypes
<1>5. CASE call[t].pc = "leave"
  <2>1. /\ call' \in [Thread -> CallType] /\ call'[t].pc = "end" /\ call'[t].op = call[t].op
        /\ call'[t].arg = call[t].arg
        /\ \A u \in Thread \ {t} : call'[u] = call[u]
    BY <1>1, <1>2, <1>3, <1>5, GoesDoes DEF Inside
  <2>2. ThreadOK(t)'
    BY <1>1, <1>2, <1>5, <2>1 DEF ThreadOK, Knows, Inside
  <2> QED
    BY <1>1, <1>2, <1>4, <2>1, <2>2, QuietStore DEF StoreTypes
<1>6. CASE call[t].pc = "unlock"
  <2>1. /\ call' \in [Thread -> CallType] /\ call'[t].pc = "loop" /\ call'[t].op = call[t].op
        /\ call'[t].at = i + 1 /\ call'[t].arg = call[t].arg /\ call'[t].listed = call[t].listed
        /\ \A u \in Thread \ {t} : call'[u] = call[u]
    BY <1>1, <1>2, <1>3, <1>6, GoesDoes DEF Inside
  <2>2. Passed(t)' = Passed(t)
    BY <1>3, <1>6, <2>1 DEF Passed, Slot
  <2>3. Used' = Used
    BY <1>1 DEF Used
  <2>4. Knows(t)'
    BY <1>1, <1>2, <1>6, <2>1, <2>2, <2>3 DEF ThreadOK, Knows
  <2>5. ThreadOK(t)'
    BY <1>1, <1>2, <1>6, <2>1, <2>4 DEF ThreadOK, Inside
  <2> QED
    BY <1>1, <1>2, <1>4, <1>6, <2>1, <2>5, QuietStore DEF StoreTypes
<1> QED
  BY <1>1, <1>5, <1>6

\* The end of the loop: what is answered, and that all slots were gone through.
LEMMA LoopOverDoes ==
    ASSUME StoreInv, NEW t \in Thread, LoopOver(t)
    PROVE  /\ Passed(t) = Slot /\ stateLock = t /\ ThreadOK(t)
           /\ \E a \in Answer :
                /\ Returns(t, a)
                /\ \/ call[t].op = "create" /\ a = [created |-> NULL]
                   \/ call[t].op = "delete" /\ a = [deleted |-> FALSE]
                   \/ call[t].op = "list" /\ a = [listed |-> {e[2] : e \in call[t].listed}]
<1>1. call[t].pc = "loop" /\ call[t].at > MAX_ACCOUNTS
  BY DEF LoopOver
<1>2. stateLock = t /\ ThreadOK(t) /\ call[t] \in CallType
  BY <1>1, InsideOwns DEF Inside
<1>3. Passed(t) = Slot
  BY <1>1, <1>2, SizeAssumption DEF Passed, Slot, CallType
<1>4. call[t].op \in {"create", "delete", "list"}
  BY <1>1, <1>2 DEF ThreadOK
<1>5. {e[2] : e \in call[t].listed} \in SUBSET Name
  BY <1>2 DEF CallType
<1>6. /\ [created |-> NULL] \in Answer /\ [deleted |-> FALSE] \in Answer
      /\ [listed |-> {e[2] : e \in call[t].listed}] \in Answer
  BY <1>5 DEF Answer
<1> QED
  BY <1>2, <1>3, <1>4, <1>6 DEF LoopOver

LEMMA LoopOverStore ==
    ASSUME StoreInv, ~Undefined, NEW t \in Thread, LoopOver(t)
    PROVE  StoreInv'
<1>1. /\ call[t].pc = "loop" /\ Goes(t, "end", 1)
      /\ UNCHANGED <<accounts, count, stateLock, slotLock, created>>
  BY DEF LoopOver
<1>2. PICK a \in Answer : Returns(t, a)
  BY LoopOverDoes
<1>3. stateLock = t /\ ThreadOK(t) /\ StoreTypes /\ 1 \in 1 .. MAX_ACCOUNTS + 1 /\ a # NULL
  BY LoopOverDoes, SizeAssumption, NULLAssumption DEF StoreInv
<1>4. /\ call' \in [Thread -> CallType] /\ call'[t].pc = "end" /\ call'[t].op = call[t].op
      /\ call'[t].arg = call[t].arg
      /\ \A u \in Thread \ {t} : call'[u] = call[u]
  BY <1>1, <1>3, GoesDoes DEF Inside
<1>5. /\ answer' \in [Thread -> Answer \union {NULL}] /\ answer'[t] = a
      /\ \A u \in Thread \ {t} : answer'[u] = answer[u]
  BY <1>2, <1>3, ReturnsDoes
<1>6. \A i \in Slot : slotLock[i] = NULL
  BY <1>1, InsideOwns DEF Inside
<1>7. SlotLocksInside'
  BY <1>1, <1>6 DEF SlotLocksInside
<1>8. ThreadOK(t)'
  BY <1>1, <1>3, <1>4, <1>5 DEF ThreadOK, Knows, Inside
<1> QED
  BY <1>1, <1>3, <1>4, <1>5, <1>7, <1>8, QuietStore DEF StoreTypes

LEMMA UnlockStateStore ==
    ASSUME StoreInv, ~Undefined, NEW t \in Thread, UnlockState(t)
    PROVE  StoreInv'
<1>1. /\ call[t].pc = "end" /\ stateLock' = NULL /\ call' = [call EXCEPT ![t] = NoCall]
      /\ Returns(t, NULL) /\ UNCHANGED <<accounts, count, slotLock, created>>
  BY DEF UnlockState
<1>2. stateLock = t /\ ThreadOK(t) /\ StoreTypes /\ \A i \in Slot : slotLock[i] = NULL
  BY <1>1, InsideOwns DEF Inside
<1>3. NoCall \in CallType
  BY SizeAssumption DEF NoCall, CallType
<1>4. /\ call' \in [Thread -> CallType] /\ call'[t] = NoCall
      /\ \A u \in Thread \ {t} : call'[u] = call[u]
  BY <1>1, <1>2, <1>3 DEF StoreTypes
<1>5. /\ answer' \in [Thread -> Answer \union {NULL}] /\ answer'[t] = NULL
      /\ \A u \in Thread \ {t} : answer'[u] = answer[u]
  BY <1>1, <1>2, ReturnsDoes
<1>6. SlotLocksInside'
  BY <1>1, <1>2 DEF SlotLocksInside
<1>7. ThreadOK(t)'
  BY <1>1, <1>4, <1>5, NULLAssumption DEF ThreadOK, Knows, Inside, NoCall
<1> QED
  BY <1>1, <1>2, <1>4, <1>5, <1>6, <1>7, QuietStore DEF StoreTypes, NoCall

-----------------------------------------------------------------------------
\* There are as many names as slots in use.
LEMMA NamesCounted ==
    ASSUME StoreTypes, NamesApart
    PROVE  /\ IsFiniteSet(Used) /\ Used \in SUBSET Slot /\ Cardinality(Used) \in Nat
           /\ Cardinality(Accounts) = Cardinality(Used)
<1>1. IsFiniteSet(Slot)
  BY FS_Interval, SizeAssumption DEF Slot
<1>2. Used \in SUBSET Slot /\ IsFiniteSet(Used)
  BY <1>1, FS_Subset DEF Used
<1>3. Accounts = {accounts[i] : i \in Used}
  BY DEF Accounts, Used
<1> DEFINE name == [i \in Used |-> accounts[i]]
<1>4. name \in Surjection(Used, Accounts)
  BY <1>3 DEF Surjection
<1>5. name \in Injection(Used, Accounts)
  BY <1>3 DEF Injection, IsInjective, NamesApart
<1>6. Cardinality(Accounts) = Cardinality(Used)
  BY <1>2, <1>4, <1>5, FS_Surjection
<1> QED
  BY <1>2, <1>6, FS_CardinalityType

LEMMA SlotsCounted == IsFiniteSet(Slot) /\ Cardinality(Slot) = MAX_ACCOUNTS
<1>1. MAX_ACCOUNTS \in Nat
  BY SizeAssumption
<1>2. IsFiniteSet(1 .. MAX_ACCOUNTS) /\ Cardinality(1 .. MAX_ACCOUNTS) = IF 1 > MAX_ACCOUNTS THEN 0 ELSE MAX_ACCOUNTS - 1 + 1
  BY <1>1, FS_Interval
<1> QED
  BY <1>1, <1>2 DEF Slot

\* An account that is listed past the end of the response: those before it
\* filled it.
LEMMA OverrunIsLast ==
    ASSUME StoreInv, NEW t \in Thread, NEW i \in Slot, Looks(t, "list", i), accounts[i] # NULL,
           Offset(t) > Room
    PROVE  Heading + Entry * (Cardinality(Accounts) - 1) > Room
<1> DEFINE seen == Passed(t) \intersect Used
<1>1. call[t].pc = "look" /\ call[t].at = i /\ call[t].op = "list"
  BY DEF Looks
<1>2. ThreadOK(t) /\ StoreTypes /\ call[t] \in CallType
  BY <1>1, InsideOwns DEF Inside
<1>3. call[t].listed = {<<j, accounts[j]>> : j \in seen}
  BY <1>1, <1>2 DEF ThreadOK, Knows
<1>4. IsFiniteSet(Used) /\ Cardinality(Used) \in Nat /\ Cardinality(Accounts) = Cardinality(Used)
  BY NamesCounted DEF StoreInv
<1>5. i \in Used /\ i \notin seen
  BY <1>1 DEF Used, Passed, Slot
<1>6. seen \in SUBSET Used /\ seen # Used
  BY <1>5
<1>7. IsFiniteSet(seen) /\ Cardinality(seen) <= Cardinality(Used) /\ Cardinality(seen) # Cardinality(Used)
  BY <1>4, <1>6, FS_Subset
<1>8. Cardinality(seen) \in Nat
  BY <1>7, FS_CardinalityType
<1> DEFINE entry == [j \in seen |-> <<j, accounts[j]>>]
<1>9. entry \in Surjection(seen, call[t].listed)
  BY <1>3 DEF Surjection
<1> HIDE DEF seen, entry
<1>10. IsFiniteSet(call[t].listed) /\ Cardinality(call[t].listed) <= Cardinality(seen)
  BY <1>7, <1>9, FS_Surjection
<1>11. Cardinality(call[t].listed) \in Nat
  BY <1>10, FS_CardinalityType
<1>12. Cardinality(call[t].listed) <= Cardinality(Accounts) - 1 /\ Cardinality(Accounts) - 1 \in Nat
  BY <1>4, <1>7, <1>8, <1>10, <1>11
<1>13. Heading + Entry * Cardinality(call[t].listed) > Room
  BY DEF Offset
<1>14. \A m, n \in Nat : m <= n => Entry * m <= Entry * n /\ Entry * m \in Nat /\ Entry * n \in Nat
  BY SizeAssumption
<1> QED
  BY <1>11, <1>12, <1>13, <1>14, SizeAssumption

LEMMA ListHereStore ==
    ASSUME StoreInv, ~Undefined, NEW t \in Thread, ListHere(t)
    PROVE  StoreInv'
<1>1. PICK i \in Slot :
         /\ Looks(t, "list", i) /\ accounts[i] # NULL
         /\ call' = [call EXCEPT ![t].pc = IF Offset(t) > Room THEN "overrun" ELSE "unlock",
                                 ![t].listed = @ \union {<<i, accounts[i]>>}]
  BY DEF ListHere, IsListed
<1>2. UNCHANGED <<accounts, count, stateLock, slotLock, answer, created>>
  BY DEF ListHere
<1>3. call[t].pc = "look" /\ call[t].at = i /\ call[t].op = "list"
  BY <1>1 DEF Looks
<1>4. stateLock = t /\ ThreadOK(t) /\ StoreTypes /\ call[t] \in CallType
  BY <1>3, InsideOwns DEF Inside
<1> DEFINE pc == IF Offset(t) > Room THEN "overrun" ELSE "unlock"
           listed == call[t].listed \union {<<i, accounts[i]>>}
<1>5. listed \in SUBSET (Slot \X Name)
  BY <1>1, <1>4 DEF CallType, StoreTypes
<1>6. [call[t] EXCEPT !.pc = pc, !.listed = listed] \in CallType
  BY <1>4, <1>5 DEF CallType, Inside
<1>7. call' = [call EXCEPT ![t] = [call[t] EXCEPT !.pc = pc, !.listed = listed]]
  BY <1>1, <1>4 DEF StoreTypes, CallType
<1> HIDE DEF pc, listed
<1>8. /\ call' \in [Thread -> CallType] /\ call'[t].pc = pc /\ call'[t].op = "list"
      /\ call'[t].at = i /\ call'[t].arg = call[t].arg /\ call'[t].listed = listed
      /\ \A u \in Thread \ {t} : call'[u] = call[u]
  BY <1>3, <1>4, <1>6, <1>7 DEF StoreTypes, CallType
<1>9. pc \in {"unlock", "overrun"} /\ (pc = "overrun" => Offset(t) > Room)
  BY DEF pc
<1>10. SlotLocksInside'
  BY <1>2, <1>3, <1>4, <1>8, <1>9 DEF StoreInv, SlotLocksInside
<1>11. Knows(t)'
  <2>1. Passed(t)' \intersect Used' = (Passed(t) \intersect Used) \union {i}
    BY <1>1, <1>2, <1>3, <1>8, <1>9 DEF Passed, Used
  <2>2. call[t].listed = {<<j, accounts[j]>> : j \in Passed(t) \intersect Used}
    BY <1>3, <1>4 DEF ThreadOK, Knows
  <2>3. listed = {<<j, accounts[j]>> : j \in (Passed(t) \intersect Used) \union {i}}
    BY <2>2 DEF listed
  <2> QED
    BY <1>2, <1>8, <2>1, <2>3 DEF Knows
<1>12. ThreadOK(t)'
  BY <1>2, <1>3, <1>4, <1>8, <1>9, <1>11 DEF ThreadOK, Inside
<1>13. pc # "overrun" \/ ListWithinBuffer'
  <2>1. Accounts' = Accounts
    BY <1>2 DEF Accounts
  <2>2. CASE pc = "overrun"
    BY <1>1, <1>9, <2>1, <2>2, OverrunIsLast DEF ListWithinBuffer
  <2> QED
    BY <2>2
<1> QED
  BY <1>2, <1>3, <1>4, <1>8, <1>9, <1>10, <1>12, <1>13, QuietStore DEF StoreTypes

\* A create writes a name that no account has to a slot that is free.
LEMMA CreateHereDoes ==
    ASSUME StoreInv, NEW t \in Thread, CreateHere(t)
    PROVE  /\ stateLock = t /\ ThreadOK(t) /\ StoreTypes /\ call[t].pc = "look" /\ call[t].op = "create"
           /\ created + 1 \in 0 .. MaxIds /\ created' = created + 1
           /\ \E i \in Slot, n \in Name :
                /\ n[1] = created + 1 /\ n \notin Accounts
                /\ call[t].at = i /\ i \notin Used
                /\ accounts' = [accounts EXCEPT ![i] = n]
                /\ slotLock' = [slotLock EXCEPT ![i] = NULL]
                /\ Returns(t, [created |-> n]) /\ Goes(t, "leave", i)
<1>1. PICK i \in Slot, form \in {"id", "shown"} :
         /\ Looks(t, "create", i) /\ accounts[i] = NULL
         /\ Overwrite(i, <<created + 1, form>>)
         /\ Returns(t, [created |-> <<created + 1, form>>])
         /\ Goes(t, "leave", i)
  BY DEF CreateHere
<1>2. created' = created + 1
  BY DEF CreateHere
<1>3. call[t].pc = "look" /\ call[t].at = i /\ call[t].op = "create"
  BY <1>1 DEF Looks
<1>4. stateLock = t /\ ThreadOK(t) /\ StoreTypes
  BY <1>3, InsideOwns DEF Inside
<1>5. created + 1 \in 0 .. MaxIds
  <2>1. t \in Creating
    BY <1>3 DEF Creating
  <2>2. Cardinality(Creating) \in Nat /\ Cardinality(Creating) # 0
    BY <2>1, CreatingFinite, FS_EmptySet
  <2> QED
    BY <2>2, SizeAssumption DEF StoreInv, StoreTypes
<1>6. <<created + 1, form>> \in Name
  BY <1>5 DEF Name
<1>7. <<created + 1, form>> \notin Accounts
  <2> SUFFICES ASSUME NEW j \in Slot, accounts[j] = <<created + 1, form>>
               PROVE  FALSE
    BY DEF Accounts
  <2>1. j \in Used
    BY <1>6, NULLAssumption DEF Used
  <2>2. accounts[j][1] = created + 1
    OBVIOUS
  <2> QED
    BY <2>1, <2>2, <1>4 DEF StoreInv, NamesApart, StoreTypes
<1> DEFINE n == <<created + 1, form>>
<1>8. n \in Name /\ n \notin Accounts /\ n[1] = created + 1
  BY <1>6, <1>7
<1>9. i \notin Used
  BY <1>1 DEF Used
<1>10. /\ accounts' = [accounts EXCEPT ![i] = n] /\ slotLock' = [slotLock EXCEPT ![i] = NULL]
       /\ Returns(t, [created |-> n]) /\ Goes(t, "leave", i)
  BY <1>1 DEF Overwrite
<1> HIDE DEF n
<1> QED
  BY <1>2, <1>3, <1>4, <1>5, <1>8, <1>9, <1>10

LEMMA CreateHereStore ==
    ASSUME StoreInv, ~Undefined, NEW t \in Thread, CreateHere(t)
    PROVE  StoreInv'
<1>1. /\ stateLock = t /\ ThreadOK(t) /\ StoreTypes /\ call[t].pc = "look" /\ call[t].op = "create"
      /\ created + 1 \in 0 .. MaxIds /\ created' = created + 1
  BY CreateHereDoes
<1>2. PICK i \in Slot, n \in Name :
        /\ n[1] = created + 1 /\ n \notin Accounts
        /\ call[t].at = i /\ i \notin Used
        /\ accounts' = [accounts EXCEPT ![i] = n]
        /\ slotLock' = [slotLock EXCEPT ![i] = NULL]
        /\ Returns(t, [created |-> n]) /\ Goes(t, "leave", i)
  BY CreateHereDoes
<1>3. UNCHANGED stateLock /\ count' = count + 1
  BY DEF CreateHere
<1>4. i \in 1 .. MAX_ACCOUNTS + 1
  BY <1>2, SizeAssumption DEF Slot
<1>5. /\ call' \in [Thread -> CallType] /\ call'[t].pc = "leave" /\ call'[t].op = "create"
      /\ call'[t].at = i
      /\ \A u \in Thread \ {t} : call'[u] = call[u]
  BY <1>1, <1>2, <1>4, GoesDoes DEF Inside
<1>6. [created |-> n] \in Answer /\ [created |-> n] # NULL
  BY NULLAssumption DEF Answer
<1>7. /\ answer' \in [Thread -> Answer \union {NULL}] /\ answer'[t] # NULL
      /\ \A u \in Thread \ {t} : answer'[u] = answer[u]
  BY <1>1, <1>2, <1>6, ReturnsDoes
<1>8. \A j \in Slot : accounts'[j] = IF j = i THEN n ELSE accounts[j]
  BY <1>1, <1>2 DEF StoreTypes
<1>9. n # NULL
  BY NULLAssumption
<1>10. Used' = Used \union {i}
  BY <1>8, <1>9 DEF Used
<1>11. count' = Cardinality(Used') /\ count' \in 0 .. MAX_ACCOUNTS
  <2>1. IsFiniteSet(Used) /\ Cardinality(Used) \in Nat
    BY NamesCounted DEF StoreInv
  <2>2. Cardinality(Used') = Cardinality(Used) + 1
    BY <1>2, <1>10, <2>1, FS_AddElement
  <2>3. Used' \in SUBSET Slot
    BY DEF Used
  <2>4. Cardinality(Used') <= MAX_ACCOUNTS
    BY <2>3, SlotsCounted, FS_Subset
  <2> QED
    BY <1>3, <2>1, <2>2, <2>4, SizeAssumption DEF StoreInv
<1>12. NamesApart'
  <2>1. \A j \in Used : accounts[j] # n
    BY <1>2 DEF Accounts, Used
  <2>2. \A j \in Used : accounts[j][1] <= created /\ accounts[j][1] \in Nat
    BY <1>1 DEF StoreInv, NamesApart, StoreTypes, Used, Name
  <2>3. \A j \in Used' : accounts'[j][1] <= created'
    BY <1>1, <1>2, <1>8, <1>10, <2>2 DEF StoreTypes, Used
  <2>4. \A j, k \in Used' : accounts'[j] = accounts'[k] => j = k
    BY <1>8, <1>10, <2>1 DEF StoreInv, NamesApart, Used
  <2> QED
    BY <2>3, <2>4 DEF NamesApart
<1>13. SlotLocksInside'
  <2>1. \A j \in Slot : slotLock'[j] = NULL
    BY <1>1, <1>2, InsideOwns DEF Inside, StoreTypes
  <2> QED
    BY <2>1 DEF SlotLocksInside
<1>14. \A u \in Thread : ThreadOK(u)'
  <2>1. ThreadOK(t)'
    BY <1>1, <1>2, <1>3, <1>5, <1>7 DEF ThreadOK, Knows, Inside
  <2> QED
    BY <1>1, <1>3, <1>5, <1>7, <2>1, OthersKeep
<1>15. created' + Cardinality(Creating') <= MaxIds
  <2>1. t \in Creating /\ Creating' = Creating \ {t}
    BY <1>1, <1>5 DEF Creating
  <2>2. Cardinality(Creating') = Cardinality(Creating) - 1
    BY <2>1, CreatingFinite, FS_RemoveElement
  <2> QED
    BY <1>1, <2>2, CreatingFinite, SizeAssumption DEF StoreInv, StoreTypes
<1>16. ListWithinBuffer'
  BY <1>5 DEF ListWithinBuffer, Undefined
<1>17. slotLock' \in [Slot -> Thread \union {NULL}] /\ accounts' \in [Slot -> Name \union {NULL}]
  BY <1>1, <1>2 DEF StoreTypes
<1>18. StoreTypes'
  BY <1>1, <1>3, <1>5, <1>7, <1>11, <1>17 DEF StoreTypes
<1> QED
  BY <1>11, <1>12, <1>13, <1>14, <1>15, <1>16, <1>18 DEF StoreInv

LEMMA DeleteHereStore ==
    ASSUME StoreInv, ~Undefined, NEW t \in Thread, DeleteHere(t)
    PROVE  StoreInv'
<1>1. PICK i \in Slot : /\ Looks(t, "delete", i) /\ accounts[i] = call[t].arg
                        /\ Overwrite(i, NULL)
                        /\ Goes(t, "leave", i)
  BY DEF DeleteHere, Matches
<1>2. Returns(t, [deleted |-> TRUE]) /\ count' = count - 1 /\ UNCHANGED <<stateLock, created>>
  BY DEF DeleteHere, CountAfterDelete
<1>3. call[t].pc = "look" /\ call[t].at = i /\ call[t].op = "delete"
  BY <1>1 DEF Looks
<1>4. stateLock = t /\ ThreadOK(t) /\ StoreTypes /\ i \in 1 .. MAX_ACCOUNTS + 1
  BY <1>3, InsideOwns DEF Inside, CallType
<1>5. i \in Used
  BY <1>1, <1>3, <1>4, NULLAssumption DEF Used, ThreadOK
<1>6. /\ call' \in [Thread -> CallType] /\ call'[t].pc = "leave" /\ call'[t].op = "delete"
      /\ call'[t].arg = call[t].arg /\ call'[t].at = i
      /\ \A u \in Thread \ {t} : call'[u] = call[u]
  BY <1>1, <1>3, <1>4, GoesDoes DEF Inside
<1>7. [deleted |-> TRUE] \in Answer /\ [deleted |-> TRUE] # NULL
  <2>1. [deleted |-> TRUE] \in Answer
    BY DEF Answer
  <2> QED
    BY <2>1, NULLAssumption
<1>8. /\ answer' \in [Thread -> Answer \union {NULL}] /\ answer'[t] # NULL
      /\ \A u \in Thread \ {t} : answer'[u] = answer[u]
  BY <1>2, <1>4, <1>7, ReturnsDoes
<1>9. \A j \in Slot : accounts'[j] = IF j = i THEN NULL ELSE accounts[j]
  BY <1>1, <1>4 DEF StoreTypes, Overwrite
<1>10. Used' = Used \ {i}
  BY <1>9 DEF Used
<1>11. count' = Cardinality(Used') /\ count' \in 0 .. MAX_ACCOUNTS
  <2>1. IsFiniteSet(Used) /\ Cardinality(Used) \in Nat
    BY NamesCounted DEF StoreInv
  <2>2. Cardinality(Used') = Cardinality(Used) - 1 /\ IsFiniteSet(Used')
    BY <1>5, <1>10, <2>1, FS_RemoveElement
  <2>3. Cardinality(Used') \in Nat
    BY <2>2, FS_CardinalityType
  <2> QED
    BY <1>2, <2>1, <2>2, <2>3, SizeAssumption DEF StoreInv, StoreTypes
<1>12. NamesApart'
  BY <1>2, <1>9, <1>10 DEF StoreInv, NamesApart, Used
<1>13. SlotLocksInside'
  <2>1. \A j \in Slot : slotLock'[j] = NULL
    BY <1>1, <1>3, <1>4, InsideOwns DEF Inside, StoreTypes, Overwrite
  <2> QED
    BY <2>1 DEF SlotLocksInside
<1>14. \A u \in Thread : ThreadOK(u)'
  <2>1. ThreadOK(t)'
    BY <1>1, <1>2, <1>3, <1>4, <1>6, <1>8 DEF ThreadOK, Knows, Inside
  <2> QED
    BY <1>2, <1>4, <1>6, <1>8, <2>1, OthersKeep
<1>15. created' + Cardinality(Creating') <= MaxIds
  <2>1. Creating' \subseteq Creating
    BY <1>6 DEF Creating
  <2> QED
    BY <1>2, <2>1, IdsKept
<1>16. ListWithinBuffer'
  BY <1>6 DEF ListWithinBuffer, Undefined
<1>17. slotLock' \in [Slot -> Thread \union {NULL}] /\ accounts' \in [Slot -> Name \union {NULL}]
  BY <1>1, <1>4 DEF StoreTypes, Overwrite
<1>18. StoreTypes'
  BY <1>2, <1>4, <1>6, <1>8, <1>11, <1>17 DEF StoreTypes
<1> QED
  BY <1>11, <1>12, <1>13, <1>14, <1>15, <1>16, <1>18 DEF StoreInv

\* A call begins, while another thread may be inside.
LEMMA CallStore ==
    ASSUME StoreInv, ~Undefined, NEW t \in Thread, Call(t)
    PROVE  StoreInv'
<1>1. PICK op \in {"create", "list", "delete"}, arg \in Name \union {NULL} :
         Begin(t, op, arg) /\ (op = "delete" => arg \in Name) /\ (op = "create" => IdLeft)
  BY DEF Call
<1>2. /\ call[t].pc = "idle" /\ UNCHANGED <<accounts, count, stateLock, slotLock, answer, created>>
      /\ call' = [call EXCEPT ![t] = [NoCall EXCEPT !.op = op, !.pc = "begin", !.arg = arg]]
  BY <1>1 DEF Begin
<1>3. ThreadOK(t) /\ StoreTypes
  BY DEF StoreInv
<1>4. [NoCall EXCEPT !.op = op, !.pc = "begin", !.arg = arg] \in CallType
  <2>1. NoCall \in CallType
    BY SizeAssumption DEF NoCall, CallType
  <2> QED
    BY <2>1 DEF CallType
<1>5. /\ call' \in [Thread -> CallType]
      /\ call'[t].op = op /\ call'[t].pc = "begin" /\ call'[t].arg = arg /\ call'[t].listed = {}
      /\ \A u \in Thread \ {t} : call'[u] = call[u]
  BY <1>2, <1>3, <1>4 DEF StoreTypes, NoCall
<1>6. SlotLocksInside'
  <2>1. stateLock # t
    BY <1>2, <1>3 DEF ThreadOK, Inside
  <2>2. \A i \in Slot : slotLock[i] # NULL => stateLock \in Thread \ {t}
    BY <1>3, <2>1 DEF StoreInv, SlotLocksInside, StoreTypes
  <2> QED
    BY <1>2, <1>5, <2>2 DEF StoreInv, SlotLocksInside
<1>7. ASSUME NEW u \in Thread
      PROVE  ThreadOK(u)'
  <2>1. CASE u = t
    BY <1>1, <1>2, <1>3, <1>5, <2>1 DEF ThreadOK, Knows, Inside
  <2>2. CASE u # t
    <3>1. call'[u] = call[u] /\ ThreadOK(u)
      BY <1>5, <2>2 DEF StoreInv
    <3>2. Passed(u)' = Passed(u) /\ Used' = Used
      BY <1>2, <3>1 DEF Passed, Used
    <3>3. Knows(u)'
      BY <1>2, <3>1, <3>2 DEF Knows, ThreadOK
    <3> QED
      BY <1>2, <3>1, <3>3 DEF ThreadOK
  <2> QED
    BY <2>1, <2>2
<1>8. created' + Cardinality(Creating') <= MaxIds
  <2>1. CASE op = "create"
    <3> DEFINE begun == {u \in Thread : call[u].op = "create"}
    <3>1. begun \in SUBSET Thread
      OBVIOUS
    <3>2. IsFiniteSet(begun) /\ Cardinality(begun) \in Nat
      BY <3>1, ThreadAssumption, FS_Subset, FS_CardinalityType
    <3>3. created + Cardinality(begun) < MaxIds
      BY <1>1, <2>1 DEF IdLeft
    <3>4. Creating' \in SUBSET (begun \union {t})
      BY <1>5 DEF Creating
    <3> HIDE DEF begun
    <3>5. /\ IsFiniteSet(begun \union {t})
          /\ Cardinality(begun \union {t}) <= Cardinality(begun) + 1
      BY <3>2, FS_AddElement
    <3>6. /\ Cardinality(Creating') <= Cardinality(begun \union {t})
          /\ Cardinality(Creating') \in Nat /\ Cardinality(begun \union {t}) \in Nat
      BY <3>4, <3>5, FS_Subset, FS_CardinalityType
    <3> QED
      BY <1>2, <1>3, <3>2, <3>3, <3>5, <3>6, SizeAssumption DEF StoreTypes
  <2>2. CASE op # "create"
    <3>1. Creating' \subseteq Creating
      BY <1>5, <2>2 DEF Creating
    <3> QED
      BY <1>2, <3>1, IdsKept
  <2> QED
    BY <2>1, <2>2
<1>9. ListWithinBuffer'
  BY <1>5 DEF ListWithinBuffer, Undefined
<1>10. (count = Cardinality(Used) /\ NamesApart)'
  BY <1>2 DEF StoreInv, NamesApart, Used
<1>11. StoreTypes'
  BY <1>2, <1>3, <1>5 DEF StoreTypes
<1> QED
  BY <1>6, <1>7, <1>8, <1>9, <1>10, <1>11 DEF StoreInv

LEMMA InitStore == Init => StoreInv
<1> SUFFICES ASSUME Init
             PROVE  StoreInv
  OBVIOUS
<1>1. NoCall \in CallType /\ NoCall.pc = "idle"
  BY SizeAssumption DEF NoCall, CallType
<1>2. StoreTypes
  BY <1>1, SizeAssumption DEF Init, StoreTypes
<1>3. Used = {} /\ Creating = {}
  BY <1>1 DEF Init, Used, Creating
<1>4. Cardinality({}) = 0
  BY FS_EmptySet
<1>5. NamesApart /\ SlotLocksInside
  BY <1>3 DEF Init, NamesApart, SlotLocksInside
<1>6. \A t \in Thread : call[t].pc = "idle" /\ call[t].op = NULL /\ call[t].arg = NULL
  BY <1>1 DEF Init, NoCall
<1>7. \A t \in Thread : ThreadOK(t)
  BY <1>6, NULLAssumption DEF Init, ThreadOK, Knows, Inside
<1>8. ListWithinBuffer
  BY <1>6 DEF ListWithinBuffer, Undefined
<1> QED
  BY <1>2, <1>3, <1>4, <1>5, <1>7, <1>8, SizeAssumption DEF StoreInv, Init

LEMMA NextStore == StoreInv /\ [Next]_vars => StoreInv'
<1> SUFFICES ASSUME StoreInv, [Next]_vars
             PROVE  StoreInv'
  OBVIOUS
<1>1. CASE UNCHANGED vars
  BY <1>1 DEF vars, StoreInv, StoreTypes, NamesApart, SlotLocksInside, ThreadOK, Knows, Passed, Used,
              Creating, ListWithinBuffer, Undefined, Accounts
<1>2. CASE ~Undefined /\ \E t \in Thread : Call(t) \/ Step(t)
  BY <1>2, CallStore, LockStateStore, LockSlotStore, CreateHereStore, DeleteHereStore, ListHereStore,
     PassSlotStore, UnlockSlotStore, LoopOverStore, UnlockStateStore DEF Step
<1> QED
  BY <1>1, <1>2 DEF Next

\* The inductive invariant holds: each action keeps it.
THEOREM StoreCorrect == Spec => []StoreInv
BY InitStore, NextStore, PTL DEF Spec

\* The variables have the types of the C structures.
THEOREM StoreTypeCorrect == Spec => []StoreTypeOK
<1>1. StoreInv => StoreTypeOK
  BY DEF StoreInv, StoreTypes, StoreTypeOK, CallType, Inside
<1> QED
  BY <1>1, StoreCorrect, PTL

\* account_count is the number of slots in use and of names, between any two
\* steps of any threads: create and delete change both under state_lock.
THEOREM CountCorrect == Spec => []StoreCountExact
<1>1. StoreInv => StoreCountExact
  BY NamesCounted DEF StoreInv, StoreCountExact, Used
<1> QED
  BY <1>1, StoreCorrect, PTL

\* No thread unlocks a slot that another has locked, although create and delete
\* overwrite the lock they hold.
THEOREM OwnLocksUnlocked == Spec => []UnlocksItsOwn
<1>1. StoreInv => UnlocksItsOwn
  <2> SUFFICES ASSUME StoreInv, NEW t \in Thread, call[t].pc \in {"look", "unlock", "leave"}
               PROVE  slotLock[call[t].at] \in {t, NULL}
    BY DEF UnlocksItsOwn
  <2>1. call[t].at \in Slot
    BY InsideOwns DEF Inside, ThreadOK
  <2> QED
    BY <2>1, InsideOwns DEF Inside
<1> QED
  BY <1>1, StoreCorrect, PTL

\* list writes past its response only when the accounts before the last one
\* have filled it.
THEOREM ListBounded == Spec => []ListWithinBuffer
<1>1. StoreInv => ListWithinBuffer
  BY DEF StoreInv
<1> QED
  BY <1>1, StoreCorrect, PTL

-----------------------------------------------------------------------------
\* The refinement: a call takes effect where it answers, inside state_lock.

\* AccountSet brings its own FiniteSets: both count alike.
LEMMA CountedAlike == \A S : Set!Cardinality(S) = Cardinality(S)
BY Zenon DEF Set!Cardinality, Cardinality

LEMMA FreeSlotNames ==
    ASSUME StoreInv
    PROVE  /\ Cardinality(Accounts) \in Nat
           /\ Used = Slot <=> Cardinality(Accounts) = MAX_ACCOUNTS
           /\ Cardinality(Accounts) <= MAX_ACCOUNTS
<1>1. /\ IsFiniteSet(Slot) /\ Cardinality(Slot) = MAX_ACCOUNTS
      /\ Used \in SUBSET Slot /\ Cardinality(Used) \in Nat /\ Cardinality(Accounts) = Cardinality(Used)
  BY NamesCounted, SlotsCounted DEF StoreInv
<1>2. Cardinality(Used) <= Cardinality(Slot) /\ (Cardinality(Slot) = Cardinality(Used) => Slot = Used)
  BY <1>1, FS_Subset
<1> QED
  BY <1>1, <1>2

\* What each thread asks of the set.
Asked == [t \in Thread |-> [op |-> call[t].op, arg |-> call[t].arg]]

LEMMA GoesAsks ==
    ASSUME StoreTypes, NEW t \in Thread, NEW pc, NEW at, Goes(t, pc, at)
    PROVE  Asked' = Asked
BY DEF Goes, StoreTypes, CallType, Asked

LEMMA LockStateSet ==
    ASSUME StoreInv, NEW t \in Thread, LockState(t)
    PROVE  [Set!Next]_(Set!accounts)
<1>1. Accounts' = Accounts
  BY DEF LockState, Accounts
<1>2. Asked' = Asked
  BY GoesAsks DEF LockState, StoreInv
<1>3. CASE /\ call[t].op = "create" /\ count >= MAX_ACCOUNTS
           /\ Returns(t, [created |-> NULL])
  <2>1. Cardinality(Accounts) = MAX_ACCOUNTS
    BY <1>3, FreeSlotNames, NamesCounted, SizeAssumption DEF StoreInv
  <2>2. answer[t] = NULL
    BY DEF LockState, StoreInv, ThreadOK
  <2>3. Set!Create(t)
    BY <1>1, <1>2, <1>3, <2>1, <2>2, CountedAlike DEF Set!Create, Set!Answered, Returns, Asked
  <2> QED
    BY <2>3 DEF Set!Next
<1>4. CASE UNCHANGED answer
  BY <1>1, <1>2, <1>4 DEF Set!accounts, Asked
<1> QED
  BY <1>3, <1>4 DEF LockState

LEMMA CreateHereSet ==
    ASSUME StoreInv, NEW t \in Thread, CreateHere(t)
    PROVE  Set!Create(t)
<1>1. /\ ThreadOK(t) /\ StoreTypes /\ call[t].pc = "look"
      /\ \E i \in Slot, n \in Name :
           /\ n \notin Accounts /\ i \notin Used
           /\ accounts' = [accounts EXCEPT ![i] = n]
           /\ Returns(t, [created |-> n])
  BY CreateHereDoes
<1>2. PICK i \in Slot, n \in Name :
        /\ n \notin Accounts /\ i \notin Used
        /\ accounts' = [accounts EXCEPT ![i] = n]
        /\ Returns(t, [created |-> n])
  BY <1>1
<1>3. \A j \in Slot : accounts'[j] = IF j = i THEN n ELSE accounts[j]
  BY <1>1, <1>2 DEF StoreTypes
<1>4. Accounts' = Accounts \union {n}
  BY <1>2, <1>3, NULLAssumption DEF Accounts, Used
<1>5. Cardinality(Accounts) < MAX_ACCOUNTS
  BY <1>2, FreeSlotNames, SizeAssumption
<1>6. answer[t] = NULL
  BY <1>1 DEF ThreadOK
<1>7. Asked' = Asked /\ Asked[t].op = "create"
  BY <1>1, GoesAsks DEF CreateHere, Looks, Asked
<1> QED
  BY <1>2, <1>4, <1>5, <1>6, <1>7, CountedAlike DEF Set!Create, Set!Answered, Returns, Asked

LEMMA DeleteHereSet ==
    ASSUME StoreInv, NEW t \in Thread, DeleteHere(t)
    PROVE  Set!Delete(t)
<1>1. PICK i \in Slot : /\ Looks(t, "delete", i) /\ accounts[i] = call[t].arg
                        /\ Overwrite(i, NULL) /\ Goes(t, "leave", i)
  BY DEF DeleteHere, Matches
<1>2. Returns(t, [deleted |-> TRUE])
  BY DEF DeleteHere
<1> DEFINE n == call[t].arg
<1>3. ThreadOK(t) /\ StoreTypes /\ NamesApart /\ call[t].pc = "look" /\ call[t].op = "delete"
  BY <1>1, InsideOwns DEF Inside, Looks, StoreInv
<1>4. n \in Name /\ n # NULL /\ answer[t] = NULL
  BY <1>3, NULLAssumption DEF ThreadOK
<1>5. i \in Used /\ \A j \in Used : accounts[j] = n => j = i
  BY <1>1, <1>3, <1>4 DEF NamesApart, Used
<1>6. \A j \in Slot : accounts'[j] = IF j = i THEN NULL ELSE accounts[j]
  BY <1>1, <1>3 DEF StoreTypes, Overwrite
<1> HIDE DEF n
<1>7. n \in Accounts /\ Accounts' = Accounts \ {n}
  <2>1. n \in Accounts /\ accounts[i] = n
    BY <1>1, <1>4 DEF Accounts, n
  <2>2. \A a : a \in Accounts' <=> a \in Accounts /\ a # n
    BY <1>4, <1>5, <1>6, <2>1 DEF Accounts, Used
  <2> QED
    BY <2>1, <2>2
<1>8. (n \in Accounts) = TRUE
  BY <1>7
<1>9. Asked' = Asked /\ Asked[t] = [op |-> "delete", arg |-> n]
  BY <1>1, <1>3, GoesAsks DEF Asked, n
<1> QED
  BY <1>2, <1>4, <1>7, <1>8, <1>9 DEF Set!Delete, Set!Answered, Returns, Asked

\* A loop that ends finds what is so of the whole array.
LEMMA LoopOverSet ==
    ASSUME StoreInv, NEW t \in Thread, LoopOver(t)
    PROVE  Set!Next
<1>1. /\ Passed(t) = Slot /\ ThreadOK(t)
      /\ \E a \in Answer :
                /\ Returns(t, a)
                /\ \/ call[t].op = "create" /\ a = [created |-> NULL]
                   \/ call[t].op = "delete" /\ a = [deleted |-> FALSE]
                   \/ call[t].op = "list" /\ a = [listed |-> {e[2] : e \in call[t].listed}]
  BY LoopOverDoes
<1>2. call[t].pc = "loop" /\ Accounts' = Accounts /\ StoreTypes
  BY DEF LoopOver, Accounts, StoreInv
<1>3. answer[t] = NULL /\ Knows(t)
  BY <1>1, <1>2 DEF ThreadOK
<1>4. Asked' = Asked /\ Asked[t] = [op |-> call[t].op, arg |-> call[t].arg]
  BY <1>2, GoesAsks DEF LoopOver, Asked
<1>5. CASE call[t].op = "create" /\ Returns(t, [created |-> NULL])
  <2>1. Used = Slot
    BY <1>1, <1>2, <1>3, <1>5 DEF Knows, Used
  <2>2. Cardinality(Accounts) = MAX_ACCOUNTS
    BY <2>1, FreeSlotNames
  <2>3. Set!Create(t)
    BY <1>2, <1>3, <1>4, <1>5, <2>2, CountedAlike DEF Set!Create, Set!Answered, Returns, Asked
  <2> QED
    BY <2>3 DEF Set!Next
<1>6. CASE call[t].op = "delete" /\ Returns(t, [deleted |-> FALSE])
  <2>1. call[t].arg \in Name /\ call[t].arg \notin Accounts
    BY <1>1, <1>2, <1>3, <1>6 DEF Knows, ThreadOK, Accounts
  <2>2. (call[t].arg \in Accounts) = FALSE /\ Accounts' = Accounts \ {call[t].arg}
    BY <1>2, <2>1
  <2>3. Set!Delete(t)
    BY <1>3, <1>4, <1>6, <2>2 DEF Set!Delete, Set!Answered, Returns, Asked
  <2> QED
    BY <2>1, <2>3 DEF Set!Next
<1>7. CASE call[t].op = "list" /\ Returns(t, [listed |-> {e[2] : e \in call[t].listed}])
  <2>1. call[t].listed = {<<i, accounts[i]>> : i \in Used}
    <3>1. Slot \intersect Used = Used
      BY DEF Used
    <3> QED
      BY <1>1, <1>2, <1>3, <1>7, <3>1 DEF Knows
  <2>2. {e[2] : e \in call[t].listed} = Accounts
    <3>1. \A a : a \in Accounts <=> \E i \in Used : a = accounts[i]
      BY DEF Accounts, Used
    <3>2. \A e \in call[t].listed : e[2] \in Accounts
      BY <2>1, <3>1
    <3>3. ASSUME NEW a \in Accounts
          PROVE  \E e \in call[t].listed : e[2] = a
      <4>1. PICK i \in Used : a = accounts[i]
        BY <3>1
      <4>2. <<i, accounts[i]>> \in call[t].listed /\ <<i, accounts[i]>>[2] = a
        BY <2>1, <4>1
      <4> QED
        BY <4>2
    <3> QED
      BY <3>2, <3>3
  <2>3. Set!List(t)
    BY <1>2, <1>3, <1>4, <1>7, <2>2 DEF Set!List, Set!Answered, Returns, Asked
  <2> QED
    BY <2>3 DEF Set!Next
<1> QED
  BY <1>1, <1>5, <1>6, <1>7

LEMMA UnlockStateSet ==
    ASSUME StoreInv, NEW t \in Thread, UnlockState(t)
    PROVE  Set!Return(t)
<1>1. answer[t] # NULL
  BY DEF UnlockState, StoreInv, ThreadOK
<1>2. Asked' = [Asked EXCEPT ![t] = [op |-> NULL, arg |-> NULL]]
  BY DEF UnlockState, NoCall, Asked, StoreInv, StoreTypes
<1> QED
  BY <1>1, <1>2 DEF UnlockState, Returns, Accounts, Set!Return, Set!NoRequest, Asked

\* A call that begins asks for what it will do.
LEMMA CallSet ==
    ASSUME StoreInv, NEW t \in Thread, Call(t)
    PROVE  Set!Call(t)
<1>1. PICK op \in {"create", "delete", "list"}, arg \in Name \union {NULL} :
        /\ op = "delete" => arg \in Name
        /\ op # "delete" => arg = NULL
        /\ Begin(t, op, arg)
  BY DEF Call
<1>2. Asked[t] = [op |-> NULL, arg |-> NULL]
  BY <1>1 DEF Begin, StoreInv, ThreadOK, Asked
<1>3. Asked' = [Asked EXCEPT ![t] = [op |-> op, arg |-> arg]]
  BY <1>1 DEF Begin, NoCall, Asked, StoreInv, StoreTypes
<1>4. [op |-> op, arg |-> arg] \in Set!Request
  BY <1>1 DEF Set!Request
<1>5. UNCHANGED <<Accounts, answer>>
  BY <1>1 DEF Begin, Accounts
<1> QED
  BY <1>2, <1>3, <1>4, <1>5 DEF Set!Call, Set!NoRequest, Asked

\* The steps between the locks ask for nothing and answer nothing.
LEMMA QuietSet ==
    ASSUME StoreInv, NEW t \in Thread, LockSlot(t) \/ ListHere(t) \/ PassSlot(t) \/ UnlockSlot(t)
    PROVE  UNCHANGED Set!accounts
<1>1. UNCHANGED <<accounts, answer>>
  BY DEF LockSlot, ListHere, PassSlot, UnlockSlot
<1>2. StoreTypes
  BY DEF StoreInv
<1>3. CASE LockSlot(t) \/ PassSlot(t) \/ UnlockSlot(t)
  <2>1. Asked' = Asked
    BY <1>2, <1>3, GoesAsks DEF LockSlot, PassSlot, UnlockSlot
  <2> QED
    BY <1>1, <2>1 DEF Accounts, Set!accounts, Asked
<1>4. CASE ListHere(t)
  <2>1. PICK pc, listed : call' = [call EXCEPT ![t].pc = pc, ![t].listed = listed]
    BY <1>2, <1>4 DEF ListHere, StoreTypes, CallType
  <2>2. Asked' = Asked
    BY <1>2, <2>1 DEF StoreTypes, CallType, Asked
  <2> QED
    BY <1>1, <2>2 DEF Accounts, Set!accounts, Asked
<1> QED
  BY <1>3, <1>4

LEMMA NextSet == StoreInv /\ [Next]_vars => [Set!Next]_(Set!accounts)
<1> SUFFICES ASSUME StoreInv, [Next]_vars
             PROVE  [Set!Next]_(Set!accounts)
  OBVIOUS
<1>1. CASE UNCHANGED vars
  BY <1>1 DEF vars, Accounts, Set!accounts
<1>2. ASSUME NEW t \in Thread, Call(t) \/ Step(t)
      PROVE  [Set!Next]_(Set!accounts)
  <2>1. CASE LockSlot(t) \/ ListHere(t) \/ PassSlot(t) \/ UnlockSlot(t)
    BY <2>1, QuietSet
  <2>2. CASE LockState(t)
    BY <2>2, LockStateSet
  <2>3. CASE CreateHere(t)
    BY <2>3, CreateHereSet DEF Set!Next
  <2>4. CASE DeleteHere(t)
    BY <2>4, DeleteHereSet DEF Set!Next
  <2>5. CASE LoopOver(t)
    BY <2>5, LoopOverSet
  <2>6. CASE UnlockState(t)
    BY <2>6, UnlockStateSet DEF Set!Next
  <2>7. CASE Call(t)
    BY <2>7, CallSet DEF Set!Next
  <2> QED
    BY <1>2, <2>1, <2>2, <2>3, <2>4, <2>5, <2>6, <2>7 DEF Step
<1> QED
  BY <1>1, <1>2 DEF Next

\* The store implements AccountSet: its calls are atomic and their answers true
\* of what they were asked, whatever the threads and the order of their steps.
\* phantom_delete_account takes away the account of the string it was given, and
\* no other, and returns false only when there is none.
THEOREM SetImplemented == Spec => ImplementsSet
<1>1. Init => Set!Init
  <2> SUFFICES ASSUME Init
               PROVE  Set!Init
    OBVIOUS
  <2>1. Accounts = {}
    BY DEF Init, Accounts
  <2> QED
    BY <2>1 DEF Init, NoCall, Set!Init, Set!NoRequest
<1> QED
  BY <1>1, NextSet, StoreCorrect, PTL DEF Spec, ImplementsSet, Set!Spec

=============================================================================
