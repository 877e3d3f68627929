---------------------------- MODULE AccountStore ----------------------------
(***************************************************************************)
(* The flat account store of phantomid-with-badapi, the predecessor of the *)
(* tree: an array of accounts, each with a lock, under state_lock.  Its    *)
(* calls run lock by lock in several threads, as the locks provide for.    *)
(*                                                                         *)
(* An account's id has room for 64 characters and generate_id writes 65:   *)
(* the terminator is the first byte of creation_time, which is set next.   *)
(* So the string by which the account is printed and looked for is the id  *)
(* alone only if the time has a zero there, and else the id and some bytes *)
(* of the time.  Such a string is a pair <<id, form>>, with form "id",     *)
(* "shown" or, for what a line-based client sends, "line" (a newline more).*)
(***************************************************************************)
EXTENDS Naturals, FiniteSets

CONSTANTS Thread,       \* the callers of the API
          MAX_ACCOUNTS, \* the length of the array
          MaxIds,       \* bound: how many accounts are ever created
          Room,         \* the size of list's response
          Heading,      \* the characters of its first line
          Entry,        \* the characters of an account in it
          NULL          \* no account, no thread, no answer

ASSUME SizeAssumption == {MAX_ACCOUNTS, MaxIds, Room, Heading, Entry} \subseteq Nat
ASSUME ThreadAssumption == IsFiniteSet(Thread)

VARIABLES accounts,     \* the name of the account in each slot
          count,        \* account_count
          stateLock,    \* the owner of state_lock
          slotLock,     \* the owner of each account's lock
          call,         \* the locals of each thread's call
          answer,       \* what the call of each thread returns
          created       \* the ids generated so far, 1 .. created

vars == <<accounts, count, stateLock, slotLock, call, answer, created>>

Slot == 1 .. MAX_ACCOUNTS
Name == (0 .. MaxIds) \X {"id", "shown", "line"}
Answer == [created : Name \union {NULL}] \union [deleted : BOOLEAN] \union [listed : SUBSET Name]

ASSUME NULLAssumption == NULL \notin Thread \union Name \union Answer

NoCall == [op |-> NULL, pc |-> "idle", at |-> 1, arg |-> NULL, listed |-> {}]

Init ==
    /\ accounts = [i \in Slot |-> NULL] /\ count = 0
    /\ stateLock = NULL /\ slotLock = [i \in Slot |-> NULL]
    /\ call = [t \in Thread |-> NoCall]
    /\ answer = [t \in Thread |-> NULL]
    /\ created = 0

-----------------------------------------------------------------------------
Begin(t, op, arg) ==
    /\ call[t].pc = "idle"
    /\ call' = [call EXCEPT ![t] = [NoCall EXCEPT !.op = op, !.pc = "begin", !.arg = arg]]
    /\ UNCHANGED <<accounts, count, stateLock, slotLock, answer, created>>

\* The bound on ids: one is left for each create that has begun.
IdLeft == created + Cardinality({t \in Thread : call[t].op = "create"}) < MaxIds

\* A client deletes with an id it has seen, or with one of no account (0).
Call(t) ==
    \/ IdLeft /\ Begin(t, "create", NULL)
    \/ Begin(t, "list", NULL)
    \/ \E n \in Name : n[1] <= created /\ Begin(t, "delete", n)

\* A slip of MayEnter: list does without state_lock.
MayEnterToList(t) == stateLock = NULL \/ call[t].op = "list"

MayEnter(t) == stateLock = NULL

\* What a thread does after state_lock or a slot's lock.
Goes(t, pc, at) == call' = [call EXCEPT ![t].pc = pc, ![t].at = at]

Returns(t, a) == answer' = [answer EXCEPT ![t] = a]

LockState(t) ==
    /\ call[t].pc = "begin" /\ MayEnter(t)
    /\ stateLock' = t
    /\ IF call[t].op = "create" /\ count >= MAX_ACCOUNTS
       THEN Goes(t, "end", 1) /\ Returns(t, [created |-> NULL])
       ELSE Goes(t, "loop", 1) /\ UNCHANGED answer
    /\ UNCHANGED <<accounts, count, slotLock, created>>

LockSlot(t) ==
    LET i == call[t].at IN
    /\ call[t].pc = "loop" /\ i <= MAX_ACCOUNTS /\ slotLock[i] = NULL
    /\ slotLock' = [slotLock EXCEPT ![i] = t]
    /\ Goes(t, "look", i)
    /\ UNCHANGED <<accounts, count, stateLock, answer, created>>

\* At slot i, whose lock t holds.
Looks(t, op, i) == call[t].pc = "look" /\ call[t].op = op /\ i = call[t].at

\* memcpy and memset of an account: its lock goes with it.
Overwrite(i, n) ==
    /\ accounts' = [accounts EXCEPT ![i] = n]
    /\ slotLock' = [slotLock EXCEPT ![i] = NULL]

CreateHere(t) ==
    /\ \E i \in Slot, form \in {"id", "shown"} :
         /\ Looks(t, "create", i) /\ accounts[i] = NULL
         /\ Overwrite(i, <<created + 1, form>>)
         /\ Returns(t, [created |-> <<created + 1, form>>])
         /\ Goes(t, "leave", i)
    /\ created' = created + 1 /\ count' = count + 1
    /\ UNCHANGED stateLock

\* A slip of CountAfterDelete: the counter is not brought down.
CountAfterDeleteKept == count

CountAfterDelete == count - 1

\* A slip of Matches: any account will do, whatever its id.
MatchesAny(t, i) == accounts[i] # NULL

\* strcmp of the account's string and what was sent.
Matches(t, i) == accounts[i] = call[t].arg

DeleteHere(t) ==
    /\ \E i \in Slot : /\ Looks(t, "delete", i) /\ Matches(t, i)
                       /\ Overwrite(i, NULL)
                       /\ Goes(t, "leave", i)
    /\ Returns(t, [deleted |-> TRUE])
    /\ count' = CountAfterDelete
    /\ UNCHANGED <<stateLock, created>>

Offset(t) == Heading + Entry * Cardinality(call[t].listed)

\* A slip of IsListed: slots without an account are listed too.
IsListedAnyway(i) == TRUE

IsListed(i) == accounts[i] # NULL

\* snprintf adds an account at offset; past the end of the response the room
\* left wraps and the write is out of bounds.
ListHere(t) ==
    /\ \E i \in Slot :
         /\ Looks(t, "list", i) /\ IsListed(i)
         /\ call' = [call EXCEPT ![t].pc = IF Offset(t) > Room THEN "overrun" ELSE "unlock",
                                 ![t].listed = @ \union {<<i, accounts[i]>>}]
    /\ UNCHANGED <<accounts, count, stateLock, slotLock, answer, created>>

PassSlot(t) ==
    /\ \E i \in Slot :
         /\ \/ Looks(t, "create", i) /\ accounts[i] # NULL
            \/ Looks(t, "delete", i) /\ ~Matches(t, i)
            \/ Looks(t, "list", i) /\ ~IsListed(i)
         /\ Goes(t, "unlock", i)
    /\ UNCHANGED <<accounts, count, stateLock, slotLock, answer, created>>

\* A slip of Breaks: the loop goes on when its work is done.
BreaksNever(t) == FALSE

Breaks(t) == call[t].pc = "leave"

\* Unlocking a lock that was overwritten leaves it free.
UnlockSlot(t) ==
    LET i == call[t].at IN
    /\ call[t].pc \in {"unlock", "leave"}
    /\ slotLock' = [slotLock EXCEPT ![i] = NULL]
    /\ IF Breaks(t) THEN Goes(t, "end", i) ELSE Goes(t, "loop", i + 1)
    /\ UNCHANGED <<accounts, count, stateLock, answer, created>>

\* The loop has gone through the array.
LoopOver(t) ==
    /\ call[t].pc = "loop" /\ call[t].at > MAX_ACCOUNTS
    /\ Returns(t, CASE call[t].op = "create" -> [created |-> NULL]
                    [] call[t].op = "delete" -> [deleted |-> FALSE]
                    [] call[t].op = "list" -> [listed |-> {e[2] : e \in call[t].listed}])
    /\ Goes(t, "end", 1)
    /\ UNCHANGED <<accounts, count, stateLock, slotLock, created>>

UnlockState(t) ==
    /\ call[t].pc = "end"
    /\ stateLock' = NULL
    /\ call' = [call EXCEPT ![t] = NoCall]
    /\ Returns(t, NULL)
    /\ UNCHANGED <<accounts, count, slotLock, created>>

-----------------------------------------------------------------------------
Step(t) ==
    \/ LockState(t) \/ LockSlot(t) \/ CreateHere(t) \/ DeleteHere(t) \/ ListHere(t)
    \/ PassSlot(t) \/ UnlockSlot(t) \/ LoopOver(t) \/ UnlockState(t)

\* What the program does after a write out of bounds is not defined.
Undefined == \E t \in Thread : call[t].pc = "overrun"

Next ==
    \/ ~Undefined /\ \E t \in Thread : Call(t) \/ Step(t)
    \/ Undefined /\ UNCHANGED vars

Spec == Init /\ [][Next]_vars

-----------------------------------------------------------------------------
\* The variables have the types of the C structures.
StoreTypeOK ==
    /\ accounts \in [Slot -> Name \union {NULL}]
    /\ count \in 0 .. MAX_ACCOUNTS
    /\ stateLock \in Thread \union {NULL}
    /\ slotLock \in [Slot -> Thread \union {NULL}]
    /\ created \in 0 .. MaxIds
    /\ \A t \in Thread :
         /\ call[t].op \in {NULL, "create", "delete", "list"}
         /\ call[t].pc \in {"idle", "begin", "loop", "look", "unlock", "leave", "end", "overrun"}
         /\ call[t].at \in 1 .. MAX_ACCOUNTS + 1
         /\ call[t].arg \in Name \union {NULL}
         /\ call[t].listed \subseteq Slot \X (Name \union {NULL})

Accounts == {accounts[i] : i \in Slot} \ {NULL}

\* account_count is the number of slots in use, and no two slots have the same
\* name: create tests the one and writes to the other.
StoreCountExact ==
    count = Cardinality({i \in Slot : accounts[i] # NULL}) /\ count = Cardinality(Accounts)

\* create and delete blank the lock of the account while they hold it, and
\* unlock it afterwards: only state_lock keeps another thread from taking it
\* in between and having it released under its hands.
UnlocksItsOwn ==
    \A t \in Thread :
        call[t].pc \in {"look", "unlock", "leave"} => slotLock[call[t].at] \in {t, NULL}

\* The calls are atomic and the answers true: a create fails only when the
\* array is full, a delete removes the account of the name it was asked for,
\* and no other, and fails only if there is none, and a list shows accounts
\* that were all there at one time.
Set == INSTANCE AccountSet WITH
    Capacity <- MAX_ACCOUNTS,
    present <- Accounts,
    request <- [t \in Thread |-> [op |-> call[t].op, arg |-> call[t].arg]]

ImplementsSet == Set!Spec

\* A list stays in its buffer while the accounts before the last fit in it.
ListWithinBuffer ==
    Undefined => Heading + Entry * (Cardinality(Accounts) - 1) > Room

\* "delete <id> - Delete an account by ID" (the help text, phantomid.c:96): a
\* delete by the id of an account deletes it.
DeletesById ==
    \A t \in Thread, n \in Accounts :
        answer[t] = [deleted |-> FALSE] => call[t].arg # <<n[1], "id">>
=============================================================================
