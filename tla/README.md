# PhantomID: a TLA+ model of the daemon and its account tree

The repository is a C daemon (`networking/phantomid-with-tree`) that keeps anonymous
accounts in a tree and serves text commands over TCP, together with the earlier
versions it grew from and a Node.js shim. The specifications here are translated from
the C source. TLC checks them on small instances; TLAPS proves every invariant, action
property and refinement that the passing runs check, for any number of accounts,
threads, connections and slots. Liveness is model-checked.

## The system

| component | state | operations | works with |
|---|---|---|---|
| account tree (`phantomid.c` 72-410, `phantomid.h` 53-70) | nodes with parent, children array (10 slots), child count, `is_root`, `is_admin`, `node_lock`; the tree's `root`, `total_nodes`, `tree_lock` | init, insert, delete, find, bfs, dfs, size, depth, has_root, print, cleanup | called by the command handler, `main` and the bindings; insert and delete call find |
| messaging (`phantomid.c` 690-731) | none | send (two finds and a log line), get (one find, no messages) | the tree |
| event loop (`network.c` 183-223, 253-371) | client table (10 slots: active, descriptor, lock), `clients_lock`, `running` | net_run, net_add_client, net_remove_client | sockets; calls the handlers in `program->handlers` |
| command handler (`phantomid.c` 484-670) | `error_buffer` | create, delete, msg, list, help, quit | called by net_run under `clients_lock`; calls the tree and net_send |
| daemon lifecycle (`main.c`, `phantomid.c` 416-479, 672-688) | `running` of `main.c`, `phantom->running`, `network->running` | signal handler, phantom_init, phantom_run, phantom_cleanup | owns everything above |
| endpoints (`network.c` 24-180) | listening socket | net_init, net_close, net_send, net_receive | lifecycle, handler |
| account ids (`phantomid.c` 47-69) | none | RAND_bytes, SHA-256 | handler |
| flat account store (`phantomid-with-badapi/phantomid.c`) | 1000 accounts with a lock each, a count | create, delete, list | its own event loop |
| legacy event loops (`network.c` of `phantomid-with-badapi`, `network-with-threadsafety`, `network-without-threadsafety`, `depracted-network`) | client tables | net_init, net_run, add and remove client | their own `main.c` |
| Node.js bindings (`phantomid-napi-binding-old`) | one static daemon | init, cleanup, createAccount | tree and lifecycle |

The daemon has one thread: `main` calls `phantom_run`, which calls `net_run` until the
daemon stops, which calls the handlers, which call the tree. The locks are there for
programs that call the API from several threads; the header offers every call to them.

What is hard here:

* the same mutexes are taken twice on three paths (delete to find, insert to find,
  net_run to net_remove_client);
* delete patches the links around an inner node by hand and hands its children to its
  parent without a capacity check;
* error paths must give back two locks, in code without any cleanup construct;
* traversals use a fixed queue whose full case is ignored;
* descriptors are reused by the kernel while the table and `readfds` still hold numbers;
* clients come, send and leave at any point of a pass; signals interrupt select; a client
  may be gone when its answer is sent;
* the flag a signal clears is not the flag the loop reads;
* starting has eight ways to fail, each with something else to give back, and the port is
  checked, let go and bound again while other processes run;
* the flat store keeps each account's lock inside the record that it copies over.

What makes each component correct:

* tree: pointers and arrays agree, nothing freed is referred to, every account is
  reachable, the count is exact, the root alone is the admin, a deletion changes nobody's
  ancestors or order;
* its locking: calls look atomic, locks are always given back, calls return;
* event loops: open sockets and active slots correspond, only clients that left are
  dropped and only a full table turns one away, everyone is accepted and read;
* lifecycle: a signal ends the daemon, after cleanup; an init that succeeds listens, one
  that fails gives back what it took, a cleanup uses nothing freed;
* flat store: calls look atomic, the count is exact, a lock is released by its owner.

## The modules

**PhantomTree** is the account tree as its callers are promised it: one action per call
that changes it (`InsertRoot`, `InsertChild`, `Delete`). A `Node` is the address of a
`PhantomNode`; it stands for the account stored there, whose id is taken to be unique.
`live` is the set of allocated nodes, `parent`, `children`, `isRoot`, `isAdmin` are the
fields of the structure (the array with its count is a sequence), `root` and
`totalNodes` those of `PhantomTree`. Addresses can be reused. A write past a children
array (`Overrun`) is undefined behaviour: the model stops there, and only there,
and deletions of accounts with children get there.
`ChildrenWithout`, `ParentsWithout` and `AdminsWithout` are the effect of the unlinking
and of the redistribution loop of `phantom_tree_delete`.

**TreeLocks** is the same code lock by lock, for any number of threads. Each thread has
a program counter and a frame with the locals of its call (`found`, the queue or the
recursion stack, the loop index). A step goes from one lock operation to the next, so
each line that reads or writes shared fields is in a step of its own lock region:
`FindLock`, `FindVisit`, `FindNothing`; `InsertLock`, `InsertRefused`, `InsertRoot`,
`InsertSeek`, `InsertHold`, `InsertFails`, `InsertLink`; `DeleteLock`, `DeleteSeek`,
`DeleteNothing`, `DeleteHold`, `DeleteUnlink`, `DeleteMove` (one turn of the loop),
`DeleteFree`; the `Bfs` and `Dfs` actions; `MessageFrom` and `MessageTo`. The auxiliary
variable `committed` is the tree at the last point where an insertion or deletion was
complete; `API` instantiates PhantomTree with it, and the property `ImplementsTree` says
that the lock-by-lock calls implement the atomic ones.

`tree_lock` is initialised with default attributes, and POSIX lets a default mutex act
in more than one way when its owner locks it again. `Relock` names the outcomes:
`"block"` (glibc, musl, winpthreads: the thread waits for itself) and `"reenter"` (the
mutex counts). Insert under a parent and delete lock twice, so with `"block"` they never
get past find: `treelocks_hang` shows it. With `"reenter"` the bodies run, and
`treelocks` checks them; that run says what the code does once the double lock is out of
the way, by a platform's choice or by a repair that makes the mutex recursive.

**Sockets** is the kernel as an event loop sees it, and the clients: `Connect`, `Send`,
`HangUp` at any time; `Ready`, `Take` (accept: the first waiting connection, the lowest
free descriptor), `Receive`, `Transmit` (send), `Close` for the loops. It is external:
what it says is what POSIX says of the calls the code makes. A connection a client has
ended is `"closed"` (recv gives 0) or `"reset"` (recv fails; what was unread is gone);
an answer to a closed end may bring the reset that makes it `"broken"`.

**ClientService** is what an event loop owes its clients, in two variables: a client
arrives, waits, is admitted while fewer than `Capacity` are served or else turned away,
and is dropped only after it hung up. **NetLoop** and **LegacyLoop** both instantiate it.

**NetLoop** is `main`, `phantom_run` and `net_run` in one thread on Sockets. `pc` walks
through a pass: `select`, `accept`, `add`, `serve` with the index `slot`, `answer`.
`fds` is `readfds` after select. `ReadCommand` reads all that has arrived, and the
handler takes it for one command: when two were joined in a recv, the words of the
second are arguments of the first to sscanf (`phantomid.c:500`) or are not looked at.
`Answer` is the handler's net_send. A slot has a descriptor exactly while it is active
(`Place`). `PipeSignal` says whether a send to a broken connection raises SIGPIPE
(POSIX) or only fails (Windows): the code neither ignores the signal nor asks for its
absence, so with it the daemon ends (`pc = "killed"`). `DropClient` is the disconnection
branch with net_remove_client, `Relock` as above. What a command does to the tree is in
the other modules.

**LegacyLoop** is the four earlier event loops, one of which is chosen in `Init`
(`version`). They share one shape, and where they differ an action has a condition on
`version`: `plain` (`network-without-threadsafety`) gives a pass up when accept fails
(`GivesUp`) and takes only recv's 0 for a disconnection (`Disconnects`, `IgnoreError`);
`deprecated` calls recv on the listening socket and never accepts (`ReceiveFails`).
`badapi` alone answers its clients: net_send is called from within the loop, under
`clients_lock` and the slot's lock, on a blocking socket and without MSG_NOSIGNAL
(`Answer`). `full` is the set of connections whose buffers have no room for another
answer; an answer to one of them waits (`Blocks`) until its client reads, or resets the
connection (`TakeAnswers`), and an answer to a broken one ends the program (`Killed`).
`Relock` is as above: `badapi` and `threadsafe` call net_remove_client under its locks.
None of them closes a connection that finds the table full: such a descriptor is in no
slot (`Seat` is empty) and is lost for good.

**Lifecycle** is starting and stopping: `phantom_init`, the five `net_init` with every
step that may fail, and `phantom_cleanup` with `net_close`, called by `main` or, for the
tree version, by the Node.js shim, which offers init, createAccount and cleanup in any
order. `tree` and `endpoints` are what the pointers of the structure tell (`"none"` is
NULL, `"freed"` dangles), `stateLock` and `endpointLock` the states of the mutexes,
`sock` the socket and `port` the port as other processes see it; they may take it and
leave it at any time (`OtherProcess`). `lost` collects what init forgets when it clears a
structure in use. `legal` is auxiliary: every cleanup so far had its own successful init.
Using freed memory or a destroyed mutex leads to `pc = "undefined"`, where the model stops.

**AccountStore** is the flat store lock by lock: `LockState`, then for each slot
`LockSlot`, one of `CreateHere`, `DeleteHere`, `ListHere` and `PassSlot`, `UnlockSlot`;
`LoopOver` and `UnlockState` end the call. `Overwrite` is the memcpy or memset of an
account, which frees the lock that the thread still holds and unlocks afterwards. The
string an account is known by is its id alone or runs on into the creation time
(`form`), because generate_id writes the terminator one byte past the id. **AccountSet**
is its abstract form: a set of names with atomic create, delete and list. Its `request`
keeps what each caller asked, so a delete takes away the name that its caller gave and no
other, and its answer is true of that name.

**PhantomDaemon** is the command handler, `phantom_on_client_data`, on PhantomTree. The
daemon has one thread and a command runs from recv to net_send with nothing in between,
so each command is one action: `Create`, `CreateFails`, `DeleteAccount`, `DeleteFails`,
`Message`, `List`, and `Fixed` for the answers without data. `errorBuffer` is the global
`error_buffer`, `reply` the last answer with its command, reduced to what it claims: the
id it names, the error it quotes, the numbers of the summary. `told` and `gone` record
what clients have been told; a client sends ids from answers, those of deleted accounts
included, or an id nobody has. `Refusal` is the cascade of checks of
`phantom_tree_insert`, `Depth` the recursion of `get_depth_helper`.

Definitions whose comment begins with "A slip of" are not part of the model: each is the
plausible mistake that the property paired with it in `PROJECT.json` catches.

## What is checked

PhantomTree is checked in the run `daemon`: the commands insert under any account and
delete any account, so they build every tree that PhantomTree builds from unused addresses.

| run | instance | properties |
|---|---|---|
| `treelocks` | 2 threads, 3 nodes, capacity 2, queue of 2, 4 calls, `Relock` reenter | `TypeOK`, `CompleteWhenUnlocked`, `LocksNested`, `ListsEveryAccountOnce`, `ImplementsTree`, `FindComplete`, `CallsReturn` hold |
| `treelocks_hang` | 1 thread, 3 calls, `Relock` block | `DeleteReturns` is violated |
| `netloop` | 3 connections, 3 descriptors, 2 slots, `Relock` reenter, no `PipeSignal` | `TypeOK`, `TableOwnsSockets`, `ImplementsService`, `WaitingAreAccepted`, `CommandsAreRead`, `DisconnectionHandled` hold |
| `netloop_disconnect` | 1 connection, `Relock` block | `DisconnectionHandled` is violated |
| `netloop_shutdown` | 1 connection | `ShutdownCompletes` is violated |
| `netloop_sigpipe` | 2 connections, `PipeSignal` | `FailedSendReported` is violated |
| `daemon` | 5 accounts, capacity 2, one unknown id, accounts symmetric | of the tree, `TypeOK`, `LinksAgree`, `AllReachable`, `AdminIsRoot`, `CountExact`, `AncestryKept`, `SiblingOrderKept`, `OverrunOnlyByDelete`; of the answers, `DaemonTypeOK`, `ToldIsTrue`, `FailuresExplained`, `SummaryTrue` hold |
| `legacy` | four versions, 3 connections, 2 descriptors, 1 slot, `Relock` reenter | `LegacyTypeOK`, `SlotsOwnSockets`, `ImplementsService`, `LegacyAccepts`, `LegacyReads`, `LegacyReleases` hold |
| `legacy_concurrent` | badapi, 2 connections, 2 slots, `Relock` either | `ConcurrentClients` is violated |
| `lifecycle` | five versions, 3 calls of init | `LifecycleTypeOK`, `PairedCallsAreSafe`, `InitMeansListening`, `ReturnsClean` hold |
| `store` | 2 threads, 3 slots, 4 ids, threads symmetric | `StoreTypeOK`, `StoreCountExact`, `UnlocksItsOwn`, `ListWithinBuffer`, `ImplementsSet` hold |
| `store_delete` | 1 thread, 2 slots | `DeletesById` is violated |

The violations:

1. *Delete never returns* (`phantomid.c:238`): it calls find with `tree_lock` held. The
   same holds of an insert with a parent id (`:201`).
2. *The first disconnection stops the loop* (`network.c:348`): net_remove_client locks
   `clients_lock` and the slot's lock, which net_run holds.
3. *A signal does not end a running daemon* (`main.c:22`, `phantomid.c:681`): the handler
   clears `running` of `main.c`; phantom_run reads `phantom->running`, which only
   phantom_cleanup clears, after phantom_run has returned.
4. *An answer to a client that left ends the daemon* (`phantomid.c:644`): a client closes
   its socket after a command, the first answer brings a reset, and the answer to a
   second command that had already arrived raises SIGPIPE; the code after net_send
   expects a failed send to be reported.
5. *delete by id finds nothing in the flat store* (`phantomid-with-badapi/phantomid.c`):
   the id's terminator is overwritten by `creation_time`, so strcmp compares the 64
   characters with a longer string.
6. *One client ends the service of the others by `badapi`*: by leaving, since
   net_remove_client is called under the locks it takes
   (`phantomid-with-badapi/network.c:258`; `network-with-threadsafety/network.c:212` does
   the same), by not reading, since an answer waits in send with the locks held
   (`phantomid-with-badapi/phantomid.c:108`), or by sending a command and closing before
   the one in hand is answered, since the answer after the reset raises SIGPIPE. TLC's
   counterexample takes the first way; each of them refutes the property.

Properties that hold with exceptions, which their formulas name:

* `LegacyAccepts`, `LegacyReads` and `LegacyReleases` except that an answer of `badapi`
  blocks for good (`ClientsRead` is the hypothesis that each one is read in the end, or
  its connection reset) or kills the program (`Killed`); both are among the ways of 6
  above. `LegacyReads` and `LegacyReleases` except a starved `plain`, too: once lost
  connections have used up the descriptors and another is waiting, accept fails at each
  pass and the pass ends before the clients are looked at (`Starved` must be false time
  and again). `LegacyAccepts` except `deprecated`, and provided that a descriptor is
  free time and again.
* The liveness properties of `treelocks`, `netloop` and `legacy` are for mutexes that let
  their owner lock them again, those of `netloop` also for sends that raise no SIGPIPE;
  1, 2, 4 and 6 are what happens otherwise.
* `InitMeansListening` except `deprecated`, which ignores the results of bind and listen.
* `ReturnsClean` says of a failed init that the socket, the tree or accounts, and the
  endpoints are given back, with these exceptions: `threadsafe` and `plain` leave the
  socket open on an error path; `badapi` leaves the accounts and the endpoints allocated
  when net_init fails (`phantomid-with-badapi/phantomid.c:158`), and a pointer to the
  freed accounts when the endpoints cannot be allocated; the tree version leaves a
  pointer to the freed endpoints.
* `PairedCallsAreSafe` speaks of callers that pair calls, as `main` does. The shim's users
  may clean up after an init that failed, when the pointer to the endpoints dangles
  (`phantomid.c:450`), or twice, when `state_lock` is destroyed: both are undefined.
* `OverrunOnlyByDelete` and `ListWithinBuffer` say when memory is overrun, not that it
  never is. It is, in the runs `daemon` and `store`, which stop there. A deletion appends
  the children of the account to its parent's array without the check of `MAX_CHILDREN`
  that insert makes (`phantomid.c:284`, `:210`): the deletion of an account with two
  children below a parent with ten is enough. And list writes each account at an offset
  that grows by what snprintf would have written (`phantomid-with-badapi/phantomid.c:82`),
  so after about nine accounts the remaining size wraps and the next one is written
  behind `response`.
* `FindComplete` and `ListsEveryAccountOnce` have the premise `QueueSuffices`: the tree
  has at most one account more than the queue has places (`QUEUE_SIZE`, 1000), the root
  having left it when the others come. In a larger tree an account that finds the queue
  full is skipped, with what is below it.

More things the code does were met while modelling and are not runs. `quit` is answered
and the connection stays open, though the help text says "Disconnect"
(`phantomid.c:631`). "Root account created" (`:529`) is the answer to every create
without a parent; when the tree has a root, the account is a child of it. `list`, `list
bfs` and `list dfs` answer with a heading and print the accounts on the daemon's own
output (`print_node`, `:395`), which for the latter two also reads a pointer as the
depth of the indentation. A delete of an unknown id records no error, so its answer
quotes whatever failed before (`:239`, `:547`).

### Bounds

`treelocks`: two threads show every pair of calls at every pair of lock points;
`MaxCalls` bounds the calls of a behaviour, four being enough to build a root with a
child and then run two calls against each other. Two places in the queue for three
accounts make the exact limit of `QueueSuffices` happen. `netloop`: one connection and
one descriptor more than slots makes the full table, the refused client and the reuse of
a descriptor happen; `MaxUnread` bounds what a client has sent and the server has not
read, `Backlog` is what listen was given (10 in the code). `legacy`: with one slot, two
descriptors and three connections the table fills, a connection is lost, the descriptors
run out and one more connection waits; `NULL` marks a free slot, `Listener` the
listening descriptor. Any answer of `badapi` may be the one that leaves no room for the
next (`full`), so a few answers stand for the many kilobytes a real buffer holds;
partial sends are not modelled. `legacy_concurrent` has two slots, one for the client
that stops the service and one for the other. `lifecycle`: three calls of init are an
init in use, one that follows a failure and one after a cleanup; control is finite
otherwise. `store`: two threads meet at every pair of lock points; three slots are
filled, emptied in the middle and filled again with a fourth id (`MaxIds`); `Room`,
`Heading` and `Entry` scale list's 1024 bytes (about nine accounts) down so that the
third account of a list is written past the end. `daemon`: an overrun needs a full
parent one of whose children has two children of its own, five accounts with capacity
two (`MaxChildren` is 10 in the code); they also make deletions of inner nodes and trees
of every shape up to depth five, which exceeds what one deletion touches (a node, its
parent, its children). Every node can be created once, since ids are not used twice.

### Fairness

TreeLocks: a thread that can take its next step takes it (`WF_vars(Step(t))`), which is
what an operating system gives a runnable thread; lock acquisition is only weakly fair,
and calls still return because the number of calls is bounded by `MaxCalls`: without the
bound a mutex may starve a thread, and nothing in the code prevents that. `Call` is not
fair: nobody has to call. NetLoop: the one thread runs (`WF_vars(Server)`), select
returning after a second at most; clients and signals are not fair. LegacyLoop: the
same, but select waits until something can be read (`Idle` is its waiting). Lifecycle and
AccountStore state no fairness: their properties are safety properties, the refinement
included.

## What is proved

Eight modules hold the proofs. In each the argument is the same: a property the runs
check is seldom inductive, so there is an invariant that is (its conjuncts have names),
one lemma per action that it is kept, and the properties follow from it. The constants
are arbitrary within their assumptions, so what TLC sees with two threads or five accounts
holds for any number.

**PhantomTreeProofs**, for any set `Node` and any capacity `MaxChildren >= 1`:
`TypeCorrect`, `LinksCorrect`, `ReachableCorrect`, `AdminCorrect`, `CountCorrect` are
`Spec => []` of the five tree invariants that `daemon` checks; `OverrunCorrect`,
`AncestryCorrect` and `SiblingOrderCorrect` its three action properties. `TreeInv` is the
conjunction of the invariants with "live is a finite set"; none of them is inductive
without others. Reachability needs the links, because in a deletion a closed set of the
new tree is extended to a closed set of the old one by the deleted node. The admin flag
needs the links to know that a root that can be deleted has no children, and a child's
new flag is the flag of a node that is not the root. The count needs finiteness, and
`RootAgrees` to set it to 1 when the tree was empty; `TypeOK` needs the count, for
`total_nodes` to stay a natural number at a decrement. `InsertRootTree`,
`InsertChildTree` and `DeleteTree` are the cases, `NextTree` joins them. Under them are
lemmas on the arrays: `SlotIsIndex` and `UnlinkRemoves` (the search and memmove remove
exactly one entry and keep the order of the others), `ConcatHolds`, `AppendHolds`.
Ancestry is kept because a set closed under the parent pointers of one tree is closed
under those of the other after adding or removing the one account (`InsertKeepsAncestry`,
`DeleteKeepsAncestry`); order because removing an entry and concatenating keep it.

**PhantomDaemonProofs** carries those over: `DaemonStep` shows that every command is a
step of PhantomTree or leaves the tree alone, so `DaemonImplementsTree` (`DaemonSpec =>
Spec`) gives the daemon the theorems above; `DaemonLinksCorrect` is one of them.
`ToldCorrect` uses `ToldInv`, which adds that nobody is told of a deletion before the
creation. `FailuresCorrect` needs the links, because "Parent node not found" is only
right if the root, which stands in for a missing parent id, is always a live node.
`SummaryCorrect` says that the recursion of `get_depth_helper` ends and finds the longest
path from the root. That a recursive function has a value is not given in TLA+: the proof
names a candidate without recursion, `Height` (the longest path under an account less its
own), shows that it satisfies the recursion's equation (`HeightHolds`, from the account
being one further from the root than its parent, `PathGrows`, and the absence of cycles,
`NoCycle`), and that any solution agrees with it, by looking at the deepest account where
they would differ. `DaemonTypeCorrect` bounds the answers; it has the hypothesis that
there are finitely many addresses.

**TreeLocksProofs**, for any threads, nodes and calls, and whichever of the outcomes in
`Relock` a second lock has: `TypeCorrect`, `CompleteCorrect`, `LocksNestedCorrect`,
`ListsCorrect`, `FindCorrect` and `TreeImplemented` (the refinement of PhantomTree), from
`LocksInv`. Its parts: `OwnerInside`, tree_lock is owned exactly by the thread inside a
call's region, twice in a find that insert or delete called; `NodesHeld`, the node locks
a thread has are those its place says (the node it changes, or the path of dfs);
`TreeAgrees`, the tree is the committed one except in delete's loop, where it is
`HalfDeleted`: the node out of its parent's array and the first children moved; `TreeInv`
of PhantomTreeProofs for the committed tree; and `Knows`, what a thread's locals are
worth. For a queue that is `Scanned`: each node met was met through its parent, once, and
unless the tree is too large the children of the visited ones are visited or queued. For
the recursion it is `Descended`: of each node on the path exactly the children before the
current one have been visited. All are needed at once: what a traversal knows stays true,
and `HalfDeleted` stays the state of a deletion, because the owner shuts the others out;
and that no node is met twice comes from the links. `TreeImplemented` then
has three steps to map: the last ones of an insertion and of a deletion
(`InsertRootDoes`, `InsertLinkDoes`, `DeleteFreeDoes`); the others leave `committed`
alone.

**SocketsProofs** has what the kernel keeps true (`KernelInv`: a connection waits once,
open connections and descriptors correspond), for the two loops. **NetLoopProofs**:
`NetTypeCorrect` (a slot has a descriptor exactly while it is active), `TableCorrect`
and `ServiceImplemented`, for any clients, descriptors and slots, from `NetInv`. Besides
the kernel and the table it holds the new socket, which between accept and its slot is
in no place of the table and not in `readfds` (`NewSocketApart`), and that what select
found ready still is when the pass comes to it (`PassAgrees`, `ReadyStays`): without
that, a recv could wait, and a descriptor that was closed and given out again in the
same pass could be read by its number alone.
**LegacyLoopProofs**: `LegacyTypeCorrect`, `LegacySlotsCorrect`, `LegacyImplemented` for
the four versions at once. `LegacyInv` is weaker, since an open socket may be in no slot;
`BacklogHolds` says that accept follows a select that saw a connection, `AnswersClient`
that `badapi` answers the client of a slot in use.

**AccountStoreProofs**: `StoreTypeCorrect`, `CountCorrect`, `OwnLocksUnlocked`,
`ListBounded` and `SetImplemented` (the refinement of AccountSet), from `StoreInv`: the
count is the number of used slots, names are distinct and were generated before, a
slot's lock is held by the owner of `stateLock` at the slot it is looking at, and each
thread knows what it has seen of the slots it passed (`Knows`): create that none was
free, delete that none had the name, list what it has listed. That is what makes a call
that goes from slot to slot take effect in one step. The assumption is that there are
finitely many threads. A caller's `request` in the abstract form is mapped to the
operation and the argument of its call, so a delete's effect and answer are those of the
string it was given.

**LifecycleProofs**: `LifecycleTypeCorrect`, `PairedCallsSafe`, `InitListens` and
`CallsReturnClean`, from `LifecycleInv`, which says at each step of init, of its error
paths and of cleanup, for each version, what is held, allocated and open.

The refinement mappings are those of the runs: `committed` for the tree, `Standing` of a
connection for ClientService, the names in the array for AccountSet. The assumptions are
those on the constants in the modules (NULL is no node, sizes are positive, `Relock` has
an outcome), plus what the headers say of ids and addresses.

Only model-checked: the liveness properties (`CallsReturn`, `WaitingAreAccepted`,
`CommandsAreRead`, `DisconnectionHandled`, `LegacyAccepts`, `LegacyReads`,
`LegacyReleases`). They need `ENABLED` and an induction along the behaviour, which the
prover does not do. The violations are counterexamples of TLC.

## What is not modelled

* `generate_seed`, `generate_id`: cryptography; ids are fresh and distinct. `RAND_bytes`
  is not checked for failure in the code, so this is an assumption.
* print: it changes nothing. Size and depth are in PhantomDaemon's summary; they take no
  lock, and with several threads that is a data race the model does not show.
* what nothing calls or reaches: `net_init_program`, `net_cleanup_program`,
  `net_receive` and the like in each version; `phantom_cleanup` of the flat store, since
  its net_run never returns.
* the text and size of commands and answers, partial sends, the Windows branches but for
  `PipeSignal`.
* the command line, the status output and log lines.
* the bindings' conversion of arguments and the FFI variants; the N-API shim does not
  compile as it stands, and only the order of calls that it allows is modelled.
* build files, images, prebuilt binaries.

The hazards list in `PROJECT.json` says, for each hazard that no property covers, why.

## Plan

1. Done: PhantomTree and PhantomDaemon, TreeLocks, NetLoop, LegacyLoop, Lifecycle and
   AccountStore with their abstract forms; the hazards that have no property are listed
   with the reason in `PROJECT.json`.
2. Done: the safety properties of all of them as theorems.
3. Left: the liveness properties stay with TLC. A data race of the calls that take no
   lock (size, depth, the root that insert returns) needs a finer grain than TreeLocks
   has; it would be a variant of TreeLocks with its own proof.
