------------------------------ MODULE Lifecycle ------------------------------
(***************************************************************************)
(* How the programs of this repository start and stop: net_init, step by   *)
(* step with every failure, in its five versions, phantom_init around it   *)
(* (phantomid-with-tree, phantomid-with-badapi) and phantom_cleanup        *)
(* (phantomid-with-tree; the others' net_run never returns, see            *)
(* LegacyLoop).  They are called by a main, which initialises once and     *)
(* stops when that fails, or, the tree version, by the Node.js binding,    *)
(* which offers init, createAccount and cleanup in any order.  Another     *)
(* process may take and leave the port at any time.                        *)
(***************************************************************************)
EXTENDS Naturals

CONSTANTS Version,      \* the programs looked at
          MaxInits      \* bound: the calls of init

ASSUME VersionAssumption ==
    Version \subseteq {"tree", "badapi", "threadsafe", "plain", "deprecated"}
ASSUME BoundAssumption == MaxInits \in Nat

VARIABLES version,      \* the program
          driver,       \* who calls it: "main" or "binding"
          pc,           \* where it is; "caller" between two calls
          result,       \* what init returned, if there was no cleanup since
          inits,        \* how often init was called
          legal,        \* auxiliary: every cleanup has had its successful init
          stateLock,    \* state_lock
          endpointLock, \* the endpoint's lock
          tree,         \* the tree or the array of accounts, as its pointer tells
          endpoints,    \* the endpoints, as their pointer tells
          sock,         \* the socket of the endpoint
          lost,         \* what is still held and no pointer leads to
          port          \* the port, as other processes find it

calls == <<version, driver, inits, legal>>
memory == <<stateLock, tree, endpoints, lost>>
net == <<endpointLock, sock, port>>
vars == <<calls, pc, result, memory, net>>

Init ==
    /\ version \in Version
    /\ driver \in {"main", "binding"} /\ (driver = "binding" => version = "tree")
    /\ pc = "caller" /\ result = "none" /\ inits = 0 /\ legal = TRUE
    /\ stateLock = "blank" /\ endpointLock = "blank"
    /\ tree = "none" /\ endpoints = "none" /\ sock = "none" /\ lost = {}
    /\ port \in {"free", "waiting", "other"}

IsDaemon == version \in {"tree", "badapi"}

Return(r) == pc' = "caller" /\ result' = r

-----------------------------------------------------------------------------
\* The callers.

CallInit ==
    /\ pc = "caller" /\ inits < MaxInits /\ (driver = "main" => result = "none")
    /\ inits' = inits + 1
    /\ legal' = (legal /\ result # "ok")
    /\ pc' = IF IsDaemon THEN "init" ELSE "lock"
    /\ result' = "none"
    /\ UNCHANGED <<version, driver, memory, net>>

\* phantom_tree_insert looks at the pointer first.
CreateAccount ==
    /\ pc = "caller" /\ driver = "binding"
    /\ pc' = IF tree = "freed" THEN "undefined" ELSE pc
    /\ UNCHANGED <<calls, result, memory, net>>

\* The binding at any time, main when the daemon has been stopped.
CallCleanup ==
    /\ \/ pc = "caller" /\ driver = "binding"
       \/ pc = "running" /\ version = "tree"
    /\ legal' = (legal /\ result = "ok")
    /\ pc' = "cleanup"
    /\ UNCHANGED <<version, driver, inits, result, memory, net>>

MainGoesOn ==
    /\ pc = "caller" /\ driver = "main" /\ result # "none"
    /\ pc' = IF result = "ok" THEN "running" ELSE "exited"
    /\ UNCHANGED <<calls, result, memory, net>>

-----------------------------------------------------------------------------
\* phantom_init.

\* The structure is cleared and state_lock initialised.
InitState ==
    /\ pc = "init" /\ pc' = "allocate"
    /\ lost' = lost \union (IF tree = "live" THEN {"tree"} ELSE {})
                    \union (IF endpoints = "live" THEN {"endpoints"} ELSE {})
                    \union (IF sock # "none" THEN {"socket"} ELSE {})
    /\ stateLock' = "free" /\ tree' = "none" /\ endpoints' = "none" /\ sock' = "none"
    /\ endpointLock' = "blank"
    /\ UNCHANGED <<calls, result, port>>

\* phantom_tree_init, or the array of accounts.
AllocateTree ==
    /\ pc = "allocate"
    /\ \/ tree' = "live" /\ pc' = "endpoints" /\ UNCHANGED result
       \/ Return("failed") /\ UNCHANGED tree
    /\ UNCHANGED <<calls, stateLock, endpoints, lost, net>>

\* A slip of TreeAfterFree: the pointer is kept.
TreeAfterFreeKept == "freed"

\* phantom_tree_cleanup clears the pointer; badapi's free does not.
TreeAfterFree == IF version = "tree" THEN "none" ELSE "freed"

AllocateEndpoints ==
    /\ pc = "endpoints"
    /\ \/ /\ endpoints' = "live" /\ UNCHANGED <<result, tree>>
          /\ pc' = IF version = "tree" THEN "check" ELSE "lock"
       \/ Return("failed") /\ tree' = TreeAfterFree /\ UNCHANGED endpoints
    /\ UNCHANGED <<calls, stateLock, lost, net>>

\* A slip of Failure: the error path ends without a return.
FailureUnset == "unset"

Failure == "failed"

\* A slip of EndpointsAfterFailure: the tree version does not free them.
EndpointsAfterFailureKept == endpoints

\* The tree version frees the endpoints, but keeps the pointer and their count.
EndpointsAfterFailure == IF version = "tree" THEN "freed" ELSE endpoints

\* net_init has failed: badapi returns that as it is.
InitFails ==
    /\ pc = "failed" /\ Return(Failure)
    /\ tree' = IF version = "tree" THEN TreeAfterFree ELSE tree
    /\ endpoints' = EndpointsAfterFailure
    /\ UNCHANGED <<calls, stateLock, lost, net>>

-----------------------------------------------------------------------------
\* net_init.

\* net_is_port_in_use: a socket cannot be made, or not bound.
CheckPort ==
    /\ pc = "check"
    /\ \/ pc' = "release"
       \/ port = "free" /\ pc' = "lock"
    /\ UNCHANGED <<calls, result, memory, net>>

\* net_release_port binds once more, with SO_REUSEADDR, and lets go.
ReleasePort ==
    /\ pc = "release"
    /\ \/ pc' = "failed"
       \/ port \in {"free", "waiting"} /\ pc' = "lock"
    /\ UNCHANGED <<calls, result, memory, net>>

InitLock ==
    /\ pc = "lock" /\ pc' = "socket"
    /\ endpointLock' = IF version \in {"tree", "badapi", "threadsafe"} THEN "held" ELSE "blank"
    /\ UNCHANGED <<calls, result, memory, sock, port>>

\* A slip of LockAfterFailure: an error path returns with the lock held.
LockAfterFailureHeld == endpointLock

LockAfterFailure ==
    CASE version = "tree" -> "destroyed"
      [] version \in {"badapi", "threadsafe"} -> "free"
      [] OTHER -> "blank"

\* The error path of a step: threadsafe and plain do not close the socket.
Fail ==
    LET closes == IsDaemon IN
    /\ pc' = "failed"
    /\ endpointLock' = LockAfterFailure
    /\ sock' = IF closes THEN "none" ELSE sock
    /\ port' = IF closes /\ sock = "bound" THEN "free" ELSE port

MakeSocket ==
    /\ pc = "socket"
    /\ \/ /\ sock' = "open" /\ UNCHANGED <<endpointLock, port>>
          /\ pc' = IF version = "deprecated" THEN "bind" ELSE "option"
       \/ Fail
    /\ UNCHANGED <<calls, result, memory>>

SetOption ==
    /\ pc = "option"
    /\ (pc' = "bind" /\ UNCHANGED net) \/ Fail
    /\ UNCHANGED <<calls, result, memory>>

\* A slip of Checks: what bind and listen return is not looked at.
ChecksNothing == FALSE

Checks == version # "deprecated"

Bind ==
    /\ pc = "bind"
    /\ \/ /\ port = "free" \/ (port = "waiting" /\ version # "deprecated")
          /\ port' = "ours" /\ sock' = "bound"
          /\ pc' = "listen" /\ UNCHANGED endpointLock
       \/ IF Checks THEN Fail ELSE pc' = "listen" /\ UNCHANGED net
    /\ UNCHANGED <<calls, result, memory>>

\* A socket that was not bound listens somewhere else.
Listen ==
    /\ pc = "listen"
    /\ \/ /\ sock' = IF sock = "bound" THEN "listening" ELSE sock
          /\ pc' = "done" /\ UNCHANGED <<endpointLock, port>>
       \/ IF Checks THEN Fail ELSE pc' = "done" /\ UNCHANGED net
    /\ UNCHANGED <<calls, result, memory>>

InitDone ==
    /\ pc = "done" /\ Return("ok")
    /\ endpointLock' = IF endpointLock = "held" THEN "free" ELSE endpointLock
    /\ UNCHANGED <<calls, memory, sock, port>>

-----------------------------------------------------------------------------
\* phantom_cleanup of the tree version.

\* A lock in cleared memory works, one that was destroyed does not.
LockState ==
    /\ pc = "cleanup"
    /\ IF stateLock = "destroyed" THEN pc' = "undefined" /\ UNCHANGED stateLock
                                  ELSE pc' = "free" /\ stateLock' = "held"
    /\ UNCHANGED <<calls, result, tree, endpoints, lost, net>>

FreeTree ==
    /\ pc = "free" /\ pc' = "close"
    /\ tree' = IF tree = "live" THEN TreeAfterFree ELSE tree
    /\ UNCHANGED <<calls, result, stateLock, endpoints, lost, net>>

\* A slip of LockAtClose: the lock is destroyed before net_close, as in badapi.
LockAtCloseGone == "destroyed"

LockAtClose == endpointLock

\* net_close of the endpoint, which is then freed.
CloseEndpoint ==
    /\ pc = "close"
    /\ \/ endpoints = "none" /\ pc' = "unlock" /\ UNCHANGED <<endpoints, net>>
       \/ /\ endpoints = "freed" \/ (endpoints = "live" /\ LockAtClose = "destroyed")
          /\ pc' = "undefined" /\ UNCHANGED <<endpoints, net>>
       \/ /\ endpoints = "live" /\ LockAtClose # "destroyed"
          /\ pc' = "unlock"
          /\ endpointLock' = "destroyed" /\ sock' = "none" /\ endpoints' = "freed"
          /\ port' = IF sock \in {"bound", "listening"} THEN "free" ELSE port
    /\ UNCHANGED <<calls, result, stateLock, tree, lost>>

FinishCleanup ==
    /\ pc = "unlock"
    /\ stateLock' = "destroyed"
    /\ pc' = IF driver = "main" THEN "exited" ELSE "caller"
    /\ result' = "none"
    /\ UNCHANGED <<calls, tree, endpoints, lost, net>>

-----------------------------------------------------------------------------
Program ==
    \/ InitState \/ AllocateTree \/ AllocateEndpoints \/ InitFails
    \/ CheckPort \/ ReleasePort \/ InitLock \/ MakeSocket \/ SetOption \/ Bind \/ Listen \/ InitDone
    \/ LockState \/ FreeTree \/ CloseEndpoint \/ FinishCleanup

Caller == CallInit \/ CreateAccount \/ CallCleanup \/ MainGoesOn

\* Another process takes the port, or leaves it, perhaps to TIME_WAIT.
OtherProcess ==
    /\ \/ port = "free" /\ port' = "other"
       \/ port = "other" /\ port' \in {"free", "waiting"}
       \/ port = "waiting" /\ port' = "free"
    /\ UNCHANGED <<calls, pc, result, memory, endpointLock, sock>>

Rest == pc \in {"running", "exited", "undefined"} /\ UNCHANGED vars

Next == Program \/ Caller \/ OtherProcess \/ Rest

Spec == Init /\ [][Next]_vars

-----------------------------------------------------------------------------
\* The variables have the types of the C structures.
LifecycleTypeOK ==
    /\ version \in Version /\ driver \in {"main", "binding"}
    /\ pc \in {"caller", "init", "allocate", "endpoints", "failed", "check", "release", "lock",
               "socket", "option", "bind", "listen", "done", "cleanup", "free", "close", "unlock",
               "running", "exited", "undefined"}
    /\ result \in {"none", "ok", "failed"} /\ inits \in 0 .. MaxInits /\ legal \in BOOLEAN
    /\ {stateLock, endpointLock} \subseteq {"blank", "free", "held", "destroyed"}
    /\ {tree, endpoints} \subseteq {"none", "live", "freed"}
    /\ sock \in {"none", "open", "bound", "listening"}
    /\ lost \subseteq {"tree", "endpoints", "socket"}
    /\ port \in {"free", "waiting", "other", "ours"}

\* A caller that cleans up once after each init that succeeded and never
\* otherwise meets no undefined behaviour and loses nothing, whatever fails in
\* between and whenever it creates accounts.  main is such a caller; the
\* binding lets its users clean up after an init that failed, when the
\* pointer to the endpoints dangles, or twice.
PairedCallsAreSafe == legal => pc # "undefined" /\ lost = {}

\* init has returned TRUE only if the endpoint listens on the port, also when
\* another process takes the port after net_is_port_in_use; deprecated does
\* not look at what bind and listen return.
InitMeansListening ==
    result = "ok" /\ pc \in {"caller", "running"} =>
        (sock = "listening" /\ port = "ours") \/ version = "deprecated"

\* A call that returns leaves no lock held, and an init that fails gives back
\* the socket, the tree or accounts, and the endpoints.  The code has these
\* exceptions: threadsafe and plain leave the socket open; badapi keeps both
\* allocations when net_init fails (nobody cleans up after that) and, when the
\* endpoints cannot be allocated, a pointer to the freed accounts; the tree
\* version keeps a pointer to the freed endpoints.
ReturnsClean ==
    pc = "caller" =>
        /\ stateLock # "held" /\ endpointLock # "held"
        /\ result = "failed" =>
             /\ sock = "none" \/ version \in {"threadsafe", "plain"}
             /\ (tree # "live" /\ endpoints # "live") \/ version = "badapi"
             /\ tree = "freed" => version = "badapi"
             /\ endpoints = "freed" => version = "tree"
=============================================================================
