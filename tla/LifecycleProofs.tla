-------------------------- MODULE LifecycleProofs --------------------------
(***************************************************************************)
(* How the programs start and stop is right for any number of inits: what  *)
(* init has made at each of its steps, what its error paths give back and  *)
(* what cleanup finds.                                                     *)
(***************************************************************************)
EXTENDS Lifecycle, TLAPS

InNetInit == {"check", "release", "lock", "socket", "option", "bind", "listen", "done"}
Locked == {"socket", "option", "bind", "listen", "done"}
InInit == {"init", "allocate", "endpoints", "failed"} \union InNetInit
InCleanup == {"cleanup", "free", "close", "unlock"}

\* Who calls what, and what init has not yet returned.
CallersAct ==
    /\ driver = "binding" => version = "tree"
    /\ pc \in InCleanup => version = "tree"
    /\ pc = "running" => result = "ok"
    /\ pc \in InInit => result = "none"
    /\ pc \in {"check", "release"} => version = "tree"
    /\ pc \in {"init", "allocate", "endpoints"} => IsDaemon

\* main has not called init yet.
MainStarts ==
    driver = "main" /\ pc = "caller" /\ result = "none" =>
        tree = "none" /\ endpoints = "none" /\ sock = "none" /\ endpointLock = "blank"

\* The socket at each step of init and after it.
SocketGrows ==
    /\ pc \in {"allocate", "endpoints", "check", "release", "lock", "socket"} => sock = "none"
    /\ pc \in {"option", "bind"} => sock = "open"
    /\ pc = "option" => version # "deprecated"
    /\ pc = "listen" => sock = "bound" \/ version = "deprecated"
    /\ pc = "done" \/ (result = "ok" /\ pc \in {"caller", "running"}) =>
          sock = "listening" \/ version = "deprecated"
    /\ pc = "failed" \/ (result = "failed" /\ pc = "caller") =>
          sock = "none" \/ version \in {"threadsafe", "plain"}
    /\ sock \in {"bound", "listening"} => port = "ours"

LocksHeld ==
    /\ stateLock = "held" => pc \in {"free", "close", "unlock", "undefined"}
    /\ endpointLock = "held" => pc \in Locked
    /\ version = "tree" =>
         /\ pc \in {"allocate", "endpoints"} \union InNetInit => stateLock = "free"
         /\ pc \in Locked => endpointLock = "held"
         /\ result = "ok" /\ pc \in {"caller", "running"} => stateLock = "free" /\ endpointLock = "free"

MemoryKept ==
    /\ ~IsDaemon => tree = "none" /\ endpoints = "none"
    /\ version = "tree" =>
         /\ tree # "freed"
         /\ pc \in InNetInit \/ (result = "ok" /\ pc \in {"caller", "running"}) => endpoints = "live"
    /\ pc = "allocate" => tree = "none" /\ endpoints = "none"
    /\ pc = "endpoints" => endpoints = "none"
    /\ endpoints = "freed" => version = "tree"
    /\ pc = "caller" /\ result = "failed" =>
         (tree # "live" /\ endpoints # "live") \/ version = "badapi"

\* What the paired calls of a caller find.
Paired ==
    legal =>
        /\ pc # "undefined" /\ lost = {}
        /\ pc = "init" \/ (version = "tree" /\ pc = "caller" /\ result # "ok") =>
             tree # "live" /\ endpoints # "live" /\ sock = "none"
        /\ pc \in {"cleanup", "free", "close"} => endpoints = "live" /\ endpointLock = "free"
        /\ pc = "cleanup" => stateLock = "free"
        /\ pc = "close" => tree # "live"
        /\ pc = "unlock" => tree # "live" /\ endpoints # "live" /\ sock = "none"

LifecycleInv ==
    /\ LifecycleTypeOK
    /\ CallersAct
    /\ MainStarts
    /\ SocketGrows
    /\ LocksHeld
    /\ MemoryKept
    /\ Paired

-----------------------------------------------------------------------------
LEMMA CallInitLife == LifecycleInv /\ CallInit => LifecycleInv'
<1> SUFFICES ASSUME LifecycleInv, CallInit
             PROVE  LifecycleInv'
  OBVIOUS
<1>1. /\ pc = "caller" /\ (driver = "main" => result = "none")
      /\ legal' = (legal /\ result # "ok")
      /\ pc' = IF IsDaemon THEN "init" ELSE "lock"
      /\ result' = "none"
      /\ UNCHANGED <<version, driver, stateLock, tree, endpoints, lost, endpointLock, sock, port>>
  BY DEF CallInit, memory, net
<1>2. LifecycleTypeOK'
  BY <1>1, BoundAssumption DEF CallInit, LifecycleInv, LifecycleTypeOK
<1>3. driver = "main" => tree = "none" /\ endpoints = "none" /\ sock = "none" /\ endpointLock = "blank"
  BY <1>1 DEF LifecycleInv, MainStarts
<1>4. driver # "main" => version = "tree"
  BY DEF LifecycleInv, LifecycleTypeOK, CallersAct
<1>5. IsDaemon' <=> IsDaemon
  BY <1>1 DEF IsDaemon
<1>6. CallersAct' /\ MainStarts'
  BY <1>1, <1>4, <1>5 DEF CallersAct, MainStarts, IsDaemon, InInit, InNetInit, InCleanup, LifecycleInv
<1>7. SocketGrows'
  BY <1>1, <1>3, <1>4 DEF SocketGrows, IsDaemon, LifecycleInv
<1>8. LocksHeld'
  BY <1>1 DEF LocksHeld, IsDaemon, InNetInit, Locked, LifecycleInv
<1>9. MemoryKept'
  BY <1>1 DEF MemoryKept, IsDaemon, InNetInit, LifecycleInv
<1>10. Paired'
  BY <1>1, <1>3, <1>4 DEF Paired, IsDaemon, LifecycleInv
<1> QED
  BY <1>2, <1>6, <1>7, <1>8, <1>9, <1>10 DEF LifecycleInv

LEMMA CreateAccountLife == LifecycleInv /\ CreateAccount => LifecycleInv'
BY BoundAssumption
   DEF CreateAccount,
       LifecycleInv, LifecycleTypeOK, CallersAct, MainStarts, SocketGrows, LocksHeld, MemoryKept, Paired,
       InNetInit, InInit, InCleanup, Locked, calls, memory, net, IsDaemon

LEMMA CallCleanupLife == LifecycleInv /\ CallCleanup => LifecycleInv'
BY BoundAssumption
   DEF CallCleanup,
       LifecycleInv, LifecycleTypeOK, CallersAct, MainStarts, SocketGrows, LocksHeld, MemoryKept, Paired,
       InNetInit, InInit, InCleanup, Locked, calls, memory, net, IsDaemon

LEMMA MainGoesOnLife == LifecycleInv /\ MainGoesOn => LifecycleInv'
BY BoundAssumption
   DEF MainGoesOn,
       LifecycleInv, LifecycleTypeOK, CallersAct, MainStarts, SocketGrows, LocksHeld, MemoryKept, Paired,
       InNetInit, InInit, InCleanup, Locked, calls, memory, net, IsDaemon

LEMMA InitStateLife == LifecycleInv /\ InitState => LifecycleInv'
BY BoundAssumption
   DEF InitState,
       LifecycleInv, LifecycleTypeOK, CallersAct, MainStarts, SocketGrows, LocksHeld, MemoryKept, Paired,
       InNetInit, InInit, InCleanup, Locked, calls, memory, net, IsDaemon

LEMMA AllocateTreeLife == LifecycleInv /\ AllocateTree => LifecycleInv'
BY BoundAssumption
   DEF AllocateTree, Return,
       LifecycleInv, LifecycleTypeOK, CallersAct, MainStarts, SocketGrows, LocksHeld, MemoryKept, Paired,
       InNetInit, InInit, InCleanup, Locked, calls, memory, net, IsDaemon

LEMMA AllocateEndpointsLife == LifecycleInv /\ AllocateEndpoints => LifecycleInv'
BY BoundAssumption
   DEF AllocateEndpoints, Return, TreeAfterFree,
       LifecycleInv, LifecycleTypeOK, CallersAct, MainStarts, SocketGrows, LocksHeld, MemoryKept, Paired,
       InNetInit, InInit, InCleanup, Locked, calls, memory, net, IsDaemon

LEMMA InitFailsLife == LifecycleInv /\ InitFails => LifecycleInv'
BY BoundAssumption
   DEF InitFails, Return, Failure, TreeAfterFree, EndpointsAfterFailure,
       LifecycleInv, LifecycleTypeOK, CallersAct, MainStarts, SocketGrows, LocksHeld, MemoryKept, Paired,
       InNetInit, InInit, InCleanup, Locked, calls, memory, net, IsDaemon

LEMMA CheckPortLife == LifecycleInv /\ CheckPort => LifecycleInv'
BY BoundAssumption
   DEF CheckPort,
       LifecycleInv, LifecycleTypeOK, CallersAct, MainStarts, SocketGrows, LocksHeld, MemoryKept, Paired,
       InNetInit, InInit, InCleanup, Locked, calls, memory, net, IsDaemon

LEMMA ReleasePortLife == LifecycleInv /\ ReleasePort => LifecycleInv'
BY BoundAssumption
   DEF ReleasePort,
       LifecycleInv, LifecycleTypeOK, CallersAct, MainStarts, SocketGrows, LocksHeld, MemoryKept, Paired,
       InNetInit, InInit, InCleanup, Locked, calls, memory, net, IsDaemon

LEMMA InitLockLife == LifecycleInv /\ InitLock => LifecycleInv'
BY BoundAssumption
   DEF InitLock,
       LifecycleInv, LifecycleTypeOK, CallersAct, MainStarts, SocketGrows, LocksHeld, MemoryKept, Paired,
       InNetInit, InInit, InCleanup, Locked, calls, memory, net, IsDaemon

\* The error path of a step of net_init.
LEMMA FailLife ==
    ASSUME LifecycleInv, Fail, pc \in Locked, pc = "socket" \/ version # "deprecated",
           UNCHANGED <<calls, result, memory>>
    PROVE  LifecycleInv'
<1>1. UNCHANGED <<version, driver, inits, legal, result, stateLock, tree, endpoints, lost>>
  BY DEF calls, memory
<1>2. /\ pc' = "failed"
      /\ endpointLock' \in {"destroyed", "free", "blank"}
      /\ sock' = (IF IsDaemon THEN "none" ELSE sock)
      /\ port' = (IF IsDaemon /\ sock = "bound" THEN "free" ELSE port)
  BY DEF Fail, LockAfterFailure
<1>3. LifecycleTypeOK'
  BY <1>1, <1>2 DEF LifecycleInv, LifecycleTypeOK
<1>4. CallersAct' /\ MainStarts' /\ LocksHeld' /\ MemoryKept' /\ Paired'
  BY <1>1, <1>2
     DEF LifecycleInv, CallersAct, MainStarts, LocksHeld, MemoryKept, Paired, IsDaemon,
         InInit, InNetInit, InCleanup, Locked
<1>5. IsDaemon \/ pc = "socket" \/ version \in {"threadsafe", "plain"}
  BY VersionAssumption DEF LifecycleInv, LifecycleTypeOK, IsDaemon
<1>6. SocketGrows'
  BY <1>1, <1>2, <1>5 DEF LifecycleInv, LifecycleTypeOK, SocketGrows
<1> QED
  BY <1>3, <1>4, <1>6 DEF LifecycleInv

LEMMA MakeSocketLife == LifecycleInv /\ MakeSocket => LifecycleInv'
BY FailLife
   DEF MakeSocket,
       LifecycleInv, LifecycleTypeOK, CallersAct, MainStarts, SocketGrows, LocksHeld, MemoryKept, Paired,
       InNetInit, InInit, InCleanup, Locked, calls, memory, net, IsDaemon

LEMMA SetOptionLife == LifecycleInv /\ SetOption => LifecycleInv'
<1>1. CASE SetOption /\ Fail
  BY <1>1, FailLife DEF SetOption, Locked, LifecycleInv, SocketGrows
<1>2. CASE SetOption /\ pc' = "bind" /\ UNCHANGED net
  BY <1>2
     DEF SetOption,
         LifecycleInv, LifecycleTypeOK, CallersAct, MainStarts, SocketGrows, LocksHeld, MemoryKept, Paired,
         InNetInit, InInit, InCleanup, Locked, calls, memory, net, IsDaemon
<1> QED
  BY <1>1, <1>2 DEF SetOption

LEMMA BindLife == LifecycleInv /\ Bind => LifecycleInv'
<1>1. CASE Bind /\ Checks /\ Fail
  BY <1>1, FailLife DEF Bind, Checks, Locked
<1>2. CASE Bind /\ ~Checks /\ pc' = "listen" /\ UNCHANGED net
  BY <1>2
     DEF Bind, Checks,
         LifecycleInv, LifecycleTypeOK, CallersAct, MainStarts, SocketGrows, LocksHeld, MemoryKept, Paired,
         InNetInit, InInit, InCleanup, Locked, calls, memory, net, IsDaemon
<1>3. CASE /\ Bind /\ port' = "ours" /\ sock' = "bound"
           /\ pc' = "listen" /\ UNCHANGED endpointLock
  BY <1>3
     DEF Bind,
         LifecycleInv, LifecycleTypeOK, CallersAct, MainStarts, SocketGrows, LocksHeld, MemoryKept, Paired,
         InNetInit, InInit, InCleanup, Locked, calls, memory, net, IsDaemon
<1> QED
  BY <1>1, <1>2, <1>3 DEF Bind

LEMMA ListenLife == LifecycleInv /\ Listen => LifecycleInv'
<1>1. CASE Listen /\ Checks /\ Fail
  BY <1>1, FailLife DEF Listen, Checks, Locked
<1>2. CASE Listen /\ ~Checks /\ pc' = "done" /\ UNCHANGED net
  BY <1>2
     DEF Listen, Checks,
         LifecycleInv, LifecycleTypeOK, CallersAct, MainStarts, SocketGrows, LocksHeld, MemoryKept, Paired,
         InNetInit, InInit, InCleanup, Locked, calls, memory, net, IsDaemon
<1>3. CASE /\ Listen /\ sock' = (IF sock = "bound" THEN "listening" ELSE sock)
           /\ pc' = "done" /\ UNCHANGED <<endpointLock, port>>
  BY <1>3
     DEF Listen,
         LifecycleInv, LifecycleTypeOK, CallersAct, MainStarts, SocketGrows, LocksHeld, MemoryKept, Paired,
         InNetInit, InInit, InCleanup, Locked, calls, memory, net, IsDaemon
<1> QED
  BY <1>1, <1>2, <1>3 DEF Listen

LEMMA InitDoneLife == LifecycleInv /\ InitDone => LifecycleInv'
BY BoundAssumption
   DEF InitDone, Return,
       LifecycleInv, LifecycleTypeOK, CallersAct, MainStarts, SocketGrows, LocksHeld, MemoryKept, Paired,
       InNetInit, InInit, InCleanup, Locked, calls, memory, net, IsDaemon

LEMMA LockStateLife == LifecycleInv /\ LockState => LifecycleInv'
BY BoundAssumption
   DEF LockState,
       LifecycleInv, LifecycleTypeOK, CallersAct, MainStarts, SocketGrows, LocksHeld, MemoryKept, Paired,
       InNetInit, InInit, InCleanup, Locked, calls, memory, net, IsDaemon

LEMMA FreeTreeLife == LifecycleInv /\ FreeTree => LifecycleInv'
BY BoundAssumption
   DEF FreeTree, TreeAfterFree,
       LifecycleInv, LifecycleTypeOK, CallersAct, MainStarts, SocketGrows, LocksHeld, MemoryKept, Paired,
       InNetInit, InInit, InCleanup, Locked, calls, memory, net, IsDaemon

LEMMA CloseEndpointLife == LifecycleInv /\ CloseEndpoint => LifecycleInv'
BY BoundAssumption
   DEF CloseEndpoint, LockAtClose,
       LifecycleInv, LifecycleTypeOK, CallersAct, MainStarts, SocketGrows, LocksHeld, MemoryKept, Paired,
       InNetInit, InInit, InCleanup, Locked, calls, memory, net, IsDaemon

LEMMA FinishCleanupLife == LifecycleInv /\ FinishCleanup => LifecycleInv'
BY BoundAssumption
   DEF FinishCleanup,
       LifecycleInv, LifecycleTypeOK, CallersAct, MainStarts, SocketGrows, LocksHeld, MemoryKept, Paired,
       InNetInit, InInit, InCleanup, Locked, calls, memory, net, IsDaemon

LEMMA OtherProcessLife == LifecycleInv /\ OtherProcess => LifecycleInv'
BY BoundAssumption
   DEF OtherProcess,
       LifecycleInv, LifecycleTypeOK, CallersAct, MainStarts, SocketGrows, LocksHeld, MemoryKept, Paired,
       InNetInit, InInit, InCleanup, Locked, calls, memory, net, IsDaemon

LEMMA InitLife == Init => LifecycleInv
BY BoundAssumption
   DEF Init,
       LifecycleInv, LifecycleTypeOK, CallersAct, MainStarts, SocketGrows, LocksHeld, MemoryKept, Paired,
       InNetInit, InInit, InCleanup, Locked, calls, memory, net, IsDaemon

LEMMA NextLife == LifecycleInv /\ [Next]_vars => LifecycleInv'
<1> SUFFICES ASSUME LifecycleInv, [Next]_vars
             PROVE  LifecycleInv'
  OBVIOUS
<1>1. CASE Program
  BY <1>1, InitStateLife, AllocateTreeLife, AllocateEndpointsLife, InitFailsLife, CheckPortLife,
     ReleasePortLife, InitLockLife, MakeSocketLife, SetOptionLife, BindLife, ListenLife, InitDoneLife,
     LockStateLife, FreeTreeLife, CloseEndpointLife, FinishCleanupLife DEF Program
<1>2. CASE Caller
  BY <1>2, CallInitLife, CreateAccountLife, CallCleanupLife, MainGoesOnLife DEF Caller
<1>3. CASE UNCHANGED vars
  BY <1>3
     DEF vars, LifecycleInv, LifecycleTypeOK, CallersAct, MainStarts, SocketGrows, LocksHeld, MemoryKept, Paired,
         InNetInit, InInit, InCleanup, Locked, calls, memory, net, IsDaemon
<1> QED
  BY <1>1, <1>2, <1>3, OtherProcessLife DEF Next, Rest

\* The inductive invariant holds: each step of the programs, their callers and
\* the other process keeps it.
THEOREM LifecycleCorrect == Spec => []LifecycleInv
BY InitLife, NextLife, PTL DEF Spec

\* The variables have the types of the C structures.
THEOREM LifecycleTypeCorrect == Spec => []LifecycleTypeOK
<1>1. LifecycleInv => LifecycleTypeOK
  BY DEF LifecycleInv
<1> QED
  BY <1>1, LifecycleCorrect, PTL

\* A caller that cleans up once after each init that succeeded meets no
\* undefined behaviour and loses nothing, however many inits there are and
\* whatever fails (phantom_init's error paths, phantom_cleanup).
THEOREM PairedCallsSafe == Spec => []PairedCallsAreSafe
<1>1. LifecycleInv => PairedCallsAreSafe
  BY DEF LifecycleInv, Paired, PairedCallsAreSafe
<1> QED
  BY <1>1, LifecycleCorrect, PTL

\* After an init that returned TRUE the endpoint listens on the port, for every
\* version but deprecated (net_init checks bind and listen).
THEOREM InitListens == Spec => []InitMeansListening
<1>1. LifecycleInv => InitMeansListening
  BY DEF LifecycleInv, SocketGrows, InitMeansListening
<1> QED
  BY <1>1, LifecycleCorrect, PTL

\* A call that returns holds no lock, and after a failed init neither the tree
\* nor the endpoints are allocated in any version but badapi, no pointer to a
\* freed tree is left in any but badapi, and none to freed endpoints in any but
\* the tree version (the error paths of phantom_init and net_init).
THEOREM CallsReturnClean == Spec => []ReturnsClean
<1>1. LifecycleInv => ReturnsClean
  <2> SUFFICES ASSUME LifecycleInv, pc = "caller"
               PROVE  /\ stateLock # "held" /\ endpointLock # "held"
                      /\ result = "failed" =>
                           /\ sock = "none" \/ version \in {"threadsafe", "plain"}
                           /\ (tree # "live" /\ endpoints # "live") \/ version = "badapi"
                           /\ tree = "freed" => version = "badapi"
                           /\ endpoints = "freed" => version = "tree"
    BY DEF ReturnsClean
  <2>1. stateLock # "held" /\ endpointLock # "held"
    BY DEF LifecycleInv, LocksHeld, Locked
  <2>2. result = "failed" => sock = "none" \/ version \in {"threadsafe", "plain"}
    BY DEF LifecycleInv, SocketGrows
  <2>3. result = "failed" => (tree # "live" /\ endpoints # "live") \/ version = "badapi"
    BY DEF LifecycleInv, MemoryKept
  <2>4. /\ tree = "freed" => version = "badapi"
        /\ endpoints = "freed" => version = "tree"
    BY DEF LifecycleInv, MemoryKept, IsDaemon
  <2> QED
    BY <2>1, <2>2, <2>3, <2>4
<1> QED
  BY <1>1, LifecycleCorrect, PTL
=============================================================================
