--------------------------- MODULE ClientService ---------------------------
(***************************************************************************)
(* What every event loop of this repository promises its clients: who      *)
(* comes waits until it is served or, only if all places are taken, turned *)
(* away; who is served stays so until it leaves.                           *)
(***************************************************************************)
EXTENDS Naturals, FiniteSets

CONSTANTS Conn,         \* the clients
          Capacity      \* how many are served at a time

VARIABLES standing,     \* of each client: "away", "waiting", "served" or "gone"
          leaving       \* the clients that have hung up and are not gone yet

service == <<standing, leaving>>

Init == standing = [c \in Conn |-> "away"] /\ leaving = {}

Served == {c \in Conn : standing[c] = "served"}

Move(c, from, to) ==
    /\ standing[c] = from
    /\ standing' = [standing EXCEPT ![c] = to]

Arrive(c) == Move(c, "away", "waiting") /\ UNCHANGED leaving

HangUp(c) ==
    /\ standing[c] \in {"waiting", "served"}
    /\ leaving' = leaving \union {c} /\ UNCHANGED standing

Admit(c) ==
    /\ Cardinality(Served) < Capacity
    /\ Move(c, "waiting", "served") /\ UNCHANGED leaving

TurnAway(c) ==
    /\ Cardinality(Served) = Capacity
    /\ Move(c, "waiting", "gone") /\ leaving' = leaving \ {c}

Drop(c) ==
    /\ c \in leaving
    /\ Move(c, "served", "gone") /\ leaving' = leaving \ {c}

Next == \E c \in Conn : Arrive(c) \/ HangUp(c) \/ Admit(c) \/ TurnAway(c) \/ Drop(c)

Spec == Init /\ [][Next]_service
=============================================================================
