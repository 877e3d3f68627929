----------------------------- MODULE AccountSet -----------------------------
(***************************************************************************)
(* What phantomid-with-badapi promises of its accounts: a set of names of  *)
(* bounded size on which create, delete and list are atomic, whatever the  *)
(* number of callers.                                                      *)
(***************************************************************************)
EXTENDS Naturals, FiniteSets

CONSTANTS Thread,       \* the callers
          Name,         \* the strings callers may know accounts by
          Capacity,     \* how many accounts there may be
          NULL          \* no answer, no argument

VARIABLES present,      \* the names of the accounts
          request,      \* what each caller has asked for
          answer        \* what it has been answered

accounts == <<present, request, answer>>

NoRequest == [op |-> NULL, arg |-> NULL]
Request == [op : {"create", "list"}, arg : {NULL}] \union [op : {"delete"}, arg : Name]

Init ==
    /\ present = {}
    /\ request = [t \in Thread |-> NoRequest] /\ answer = [t \in Thread |-> NULL]

Call(t) ==
    /\ request[t] = NoRequest
    /\ \E r \in Request : request' = [request EXCEPT ![t] = r]
    /\ UNCHANGED <<present, answer>>

\* A call takes effect and is answered once, any time before it returns.
Answered(t, op, a) ==
    /\ request[t].op = op /\ answer[t] = NULL
    /\ answer' = [answer EXCEPT ![t] = a] /\ UNCHANGED request

Create(t) ==
    \/ /\ Cardinality(present) < Capacity
       /\ \E n \in Name \ present :
            present' = present \union {n} /\ Answered(t, "create", [created |-> n])
    \/ /\ Cardinality(present) = Capacity
       /\ Answered(t, "create", [created |-> NULL]) /\ UNCHANGED present

\* The account of the name asked for, and no other.
Delete(t) ==
    LET n == request[t].arg IN
    /\ Answered(t, "delete", [deleted |-> n \in present])
    /\ present' = present \ {n}

List(t) == Answered(t, "list", [listed |-> present]) /\ UNCHANGED present

Return(t) ==
    /\ answer[t] # NULL
    /\ answer' = [answer EXCEPT ![t] = NULL]
    /\ request' = [request EXCEPT ![t] = NoRequest]
    /\ UNCHANGED present

Next == \E t \in Thread : Call(t) \/ Create(t) \/ Delete(t) \/ List(t) \/ Return(t)

Spec == Init /\ [][Next]_accounts
=============================================================================
