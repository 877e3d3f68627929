--------------------------- MODULE PhantomDaemon ---------------------------
(***************************************************************************)
(* The command handler of phantomid-with-tree, phantom_on_client_data, on  *)
(* top of the account tree: what clients ask, what it does to the tree and *)
(* what they are told.                                                     *)
(*                                                                         *)
(* The daemon has one thread, so a command runs from recv to net_send with *)
(* nothing in between: one action per command.  A client may send any id   *)
(* that was ever told to a client, the ids of deleted accounts included, or*)
(* one that no account has.  Ids are not used twice, so a Node whose id was*)
(* told is not created again.  The lookups of insert and delete are taken  *)
(* to return (see Relock in TreeLocks), and the tree to fit the queue.     *)
(* An answer is abstracted to what it says; its wording is left out.       *)
(***************************************************************************)
EXTENDS PhantomTree, FiniteSetsExt

CONSTANTS Unknown       \* an id no account has

ASSUME UnknownAssumption == Unknown \notin Node \union {NULL}

VARIABLES errorBuffer,  \* error_buffer: the last error any call reported
          reply,        \* the last answer, with the command it answers
          told,         \* auxiliary: the ids clients were told were created
          gone          \* auxiliary: the ids clients were told were deleted

tree == <<live, parent, children, isRoot, isAdmin, root, totalNodes>>
daemonVars == <<tree, errorBuffer, reply, told, gone>>

-----------------------------------------------------------------------------
\* op: the command; id, to: its arguments, NULL for none.
Command(op, id, to) == [op |-> op, id |-> id, to |-> to]

\* says: what the answer claims; id: the account it names; error: the text of
\* phantom_get_error in it; total and depth: the numbers of the summary.
Reply(cmd, says) ==
    [cmd |-> cmd, says |-> says, id |-> NULL, error |-> "", total |-> 0, depth |-> 0]

DaemonInit ==
    /\ Init
    /\ errorBuffer = ""
    /\ reply = Reply(Command("none", NULL, NULL), "nothing")
    /\ told = {} /\ gone = {}

KnownIds == told \union {Unknown}

\* An answer that does not change the tree.
Answer(r) == reply' = r /\ UNCHANGED <<tree, errorBuffer, told, gone>>

\* A call fails with error; the answer quotes it.
Fail(cmd, error) ==
    /\ errorBuffer' = error
    /\ reply' = [Reply(cmd, "failed") EXCEPT !.error = error]
    /\ UNCHANGED <<tree, told, gone>>

-----------------------------------------------------------------------------
\* The node insert puts the new account under: found by id, or the root.
ParentOf(id) == IF id = NULL THEN root ELSE id

\* A slip of NotFoundError: the error is not recorded.
NotFoundErrorMissing == errorBuffer

NotFoundError == "Parent node not found"

\* Why phantom_tree_insert refuses cmd; create_node, which may find no memory,
\* comes after the checks.
Refusal(cmd) ==
    LET p == ParentOf(cmd.id) IN
    CASE root = NULL /\ cmd.id # NULL                -> "Cannot specify parent for root node"
      [] root # NULL /\ p \notin live                -> NotFoundError
      [] root # NULL /\ p \in live /\ ~HasRoom(p)    -> "Parent node full"
      [] OTHER                                       -> "Failed to allocate node"

CreateFails(cmd) == Fail(cmd, Refusal(cmd))

\* A slip of CreatedId: the answer names the parent.
CreatedIdOfParent(cmd) == ParentOf(cmd.id)

\* account.id of the account just inserted.
CreatedId(cmd) == CHOOSE n \in Node : live' \ live = {n}

\* create [parent_id].  Without a parent the answer says a root was created.
Create(cmd) ==
    /\ \/ cmd.id = NULL /\ InsertRoot
       \/ ParentOf(cmd.id) \in live /\ InsertChild(ParentOf(cmd.id))
    /\ (live' \ live) \intersect told = {}
    /\ reply' = [Reply(cmd, IF cmd.id = NULL THEN "rootCreated" ELSE "created")
                   EXCEPT !.id = CreatedId(cmd)]
    /\ told' = told \union {reply'.id}
    /\ UNCHANGED <<errorBuffer, gone>>

\* delete <id>
DeleteAccount(cmd) ==
    /\ cmd.id \in live /\ Delete(cmd.id)
    /\ reply' = [Reply(cmd, "deleted") EXCEPT !.id = cmd.id]
    /\ gone' = gone \union {cmd.id}
    /\ UNCHANGED <<errorBuffer, told>>

\* phantom_tree_delete records an error for a root with children and none for
\* an id it does not find: the answer then quotes an older error.
DeleteFails(cmd) ==
    \/ cmd.id \in live /\ RootPinned(cmd.id) /\ Fail(cmd, "Cannot delete root with children")
    \/ cmd.id \notin live /\ Answer([Reply(cmd, "failed") EXCEPT !.error = errorBuffer])

\* phantom_message_send verifies both accounts.
BothFound(cmd) == cmd.id \in live /\ cmd.to \in live

\* msg <from> <to> <message>: logged, and nothing else.
Message(cmd) ==
    \/ BothFound(cmd) /\ Answer(Reply(cmd, "sent"))
    \/ ~BothFound(cmd) /\ Fail(cmd, "Source or destination node not found")

\* A slip of DepthBelow: only the first child is measured.
FirstDepthBelow[n \in Node] == IF children[n] = <<>> THEN 1 ELSE 1 + FirstDepthBelow[children[n][1]]

\* get_depth_helper
DepthBelow[n \in Node] == 1 + Max({0} \union {DepthBelow[c] : c \in Range(children[n])})

\* A slip of Depth.
DepthOfFirst == IF root = NULL THEN 0 ELSE FirstDepthBelow[root]

\* phantom_tree_depth
Depth == IF root = NULL THEN 0 ELSE DepthBelow[root]

\* list: the summary; the structure is printed on the daemon's own output.
List(cmd) == Answer([Reply(cmd, "summary") EXCEPT !.total = totalNodes, !.depth = Depth])

\* help, quit, an unknown command, one whose arguments do not parse, and list
\* bfs and list dfs: they answer with a heading, for print_node prints the
\* accounts on the daemon's own output.
Fixed(cmd) == Answer(Reply(cmd, "fixed text"))

-----------------------------------------------------------------------------
\* The tree is intact and the daemon answers.
Handle ==
    /\ ~Overrun
    /\ \/ \E id \in KnownIds \union {NULL} :
            LET cmd == Command("create", id, NULL) IN Create(cmd) \/ CreateFails(cmd)
       \/ \E id \in KnownIds :
            LET cmd == Command("delete", id, NULL) IN DeleteAccount(cmd) \/ DeleteFails(cmd)
       \/ \E id, to \in KnownIds : Message(Command("msg", id, to))
       \/ List(Command("list", NULL, NULL))
       \/ Fixed(Command("help", NULL, NULL))

DaemonNext == Handle \/ (Corrupted /\ UNCHANGED daemonVars)

DaemonSpec == DaemonInit /\ [][DaemonNext]_daemonVars

-----------------------------------------------------------------------------
DaemonTypeOK ==
    /\ TypeOK
    /\ told \subseteq Node /\ gone \subseteq told
    /\ reply.id \in Pointer
    /\ reply.total \in Nat /\ reply.depth \in 0 .. Cardinality(Node)

\* The clients can rely on their answers: the accounts in the tree are those
\* that some client was told were created and none was told were deleted.
ToldIsTrue == live = told \ gone

\* What a failure's error claims about the tree.
Explains(error, cmd) ==
    CASE error = "Cannot specify parent for root node"  -> root = NULL /\ cmd.id # NULL
      [] error = "Parent node not found"                -> root # NULL /\ cmd.id \notin live
      [] error = "Parent node full"                     -> ParentOf(cmd.id) \in live /\ ~HasRoom(ParentOf(cmd.id))
      [] error = "Source or destination node not found" -> cmd.op = "msg" /\ ~{cmd.id, cmd.to} \subseteq live
      [] error = "Failed to allocate node"              -> cmd.op = "create"
      [] OTHER                                          -> FALSE

\* A create or a msg that fails gives the reason of its own failure, not one
\* that an earlier command left in error_buffer.  (A delete of an unknown id
\* does not: phantomid.c:239 records nothing.)
FailuresExplained ==
    [][reply' # reply /\ reply'.says = "failed" /\ reply'.cmd.op # "delete" =>
          Explains(reply'.error, reply'.cmd)]_daemonVars

\* The length of the path from the root to n, the two included.
PathLength(n) == 1 + Cardinality({a \in live : Ancestor(a, n)})

\* The summary is right: total_nodes is the number of accounts and the depth
\* computed by recursion is the length of the longest path from the root.
SummaryTrue ==
    [][reply' # reply /\ reply'.says = "summary" =>
          /\ reply'.total = Cardinality(live)
          /\ reply'.depth = Max({0} \union {PathLength(n) : n \in live})]_daemonVars
=============================================================================
