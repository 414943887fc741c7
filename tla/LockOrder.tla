----------------------------- MODULE LockOrder -----------------------------
(***************************************************************************)
(* The row locks of the transactions that write MCP connections,           *)
(* approvals, permissions and chat turns.                                  *)
(*                                                                         *)
(* A handler is the list of the rows its statements lock, in their order,  *)
(* with the mode PostgreSQL takes: "update" for SELECT FOR UPDATE and      *)
(* DELETE, "nokey" for an UPDATE, "key" for the foreign key of an insert.  *)
(* A lock that an earlier one of the handler covers is left out.  All      *)
(* rows are those of one conversation, its turn and one connection.  Rows  *)
(* of one table that a statement changes together count as one: such       *)
(* statements read them in the same order.                                 *)
(***************************************************************************)
EXTENDS Naturals, Sequences

CONSTANTS
  Txn,       \* transactions that may be open at a time
  Handler    \* what they may be

VARIABLES txn

vars == <<txn>>

-----------------------------------------------------------------------------
(* Locks *)

Row  == {"conversation", "connection", "approval", "permission", "turn",
         "question", "message"}
Mode == {"key", "nokey", "update"}

\* must: a statement that finds no row ends the handler; the others may find
\* nothing to change and go on.
LockStep == [row : Row, mode : Mode, must : BOOLEAN]

Must(row, mode) == [row |-> row, mode |-> mode, must |-> TRUE]
May(row, mode)  == [row |-> row, mode |-> mode, must |-> FALSE]

\* A key share only excludes what would remove the row or change its key.
Conflict(m, n) ==
  \/ m = "update" \/ n = "update"
  \/ m = "nokey" /\ n = "nokey"

-----------------------------------------------------------------------------
(* Handlers of the connections and their approvals *)

\* Mutant: the connection is locked by the check that follows.
ApproveLate ==
  << Must("conversation", "update"), Must("approval", "update"),
     Must("connection", "update"), May("permission", "nokey"),
     Must("turn", "key") >>

approve ==
  << Must("conversation", "update"), Must("connection", "update"),
     Must("approval", "update"), May("permission", "nokey"),
     Must("turn", "key") >>

\* A refusal needs no connection.
reject ==
  << Must("conversation", "update"), Must("approval", "update"),
     Must("turn", "key") >>

putPermissions ==
  << Must("connection", "update"), May("approval", "nokey"),
     May("turn", "key"), May("permission", "nokey") >>

replaceConnection ==
  << Must("connection", "nokey"), May("approval", "nokey"),
     May("turn", "key"), May("turn", "nokey"), May("message", "nokey") >>

\* The foreign keys to the row delete its permissions and clear the approvals.
deleteConnection ==
  << Must("connection", "update"), May("permission", "update"),
     May("approval", "nokey"), May("turn", "key"), May("turn", "nokey"),
     May("message", "nokey") >>

checkConnection == << Must("connection", "nokey") >>

-----------------------------------------------------------------------------
(* The worker and the other handlers of a turn *)

\* The insert of the approval refers to the turn and to the connection.
requestMCPApproval == << Must("turn", "key"), May("connection", "key") >>

\* closeApproval, MarkMCPApprovalExecuting, CompleteMCPApproval.
settleApproval == << May("approval", "nokey") >>

event == << Must("turn", "key") >>

saveTurnTranscript == << Must("turn", "update") >>

finalize ==
  << Must("turn", "key"), Must("turn", "nokey"), Must("message", "nokey") >>

park == << Must("turn", "key"), Must("turn", "nokey") >>

\* The approvals it fails are executing ones, which no handler here holds
\* while it waits.
recover ==
  << Must("turn", "nokey"), May("message", "nokey"), May("question", "nokey") >>

submit ==
  << Must("conversation", "update"), May("turn", "nokey"),
     May("message", "nokey"), May("question", "nokey") >>

answer ==
  << Must("conversation", "update"), Must("turn", "update"),
     Must("question", "update") >>

\* A stop locks the turn before its approvals.
cancel ==
  << Must("turn", "update"), May("question", "nokey"),
     May("approval", "nokey"), May("message", "nokey") >>

Path(h) ==
  CASE h = "approve"            -> approve
    [] h = "reject"             -> reject
    [] h = "putPermissions"     -> putPermissions
    [] h = "replaceConnection"  -> replaceConnection
    [] h = "deleteConnection"   -> deleteConnection
    [] h = "checkConnection"    -> checkConnection
    [] h = "requestMCPApproval" -> requestMCPApproval
    [] h = "settleApproval"     -> settleApproval
    [] h = "event"              -> event
    [] h = "saveTurnTranscript" -> saveTurnTranscript
    [] h = "finalize"           -> finalize
    [] h = "park"               -> park
    [] h = "recover"            -> recover
    [] h = "submit"             -> submit
    [] h = "answer"             -> answer
    [] h = "cancel"             -> cancel
    [] OTHER                    -> <<>>

\* Every handler here but the stop.
Ordered ==
  {"approve", "reject", "putPermissions", "replaceConnection",
   "deleteConnection", "checkConnection", "requestMCPApproval",
   "settleApproval", "event", "saveTurnTranscript", "finalize", "park",
   "recover", "submit", "answer"}

ASSUME HandlerAssumption == Handler \subseteq Ordered \cup {"cancel"}

-----------------------------------------------------------------------------
(* Transactions *)

\* at: the number of the next statement; passed: those that took their lock.
Transaction == [handler : Handler \cup {"none"}, at : Nat \ {0},
                passed : SUBSET (Nat \ {0})]

NoTransaction == [handler |-> "none", at |-> 1, passed |-> {}]

Steps(x) == Path(txn[x].handler)

Waiting(x) == txn[x].at <= Len(Steps(x))

Want(x) == Steps(x)[txn[x].at]

Held(x) == {Steps(x)[i] : i \in txn[x].passed}

\* The next lock of x has to wait for one that y holds.
WaitsFor(x, y) ==
  /\ y # x /\ Waiting(x)
  /\ \E l \in Held(y) : l.row = Want(x).row /\ Conflict(l.mode, Want(x).mode)

Init == txn = [x \in Txn |-> NoTransaction]

Begin(x, h) ==
  /\ txn[x].handler = "none"
  /\ txn' = [txn EXCEPT ![x].handler = h]

Lock(x) ==
  /\ Waiting(x)
  /\ \A y \in Txn : ~WaitsFor(x, y)
  /\ txn' = [txn EXCEPT ![x] = [handler |-> @.handler, at |-> @.at + 1,
                                passed |-> @.passed \cup {@.at}]]

\* The statement finds nothing to change.
Pass(x) ==
  /\ Waiting(x) /\ ~Want(x).must
  /\ txn' = [txn EXCEPT ![x].at = @ + 1]

\* Commit after the last statement, rollback anywhere.
End(x) ==
  /\ txn[x].handler # "none"
  /\ txn' = [txn EXCEPT ![x] = NoTransaction]

Next ==
  \E x \in Txn :
    \/ \E h \in Handler : Begin(x, h)
    \/ Lock(x) \/ Pass(x) \/ End(x)

Spec == Init /\ [][Next]_vars

-----------------------------------------------------------------------------
(* Properties *)

TypeOK ==
  /\ txn \in [Txn -> Transaction]
  /\ \A x \in Txn :
       /\ txn[x].at <= Len(Steps(x)) + 1
       /\ \A i \in txn[x].passed : i < txn[x].at

\* A set of transactions each of which waits for another of the set.
Deadlocked(S) == S # {} /\ \A x \in S : \E y \in S : WaitsFor(x, y)

\* mcp_approvals.go:333 has the connection locked before approvals and those
\* before permissions, so that concurrent writers "serialize instead of
\* deadlocking"; the turn, its questions and its messages come in as well.
NoDeadlock == \A S \in SUBSET Txn : ~Deadlocked(S)
=============================================================================
