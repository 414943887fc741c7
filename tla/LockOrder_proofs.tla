-------------------------- MODULE LockOrder_proofs --------------------------
(***************************************************************************)
(* No set of transactions waits in a circle, for any number of them.       *)
(*                                                                         *)
(* Level orders the locks a handler may have to wait for.  Whoever waits   *)
(* for a lock waits for a transaction that waits for one of a higher       *)
(* level, if it waits at all.  Permissions are no exception: they are      *)
(* reached under the lock of their connection, so nobody waits for them.   *)
(***************************************************************************)
EXTENDS LockOrder, WellFoundedInduction, TLAPS

Level(row, mode) ==
  CASE row = "conversation"                  -> 1
    [] row = "turn" /\ mode = "update"       -> 2
    [] row = "connection"                    -> 3
    [] row = "approval"                      -> 4
    [] row = "permission"                    -> 5
    [] row = "turn" /\ mode = "key"          -> 6
    [] row = "turn" /\ mode = "nokey"        -> 7
    [] row = "message"                       -> 8
    [] OTHER                                 -> 9

\* Lock i of the handler keeps others waiting below what j waits for.
Climbs(p) ==
  \A i, j \in DOMAIN p : \A m \in Mode :
    i < j /\ p[i].row # "permission" /\ Conflict(p[i].mode, m) =>
      Level(p[i].row, m) < Level(p[j].row, p[j].mode)

\* The permission comes after the lock of the connection.
Gated(p) ==
  \A j \in DOMAIN p :
    p[j].row = "permission" =>
      \E i \in DOMAIN p : i < j /\ p[i] = Must("connection", "update")

Good(p) == p \in Seq(LockStep) /\ Climbs(p) /\ Gated(p)

\* The handlers of connections and approvals (mcp_approvals.go:278-480,
\* mcp_connections.go:640-700, 799-860, 940-1064).
LEMMA ConnectionPaths ==
  /\ Good(approve) /\ Good(reject) /\ Good(putPermissions)
  /\ Good(replaceConnection) /\ Good(deleteConnection) /\ Good(checkConnection)
<1>1. Good(approve)
  <2>1. approve \in Seq(LockStep)
    BY DEF approve, Must, May, LockStep, Row, Mode
  <2>2. Climbs(approve)
    BY DEF Climbs, approve, Must, May, Mode, Conflict, Level
  <2>3. Gated(approve)
    <3>1. /\ 2 \in DOMAIN approve
          /\ approve[2] = Must("connection", "update")
          /\ \A j \in DOMAIN approve :
               approve[j].row = "permission" => 2 < j
      BY DEF approve, Must, May
    <3> QED BY <3>1 DEF Gated
  <2> QED BY <2>1, <2>2, <2>3 DEF Good
<1>2. Good(reject)
  <2>1. reject \in Seq(LockStep)
    BY DEF reject, Must, May, LockStep, Row, Mode
  <2>2. Climbs(reject)
    BY DEF Climbs, reject, Must, May, Mode, Conflict, Level
  <2>3. Gated(reject)
    BY DEF Gated, reject, Must, May
  <2> QED BY <2>1, <2>2, <2>3 DEF Good
<1>3. Good(putPermissions)
  <2>1. putPermissions \in Seq(LockStep)
    BY DEF putPermissions, Must, May, LockStep, Row, Mode
  <2>2. Climbs(putPermissions)
    BY DEF Climbs, putPermissions, Must, May, Mode, Conflict, Level
  <2>3. Gated(putPermissions)
    <3>1. /\ 1 \in DOMAIN putPermissions
          /\ putPermissions[1] = Must("connection", "update")
          /\ \A j \in DOMAIN putPermissions :
               putPermissions[j].row = "permission" => 1 < j
      BY DEF putPermissions, Must, May
    <3> QED BY <3>1 DEF Gated
  <2> QED BY <2>1, <2>2, <2>3 DEF Good
<1>4. Good(replaceConnection)
  <2>1. replaceConnection \in Seq(LockStep)
    BY DEF replaceConnection, Must, May, LockStep, Row, Mode
  <2>2. Climbs(replaceConnection)
    BY DEF Climbs, replaceConnection, Must, May, Mode, Conflict, Level
  <2>3. Gated(replaceConnection)
    BY DEF Gated, replaceConnection, Must, May
  <2> QED BY <2>1, <2>2, <2>3 DEF Good
<1>5. Good(deleteConnection)
  <2>1. deleteConnection \in Seq(LockStep)
    BY DEF deleteConnection, Must, May, LockStep, Row, Mode
  <2>2. Climbs(deleteConnection)
    BY DEF Climbs, deleteConnection, Must, May, Mode, Conflict, Level
  <2>3. Gated(deleteConnection)
    <3>1. /\ 1 \in DOMAIN deleteConnection
          /\ deleteConnection[1] = Must("connection", "update")
          /\ \A j \in DOMAIN deleteConnection :
               deleteConnection[j].row = "permission" => 1 < j
      BY DEF deleteConnection, Must, May
    <3> QED BY <3>1 DEF Gated
  <2> QED BY <2>1, <2>2, <2>3 DEF Good
<1>6. Good(checkConnection)
  <2>1. checkConnection \in Seq(LockStep)
    BY DEF checkConnection, Must, May, LockStep, Row, Mode
  <2>2. Climbs(checkConnection)
    BY DEF Climbs, checkConnection, Must, May, Mode, Conflict, Level
  <2>3. Gated(checkConnection)
    BY DEF Gated, checkConnection, Must, May
  <2> QED BY <2>1, <2>2, <2>3 DEF Good
<1> QED BY <1>1, <1>2, <1>3, <1>4, <1>5, <1>6

\* The worker and the other handlers of a turn.
LEMMA TurnPaths ==
  /\ Good(requestMCPApproval) /\ Good(settleApproval) /\ Good(event)
  /\ Good(saveTurnTranscript) /\ Good(finalize) /\ Good(park)
  /\ Good(recover) /\ Good(submit) /\ Good(answer)
<1>1. Good(requestMCPApproval)
  <2>1. requestMCPApproval \in Seq(LockStep)
    BY DEF requestMCPApproval, Must, May, LockStep, Row, Mode
  <2>2. Climbs(requestMCPApproval)
    BY DEF Climbs, requestMCPApproval, Must, May, Mode, Conflict, Level
  <2>3. Gated(requestMCPApproval)
    BY DEF Gated, requestMCPApproval, Must, May
  <2> QED BY <2>1, <2>2, <2>3 DEF Good
<1>2. Good(settleApproval)
  <2>1. settleApproval \in Seq(LockStep)
    BY DEF settleApproval, Must, May, LockStep, Row, Mode
  <2>2. Climbs(settleApproval)
    BY DEF Climbs, settleApproval, Must, May, Mode, Conflict, Level
  <2>3. Gated(settleApproval)
    BY DEF Gated, settleApproval, Must, May
  <2> QED BY <2>1, <2>2, <2>3 DEF Good
<1>3. Good(event)
  <2>1. event \in Seq(LockStep)
    BY DEF event, Must, May, LockStep, Row, Mode
  <2>2. Climbs(event)
    BY DEF Climbs, event, Must, May, Mode, Conflict, Level
  <2>3. Gated(event)
    BY DEF Gated, event, Must, May
  <2> QED BY <2>1, <2>2, <2>3 DEF Good
<1>4. Good(saveTurnTranscript)
  <2>1. saveTurnTranscript \in Seq(LockStep)
    BY DEF saveTurnTranscript, Must, May, LockStep, Row, Mode
  <2>2. Climbs(saveTurnTranscript)
    BY DEF Climbs, saveTurnTranscript, Must, May, Mode, Conflict, Level
  <2>3. Gated(saveTurnTranscript)
    BY DEF Gated, saveTurnTranscript, Must, May
  <2> QED BY <2>1, <2>2, <2>3 DEF Good
<1>5. Good(finalize)
  <2>1. finalize \in Seq(LockStep)
    BY DEF finalize, Must, May, LockStep, Row, Mode
  <2>2. Climbs(finalize)
    BY DEF Climbs, finalize, Must, May, Mode, Conflict, Level
  <2>3. Gated(finalize)
    BY DEF Gated, finalize, Must, May
  <2> QED BY <2>1, <2>2, <2>3 DEF Good
<1>6. Good(park)
  <2>1. park \in Seq(LockStep)
    BY DEF park, Must, May, LockStep, Row, Mode
  <2>2. Climbs(park)
    BY DEF Climbs, park, Must, May, Mode, Conflict, Level
  <2>3. Gated(park)
    BY DEF Gated, park, Must, May
  <2> QED BY <2>1, <2>2, <2>3 DEF Good
<1>7. Good(recover)
  <2>1. recover \in Seq(LockStep)
    BY DEF recover, Must, May, LockStep, Row, Mode
  <2>2. Climbs(recover)
    BY DEF Climbs, recover, Must, May, Mode, Conflict, Level
  <2>3. Gated(recover)
    BY DEF Gated, recover, Must, May
  <2> QED BY <2>1, <2>2, <2>3 DEF Good
<1>8. Good(submit)
  <2>1. submit \in Seq(LockStep)
    BY DEF submit, Must, May, LockStep, Row, Mode
  <2>2. Climbs(submit)
    BY DEF Climbs, submit, Must, May, Mode, Conflict, Level
  <2>3. Gated(submit)
    BY DEF Gated, submit, Must, May
  <2> QED BY <2>1, <2>2, <2>3 DEF Good
<1>9. Good(answer)
  <2>1. answer \in Seq(LockStep)
    BY DEF answer, Must, May, LockStep, Row, Mode
  <2>2. Climbs(answer)
    BY DEF Climbs, answer, Must, May, Mode, Conflict, Level
  <2>3. Gated(answer)
    BY DEF Gated, answer, Must, May
  <2> QED BY <2>1, <2>2, <2>3 DEF Good
<1> QED BY <1>1, <1>2, <1>3, <1>4, <1>5, <1>6, <1>7, <1>8, <1>9

\* What is true of every transaction but the stop, whatever it is.
LEMMA Paths == \A h \in Ordered \cup {"none"} : Good(Path(h))
<1>1. Path("none") = <<>>
  BY DEF Path
<1>2. Good(<<>>)
  BY DEF Good, Climbs, Gated
<1>3. Good(Path("none"))
  BY <1>1, <1>2
<1>4. ASSUME NEW h \in Ordered PROVE Good(Path(h))
  BY ConnectionPaths, TurnPaths DEF Ordered, Path
<1> QED BY <1>3, <1>4

-----------------------------------------------------------------------------
(* The invariant *)

\* No two transactions hold locks that exclude each other.
Compatible ==
  \A x, y \in Txn : x # y =>
    \A k \in Held(x), l \in Held(y) :
      k.row = l.row => ~Conflict(k.mode, l.mode)

\* A statement that must find its row has locked it before the next.
MustsHeld ==
  \A x \in Txn : \A i \in DOMAIN Steps(x) :
    i < txn[x].at /\ Steps(x)[i].must => i \in txn[x].passed

IInv == TypeOK /\ Compatible /\ MustsHeld

\* A nonempty set of levels has a highest.
LEMMA Highest ==
  ASSUME NEW T \in SUBSET (1..9), T # {}
  PROVE  \E n \in T : \A m \in T : m <= n
<1> DEFINE R == OpToRel(<, Nat)
           U == {9 - m : m \in T}
<1>1. U \subseteq Nat /\ U # {}
  <2>1. \A m \in T : 9 - m \in Nat
    OBVIOUS
  <2> QED BY <2>1
<1>2. PICK n \in U : \A k \in U : ~ (<<k, n>> \in R)
  <2> HIDE DEF U, R
  <2>1. IsWellFoundedOn(R, Nat)
    BY NatLessThanWellFounded DEF R
  <2> QED BY <1>1, <2>1, WFMin
<1>3. \A k \in U : ~ (k < n)
  BY <1>1, <1>2 DEF OpToRel
<1> QED BY <1>3

\* Modes exclude each other.
LEMMA ConflictSymmetric == \A m, n : Conflict(m, n) => Conflict(n, m)
  BY DEF Conflict

\* Steps and what a transaction holds, in terms of the paths.
LEMMA StepFacts ==
  ASSUME IInv, Handler \subseteq Ordered, NEW x \in Txn
  PROVE  /\ Good(Steps(x))
         /\ txn[x].handler = "none" => Steps(x) = <<>>
         /\ txn[x].at \in Nat \ {0}
         /\ txn[x].at <= Len(Steps(x)) + 1
         /\ \A i \in txn[x].passed : i \in DOMAIN Steps(x) /\ i < txn[x].at
<1>1. txn[x] \in Transaction /\ txn[x].handler \in Ordered \cup {"none"}
  BY DEF IInv, TypeOK, Transaction
<1>2. Good(Steps(x))
  BY <1>1, Paths DEF Steps
<1>3. txn[x].handler = "none" => Steps(x) = <<>>
  BY DEF Steps, Path
<1>4. /\ txn[x].at \in Nat \ {0} /\ txn[x].passed \in SUBSET (Nat \ {0})
      /\ txn[x].at <= Len(Steps(x)) + 1
      /\ \A i \in txn[x].passed : i < txn[x].at
  BY <1>1 DEF IInv, TypeOK, Transaction
<1>5. \A i \in txn[x].passed : i \in DOMAIN Steps(x)
  BY <1>2, <1>4 DEF Good
<1> QED BY <1>2, <1>3, <1>4, <1>5

\* Nobody waits for a permission.
LEMMA PermissionsAreFree ==
  ASSUME IInv, Handler \subseteq Ordered, NEW x \in Txn, NEW y \in Txn,
         WaitsFor(x, y)
  PROVE  Want(x).row # "permission"
<1> SUFFICES ASSUME Want(x).row = "permission" PROVE FALSE
  OBVIOUS
<1>1. PICK l \in Held(y) : l.row = "permission"
  BY DEF WaitsFor
<1>2. PICK j \in txn[y].passed : l = Steps(y)[j]
  BY DEF Held
<1>3. \A z \in Txn : \A k \in DOMAIN Steps(z) :
        Steps(z)[k].row = "permission" /\ k <= txn[z].at =>
          Must("connection", "update") \in Held(z)
  <2> SUFFICES ASSUME NEW z \in Txn, NEW k \in DOMAIN Steps(z),
                      Steps(z)[k].row = "permission", k <= txn[z].at
               PROVE  Must("connection", "update") \in Held(z)
    OBVIOUS
  <2>1. Good(Steps(z)) /\ txn[z].at \in Nat
    BY StepFacts
  <2>2. PICK i \in DOMAIN Steps(z) :
          i < k /\ Steps(z)[i] = Must("connection", "update")
    BY <2>1 DEF Good, Gated
  <2>3. i < txn[z].at
    BY <2>1, <2>2 DEF Good
  <2>4. i \in txn[z].passed
    BY <2>2, <2>3 DEF IInv, MustsHeld, Must
  <2> QED BY <2>2, <2>4 DEF Held
<1>4. Must("connection", "update") \in Held(y)
  <2>1. j \in DOMAIN Steps(y) /\ j < txn[y].at /\ txn[y].at \in Nat
    BY StepFacts
  <2>2. j \in Nat
    BY <2>1, StepFacts DEF Good
  <2>3. Steps(y)[j].row = "permission" /\ j <= txn[y].at
    BY <1>1, <1>2, <2>1, <2>2
  <2> QED BY <1>3, <2>1, <2>3
<1>5. Must("connection", "update") \in Held(x)
  <2>1. txn[x].at \in DOMAIN Steps(x)
    BY StepFacts DEF WaitsFor, Waiting, Good
  <2> QED BY <2>1, <1>3, StepFacts DEF Want
<1> QED BY <1>4, <1>5 DEF IInv, Compatible, WaitsFor, Must, Conflict

\* Whoever is waited for and waits itself waits for more.
LEMMA WaitsClimb ==
  ASSUME IInv, Handler \subseteq Ordered, NEW x \in Txn, NEW y \in Txn,
         WaitsFor(x, y), Waiting(y)
  PROVE  Level(Want(x).row, Want(x).mode) < Level(Want(y).row, Want(y).mode)
<1>1. PICK l \in Held(y) : l.row = Want(x).row /\ Conflict(l.mode, Want(x).mode)
  BY DEF WaitsFor
<1>2. PICK i \in txn[y].passed : l = Steps(y)[i]
  BY DEF Held
<1>3. /\ i \in DOMAIN Steps(y) /\ i < txn[y].at
      /\ txn[y].at \in DOMAIN Steps(y)
      /\ Climbs(Steps(y))
  BY StepFacts DEF Waiting, Good
<1>4. Want(x).row # "permission"
  BY PermissionsAreFree
<1>5. Want(x).mode \in Mode
  <2>1. Steps(x) \in Seq(LockStep) /\ txn[x].at \in DOMAIN Steps(x)
    BY StepFacts DEF WaitsFor, Waiting, Good
  <2>2. Want(x) \in LockStep
    BY <2>1 DEF Want
  <2> QED BY <2>2 DEF LockStep
<1> QED BY <1>1, <1>2, <1>3, <1>4, <1>5 DEF Climbs, Want

\* In a circle someone would wait for the highest level and still be waited
\* for by a lower one only.
LEMMA InvariantSuffices ==
  ASSUME IInv, Handler \subseteq Ordered
  PROVE  NoDeadlock
<1> SUFFICES ASSUME NEW S \in SUBSET Txn, S # {},
                    \A x \in S : \E y \in S : WaitsFor(x, y)
             PROVE  FALSE
  BY DEF NoDeadlock, Deadlocked
<1> DEFINE level(x) == Level(Want(x).row, Want(x).mode)
<1>1. {level(x) : x \in S} \in SUBSET (1..9)
  BY DEF Level
<1>2. PICK n \in {level(x) : x \in S} : \A m \in {level(x) : x \in S} : m <= n
  <2> HIDE DEF level
  <2> QED BY <1>1, Highest
<1>3. PICK x \in S : \A y \in S : level(y) <= level(x)
  BY <1>2
<1>4. PICK y \in S : WaitsFor(x, y)
  OBVIOUS
<1>5. Waiting(y)
  BY DEF WaitsFor
<1>6. level(x) < level(y)
  BY <1>4, <1>5, WaitsClimb
<1>7. level(x) \in 1..9 /\ level(y) \in 1..9
  BY <1>1
<1> QED BY <1>3, <1>6, <1>7

-----------------------------------------------------------------------------
(* Every step keeps it *)

\* No transaction is open at first.
LEMMA InitInv == Init => IInv
<1> SUFFICES ASSUME Init PROVE IInv
  OBVIOUS
<1>1. \A x \in Txn : txn[x] = NoTransaction /\ Steps(x) = <<>>
  BY DEF Init, Steps, NoTransaction, Path
<1>2. TypeOK
  BY <1>1 DEF Init, TypeOK, Transaction, NoTransaction
<1>3. Compatible /\ MustsHeld
  BY <1>1 DEF Compatible, MustsHeld, Held, NoTransaction
<1> QED BY <1>2, <1>3 DEF IInv

\* A step changes one transaction and takes at most one lock.
LEMMA OneStep ==
  ASSUME IInv, Handler \subseteq Ordered, NEW x \in Txn, NEW r \in Transaction,
         txn' = [txn EXCEPT ![x] = r],
         r.at <= Len(Path(r.handler)) + 1,
         \A i \in r.passed : i < r.at,
         \A i \in DOMAIN Path(r.handler) :
           i < r.at /\ Path(r.handler)[i].must => i \in r.passed,
         \A y \in Txn \ {x} : \A i \in r.passed : \A l \in Held(y) :
           Path(r.handler)[i].row = l.row =>
             ~Conflict(l.mode, Path(r.handler)[i].mode)
  PROVE  IInv'
<1>1. /\ txn \in [Txn -> Transaction]
      /\ txn'[x] = r
      /\ \A y \in Txn \ {x} : txn'[y] = txn[y]
  BY DEF IInv, TypeOK
<1>2. /\ Steps(x)' = Path(r.handler)
      /\ Held(x)' = {Path(r.handler)[i] : i \in r.passed}
      /\ \A y \in Txn \ {x} : Steps(y)' = Steps(y) /\ Held(y)' = Held(y)
  BY <1>1 DEF Steps, Held
<1>3. TypeOK'
  <2>1. txn' \in [Txn -> Transaction]
    BY <1>1
  <2>2. \A y \in Txn : /\ txn'[y].at <= Len(Steps(y)') + 1
                       /\ \A i \in txn'[y].passed : i < txn'[y].at
    BY <1>1, <1>2 DEF IInv, TypeOK
  <2> QED BY <2>1, <2>2 DEF TypeOK
<1>4. Compatible'
  <2>1. \A y \in Txn \ {x} : \A k \in Held(x)', l \in Held(y) :
          k.row = l.row => ~Conflict(k.mode, l.mode) /\ ~Conflict(l.mode, k.mode)
    BY <1>2, ConflictSymmetric
  <2>2. \A y, z \in Txn : y # z /\ y # x /\ z # x =>
          \A k \in Held(y), l \in Held(z) :
            k.row = l.row => ~Conflict(k.mode, l.mode)
    BY DEF IInv, Compatible
  <2> QED BY <1>2, <2>1, <2>2 DEF Compatible
<1>5. MustsHeld'
  BY <1>1, <1>2 DEF IInv, MustsHeld
<1> QED BY <1>3, <1>4, <1>5 DEF IInv

\* Beginnings, locks, statements that find nothing, and ends keep it.
LEMMA NextInv ==
  ASSUME IInv, Handler \subseteq Ordered, Next
  PROVE  IInv'
<1>1. PICK x \in Txn : (\E h \in Handler : Begin(x, h)) \/ Lock(x) \/ Pass(x) \/ End(x)
  BY DEF Next
<1>2. txn \in [Txn -> Transaction] /\ txn[x] \in Transaction
  BY DEF IInv, TypeOK
<1>2a. txn[x] = [handler |-> txn[x].handler, at |-> txn[x].at,
                passed |-> txn[x].passed]
  BY <1>2 DEF Transaction
<1>3. ASSUME NEW h \in Handler, Begin(x, h) PROVE IInv'
  <2>1. txn[x].at = 1 /\ txn[x].passed = {}
    BY <1>2, <1>3, StepFacts DEF Begin, Transaction
  <2> DEFINE r == [handler |-> h, at |-> 1, passed |-> {}]
  <2>2. txn' = [txn EXCEPT ![x] = r] /\ r \in Transaction
    <3>1. [txn[x] EXCEPT !.handler = h] = r
      BY <1>2a, <2>1
    <3>2. txn' = [txn EXCEPT ![x] = [txn[x] EXCEPT !.handler = h]]
      BY <1>3 DEF Begin
    <3>3. r \in Transaction
      BY DEF Transaction
    <3> QED BY <3>1, <3>2, <3>3
  <2>3. Path(h) \in Seq(LockStep)
    BY Paths DEF Good
  <2>4. /\ r.handler = h /\ r.at = 1 /\ r.passed = {}
        /\ 1 <= Len(Path(h)) + 1
        /\ \A i \in DOMAIN Path(h) : ~ (i < 1)
    BY <2>3
  <2> HIDE DEF r
  <2> QED BY <2>2, <2>4, OneStep
<1>4. ASSUME Lock(x) PROVE IInv'
  <2> DEFINE r == [handler |-> txn[x].handler, at |-> txn[x].at + 1,
                   passed |-> txn[x].passed \cup {txn[x].at}]
  <2>1. txn' = [txn EXCEPT ![x] = r] /\ r \in Transaction
    <3>1. txn' = [txn EXCEPT ![x] = r]
      BY <1>4 DEF Lock
    <3>2. r \in Transaction
      BY <1>2 DEF Transaction
    <3> QED BY <3>1, <3>2
  <2>2. Steps(x) = Path(r.handler)
    BY DEF Steps
  <2>3. /\ Steps(x) \in Seq(LockStep) /\ txn[x].at \in Nat \ {0}
        /\ txn[x].at <= Len(Steps(x))
        /\ \A i \in txn[x].passed : i \in Nat /\ i < txn[x].at
    BY <1>4, StepFacts DEF Lock, Waiting, Good
  <2>4. \A i \in DOMAIN Steps(x) : i < r.at /\ Steps(x)[i].must => i \in r.passed
    BY <2>3 DEF IInv, MustsHeld
  <2>5. \A y \in Txn \ {x} : \A i \in r.passed : \A l \in Held(y) :
          Steps(x)[i].row = l.row => ~Conflict(l.mode, Steps(x)[i].mode)
    <3>1. \A y \in Txn \ {x} : \A l \in Held(y) :
            Want(x).row = l.row => ~Conflict(l.mode, Want(x).mode)
      BY <1>4 DEF Lock, WaitsFor
    <3>2. \A y \in Txn \ {x} : \A i \in txn[x].passed : \A l \in Held(y) :
            Steps(x)[i].row = l.row => ~Conflict(l.mode, Steps(x)[i].mode)
      BY ConflictSymmetric DEF IInv, Compatible, Held
    <3> QED BY <3>1, <3>2 DEF Want
  <2> HIDE DEF r
  <2>6. r.at <= Len(Steps(x)) + 1 /\ \A i \in r.passed : i < r.at
    BY <2>3 DEF r
  <2>7. /\ r.at <= Len(Path(r.handler)) + 1
        /\ \A i \in r.passed : i < r.at
        /\ \A i \in DOMAIN Path(r.handler) :
             i < r.at /\ Path(r.handler)[i].must => i \in r.passed
        /\ \A y \in Txn \ {x} : \A i \in r.passed : \A l \in Held(y) :
             Path(r.handler)[i].row = l.row =>
               ~Conflict(l.mode, Path(r.handler)[i].mode)
    BY <2>2, <2>4, <2>5, <2>6
  <2> QED BY <2>1, <2>7, OneStep
<1>5. ASSUME Pass(x) PROVE IInv'
  <2> DEFINE r == [handler |-> txn[x].handler, at |-> txn[x].at + 1,
                   passed |-> txn[x].passed]
  <2>1. txn' = [txn EXCEPT ![x] = r] /\ r \in Transaction
    <3>1. [txn[x] EXCEPT !.at = @ + 1] = r
      BY <1>2a
    <3>2. txn' = [txn EXCEPT ![x] = [txn[x] EXCEPT !.at = @ + 1]]
      BY <1>5 DEF Pass
    <3>3. r \in Transaction
      BY <1>2 DEF Transaction
    <3> QED BY <3>1, <3>2, <3>3
  <2>2. Steps(x) = Path(r.handler)
    BY DEF Steps
  <2>3. /\ Steps(x) \in Seq(LockStep) /\ txn[x].at \in Nat \ {0}
        /\ txn[x].at <= Len(Steps(x))
        /\ \A i \in txn[x].passed : i \in Nat /\ i < txn[x].at
    BY <1>5, StepFacts DEF Pass, Waiting, Good
  <2>4. \A i \in DOMAIN Steps(x) : i < r.at /\ Steps(x)[i].must => i \in r.passed
    BY <1>5, <2>3 DEF IInv, MustsHeld, Pass, Want
  <2>5. \A y \in Txn \ {x} : \A i \in r.passed : \A l \in Held(y) :
          Steps(x)[i].row = l.row => ~Conflict(l.mode, Steps(x)[i].mode)
    BY ConflictSymmetric DEF IInv, Compatible, Held
  <2> HIDE DEF r
  <2>6. r.at <= Len(Steps(x)) + 1 /\ \A i \in r.passed : i < r.at
    BY <2>3 DEF r
  <2>7. /\ r.at <= Len(Path(r.handler)) + 1
        /\ \A i \in r.passed : i < r.at
        /\ \A i \in DOMAIN Path(r.handler) :
             i < r.at /\ Path(r.handler)[i].must => i \in r.passed
        /\ \A y \in Txn \ {x} : \A i \in r.passed : \A l \in Held(y) :
             Path(r.handler)[i].row = l.row =>
               ~Conflict(l.mode, Path(r.handler)[i].mode)
    BY <2>2, <2>4, <2>5, <2>6
  <2> QED BY <2>1, <2>7, OneStep
<1>6. ASSUME End(x) PROVE IInv'
  <2>1. txn' = [txn EXCEPT ![x] = NoTransaction] /\ NoTransaction \in Transaction
    BY <1>2, <1>6 DEF End, NoTransaction, Transaction
  <2>2. Path("none") = <<>>
    BY DEF Path
  <2>3. /\ NoTransaction.handler = "none" /\ NoTransaction.at = 1
        /\ NoTransaction.passed = {}
    BY DEF NoTransaction
  <2>4. /\ 1 <= Len(<<>>) + 1
        /\ \A i \in DOMAIN <<>> : FALSE
    OBVIOUS
  <2> QED BY <2>1, <2>2, <2>3, <2>4, OneStep
<1> QED BY <1>1, <1>3, <1>4, <1>5, <1>6

\* The invariant, for any number of transactions of the ordered handlers.
THEOREM Invariance == Handler \subseteq Ordered => (Spec => []IInv)
<1> SUFFICES ASSUME Handler \subseteq Ordered PROVE Spec => []IInv
  OBVIOUS
<1>1. Init => IInv
  BY InitInv
<1>2. IInv /\ [Next]_vars => IInv'
  <2> SUFFICES ASSUME IInv, [Next]_vars PROVE IInv'
    OBVIOUS
  <2>1. CASE Next
    BY <2>1, NextInv
  <2>2. CASE UNCHANGED vars
    <3>1. txn' = txn
      BY <2>2 DEF vars
    <3> QED BY <3>1 DEF IInv, TypeOK, Compatible, MustsHeld, Steps, Held
  <2> QED BY <2>1, <2>2
<1> QED BY <1>1, <1>2, PTL DEF Spec

\* Decisions, edits of permissions and connections, the worker's writes,
\* sweeps, submissions and answers never wait in a circle, however many are
\* open (the lock order of mcp_approvals.go:333, with the rows of the turn).
THEOREM NeverDeadlocks == Handler \subseteq Ordered => (Spec => []NoDeadlock)
<1> SUFFICES ASSUME Handler \subseteq Ordered PROVE Spec => []NoDeadlock
  OBVIOUS
<1>1. IInv => NoDeadlock
  BY InvariantSuffices
<1> QED BY <1>1, Invariance, PTL
=============================================================================
