-------------------------- MODULE EventStream_proofs --------------------------
(***************************************************************************)
(* Proofs about EventStream for any number of workers and events and any   *)
(* size of page.                                                           *)
(*                                                                         *)
(* The database half of the invariant says what an open transaction may    *)
(* hold: its own uncommitted events, and the lock of a turn that has not   *)
(* ended.  The stream half says what the cursor stands for: everything     *)
(* committed up to it was seen, but for events that were overtaken.        *)
(***************************************************************************)
EXTENDS EventStream, TLAPS

\* What holds of the transaction of a writer: its events are open and its own,
\* a terminal event goes with the end of the turn, and whoever has updated the
\* turn's row holds its lock, so that the row is not changed under it.
TxOK(x) ==
  /\ tx[x].ids \subseteq DOMAIN event
  /\ \A i \in tx[x].ids : /\ event[i].state = "open"
                          /\ event[i].kind = "terminal" => tx[x].goal = "ended"
  /\ tx[x].goal = "none" => tx[x] = NoTx
  /\ tx[x].stage \in {"updated", "both"} <=> holder = x
  /\ holder = x => turn.status # "ended"
  /\ tx[x].goal = "answer" => turn.status = "waiting" /\ holder = x

Apart == \A x, y \in Writer : x # y => tx[x].ids \cap tx[y].ids = {}

\* A terminal event others can see is the event of a turn that has ended.
EndingShown ==
  \A i \in Committed : event[i].kind = "terminal" => turn.status = "ended"

\* The cursor is the id of an event that was seen, and nothing above was.
CursorOK ==
  /\ stream.cursor \in Committed \cup {0}
  /\ \A i \in Seen : i <= stream.cursor

\* Below the cursor only an event that was overtaken is missing.
NothingMissed ==
  \A i \in Committed : i <= stream.cursor => i \in Seen \cup overtaken

\* A stream that is on its way to its end has seen the turn at rest.
ClosingOK ==
  /\ stream.at \in {"tail", "closed"} => rested
  /\ stream.at = "list" /\ stream.draining => rested
  /\ stream.at = "wait" => ~stream.draining

Database == /\ \A x \in Writer : TxOK(x)
            /\ Apart
            /\ EndingShown

Streaming == /\ CursorOK
             /\ NothingMissed
             /\ ClosingOK
             /\ NeverTwice
             /\ FinalDrain

\* The inductive invariant.
IInv == TypeOK /\ Database /\ Streaming

\* What the writers leave of the observer's invariant: committed events stay,
\* one that appears below the cursor has been overtaken.
Grows ==
  /\ stream' = stream
  /\ overtaken \subseteq overtaken'
  /\ Committed \subseteq Committed'
  /\ \A i \in Committed' \ Committed : i <= stream.cursor => i \in overtaken'

-----------------------------------------------------------------------------
(* Facts about the data *)

\* What typing gives, spelled out.
LEMMA Typed ==
  ASSUME IInv
  PROVE  /\ Committed \subseteq DOMAIN event /\ DOMAIN event = 1..Len(event)
         /\ DOMAIN event \subseteq 1..MaxEvent /\ Len(event) \in Nat
         /\ MaxEvent \in Nat
         /\ \A i \in DOMAIN event : event[i] \in Event
         /\ \A x \in Writer : tx[x] \in Transaction
         /\ NoTx \in Transaction /\ Nobody \notin Writer
         /\ Worker \subseteq Writer /\ {"decision", "user", "sweep"} \subseteq Writer
         /\ Worker \cap {"decision", "user", "sweep"} = {}
<1>1. event \in Seq(Event) /\ Len(event) <= MaxEvent /\ MaxEvent \in Nat
  BY SizesAssumption DEF IInv, TypeOK
<1>2. /\ DOMAIN event = 1..Len(event) /\ Len(event) \in Nat
      /\ \A i \in DOMAIN event : event[i] \in Event
  BY <1>1
<1>3. DOMAIN event \subseteq 1..MaxEvent /\ Committed \subseteq DOMAIN event
  BY <1>1, <1>2 DEF Committed
<1>4. \A x \in Writer : tx[x] \in Transaction
  BY DEF IInv, TypeOK
<1>5. NoTx \in Transaction
  BY DEF NoTx, Transaction, Goal
<1>6. /\ Nobody \notin Writer
      /\ Worker \subseteq Writer /\ {"decision", "user", "sweep"} \subseteq Writer
      /\ Worker \cap {"decision", "user", "sweep"} = {}
  BY WorkersAssumption DEF Writer, Nobody
<1>7. QED
  BY <1>1, <1>2, <1>3, <1>4, <1>5, <1>6

\* An insert makes room for one more open event and leaves the others.
LEMMA Appended ==
  ASSUME IInv, Len(event) < MaxEvent, NEW kind \in Kind,
         event' = Append(event, [kind |-> kind, state |-> "open"])
  PROVE  /\ event' \in Seq(Event) /\ Len(event') <= MaxEvent
         /\ DOMAIN event' = DOMAIN event \cup {Len(event) + 1}
         /\ Len(event) + 1 \notin DOMAIN event
         /\ \A i \in DOMAIN event : event'[i] = event[i]
         /\ event'[Len(event) + 1] = [kind |-> kind, state |-> "open"]
         /\ Committed' = Committed
<1> DEFINE e == [kind |-> kind, state |-> "open"]
           n == Len(event) + 1
<1>1. e \in Event /\ e.state = "open"
  BY DEF Event
<1>2. event \in Seq(Event) /\ Len(event) \in Nat /\ MaxEvent \in Nat
  BY Typed DEF IInv, TypeOK
<1> HIDE DEF e
<1>3. /\ event' \in Seq(Event) /\ Len(event') = n
      /\ DOMAIN event' = 1..n /\ DOMAIN event = 1..Len(event)
      /\ \A i \in 1..Len(event) : event'[i] = event[i]
      /\ event'[n] = e
  BY <1>1, <1>2 DEF e
<1>4. DOMAIN event' = DOMAIN event \cup {n} /\ n \notin DOMAIN event
  BY <1>2, <1>3
<1>5. Committed' = Committed
  BY <1>1, <1>3, <1>4 DEF Committed
<1>6. QED
  BY <1>2, <1>3, <1>4, <1>5 DEF e

\* Ending a transaction sets the state of its events and of no other.
LEMMA Settled ==
  ASSUME IInv, NEW x \in Writer, NEW state \in {"committed", "aborted"},
         event' = [i \in DOMAIN event |->
                     IF i \in tx[x].ids THEN [event[i] EXCEPT !.state = state]
                                        ELSE event[i]]
  PROVE  /\ event' \in Seq(Event) /\ Len(event') <= MaxEvent
         /\ DOMAIN event' = DOMAIN event
         /\ \A i \in DOMAIN event :
              /\ event'[i].kind = event[i].kind
              /\ i \notin tx[x].ids => event'[i] = event[i]
              /\ i \in tx[x].ids => event'[i].state = state
         /\ tx[x].ids \subseteq DOMAIN event /\ tx[x].ids \cap Committed = {}
         /\ Committed' = IF state = "committed" THEN Committed \cup tx[x].ids
                                                ELSE Committed
<1>1. /\ event \in Seq(Event) /\ Len(event) <= MaxEvent
      /\ \A i \in DOMAIN event : event[i] \in Event
      /\ DOMAIN event = 1..Len(event) /\ Len(event) \in Nat
  BY Typed DEF IInv, TypeOK
<1>2. /\ tx[x].ids \subseteq DOMAIN event
      /\ \A i \in tx[x].ids : event[i].state = "open"
  BY DEF IInv, Database, TxOK
<1>3. \A i \in DOMAIN event :
        /\ event'[i] \in Event
        /\ event'[i].kind = event[i].kind
        /\ i \notin tx[x].ids => event'[i] = event[i]
        /\ i \in tx[x].ids => event'[i].state = state
  BY <1>1 DEF Event
<1>4. event' \in [1..Len(event) -> Event]
  BY <1>1, <1>3
<1>5. event' \in Seq(Event) /\ Len(event') = Len(event) /\ DOMAIN event' = DOMAIN event
  BY <1>1, <1>4
<1>6. Committed' = IF state = "committed" THEN Committed \cup tx[x].ids
                                          ELSE Committed
  BY <1>2, <1>3, <1>5 DEF Committed
<1>7. tx[x].ids \cap Committed = {}
  BY <1>2 DEF Committed
<1>8. QED
  BY <1>1, <1>2, <1>3, <1>5, <1>6, <1>7

-----------------------------------------------------------------------------
(* What the steps of transactions preserve *)

\* A transaction that begins with an insert (ai_turn_events, worker.go:1608).
LEMMA BeginInsertKeeps ==
  ASSUME IInv, Observe, NEW x \in Writer,
         NEW goal \in {"event", "ask", "decide", "ended", "waiting"},
         NEW kind \in Kind, kind = "terminal" => goal = "ended",
         BeginInsert(x, goal, kind),
         UNCHANGED <<turn, run, holder, overtaken, stream>>
  PROVE  TypeOK' /\ Database' /\ Grows
<1> DEFINE n == Len(event) + 1
           new == [goal |-> goal, ids |-> {n}, stage |-> "inserted"]
<1>1. /\ tx[x] = NoTx /\ tx \in [Writer -> Transaction]
      /\ tx' = [tx EXCEPT ![x] = new]
      /\ event' = Append(event, [kind |-> kind, state |-> "open"])
      /\ Len(event) < MaxEvent
  BY DEF BeginInsert, Idle, IInv, TypeOK, Database, TxOK
<1>2. /\ event' \in Seq(Event) /\ Len(event') <= MaxEvent
      /\ DOMAIN event' = DOMAIN event \cup {n} /\ n \notin DOMAIN event
      /\ \A i \in DOMAIN event : event'[i] = event[i]
      /\ event'[n] = [kind |-> kind, state |-> "open"]
      /\ Committed' = Committed
  BY <1>1, Appended
<1>3. n \in 1..MaxEvent
  BY <1>1, Typed
<1> HIDE DEF n
<1>4. /\ new \in Transaction /\ new.goal = goal /\ new.ids = {n}
      /\ new.stage = "inserted"
  BY <1>3 DEF Transaction, Goal
<1> HIDE DEF new
<1>5. /\ tx' \in [Writer -> Transaction] /\ tx'[x] = new
      /\ \A y \in Writer \ {x} : tx'[y] = tx[y]
  BY <1>1, <1>4
<1>6. TypeOK'
  BY <1>2, <1>5 DEF IInv, TypeOK, Observe
<1>7. holder # x
  BY <1>1 DEF IInv, Database, TxOK, NoTx
<1>8. TxOK(x)'
  BY <1>2, <1>4, <1>5, <1>7 DEF TxOK
<1>9. \A y \in Writer \ {x} : TxOK(y)'
  BY <1>2, <1>5 DEF IInv, Database, TxOK
<1>10. Apart'
  <2>1. \A y \in Writer \ {x} : n \notin tx[y].ids
    BY <1>2 DEF IInv, Database, TxOK
  <2>2. QED
    BY <1>4, <1>5, <2>1 DEF Apart, IInv, Database
<1>11. EndingShown'
  <2>1. \A i \in Committed : event'[i] = event[i]
    BY <1>2, Typed
  <2>2. QED
    BY <1>2, <2>1 DEF EndingShown, IInv, Database
<1>12. Grows
  BY <1>2 DEF Grows
<1>13. QED
  BY <1>6, <1>8, <1>9, <1>10, <1>11, <1>12 DEF Database

\* A transaction that begins with the lock of a turn that has not ended.
LEMMA BeginLockedKeeps ==
  ASSUME IInv, Observe, NEW x \in Writer,
         NEW goal \in {"answer", "request", "ended", "queued"},
         BeginLocked(x, goal), turn.status # "ended",
         goal = "answer" => turn.status = "waiting",
         UNCHANGED <<turn, run, event, overtaken, stream>>
  PROVE  TypeOK' /\ Database' /\ Grows
<1> DEFINE new == [goal |-> goal, ids |-> {}, stage |-> "updated"]
<1>1. /\ tx[x] = NoTx /\ tx \in [Writer -> Transaction]
      /\ tx' = [tx EXCEPT ![x] = new]
      /\ holder = Nobody /\ holder' = x
  BY DEF BeginLocked, Idle, IInv, TypeOK, Database, TxOK
<1>2. /\ new \in Transaction /\ new.goal = goal /\ new.ids = {}
      /\ new.stage = "updated"
  BY DEF Transaction, Goal
<1> HIDE DEF new
<1>3. /\ tx' \in [Writer -> Transaction] /\ tx'[x] = new
      /\ \A y \in Writer \ {x} : tx'[y] = tx[y]
  BY <1>1, <1>2
<1>4. Committed' = Committed
  BY DEF Committed
<1>5. TypeOK'
  BY <1>1, <1>3 DEF IInv, TypeOK, Observe
<1>6. TxOK(x)'
  BY <1>1, <1>2, <1>3 DEF TxOK
<1>7. \A y \in Writer \ {x} : TxOK(y)'
  BY <1>1, <1>3, Typed DEF IInv, Database, TxOK
<1>8. Apart'
  BY <1>2, <1>3 DEF Apart, IInv, Database
<1>9. EndingShown'
  BY <1>4 DEF EndingShown, IInv, Database
<1>10. Grows
  BY <1>4 DEF Grows
<1>11. QED
  BY <1>5, <1>6, <1>7, <1>8, <1>9, <1>10 DEF Database

\* The holder of the lock inserts its event.
LEMMA InsertLockedKeeps ==
  ASSUME IInv, Observe, NEW x \in Writer, NEW kind \in Kind,
         kind = "terminal" => tx[x].goal = "ended",
         InsertLocked(x, kind),
         UNCHANGED <<turn, run, holder, overtaken, stream>>
  PROVE  TypeOK' /\ Database' /\ Grows
<1> DEFINE n == Len(event) + 1
           r == tx[x]
           new == [r EXCEPT !.ids = {n}, !.stage = "both"]
<1>1. /\ tx \in [Writer -> Transaction] /\ r \in Transaction
      /\ tx' = [tx EXCEPT ![x] = new]
      /\ event' = Append(event, [kind |-> kind, state |-> "open"])
      /\ Len(event) < MaxEvent /\ r.stage = "updated" /\ holder = x
  BY DEF InsertLocked, IInv, TypeOK
<1>2. /\ event' \in Seq(Event) /\ Len(event') <= MaxEvent
      /\ DOMAIN event' = DOMAIN event \cup {n} /\ n \notin DOMAIN event
      /\ \A i \in DOMAIN event : event'[i] = event[i]
      /\ event'[n] = [kind |-> kind, state |-> "open"]
      /\ Committed' = Committed
  BY <1>1, Appended
<1>3. n \in 1..MaxEvent
  BY <1>1, Typed
<1>4. TxOK(x) /\ r.goal # "none"
  BY <1>1 DEF IInv, Database, TxOK, NoTx
<1> HIDE DEF n
<1>5. /\ new \in Transaction /\ new.goal = r.goal /\ new.ids = {n}
      /\ new.stage = "both"
  BY <1>1, <1>3 DEF Transaction, Goal
<1> HIDE DEF new
<1>6. /\ tx' \in [Writer -> Transaction] /\ tx'[x] = new
      /\ \A y \in Writer \ {x} : tx'[y] = tx[y]
  BY <1>1, <1>5
<1>7. TypeOK'
  BY <1>2, <1>6 DEF IInv, TypeOK, Observe
<1>8. TxOK(x)'
  BY <1>1, <1>2, <1>4, <1>5, <1>6 DEF TxOK
<1>9. \A y \in Writer \ {x} : TxOK(y)'
  BY <1>2, <1>6 DEF IInv, Database, TxOK
<1>10. Apart'
  <2>1. \A y \in Writer \ {x} : n \notin tx[y].ids
    BY <1>2 DEF IInv, Database, TxOK
  <2>2. QED
    BY <1>5, <1>6, <2>1 DEF Apart, IInv, Database
<1>11. EndingShown'
  <2>1. \A i \in Committed : event'[i] = event[i]
    BY <1>2, Typed
  <2>2. QED
    BY <1>2, <2>1 DEF EndingShown, IInv, Database
<1>12. Grows
  BY <1>2 DEF Grows
<1>13. QED
  BY <1>7, <1>8, <1>9, <1>10, <1>11, <1>12 DEF Database

\* A worker locks the row for its guarded update (worker.go:1678,
\* user_question.go:105).
LEMMA UpdateTurnKeeps ==
  ASSUME IInv, Observe, NEW w \in Worker, UpdateTurn(w)
  PROVE  TypeOK' /\ Database' /\ Grows
<1> DEFINE r == tx[w]
           new == [r EXCEPT !.stage = "both"]
<1>1. /\ w \in Writer /\ tx \in [Writer -> Transaction] /\ r \in Transaction
      /\ tx' = [tx EXCEPT ![w] = new]
      /\ holder = Nobody /\ holder' = w /\ turn.status = "running"
      /\ r.goal \in {"ended", "waiting"}
      /\ UNCHANGED <<turn, run, event, overtaken, stream>>
  BY Typed DEF UpdateTurn, Owns, IInv, TypeOK
<1>2. /\ new \in Transaction /\ new.goal = r.goal /\ new.ids = r.ids
      /\ new.stage = "both"
  BY <1>1 DEF Transaction, Goal
<1> HIDE DEF new
<1>3. /\ tx' \in [Writer -> Transaction] /\ tx'[w] = new
      /\ \A y \in Writer \ {w} : tx'[y] = tx[y]
  BY <1>1, <1>2
<1>4. Committed' = Committed
  BY <1>1 DEF Committed
<1>5. TypeOK'
  BY <1>1, <1>3 DEF IInv, TypeOK, Observe
<1>6. TxOK(w)
  BY <1>1 DEF IInv, Database
<1>7. TxOK(w)'
  BY <1>1, <1>2, <1>3, <1>6 DEF TxOK
<1>8. \A y \in Writer \ {w} : TxOK(y)'
  BY <1>1, <1>3, Typed DEF IInv, Database, TxOK
<1>9. Apart'
  BY <1>1, <1>2, <1>3 DEF Apart, IInv, Database
<1>10. EndingShown'
  BY <1>1, <1>4 DEF EndingShown, IInv, Database
<1>11. Grows
  BY <1>1, <1>4 DEF Grows
<1>12. QED
  BY <1>5, <1>7, <1>8, <1>9, <1>10, <1>11 DEF Database

\* What a transaction that commits leaves of the turn's row: whoever changes
\* the status has held the lock of a turn that has not ended.
LEMMA RowOf ==
  ASSUME IInv, NEW x \in Writer, Complete(x)
  PROVE  /\ Row(x) \in Turn /\ (Row(x).lease => Row(x).status = "running")
         /\ tx[x].goal = "ended" => Row(x).status = "ended"
         /\ holder # x => Row(x).status = turn.status
<1> DEFINE goal == tx[x].goal
<1>1. /\ turn \in Turn /\ (turn.lease => turn.status = "running")
      /\ tx[x] \in Transaction
  BY DEF IInv, TypeOK
<1>2. TxOK(x)
  BY DEF IInv, Database
<1>3. CASE goal \in {"event", "ask", "decide"}
  BY <1>1, <1>3 DEF Row, Turn
<1>4. CASE goal = "request"
  <2>1. Row(x) = [turn EXCEPT !.approval = FALSE, !.cancel = TRUE]
    BY <1>4 DEF Row
  <2>2. QED
    BY <1>1, <1>4, <2>1 DEF Turn
<1>5. CASE goal = "answer"
  <2>1. Row(x) = [turn EXCEPT !.status = "queued"] /\ turn.status = "waiting"
    BY <1>2, <1>5 DEF Row, TxOK
  <2>2. holder = x
    BY <1>2, <1>5 DEF TxOK
  <2>3. QED
    BY <1>1, <1>5, <2>1, <2>2 DEF Turn
<1>6. CASE goal \in {"ended", "waiting", "queued"}
  <2> DEFINE row == [turn EXCEPT !.status = goal, !.owner = Nobody, !.lease = FALSE]
  <2>1. Row(x) = row
    BY <1>6 DEF Row
  <2>2. holder = x
    BY <1>2, <1>6 DEF TxOK, Complete
  <2>3. row \in Turn /\ row.status = goal /\ row.lease = FALSE
    BY <1>1, <1>6 DEF Turn, Rest
  <2>4. QED
    BY <1>6, <2>1, <2>2, <2>3
<1>7. goal # "none"
  BY DEF Complete
<1>8. QED
  BY <1>1, <1>3, <1>4, <1>5, <1>6, <1>7 DEF Transaction, Goal

\* When a transaction ends its writer is idle and holds nothing; the others
\* keep what they have.
LEMMA OthersKept ==
  ASSUME IInv, NEW x \in Writer, tx' = [tx EXCEPT ![x] = NoTx],
         holder' = IF holder = x THEN Nobody ELSE holder,
         DOMAIN event' = DOMAIN event,
         \A i \in DOMAIN event \ tx[x].ids : event'[i] = event[i],
         holder # x => turn'.status = turn.status
  PROVE  /\ tx' \in [Writer -> Transaction]
         /\ holder' \in Writer \cup {Nobody}
         /\ \A y \in Writer : TxOK(y)'
         /\ Apart'
<1>1. /\ tx \in [Writer -> Transaction] /\ holder \in Writer \cup {Nobody}
      /\ NoTx \in Transaction /\ Nobody \notin Writer
  BY Typed DEF IInv, TypeOK
<1>2. tx'[x] = NoTx /\ \A y \in Writer \ {x} : tx'[y] = tx[y]
  BY <1>1
<1>3. NoTx.ids = {} /\ NoTx.goal = "none" /\ NoTx.stage = "begun"
  BY DEF NoTx
<1>4. TxOK(x)'
  BY <1>1, <1>2, <1>3 DEF TxOK
<1>5. ASSUME NEW y \in Writer \ {x}
      PROVE  TxOK(y)'
  <2>1. TxOK(y) /\ tx'[y] = tx[y] /\ tx[y].ids \cap tx[x].ids = {}
    BY <1>2 DEF IInv, Database, Apart
  <2>2. \A i \in tx[y].ids : event'[i] = event[i]
    BY <2>1 DEF TxOK
  <2>3. holder' = y <=> holder = y
    BY <1>1
  <2>4. QED
    BY <2>1, <2>2, <2>3 DEF TxOK
<1>6. Apart'
  BY <1>2, <1>3 DEF Apart, IInv, Database
<1>7. QED
  BY <1>1, <1>2, <1>4, <1>5, <1>6

\* A commit shows the events of its transaction: one with the end of the turn
\* ends it, one below an event committed before is overtaken.
LEMMA CommitKeeps ==
  ASSUME IInv, Observe, NEW x \in Writer, Commit(x)
  PROVE  TypeOK' /\ Database' /\ Grows
<1> DEFINE ids == tx[x].ids
<1>1. /\ Complete(x) /\ turn' = Row(x) /\ stream' = stream
      /\ tx' = [tx EXCEPT ![x] = NoTx]
      /\ holder' = IF holder = x THEN Nobody ELSE holder
      /\ overtaken' = overtaken \cup {i \in ids : \E j \in Committed : j > i}
  BY DEF Commit
<1>2. /\ event' \in Seq(Event) /\ Len(event') <= MaxEvent
      /\ DOMAIN event' = DOMAIN event
      /\ \A i \in DOMAIN event : /\ event'[i].kind = event[i].kind
                                 /\ i \notin ids => event'[i] = event[i]
      /\ ids \subseteq DOMAIN event /\ ids \cap Committed = {}
      /\ Committed' = Committed \cup ids
  BY Settled DEF Commit
<1>3. /\ turn' \in Turn /\ (turn'.lease => turn'.status = "running")
      /\ tx[x].goal = "ended" => turn'.status = "ended"
      /\ holder # x => turn'.status = turn.status
  BY <1>1, RowOf
<1>4. /\ tx' \in [Writer -> Transaction] /\ holder' \in Writer \cup {Nobody}
      /\ \A y \in Writer : TxOK(y)'
      /\ Apart'
  BY <1>1, <1>2, <1>3, OthersKept
<1>5. run' \in [Worker -> {"off", "on", "asking"}]
  BY DEF Commit, IInv, TypeOK
<1>6. TypeOK'
  BY <1>1, <1>2, <1>3, <1>4, <1>5 DEF IInv, TypeOK, Observe
<1>7. EndingShown'
  <2> SUFFICES ASSUME NEW i \in Committed \cup ids, event'[i].kind = "terminal"
               PROVE  turn'.status = "ended"
    BY <1>2 DEF EndingShown
  <2>1. event[i].kind = "terminal"
    BY <1>2, Typed
  <2>2. CASE i \in ids
    BY <1>3, <2>1, <2>2 DEF IInv, Database, TxOK
  <2>3. CASE i \in Committed
    <3>1. turn.status = "ended"
      BY <2>1, <2>3 DEF IInv, Database, EndingShown
    <3>2. holder # x
      BY <3>1 DEF IInv, Database, TxOK
    <3>3. QED
      BY <1>3, <3>1, <3>2
  <2>4. QED
    BY <2>2, <2>3
<1>8. Grows
  <2>1. \A i \in ids : i \in Nat /\ i > 0
    BY <1>2, Typed
  <2>2. ASSUME NEW i \in ids, i <= stream.cursor
        PROVE  i \in overtaken'
    <3>1. stream.cursor \in Committed \cup {0}
      BY DEF IInv, Streaming, CursorOK
    <3>2. stream.cursor \in Committed /\ stream.cursor # i
      BY <1>2, <2>1, <2>2, <3>1
    <3>3. stream.cursor > i
      BY <2>1, <2>2, <3>2, Typed
    <3>4. QED
      BY <1>1, <3>2, <3>3
  <2>3. QED
    BY <1>1, <1>2, <2>2 DEF Grows
<1>9. QED
  BY <1>4, <1>6, <1>7, <1>8 DEF Database

\* A rollback leaves an id nobody will ever see.
LEMMA RollbackKeeps ==
  ASSUME IInv, Observe, NEW x \in Writer, Rollback(x)
  PROVE  TypeOK' /\ Database' /\ Grows
<1> DEFINE ids == tx[x].ids
<1>1. /\ tx' = [tx EXCEPT ![x] = NoTx]
      /\ holder' = IF holder = x THEN Nobody ELSE holder
      /\ UNCHANGED <<turn, overtaken, stream>>
  BY DEF Rollback
<1>2. /\ event' \in Seq(Event) /\ Len(event') <= MaxEvent
      /\ DOMAIN event' = DOMAIN event
      /\ \A i \in DOMAIN event : /\ event'[i].kind = event[i].kind
                                 /\ i \notin ids => event'[i] = event[i]
      /\ Committed' = Committed
  BY Settled DEF Rollback
<1>3. /\ tx' \in [Writer -> Transaction] /\ holder' \in Writer \cup {Nobody}
      /\ \A y \in Writer : TxOK(y)'
      /\ Apart'
  BY <1>1, <1>2, OthersKept
<1>4. run' \in [Worker -> {"off", "on", "asking"}]
  BY DEF Rollback, IInv, TypeOK
<1>5. TypeOK'
  BY <1>1, <1>2, <1>3, <1>4 DEF IInv, TypeOK, Observe
<1>6. EndingShown'
  BY <1>1, <1>2, Typed DEF EndingShown, IInv, Database
<1>7. Grows
  BY <1>1, <1>2 DEF Grows
<1>8. QED
  BY <1>3, <1>5, <1>6, <1>7 DEF Database

\* Statements on the turn's row alone, which need its lock only to claim it.
LEMMA RowStepKeeps ==
  ASSUME IInv, Observe,
         \/ \E w \in Worker : Claim(w) \/ EndOfWait(w) \/ Leave(w)
         \/ LeaseLapses
  PROVE  TypeOK' /\ Database' /\ Grows
<1>1. UNCHANGED <<tx, holder, event, overtaken, stream>>
  BY DEF Claim, EndOfWait, Leave, LeaseLapses
<1>2. /\ turn \in Turn /\ (turn.lease => turn.status = "running")
      /\ run \in [Worker -> {"off", "on", "asking"}]
  BY DEF IInv, TypeOK
<1>3. /\ turn' \in Turn /\ (turn'.lease => turn'.status = "running")
      /\ run' \in [Worker -> {"off", "on", "asking"}]
      /\ \/ turn'.status = turn.status
         \/ turn.status = "queued" /\ turn'.status = "running"
  <2>1. CASE \E w \in Worker : Claim(w)
    <3>1. PICK w \in Worker : Claim(w)
      BY <2>1
    <3> DEFINE row == [turn EXCEPT !.status = "running", !.owner = w, !.lease = TRUE]
    <3>2. /\ turn' = row /\ turn.status = "queued"
          /\ run' = [run EXCEPT ![w] = "on"]
      BY <3>1 DEF Claim
    <3>3. row \in Turn /\ row.status = "running"
      BY <1>2 DEF Turn
    <3>4. QED
      BY <1>2, <3>2, <3>3
  <2>2. CASE \E w \in Worker : EndOfWait(w)
    BY <1>2, <2>2 DEF EndOfWait, Turn
  <2>3. CASE \E w \in Worker : Leave(w)
    BY <1>2, <2>3 DEF Leave
  <2>4. CASE LeaseLapses
    BY <1>2, <2>4 DEF LeaseLapses, Turn
  <2>5. QED
    BY <2>1, <2>2, <2>3, <2>4
<1>4. Committed' = Committed
  BY <1>1 DEF Committed
<1>5. TypeOK'
  BY <1>1, <1>3 DEF IInv, TypeOK, Observe
<1>6. Database'
  BY <1>1, <1>3, <1>4 DEF IInv, Database, TxOK, Apart, EndingShown
<1>7. Grows
  BY <1>1, <1>4 DEF Grows
<1>8. QED
  BY <1>5, <1>6, <1>7

\* Every step of the workers, the sweep and the handlers.
LEMMA WritingKeeps ==
  ASSUME IInv, Writing, Observe
  PROVE  TypeOK' /\ Database' /\ Grows
<1>1. /\ Worker \subseteq Writer
      /\ "decision" \in Writer /\ "user" \in Writer /\ "sweep" \in Writer
  BY Typed
<1>2. ASSUME NEW w \in Worker, WriteEvent(w)
      PROVE  TypeOK' /\ Database' /\ Grows
  BY <1>1, <1>2, BeginInsertKeeps DEF WriteEvent, Kind
<1>3. ASSUME NEW w \in Worker, requestMCPApproval(w)
      PROVE  TypeOK' /\ Database' /\ Grows
  BY <1>1, <1>3, BeginInsertKeeps DEF requestMCPApproval, Kind
<1>4. ASSUME NEW w \in Worker, BeginFinalize(w)
      PROVE  TypeOK' /\ Database' /\ Grows
  BY <1>1, <1>4, BeginInsertKeeps DEF BeginFinalize, Kind
<1>5. ASSUME NEW w \in Worker, BeginPark(w)
      PROVE  TypeOK' /\ Database' /\ Grows
  BY <1>1, <1>5, BeginInsertKeeps DEF BeginPark, Kind
<1>6. CASE BeginDecide
  BY <1>1, <1>6, BeginInsertKeeps DEF BeginDecide, Kind
<1>7. CASE BeginSweep
  <2>1. PICK goal \in {"ended", "queued"} : BeginLocked("sweep", goal)
    BY <1>7 DEF BeginSweep
  <2>2. QED
    BY <1>1, <1>7, <2>1, BeginLockedKeeps DEF BeginSweep
<1>8. CASE BeginEvict
  BY <1>1, <1>8, BeginLockedKeeps DEF BeginEvict
<1>9. CASE BeginCancel
  <2>1. PICK goal \in {"request", "ended"} : BeginLocked("user", goal)
    BY <1>9 DEF BeginCancel
  <2>2. QED
    BY <1>1, <1>9, <2>1, BeginLockedKeeps DEF BeginCancel
<1>10. CASE BeginAnswer
  BY <1>1, <1>10, BeginLockedKeeps DEF BeginAnswer
<1>11. CASE InsertSwept
  BY <1>1, <1>11, InsertLockedKeeps DEF InsertSwept, Kind
<1>12. CASE InsertEvicted
  BY <1>1, <1>12, InsertLockedKeeps DEF InsertEvicted, Kind
<1>13. CASE InsertByUser
  <2>1. PICK kind \in {"terminal", "data"} :
          /\ InsertLocked("user", kind)
          /\ kind = "terminal" => tx["user"].goal = "ended"
    BY <1>13 DEF InsertByUser
  <2>2. QED
    BY <1>1, <1>13, <2>1, InsertLockedKeeps DEF InsertByUser, Kind
<1>14. CASE \/ \E w \in Worker : Claim(w) \/ EndOfWait(w) \/ Leave(w)
            \/ LeaseLapses
  BY <1>14, RowStepKeeps
<1>15. CASE \E w \in Worker : UpdateTurn(w)
  BY <1>15, UpdateTurnKeeps
<1>16. CASE \E x \in Writer : Commit(x) \/ Rollback(x)
  BY <1>16, CommitKeeps, RollbackKeeps
<1>17. QED
  BY <1>2, <1>3, <1>4, <1>5, <1>6, <1>7, <1>8, <1>9, <1>10, <1>11, <1>12, <1>13, <1>14, <1>15, <1>16 DEF Writing

-----------------------------------------------------------------------------
(* What the writers and the observer leave of the stream *)

\* Writers add to what is committed; the stream's beliefs survive.
LEMMA GrowsKeeps ==
  ASSUME IInv, Grows, Observe
  PROVE  Streaming'
<1>1. CursorOK'
  BY DEF IInv, Streaming, CursorOK, Grows, Seen
<1>2. NothingMissed'
  BY DEF IInv, Streaming, NothingMissed, Grows, Seen
<1>3. ClosingOK'
  BY DEF IInv, Streaming, ClosingOK, Grows, Observe
<1>4. NeverTwice'
  BY DEF IInv, Streaming, NeverTwice, Grows
<1>5. FinalDrain'
  BY DEF IInv, Streaming, FinalDrain, Grows, Seen
<1>6. QED
  BY <1>1, <1>2, <1>3, <1>4, <1>5 DEF Streaming

\* The observer leaves the database alone.
LEMMA ReaderKeepsDatabase ==
  ASSUME IInv, OnlyStream
  PROVE  Database' /\ Committed' = Committed
BY DEF IInv, OnlyStream, Database, TxOK, Apart, EndingShown, Committed

\* What holds of an observer that has s: CursorOK, NothingMissed and NeverTwice
\* of a stream that is not yet the observer's.
Beliefs(s) ==
  LET seen == s.shown \cup s.got \cup s.last IN
  /\ s \in Stream
  /\ s.cursor \in Committed \cup {0}
  /\ \A i \in seen : i <= s.cursor
  /\ \A i \in Committed : i <= s.cursor => i \in seen \cup overtaken
  /\ s.last \cap (s.got \cup s.shown) = {}
  /\ \A i \in s.got, j \in s.last : i < j

\* The observer's beliefs are those of its stream.
LEMMA NowBelieved ==
  ASSUME IInv
  PROVE  Beliefs(stream)
BY DEF IInv, TypeOK, Streaming, CursorOK, NothingMissed, NeverTwice, Seen, Beliefs

\* They are about the cursor and the events, not about where the handler is.
LEMMA Moved ==
  ASSUME NEW s, Beliefs(s), NEW t \in Stream, t.cursor = s.cursor,
         t.shown = s.shown, t.got = s.got, t.last = s.last
  PROVE  Beliefs(t)
BY DEF Beliefs

\* What an update of where the handler is does to a stream.
LEMMA At ==
  ASSUME NEW s \in Stream,
         NEW a \in {"away", "list", "wait", "tail", "closed"},
         NEW t, t = [s EXCEPT !.at = a]
  PROVE  /\ t \in Stream /\ t.at = a /\ t.draining = s.draining
         /\ t.cursor = s.cursor /\ t.shown = s.shown /\ t.got = s.got
         /\ t.last = s.last /\ t.due = s.due
BY DEF Stream

\* An update that says whether the handler drains the events, and a page sent.
Goes(s, a, d) == [s EXCEPT !.at = a, !.draining = d]

Takes(s, g, page, c) == [s EXCEPT !.got = g, !.last = page, !.cursor = c]

\* What such an update does to a stream.
LEMMA Draining ==
  ASSUME NEW s \in Stream,
         NEW a \in {"away", "list", "wait", "tail", "closed"},
         NEW d \in BOOLEAN
  PROVE  LET t == Goes(s, a, d) IN
         /\ t \in Stream /\ t.at = a /\ t.draining = d
         /\ t.cursor = s.cursor /\ t.shown = s.shown /\ t.got = s.got
         /\ t.last = s.last /\ t.due = s.due
BY DEF Stream, Goes

\* The same for a page that was sent.
LEMMA Paged ==
  ASSUME NEW s \in Stream, NEW g \in SUBSET (1..MaxEvent),
         NEW page \in SUBSET (1..MaxEvent), NEW c \in 0..MaxEvent
  PROVE  LET t == Takes(s, g, page, c) IN
         /\ t \in Stream /\ t.at = s.at /\ t.draining = s.draining
         /\ t.cursor = c /\ t.shown = s.shown /\ t.got = g
         /\ t.last = page /\ t.due = s.due
BY DEF Stream, Takes

\* What the observer has after a page up to the id c: all of it was above the
\* cursor, and nothing between is left out.
LEMMA SentPage ==
  ASSUME IInv, NEW c \in Above(stream.cursor), NEW s, s = Sent(stream, c)
  PROVE  /\ Beliefs(s) /\ s.cursor = c
         /\ s.at = stream.at /\ s.draining = stream.draining
         /\ s.due = stream.due
<1> DEFINE page == Upto(stream.cursor, c)
           cur  == stream.cursor
           g    == stream.got \cup stream.last
<1>1. /\ stream \in Stream /\ cur \in Nat /\ MaxEvent \in Nat
      /\ Committed \subseteq 1..MaxEvent
      /\ stream.shown \subseteq 1..MaxEvent /\ stream.got \subseteq 1..MaxEvent
      /\ stream.last \subseteq 1..MaxEvent
  BY Typed DEF IInv, TypeOK, Stream
<1>2. c \in Committed /\ c > cur /\ c \in 0..MaxEvent /\ c \in Nat
  <2>1. c \in {i \in Committed : i > stream.cursor}
    BY DEF Above
  <2>2. c \in Committed /\ c > stream.cursor
    BY <2>1
  <2>3. MaxEvent \in Nat /\ c \in 1..MaxEvent
    BY <1>1, <2>2
  <2>4. c \in 0..MaxEvent /\ c \in Nat
    BY <2>3
  <2>5. QED
    BY <2>2, <2>4
<1>3. /\ page \subseteq Committed /\ page \subseteq 1..MaxEvent
      /\ \A i \in page : i > cur /\ i <= c
      /\ \A i \in Committed : i > cur /\ i <= c => i \in page
  BY <1>1 DEF Upto, Above
<1>4. /\ \A i \in stream.shown \cup stream.got \cup stream.last : i <= cur
      /\ \A i \in Committed : i <= cur =>
           i \in stream.shown \cup stream.got \cup stream.last \cup overtaken
  BY DEF IInv, Streaming, CursorOK, NothingMissed, Seen
<1>5. g \in SUBSET (1..MaxEvent)
  BY <1>1
<1>6. s = Takes(stream, g, page, c)
  BY <1>1 DEF Sent, Stream, Takes
<1>7. /\ s \in Stream /\ s.cursor = c /\ s.at = stream.at
      /\ s.draining = stream.draining /\ s.due = stream.due
      /\ s.shown = stream.shown /\ s.got = g /\ s.last = page
  <2> HIDE DEF g, page
  <2>1. page \in SUBSET (1..MaxEvent)
    BY <1>3
  <2>2. stream \in Stream /\ c \in 0..MaxEvent
    BY <1>1, <1>2
  <2>3. /\ s \in Stream /\ s.at = stream.at /\ s.draining = stream.draining
        /\ s.cursor = c /\ s.shown = stream.shown /\ s.got = g
        /\ s.last = page /\ s.due = stream.due
    BY <1>5, <1>6, <2>1, <2>2, Paged
  <2>4. QED
    BY <2>3
<1> HIDE DEF page
<1>8. \A i \in s.shown \cup s.got : i <= cur
  BY <1>4, <1>7
<1>9. \A i \in s.shown \cup s.got \cup s.last : i \in Nat
  <2>1. s.shown \cup s.got \cup s.last \subseteq 1..MaxEvent
    BY <1>1, <1>3, <1>5, <1>7
  <2>2. QED
    BY <1>1, <2>1
<1>10. \A i \in s.shown \cup s.got \cup s.last : i <= c
  BY <1>1, <1>2, <1>3, <1>7, <1>8, <1>9
<1>11. s.last \cap (s.got \cup s.shown) = {}
  BY <1>1, <1>3, <1>7, <1>8, <1>9
<1>12. \A i \in s.got, j \in s.last : i < j
  BY <1>1, <1>3, <1>7, <1>8, <1>9
<1>13. \A i \in Committed : i <= c =>
              i \in s.shown \cup s.got \cup s.last \cup overtaken
  <2> SUFFICES ASSUME NEW i \in Committed, i <= c
               PROVE  i \in s.shown \cup s.got \cup s.last \cup overtaken
    OBVIOUS
  <2>1. i \in Nat
    BY <1>1
  <2>2. CASE i <= cur
    BY <1>4, <1>7, <2>2
  <2>3. CASE i > cur
    BY <1>3, <1>7, <2>3
  <2>4. QED
    BY <1>1, <2>1, <2>2, <2>3
<1>14. QED
  BY <1>2, <1>7, <1>10, <1>11, <1>12, <1>13 DEF Beliefs

\* A step of the observer is right if its new stream is believed, knows of a
\* rest when it goes to its end, and has nothing left to send when it is there.
LEMMA ObserverKeeps ==
  ASSUME IInv, OnlyStream, Observe, Beliefs(stream'), ClosingOK',
         stream'.at = "closed" =>
           stream'.due = Committed /\ Above(stream'.cursor) = {}
  PROVE  TypeOK' /\ Database' /\ Streaming'
<1>1. Database' /\ Committed' = Committed /\ overtaken' = overtaken
  BY ReaderKeepsDatabase DEF OnlyStream
<1>2. TypeOK'
  BY DEF IInv, TypeOK, OnlyStream, Observe, Beliefs
<1>3. CursorOK' /\ NothingMissed' /\ NeverTwice'
  BY <1>1 DEF CursorOK, NothingMissed, NeverTwice, Seen, Beliefs
<1>4. FinalDrain'
  <2> SUFFICES ASSUME stream'.at = "closed", NEW i \in Committed
               PROVE  i \in Seen' \cup overtaken
    BY <1>1 DEF FinalDrain
  <2>1. i \in Nat /\ stream'.cursor \in Nat
    BY Typed DEF Beliefs, Stream
  <2>2. i <= stream'.cursor
    BY <2>1 DEF Above
  <2>3. QED
    BY <2>2 DEF Beliefs, Seen
<1>5. QED
  BY <1>1, <1>2, <1>3, <1>4 DEF Streaming

-----------------------------------------------------------------------------
(* The steps of the observer *)

\* A snapshot shows everything that is committed, and its cursor is above it.
LEMMA SnapshotKeeps ==
  ASSUME IInv, Snapshot, Observe
  PROVE  TypeOK' /\ Database' /\ Streaming'
<1>1. PICK cursor \in 0..MaxEvent :
        /\ EventCursor(cursor)
        /\ stream' = [at |-> "list", cursor |-> cursor, draining |-> FALSE,
                      shown |-> Committed, got |-> {}, last |-> {}, due |-> {}]
  BY DEF Snapshot
<1>2. Committed \in SUBSET (1..MaxEvent)
  BY Typed
<1>3. stream' \in Stream
  <2> DEFINE C == Committed
  <2>1. C \in SUBSET (1..MaxEvent)
    BY <1>2
  <2>2. stream' = [at |-> "list", cursor |-> cursor, draining |-> FALSE,
                   shown |-> C, got |-> {}, last |-> {}, due |-> {}]
    BY <1>1
  <2> HIDE DEF C
  <2>3. QED
    BY <2>1, <2>2 DEF Stream
<1>4. Beliefs(stream')
  BY <1>1, <1>3 DEF Beliefs, EventCursor
<1>5. ClosingOK'
  BY <1>1 DEF ClosingOK
<1>6. QED
  BY <1>1, <1>4, <1>5, ObserverKeeps DEF Snapshot

\* A reconnection starts again behind the cursor.
LEMMA ReconnectKeeps ==
  ASSUME IInv, Reconnect, Observe
  PROVE  TypeOK' /\ Database' /\ Streaming'
<1>1. stream \in Stream /\ Beliefs(stream)
  BY NowBelieved DEF Beliefs
<1>2. stream' = [stream EXCEPT !.at = "list", !.draining = FALSE]
  BY DEF Reconnect
<1>3. /\ stream' \in Stream /\ stream'.at = "list" /\ stream'.draining = FALSE
      /\ stream'.cursor = stream.cursor /\ stream'.shown = stream.shown
      /\ stream'.got = stream.got /\ stream'.last = stream.last
  <2>1. stream \in Stream
    BY <1>1
  <2>2. stream' = Goes(stream, "list", FALSE)
    BY <1>2 DEF Goes
  <2>3. QED
    BY <2>1, <2>2, Draining
<1>4. Beliefs(stream')
  BY <1>1, <1>3, Moved
<1>5. ClosingOK'
  BY <1>3 DEF ClosingOK
<1>6. QED
  BY <1>3, <1>4, <1>5, ObserverKeeps DEF Reconnect

\* A connection that breaks leaves the observer with a part of a page.
LEMMA DisconnectKeeps ==
  ASSUME IInv, Disconnect, Observe
  PROVE  TypeOK' /\ Database' /\ Streaming'
<1>1. Beliefs(stream)
  BY NowBelieved
<1>2. PICK s : Beliefs(s) /\ stream' = [s EXCEPT !.at = "away"]
  <2>1. CASE stream' = [stream EXCEPT !.at = "away"]
    BY <1>1, <2>1
  <2>2. CASE \E c \in EndOfPage(stream.cursor) : \E d \in Upto(stream.cursor, c) :
               stream' = [Sent(stream, d) EXCEPT !.at = "away"]
    <3>1. PICK d \in Above(stream.cursor) :
            stream' = [Sent(stream, d) EXCEPT !.at = "away"]
      BY <2>2 DEF Upto
    <3>2. d \in Above(stream.cursor)
      OBVIOUS
    <3>3. Beliefs(Sent(stream, d))
      BY <3>2, SentPage
    <3>4. QED
      BY <3>1, <3>3
  <2>3. QED
    BY <2>1, <2>2 DEF Disconnect
<1>3. /\ stream' \in Stream /\ stream'.at = "away"
      /\ stream'.cursor = s.cursor /\ stream'.shown = s.shown
      /\ stream'.got = s.got /\ stream'.last = s.last
  <2>1. s \in Stream
    BY <1>2 DEF Beliefs
  <2>2. QED
    BY <1>2, <2>1, At
<1>4. Beliefs(stream')
  BY <1>2, <1>3, Moved
<1>5. ClosingOK'
  BY <1>3 DEF ClosingOK
<1>6. QED
  BY <1>3, <1>4, <1>5, ObserverKeeps DEF Disconnect

\* A stream whose observer has nothing left to list is closed, when it was on
\* its way to its end.
LEMMA ClosedKeeps ==
  ASSUME IInv, OnlyStream, Observe, rested, NothingToList,
         stream.at \notin {"away", "closed"},
         stream' = Closed(stream)
  PROVE  TypeOK' /\ Database' /\ Streaming'
<1> DEFINE C == Committed
<1>1. Beliefs(stream) /\ stream \in Stream /\ C \in SUBSET (1..MaxEvent)
  BY NowBelieved, Typed DEF Beliefs
<1>2. stream' = [stream EXCEPT !.at = "closed", !.due = C]
  BY DEF Closed
<1>3. /\ stream' \in Stream /\ stream'.at = "closed" /\ stream'.due = C
      /\ stream'.cursor = stream.cursor /\ stream'.shown = stream.shown
      /\ stream'.got = stream.got /\ stream'.last = stream.last
  <2> HIDE DEF C
  <2>1. QED
    BY <1>1, <1>2 DEF Stream
<1>4. Beliefs(stream')
  BY <1>1, <1>3, Moved
<1>5. rested'
  BY <1>3 DEF Observe
<1>6. ClosingOK'
  BY <1>3, <1>5 DEF ClosingOK
<1>7. Above(stream'.cursor) = {}
  BY <1>3 DEF NothingToList
<1>8. QED
  BY <1>3, <1>4, <1>6, <1>7, ObserverKeeps

\* A page: one with a terminal event, of a turn that has ended, goes to the tail.
LEMMA ListKeeps ==
  ASSUME IInv, List, Observe
  PROVE  TypeOK' /\ Database' /\ Streaming'
<1>1. /\ stream \in Stream /\ Beliefs(stream) /\ OnlyStream /\ stream.at = "list"
      /\ stream.draining => rested
  BY NowBelieved DEF Beliefs, List, IInv, Streaming, ClosingOK
<1>2. CASE NothingToList /\ stream.draining /\ stream' = Closed(stream)
  BY <1>1, <1>2, ClosedKeeps
<1>3. CASE ~stream.draining /\ stream' = [stream EXCEPT !.at = "wait"]
  <2>1. /\ stream' \in Stream /\ stream'.at = "wait"
        /\ stream'.draining = stream.draining
        /\ stream'.cursor = stream.cursor /\ stream'.shown = stream.shown
        /\ stream'.got = stream.got /\ stream'.last = stream.last
    BY <1>1, <1>3, At
  <2>2. Beliefs(stream')
    BY <1>1, <2>1, Moved
  <2>3. ClosingOK'
    BY <1>3, <2>1 DEF ClosingOK
  <2>4. QED
    BY <1>1, <2>1, <2>2, <2>3, ObserverKeeps
<1>4. CASE \E c \in EndOfPage(stream.cursor) : stream' = AfterPage(c)
  <2>1. PICK c \in EndOfPage(stream.cursor) : stream' = AfterPage(c)
    BY <1>4
  <2>2. PICK s : s = Sent(stream, c)
    OBVIOUS
  <2>3. /\ Beliefs(s) /\ s \in Stream /\ s.at = "list"
        /\ s.draining = stream.draining
    <3>1. c \in Above(stream.cursor)
      BY DEF EndOfPage
    <3>2. QED
      BY <1>1, <2>2, <3>1, SentPage DEF Beliefs
  <2>4. CASE \E i \in Upto(stream.cursor, c) : aiTurnEventIsTerminal(i)
    <3>1. PICK i \in Upto(stream.cursor, c) : event[i].kind = "terminal"
      BY <2>4 DEF aiTurnEventIsTerminal
    <3>2. turn.status = "ended"
      BY <3>1 DEF Upto, Above, IInv, Database, EndingShown
    <3>3. rested'
      BY <1>1, <3>2 DEF Observe, OnlyStream, Rest
    <3>4. stream' = [s EXCEPT !.at = "tail"]
      BY <2>1, <2>2, <2>4 DEF AfterPage
    <3>5. /\ stream' \in Stream /\ stream'.at = "tail"
          /\ stream'.cursor = s.cursor /\ stream'.shown = s.shown
          /\ stream'.got = s.got /\ stream'.last = s.last
      BY <2>3, <3>4, At
    <3>6. Beliefs(stream')
      BY <2>3, <3>5, Moved
    <3>7. ClosingOK'
      BY <3>3, <3>5 DEF ClosingOK
    <3>8. QED
      BY <1>1, <3>5, <3>6, <3>7, ObserverKeeps
  <2>5. CASE ~\E i \in Upto(stream.cursor, c) : aiTurnEventIsTerminal(i)
    <3>1. stream' = s
      BY <2>1, <2>2, <2>5 DEF AfterPage
    <3>2. stream.draining => rested'
      BY <1>1 DEF Observe
    <3>3. ClosingOK'
      BY <2>3, <3>1, <3>2 DEF ClosingOK
    <3>4. QED
      BY <1>1, <2>3, <3>1, <3>3, ObserverKeeps
  <2>6. QED
    BY <2>4, <2>5
<1>5. QED
  BY <1>2, <1>3, <1>4 DEF List

\* The tail: what is left is sent, and drained from then on.
LEMMA ListTailKeeps ==
  ASSUME IInv, ListTail, Observe
  PROVE  TypeOK' /\ Database' /\ Streaming'
<1>1. OnlyStream /\ stream.at = "tail" /\ rested
  BY DEF ListTail, IInv, Streaming, ClosingOK
<1>2. CASE NothingToList /\ stream' = Closed(stream)
  BY <1>1, <1>2, ClosedKeeps
<1>3. CASE \E c \in EndOfPage(stream.cursor) :
             stream' = [Sent(stream, c) EXCEPT !.at = "list", !.draining = TRUE]
  <2>1. PICK c \in EndOfPage(stream.cursor) :
          stream' = [Sent(stream, c) EXCEPT !.at = "list", !.draining = TRUE]
    BY <1>3
  <2>2. PICK s : s = Sent(stream, c)
    OBVIOUS
  <2>3. Beliefs(s) /\ s \in Stream
    <3>1. c \in Above(stream.cursor)
      BY DEF EndOfPage
    <3>2. QED
      BY <2>2, <3>1, SentPage DEF Beliefs
  <2>4. /\ stream' \in Stream /\ stream'.at = "list"
        /\ stream'.cursor = s.cursor /\ stream'.shown = s.shown
        /\ stream'.got = s.got /\ stream'.last = s.last
    <3>1. stream' = Goes(s, "list", TRUE)
      BY <2>1, <2>2 DEF Goes
    <3>2. QED
      BY <2>3, <3>1, Draining
  <2>5. Beliefs(stream')
    BY <2>3, <2>4, Moved
  <2>6. rested'
    BY <1>1 DEF Observe
  <2>7. ClosingOK'
    BY <2>4, <2>6 DEF ClosingOK
  <2>8. QED
    BY <1>1, <2>4, <2>5, <2>7, ObserverKeeps
<1>4. QED
  BY <1>2, <1>3 DEF ListTail

\* The ticks: the next page, or the tail when the turn's status is one of rest.
LEMMA TickKeeps ==
  ASSUME IInv, PollTick \/ StatusTick, Observe
  PROVE  TypeOK' /\ Database' /\ Streaming'
<1>1. /\ stream \in Stream /\ Beliefs(stream) /\ OnlyStream /\ ~stream.draining
  BY NowBelieved DEF Beliefs, PollTick, StatusTick, IInv, Streaming, ClosingOK
<1>2. PICK a \in {"list", "tail"} :
        /\ stream' = [stream EXCEPT !.at = a]
        /\ a = "tail" => turn.status \in Rest
  BY DEF PollTick, StatusTick, aiTurnStreamClosesOnStatus
<1>3. /\ stream' \in Stream /\ stream'.at = a
      /\ stream'.draining = stream.draining
      /\ stream'.cursor = stream.cursor /\ stream'.shown = stream.shown
      /\ stream'.got = stream.got /\ stream'.last = stream.last
  BY <1>1, <1>2, At
<1>4. Beliefs(stream')
  BY <1>1, <1>3, Moved
<1>5. a = "tail" => rested'
  BY <1>1, <1>2 DEF Observe, OnlyStream
<1>6. ClosingOK'
  BY <1>1, <1>3, <1>5 DEF ClosingOK
<1>7. QED
  BY <1>1, <1>3, <1>4, <1>6, ObserverKeeps

-----------------------------------------------------------------------------
(* The invariant *)

\* No transaction is open and the observer is away.
LEMMA InitIInv == Init => IInv
<1> SUFFICES ASSUME Init PROVE IInv
  OBVIOUS
<1>1. Committed = {} /\ DOMAIN event = {}
  BY DEF Init, Committed
<1>2. event \in Seq(Event) /\ Len(event) <= MaxEvent
  BY SizesAssumption DEF Init
<1>3. turn \in Turn /\ ~turn.lease
  BY DEF Init, Turn, Rest
<1>4. stream \in Stream
  BY SizesAssumption DEF Init, Stream
<1>5. NoTx \in Transaction
  BY DEF NoTx, Transaction, Goal
<1>6. TypeOK
  BY <1>1, <1>2, <1>3, <1>4, <1>5 DEF Init, TypeOK
<1>7. Database
  <2>1. Nobody \notin Writer
    BY WorkersAssumption DEF Writer, Nobody
  <2>2. QED
    BY <1>1, <2>1 DEF Init, Database, TxOK, Apart, EndingShown, NoTx
<1>8. Streaming
  BY <1>1 DEF Init, Streaming, CursorOK, NothingMissed, ClosingOK, NeverTwice,
              FinalDrain, Seen
<1>9. QED
  BY <1>6, <1>7, <1>8 DEF IInv

\* Every step of a writer and of the observer keeps the invariant.
LEMMA NextIInv == IInv /\ [Next]_vars => IInv'
<1> SUFFICES ASSUME IInv, [Next]_vars PROVE IInv'
  OBVIOUS
<1>1. CASE Writing /\ Observe
  <2>1. TypeOK' /\ Database' /\ Grows
    BY <1>1, WritingKeeps
  <2>2. QED
    BY <1>1, <2>1, GrowsKeeps DEF IInv
<1>2. CASE Reader /\ Observe
  <2>1. TypeOK' /\ Database' /\ Streaming'
    BY <1>2, SnapshotKeeps, ReconnectKeeps, DisconnectKeeps, ListKeeps,
       ListTailKeeps, TickKeeps DEF Reader
  <2>2. QED
    BY <2>1 DEF IInv
<1>3. CASE UNCHANGED vars
  BY <1>3 DEF vars, IInv, TypeOK, Database, TxOK, Apart, EndingShown, Streaming,
              CursorOK, NothingMissed, ClosingOK, NeverTwice, FinalDrain, Seen,
              Committed
<1>4. QED
  BY <1>1, <1>2, <1>3 DEF Next

\* The invariant of the stream and its writers.
THEOREM StreamInvariant == Spec => []IInv
BY InitIInv, NextIInv, PTL DEF Spec

\* Rows, transactions and streams keep their shape; a lease is one of a turn
\* that runs (worker.go:1613, 1703).
THEOREM StreamTyped == Spec => []TypeOK
<1>1. IInv => TypeOK
  BY DEF IInv
<1>2. QED
  BY <1>1, StreamInvariant, PTL

\* A snapshot and the stream behind its cursor show no event twice, nor out of
\* the order of the ids, however often the connection breaks and wherever a
\* page ends (ai_turn_observers.go:222).
THEOREM NoneTwice == Spec => []NeverTwice
<1>1. IInv => NeverTwice
  BY DEF IInv, Streaming
<1>2. QED
  BY <1>1, StreamInvariant, PTL

\* When the server closes the stream the observer has every event that was
\* committed, but for those a later id had overtaken (ai_turn_observers.go:493).
THEOREM DrainsAll == Spec => []FinalDrain
<1>1. IInv => FinalDrain
  BY DEF IInv, Streaming
<1>2. QED
  BY <1>1, StreamInvariant, PTL

\* The server closes no stream of a turn that has run since it was opened: a
\* terminal event is seen only with the row it ended, a question of the past
\* does not count (ai_turn_observers.go:504, 534).
THEOREM OpenUntilRest == Spec => []OpenWhileRunning
<1>1. IInv => OpenWhileRunning
  BY DEF IInv, Streaming, ClosingOK, OpenWhileRunning
<1>2. QED
  BY <1>1, StreamInvariant, PTL
=============================================================================
