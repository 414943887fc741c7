---------------------------- MODULE EventStream ----------------------------
(***************************************************************************)
(* The event stream of one turn and the transactions that feed it.         *)
(*                                                                         *)
(* Every event row takes its id from a sequence when it is inserted and is *)
(* seen when its transaction commits, so ids and commits may be in         *)
(* different orders.  Workers, the sweep and the handlers insert events    *)
(* beside changes of the turn's row, some before they lock it and some     *)
(* after.  An observer takes a snapshot of rows and the last id, then      *)
(* reads pages of committed events above its cursor until the turn rests.  *)
(* Events of one statement count as one; a state a transaction shows with  *)
(* its event is shown by the event itself.                                 *)
(***************************************************************************)
EXTENDS Naturals, Sequences, FiniteSets

CONSTANTS
  Worker,      \* workers that may run the turn
  MaxEvent,    \* bound: events of the turn
  PageSize     \* LIMIT of ListAITurnEventsForUser, 100 in the code

ASSUME SizesAssumption == MaxEvent \in Nat /\ PageSize \in Nat \ {0}

VARIABLES
  turn,        \* the committed ai_turns row, with its pending approval
  run,         \* per worker: what it is at
  tx,          \* per writer: its open transaction
  holder,      \* the writer that holds the lock of the turn's row
  event,       \* the ai_turn_events rows: ids in the order of allocation
  overtaken,   \* events with a smaller id than one committed before (history)
  stream,      \* the observer and the handler that serves it
  rested       \* the turn has rested since the stream opened (history)

vars == <<turn, run, tx, holder, event, overtaken, stream, rested>>

-----------------------------------------------------------------------------
(* Rows, transactions and the stream *)

Nobody == "nobody"

\* Decisions and edits of a connection meet at the pending approval, stops and
\* answers at the turn, sweeps are a loop: each is one writer.
Writer == Worker \cup {"decision", "user", "sweep"}

\* Ids of processes (hostname-pid) are none of these names.
ASSUME WorkersAssumption ==
  Worker \cap {Nobody, "decision", "user", "sweep"} = {}

Goal == {"none", "event", "ask", "decide", "answer", "request",
         "ended", "waiting", "queued"}

Rest == {"waiting", "ended"}

Kind == {"data", "question", "terminal"}

Turn == [status   : {"queued", "running"} \cup Rest,
         owner    : Worker \cup {Nobody},
         lease    : BOOLEAN,
         cancel   : BOOLEAN,
         approval : BOOLEAN]           \* an approval is pending

\* stage: what the transaction has done.
Transaction == [goal  : Goal,
                ids   : SUBSET (1..MaxEvent),
                stage : {"begun", "inserted", "updated", "both"}]

Event == [kind : Kind, state : {"open", "committed", "aborted"}]

Stream == [at       : {"away", "list", "wait", "tail", "closed"},
           cursor   : 0..MaxEvent,
           draining : BOOLEAN,
           shown    : SUBSET (1..MaxEvent),   \* what the snapshot has shown
           got      : SUBSET (1..MaxEvent),   \* what was sent before
           last     : SUBSET (1..MaxEvent),   \* the last page
           due      : SUBSET (1..MaxEvent)]   \* committed when it closed

TypeOK ==
  /\ turn \in Turn /\ (turn.lease => turn.status = "running")
  /\ run \in [Worker -> {"off", "on", "asking"}]
  /\ tx \in [Writer -> Transaction]
  /\ holder \in Writer \cup {Nobody}
  /\ event \in Seq(Event) /\ Len(event) <= MaxEvent
  /\ overtaken \subseteq DOMAIN event
  /\ stream \in Stream
  /\ rested \in BOOLEAN

NoTx == [goal |-> "none", ids |-> {}, stage |-> "begun"]

Init ==
  /\ turn = [status |-> "queued", owner |-> Nobody, lease |-> FALSE,
             cancel |-> FALSE, approval |-> FALSE]
  /\ run = [w \in Worker |-> "off"]
  /\ tx = [x \in Writer |-> NoTx]
  /\ holder = Nobody
  /\ event = <<>>
  /\ overtaken = {}
  /\ stream = [at |-> "away", cursor |-> 0, draining |-> FALSE, shown |-> {},
               got |-> {}, last |-> {}, due |-> {}]
  /\ rested = FALSE

-----------------------------------------------------------------------------
(* Transactions *)

Committed == {i \in DOMAIN event : event[i].state = "committed"}

Idle(x) == tx[x].goal = "none"

\* The guard of what a worker writes, evaluated on the committed row.
Owns(w) == turn.status = "running" /\ turn.owner = w /\ turn.lease

Begin(x, goal) == tx' = [tx EXCEPT ![x] = [NoTx EXCEPT !.goal = goal]]

\* x begins with the insert of an event.
BeginInsert(x, goal, kind) ==
  /\ Idle(x) /\ Len(event) < MaxEvent
  /\ event' = Append(event, [kind |-> kind, state |-> "open"])
  /\ tx' = [tx EXCEPT ![x] = [goal |-> goal, ids |-> {Len(event) + 1},
                              stage |-> "inserted"]]

\* x begins with the lock of the turn's row.
BeginLocked(x, goal) ==
  /\ Idle(x) /\ holder = Nobody
  /\ holder' = x
  /\ tx' = [tx EXCEPT ![x] = [goal |-> goal, ids |-> {}, stage |-> "updated"]]

\* The transaction that holds the row inserts its event.
InsertLocked(x, kind) ==
  /\ tx[x].stage = "updated" /\ holder = x /\ Len(event) < MaxEvent
  /\ event' = Append(event, [kind |-> kind, state |-> "open"])
  /\ tx' = [tx EXCEPT ![x].ids = {Len(event) + 1}, ![x].stage = "both"]

\* Mutant: a parked turn keeps its lease.
RowWithLease(x) ==
  [turn EXCEPT !.status = IF tx[x].goal \in {"ended", "waiting", "queued"}
                            THEN tx[x].goal ELSE @]

\* What is left of the row when x commits.
Row(x) ==
  CASE tx[x].goal \in {"event", "none"} -> turn
    [] tx[x].goal = "ask"     -> [turn EXCEPT !.approval = TRUE]
    [] tx[x].goal = "decide"  -> [turn EXCEPT !.approval = FALSE]
    [] tx[x].goal = "request" -> [turn EXCEPT !.approval = FALSE, !.cancel = TRUE]
    [] tx[x].goal = "answer"  -> [turn EXCEPT !.status = "queued"]
    [] tx[x].goal = "waiting" -> [turn EXCEPT !.status = "waiting",
                                              !.owner = Nobody, !.lease = FALSE]
    [] OTHER -> [turn EXCEPT !.status = tx[x].goal, !.owner = Nobody,
                             !.lease = FALSE]

\* An insert refers to the turn: its foreign key waits for one that holds the
\* row FOR UPDATE, which the handlers of the user do.
Free(x) == holder # "user" \/ x = "user"

\* Every statement has been executed.
Complete(x) ==
  CASE tx[x].goal \in {"event", "ask", "decide"} -> tx[x].stage = "inserted"
    [] tx[x].goal \in {"request", "queued"}      -> tx[x].stage = "updated"
    [] tx[x].goal = "none"                       -> FALSE
    [] OTHER                                     -> tx[x].stage = "both"

Commit(x) ==
  /\ Complete(x) /\ Free(x)
  /\ turn' = Row(x)
  /\ event' = [i \in DOMAIN event |->
                 IF i \in tx[x].ids THEN [event[i] EXCEPT !.state = "committed"]
                                    ELSE event[i]]
  /\ overtaken' = overtaken \cup
       {i \in tx[x].ids : \E j \in Committed : j > i}
  /\ tx' = [tx EXCEPT ![x] = NoTx]
  /\ holder' = IF holder = x THEN Nobody ELSE holder
  /\ run' = [w \in Worker |->
               IF w # x THEN run[w]
               ELSE IF tx[x].goal = "ask" THEN "asking"
               ELSE IF tx[x].goal = "event" THEN run[w] ELSE "off"]
  /\ UNCHANGED stream

\* An error, a refused update or a deadlock. A worker gives the turn up.
Rollback(x) ==
  /\ ~Idle(x)
  /\ event' = [i \in DOMAIN event |->
                 IF i \in tx[x].ids THEN [event[i] EXCEPT !.state = "aborted"]
                                    ELSE event[i]]
  /\ tx' = [tx EXCEPT ![x] = NoTx]
  /\ holder' = IF holder = x THEN Nobody ELSE holder
  /\ run' = [w \in Worker |-> IF w = x THEN "off" ELSE run[w]]
  /\ UNCHANGED <<turn, overtaken, stream>>

-----------------------------------------------------------------------------
(* Workers and the sweep *)

Claim(w) ==
  /\ turn.status = "queued" /\ holder = Nobody
  /\ run[w] = "off" /\ Idle(w)
  /\ turn' = [turn EXCEPT !.status = "running", !.owner = w, !.lease = TRUE]
  /\ run' = [run EXCEPT ![w] = "on"]
  /\ UNCHANGED <<tx, holder, event, overtaken, stream>>

\* An event of the worker, a statement of its own.
WriteEvent(w) ==
  /\ run[w] = "on" /\ Owns(w)
  /\ BeginInsert(w, "event", "data")
  /\ UNCHANGED <<turn, run, holder, overtaken, stream>>

\* The approval and its event; nothing guards them.
requestMCPApproval(w) ==
  /\ run[w] = "on"
  /\ BeginInsert(w, "ask", "data")
  /\ UNCHANGED <<turn, run, holder, overtaken, stream>>

\* The wait ends with a decision, or without one after its time: closing the
\* approval waits for a decision that holds its row.
EndOfWait(w) ==
  /\ run[w] = "asking" /\ Idle("decision")
  /\ turn' = [turn EXCEPT !.approval = FALSE]
  /\ run' = [run EXCEPT ![w] = "on"]
  /\ UNCHANGED <<tx, holder, event, overtaken, stream>>

\* finalize inserts the terminal event, then updates the turn.
BeginFinalize(w) ==
  /\ run[w] # "off" /\ Owns(w)
  /\ BeginInsert(w, "ended", "terminal")
  /\ UNCHANGED <<turn, run, holder, overtaken, stream>>

\* parkTurnForUserQuestion does so in the same order.
BeginPark(w) ==
  /\ run[w] = "on"
  /\ BeginInsert(w, "waiting", "question")
  /\ UNCHANGED <<turn, run, holder, overtaken, stream>>

\* The guarded update of either; refused, the transaction is rolled back.
UpdateTurn(w) ==
  /\ tx[w].goal \in {"ended", "waiting"} /\ tx[w].stage = "inserted"
  /\ holder = Nobody
  /\ Owns(w) /\ (tx[w].goal = "waiting" => ~turn.cancel)
  /\ holder' = w
  /\ tx' = [tx EXCEPT ![w].stage = "both"]
  /\ UNCHANGED <<turn, run, event, overtaken, stream>>

\* A crash or a lost lease; the transaction that was open is rolled back.
Leave(w) ==
  /\ run[w] # "off" /\ Idle(w)
  /\ run' = [run EXCEPT ![w] = "off"]
  /\ UNCHANGED <<turn, tx, holder, event, overtaken, stream>>

LeaseLapses ==
  /\ turn.status = "running" /\ turn.lease
  /\ turn' = [turn EXCEPT !.lease = FALSE]
  /\ UNCHANGED <<run, tx, holder, event, overtaken, stream>>

\* recover updates the turn and then inserts the event of a failed one.
BeginSweep ==
  /\ turn.status = "running" /\ ~turn.lease
  /\ \E goal \in {"ended", "queued"} : BeginLocked("sweep", goal)
  /\ UNCHANGED <<turn, run, event, overtaken, stream>>

InsertSwept ==
  /\ tx["sweep"].goal = "ended" /\ InsertLocked("sweep", "terminal")
  /\ UNCHANGED <<turn, run, holder, overtaken, stream>>

-----------------------------------------------------------------------------
(* Handlers *)

\* A decision, or an edit of the connection, which does not ask for the turn.
BeginDecide ==
  /\ turn.approval
  /\ BeginInsert("decision", "decide", "data")
  /\ UNCHANGED <<turn, run, holder, overtaken, stream>>

\* An edit of a connection also fails a waiting turn.
BeginEvict ==
  /\ turn.status = "waiting" /\ BeginLocked("decision", "ended")
  /\ UNCHANGED <<turn, run, event, overtaken, stream>>

InsertEvicted ==
  /\ tx["decision"].goal = "ended" /\ InsertLocked("decision", "terminal")
  /\ UNCHANGED <<turn, run, holder, overtaken, stream>>

\* handleCancelAITurn: only a request while the turn runs, whose update of a
\* pending approval waits for a decision that holds it.
BeginCancel ==
  /\ turn.status # "ended"
  /\ IF turn.status = "running"
       THEN Idle("decision") /\ BeginLocked("user", "request")
       ELSE BeginLocked("user", "ended")
  /\ UNCHANGED <<turn, run, event, overtaken, stream>>

BeginAnswer ==
  /\ turn.status = "waiting" /\ BeginLocked("user", "answer")
  /\ UNCHANGED <<turn, run, event, overtaken, stream>>

InsertByUser ==
  /\ \/ tx["user"].goal = "ended" /\ InsertLocked("user", "terminal")
     \/ tx["user"].goal = "answer" /\ InsertLocked("user", "data")
  /\ UNCHANGED <<turn, run, holder, overtaken, stream>>

-----------------------------------------------------------------------------
(* The observer *)

Above(cursor) == {i \in Committed : i > cursor}

Upto(cursor, c) == {i \in Above(cursor) : i <= c}

\* ListAITurnEventsForUser: where the page of the first events above the
\* cursor ends; there is no such place if there is nothing above it.
EndOfPage(cursor) ==
  {c \in Above(cursor) :
     \/ Cardinality(Upto(cursor, c)) = PageSize
     \/ Upto(cursor, c) = Above(cursor) /\ Cardinality(Upto(cursor, c)) < PageSize}

\* writeAITurnSSEBatch: the cursor follows what is sent.
Sent(s, c) ==
  [s EXCEPT !.got = @ \cup s.last, !.last = Upto(s.cursor, c), !.cursor = c]

\* Mutant: the event of a question closes the stream too.
TerminalOrQuestion(i) == event[i].kind # "data"

aiTurnEventIsTerminal(i) == event[i].kind = "terminal"

aiTurnStreamClosesOnStatus == turn.status \in Rest

Closed(s) == [s EXCEPT !.at = "closed", !.due = Committed]

OnlyStream == UNCHANGED <<turn, run, tx, holder, event, overtaken>>

\* Mutant: the last id is read before the rows, and events commit between.
SomeCursor(cursor) == cursor \in Committed \cup {0}

\* MAX(id), or 0.
EventCursor(cursor) ==
  cursor \in Committed \cup {0} /\ \A i \in Committed : i <= cursor

\* handleGetAITurn, then the subscription with its cursor.
Snapshot ==
  /\ stream.at \in {"away", "closed"}
  /\ \E cursor \in 0..MaxEvent :
       /\ EventCursor(cursor)
       /\ stream' = [at |-> "list", cursor |-> cursor, draining |-> FALSE,
                     shown |-> Committed, got |-> {}, last |-> {}, due |-> {}]
  /\ OnlyStream

\* Last-Event-ID.
Reconnect ==
  /\ stream.at = "away"
  /\ stream' = [stream EXCEPT !.at = "list", !.draining = FALSE]
  /\ OnlyStream

\* The connection breaks, perhaps in the middle of a page.
Disconnect ==
  /\ stream.at \in {"list", "wait", "tail"}
  /\ \/ stream' = [stream EXCEPT !.at = "away"]
     \/ /\ stream.at # "wait"
        /\ \E c \in EndOfPage(stream.cursor) : \E d \in Upto(stream.cursor, c) :
             stream' = [Sent(stream, d) EXCEPT !.at = "away"]
  /\ OnlyStream

NothingToList == Above(stream.cursor) = {}

\* Mutant: a page with the terminal event is the last.
AfterPageClose(c) ==
  IF \E i \in Upto(stream.cursor, c) : aiTurnEventIsTerminal(i)
    THEN Closed(Sent(stream, c)) ELSE Sent(stream, c)

AfterPage(c) ==
  IF \E i \in Upto(stream.cursor, c) : aiTurnEventIsTerminal(i)
    THEN [Sent(stream, c) EXCEPT !.at = "tail"] ELSE Sent(stream, c)

List ==
  /\ stream.at = "list"
  /\ \/ /\ NothingToList
        /\ stream' = IF stream.draining THEN Closed(stream)
                     ELSE [stream EXCEPT !.at = "wait"]
     \/ \E c \in EndOfPage(stream.cursor) : stream' = AfterPage(c)
  /\ OnlyStream

ListTail ==
  /\ stream.at = "tail"
  /\ \/ NothingToList /\ stream' = Closed(stream)
     \/ \E c \in EndOfPage(stream.cursor) :
          stream' = [Sent(stream, c) EXCEPT !.at = "list", !.draining = TRUE]
  /\ OnlyStream

PollTick ==
  /\ stream.at = "wait"
  /\ stream' = [stream EXCEPT !.at = "list"]
  /\ OnlyStream

\* Mutant: nothing but a terminal event closes the stream.
StatusTickIgnored == PollTick

\* The fallback: the turn's status, read now and then.
StatusTick ==
  /\ stream.at = "wait"
  /\ stream' = [stream EXCEPT
                  !.at = IF aiTurnStreamClosesOnStatus THEN "tail" ELSE "list"]
  /\ OnlyStream

-----------------------------------------------------------------------------
(* Specification *)

Reader ==
  \/ Snapshot \/ Reconnect \/ Disconnect \/ List \/ ListTail \/ PollTick \/ StatusTick

Writing ==
  \/ \E w \in Worker :
       \/ Claim(w) \/ WriteEvent(w) \/ requestMCPApproval(w) \/ EndOfWait(w)
       \/ BeginFinalize(w) \/ BeginPark(w) \/ UpdateTurn(w) \/ Leave(w)
  \/ LeaseLapses \/ BeginSweep \/ InsertSwept
  \/ BeginDecide \/ BeginEvict \/ InsertEvicted
  \/ BeginCancel \/ BeginAnswer \/ InsertByUser
  \/ \E x \in Writer : Commit(x) \/ Rollback(x)

Observe ==
  rested' = \/ turn'.status \in Rest
            \/ rested /\ (stream.at \in {"away", "closed"} => stream'.at # "list")

Next == (Reader \/ Writing) /\ Observe

\* The handler of the stream goes on; a select among ready tickers is random
\* and a tick is kept until it is taken.
Fairness ==
  /\ WF_vars(List /\ Observe) /\ WF_vars(ListTail /\ Observe)
  /\ WF_vars(PollTick /\ Observe) /\ SF_vars(StatusTick /\ Observe)

Spec == Init /\ [][Next]_vars /\ Fairness

-----------------------------------------------------------------------------
(* Properties *)

Seen == stream.shown \cup stream.got \cup stream.last

\* ai_turn_observers.go:222: a snapshot and the stream after it show no event
\* twice, nor out of the order of their ids, over lost connections too.
NeverTwice ==
  /\ stream.last \cap (stream.got \cup stream.shown) = {}
  /\ \A i \in stream.got, j \in stream.last : i < j

\* When the server closes the stream the observer has every event but those
\* that were overtaken: pages, tails and the draining leave nothing behind.
FinalDrain == stream.at = "closed" => stream.due \ overtaken \subseteq Seen

\* The stream of a turn is not closed before the turn has ended or waited
\* since the stream was opened: a question of the past, replayed, does not.
OpenWhileRunning == stream.at = "closed" => rested

\* Once the turn rests the stream is closed, even if its terminal event was
\* overtaken and is never sent.
StreamCloses ==
  []<>(turn.status \notin Rest \/ stream.at \in {"away", "closed"})

\* ai_turn_observers.go:493 closes the stream on an empty query "so the final
\* drain is complete": the observer has every event.
DrainComplete ==
  stream.at = "closed" => stream.due \subseteq Seen
=============================================================================
