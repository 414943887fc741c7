--------------------------- MODULE ChatSlots_proofs ---------------------------
(***************************************************************************)
(* What a slot may believe of the turn it holds, for any number of turns,  *)
(* slots and processes, and what follows from it: claims fence off late    *)
(* writes, tools run only for marked turns and for one slot at a time,     *)
(* attempts are bounded, stops were asked for, and every step of ChatTurns *)
(* is a step of TurnPromise.                                               *)
(*                                                                         *)
(* The guard of a worker's write compares the id of its process, and the   *)
(* slots of a process share that id.  What a slot believes is therefore    *)
(* claimed only of turns outside the history retaken, and the invariant    *)
(* shows that no two slots of a process hold a turn outside it (Apart).    *)
(***************************************************************************)
EXTENDS ChatTurnsPromise, ChatTurns_proofs

\* The slots of one process hold different turns, but for the retaken ones.
Apart ==
  \A s, z \in Slot :
    /\ WorkerOf[s] = WorkerOf[z]
    /\ slot[s].turn = slot[z].turn
    /\ slot[s].turn \in Turn \ retaken
    => s = z

\* What holds of a row whatever the slots do: an attempt more than MaxAttempts
\* was paid for with a tool round, also by the turn that is to be claimed next.
RowKept(r) ==
  /\ r.attempt <= MaxAttempts + r.rounds
  /\ r.status \in {"queued", "waiting_for_user"} =>
       r.attempt < MaxAttempts + r.rounds
  /\ r.status = "stopped" => r.cancel

\* The steps of a batch of calls, those after its turn is marked, and those
\* at which the slot has the turn's transcript in memory.
Marked    == {"dispatching", "executing", "more"}
Called    == {"tools", "announcing", "marking"} \cup Marked
Following == {"streaming", "closing"} \cup Called

\* A round of calls is under way, or about to be.
Calling(me) ==
  \/ me.pc \in Called
  \/ me.pc = "closing" /\ me.outcome = "tools"

Claimed(w, r) == r.status = "running" /\ r.owner = w /\ r.lease = "live"

\* What a slot's memory me, in process w, says of the row r it works for.
Knows(w, me, r) ==
  /\ Claimed(w, r) =>
       /\ me.attempt = r.attempt
       /\ me.pc \in Marked => r.output
       /\ Calling(me) => r.attempt < MaxAttempts + r.rounds
       /\ me.pc \in Following => me.rounds = r.rounds
       /\ me.outcome = "stopped" => r.cancel
  /\ me.pc = "executing" =>
       /\ r.status \in {"running", "deleted"} \cup Terminal
       /\ r.output \/ r.status = "deleted"
       /\ r.status = "running" => r.owner = w

SlotOK(s) ==
  slot[s].turn \in Turn \ retaken =>
    Knows(WorkerOf[s], slot[s], turn[slot[s].turn])

\* The inductive invariant, besides IInv and OneDispatcher.
JInv ==
  /\ \A t \in Turn \ retaken : RowKept(turn[t])
  /\ \A s \in Slot : SlotOK(s)
  /\ Apart

\* How others may change the row a slot works for without surprising it: no
\* claim is renewed or handed over, output and a stop are not undone, the
\* transcript is left alone, and work with output is not taken up again.
Later(r, q) ==
  /\ q.status = "running" =>
       /\ r.status = "running"
       /\ q.owner = r.owner
       /\ q.attempt = r.attempt
       /\ q.lease = "live" => r.lease = "live"
  /\ r.output => q.output
  /\ r.cancel => q.cancel
  /\ q.rounds = r.rounds
  /\ r.status = "deleted" => q.status = "deleted"
  /\ r.status \in Terminal => q.status \in Terminal
  /\ r.status = "running" /\ r.output => q.status \in {"running"} \cup Terminal
  /\ RowKept(q)

\* Slots begin to run a tool only while they own the turn.
Dispatches ==
  \A s \in Slot : slot'[s].pc = "executing" =>
    /\ slot'[s].turn = slot[s].turn
    /\ slot[s].pc = "executing" \/ Owns(s)

\* The shape of every step but a claim, a saved round and a parking.
Forward ==
  \A t \in Turn \ retaken :
    Later(turn[t], turn'[t]) \/ turn'[t] = DeletedRow

-----------------------------------------------------------------------------
(* What the operators on rows do to a row somebody works for *)

\* The fields the invariant reads, after the questions of a turn were given up
\* (user_question.go:436).
LEMMA CancelQuestionsKeeps ==
  ASSUME NEW r \in TurnRow
  PROVE  /\ CancelQuestions(r) \in TurnRow
         /\ CancelQuestions(r).status = r.status
         /\ CancelQuestions(r).owner = r.owner
         /\ CancelQuestions(r).lease = r.lease
         /\ CancelQuestions(r).attempt = r.attempt
         /\ CancelQuestions(r).output = r.output
         /\ CancelQuestions(r).cancel = r.cancel
         /\ CancelQuestions(r).rounds = r.rounds
         /\ CancelQuestions(r).endings = r.endings
BY DEF CancelQuestions, TurnRow

\* A row that is left alone.
LEMMA LaterSame ==
  ASSUME NEW r \in TurnRow, RowKept(r)
  PROVE  Later(r, r)
BY DEF Later, TurnRow

\* Giving up the questions of a claimed turn, with or without the request to
\* stop it (user_question.go:436, ai_turn_observers.go:289).
LEMMA CancelledLater ==
  ASSUME NEW r \in TurnRow, RowKept(r), r.status = "running"
  PROVE  /\ Later(r, CancelQuestions(r))
         /\ Later(r, [CancelQuestions(r) EXCEPT !.cancel = TRUE])
<1> DEFINE c == CancelQuestions(r)
           q == [c EXCEPT !.cancel = TRUE]
<1>1. /\ c \in TurnRow /\ c.status = r.status /\ c.owner = r.owner
      /\ c.lease = r.lease /\ c.attempt = r.attempt /\ c.output = r.output
      /\ c.cancel = r.cancel /\ c.rounds = r.rounds
  BY CancelQuestionsKeeps
<1> HIDE DEF c
<1>2. /\ q.status = r.status /\ q.owner = r.owner
      /\ q.lease = r.lease /\ q.attempt = r.attempt /\ q.output = r.output
      /\ q.cancel = TRUE /\ q.rounds = r.rounds
  BY <1>1 DEF TurnRow
<1> HIDE DEF q
<1>3. Later(r, c) /\ Later(r, q)
  BY <1>1, <1>2 DEF Later, RowKept, TurnRow, Terminal
<1>4. QED
  BY <1>3 DEF c, q

\* Stopping a turn no worker holds (ai_turn_observers.go:289).
LEMMA StoppedLater ==
  ASSUME NEW r \in TurnRow, RowKept(r), r.status \in {"queued", "waiting_for_user"}
  PROVE  Later(r, StoppedRow(r))
<1> DEFINE c == CancelQuestions(r)
           left == IF c.reply = "pending" THEN "partial" ELSE c.reply
           n == c.endings + 1
           q == [c EXCEPT !.status = "stopped", !.cancel = TRUE,
                          !.reply = left, !.endings = n]
<1>1. /\ c \in TurnRow /\ c.status = r.status /\ c.attempt = r.attempt
      /\ c.output = r.output /\ c.rounds = r.rounds
  BY CancelQuestionsKeeps
<1>2. StoppedRow(r) = q
  BY <1>1 DEF StoppedRow, TurnRow
<1> HIDE DEF c, left, n
<1>3. /\ q.status = "stopped" /\ q.attempt = r.attempt /\ q.output = r.output
      /\ q.cancel = TRUE /\ q.rounds = r.rounds
  BY <1>1 DEF TurnRow
<1> HIDE DEF q
<1>4. Later(r, q)
  BY <1>3 DEF Later, RowKept, TurnRow, Terminal
<1>5. QED
  BY <1>2, <1>4

\* The terminal write of a worker, "stopped" only where a stop was asked for
\* (worker.go:1678).
LEMMA FinalLater ==
  ASSUME NEW r \in TurnRow, RowKept(r), r.status = "running",
         NEW status \in Terminal, NEW reply, status = "stopped" => r.cancel
  PROVE  Later(r, FinalRow(r, status, reply))
<1> DEFINE n == r.endings + 1
           q == [r EXCEPT !.status = status, !.lease = "none",
                          !.reply = reply, !.endings = n]
<1>1. FinalRow(r, status, reply) = q
  BY DEF FinalRow, TurnRow
<1> HIDE DEF n
<1>2. /\ q.status = status /\ q.attempt = r.attempt /\ q.output = r.output
      /\ q.cancel = r.cancel /\ q.rounds = r.rounds
  BY DEF TurnRow
<1> HIDE DEF q
<1>3. Later(r, q)
  BY <1>2 DEF Later, RowKept, TurnRow, Terminal
<1>4. QED
  BY <1>1, <1>3

\* The fields the invariant reads of a swept row.
LEMMA RecoveredFields ==
  ASSUME NEW r \in TurnRow, NEW q, q = RecoveredRow(r)
  PROVE  /\ q.status = IF Retryable(r) THEN "queued" ELSE "failed"
         /\ q.attempt = r.attempt /\ q.output = r.output
         /\ q.cancel = r.cancel /\ q.rounds = r.rounds
<1>1. CASE Retryable(r)
  <2>1. q = [r EXCEPT !.status = "queued", !.owner = NoWorker, !.lease = "none"]
    BY <1>1 DEF RecoveredRow
  <2>2. QED
    BY <1>1, <2>1 DEF TurnRow
<1>2. CASE ~Retryable(r)
  <2> DEFINE c == CancelQuestions(r)
             left == IF ~r.output /\ c.reply = "pending" THEN "failed" ELSE c.reply
             n == c.endings + 1
             y == [c EXCEPT !.status = "failed", !.owner = NoWorker,
                            !.lease = "none", !.reply = left, !.endings = n]
  <2>1. /\ c \in TurnRow /\ c.attempt = r.attempt /\ c.output = r.output
        /\ c.cancel = r.cancel /\ c.rounds = r.rounds
    BY CancelQuestionsKeeps
  <2>2. q = y
    BY <1>2, <2>1 DEF RecoveredRow, TurnRow
  <2> HIDE DEF c, left, n
  <2>3. /\ y.status = "failed" /\ y.attempt = r.attempt /\ y.output = r.output
        /\ y.cancel = r.cancel /\ y.rounds = r.rounds
    BY <2>1 DEF TurnRow
  <2> HIDE DEF y
  <2>4. QED
    BY <1>2, <2>2, <2>3
<1>3. QED
  BY <1>1, <1>2

\* A swept row, queued again only without output and with an attempt left
\* (worker.go:1721, ai_turns.go:449).
LEMMA RecoveredLater ==
  ASSUME NEW r \in TurnRow, RowKept(r), r.status = "running"
  PROVE  Later(r, RecoveredRow(r))
<1> DEFINE q == RecoveredRow(r)
<1>1. /\ q.status = IF Retryable(r) THEN "queued" ELSE "failed"
      /\ q.attempt = r.attempt /\ q.output = r.output
      /\ q.cancel = r.cancel /\ q.rounds = r.rounds
  BY RecoveredFields
<1> HIDE DEF q
<1>2. Later(r, q)
  BY <1>1, LimitsAssumption DEF Later, RowKept, Retryable, TurnRow, Terminal
<1>3. QED
  BY <1>2 DEF q

\* A waiting turn whose connection is lost (mcp_connections.go:1031).
LEMMA ConnectionLostLater ==
  ASSUME NEW r \in TurnRow, RowKept(r), r.status = "waiting_for_user"
  PROVE  Later(r, ConnectionLostRow(r))
<1> DEFINE left == IF ~r.output /\ r.reply = "pending" THEN "failed" ELSE r.reply
           n == r.endings + 1
           q == [r EXCEPT !.status = "failed", !.owner = NoWorker,
                          !.lease = "none", !.reply = left, !.endings = n]
<1>1. ConnectionLostRow(r) = q
  BY DEF ConnectionLostRow, TurnRow
<1> HIDE DEF left, n
<1>2. /\ q.status = "failed" /\ q.attempt = r.attempt /\ q.output = r.output
      /\ q.cancel = r.cancel /\ q.rounds = r.rounds
  BY DEF TurnRow
<1> HIDE DEF q
<1>3. Later(r, q)
  BY <1>2 DEF Later, RowKept, TurnRow, Terminal
<1>4. QED
  BY <1>1, <1>3

\* Recording output (worker.go:1471, 1530), and a lease that runs out.
LEMMA WrittenLater ==
  ASSUME NEW r \in TurnRow, RowKept(r), r.status = "running"
  PROVE  /\ Later(r, [r EXCEPT !.output = TRUE])
         /\ Later(r, [r EXCEPT !.lease = "expired"])
         /\ Later(r, [r EXCEPT !.ckpt = FALSE, !.awaiting = FALSE])
BY DEF Later, RowKept, TurnRow, Terminal

\* A saved transcript (worker.go:370).
LEMMA SavedFields ==
  ASSUME NEW r \in TurnRow, NEW rounds
  PROVE  LET q == Save(r, rounds) IN
         /\ q.status = r.status /\ q.owner = r.owner /\ q.lease = r.lease
         /\ q.attempt = r.attempt /\ q.output = r.output /\ q.cancel = r.cancel
         /\ q.rounds = rounds
BY DEF Save, TurnRow

\* Answering a waiting turn, and queueing one again that has no output and an
\* attempt left (ai_user_questions.go:81, worker.go:1646).
LEMMA QueuedLater ==
  ASSUME NEW r \in TurnRow, RowKept(r)
  PROVE  /\ r.status = "waiting_for_user" =>
              Later(r, [r EXCEPT !.question = "answered", !.status = "queued",
                                 !.owner = NoWorker, !.lease = "none"])
         /\ r.status = "running" /\ Retryable(r) =>
              Later(r, [r EXCEPT !.status = "queued", !.owner = NoWorker,
                                 !.lease = "none"])
BY LimitsAssumption DEF Later, RowKept, Retryable, TurnRow, Terminal

\* The row of an accepted request, where there was none (ai_turns.go:306).
LEMMA SubmittedLater ==
  ASSUME NEW r, r = NoRow
  PROVE  Later(r, [NoRow EXCEPT !.status = "queued", !.reply = "pending"])
<1> DEFINE q == [NoRow EXCEPT !.status = "queued", !.reply = "pending"]
<1>1. /\ r.status = "absent" /\ r.output = FALSE /\ r.cancel = FALSE /\ r.rounds = 0
  BY DEF NoRow
<1>2. q.status = "queued" /\ q.attempt = 0 /\ q.rounds = 0 /\ q.cancel = FALSE
  BY DEF NoRow
<1> HIDE DEF q
<1>3. Later(r, q)
  BY <1>1, <1>2, LimitsAssumption DEF Later, RowKept, Terminal
<1>4. QED
  BY <1>3 DEF q

\* What a deleted conversation leaves is no surprise either
\* (ai_conversations.go:336).
LEMMA DeletedKept ==
  /\ RowKept(DeletedRow)
  /\ \A w, me : Knows(w, me, DeletedRow)
<1>1. NoRow \in TurnRow
  BY LimitsAssumption DEF NoRow, TurnRow
<1>2. /\ DeletedRow.status = "deleted"
      /\ DeletedRow.attempt = NoRow.attempt /\ DeletedRow.rounds = NoRow.rounds
  BY <1>1 DEF DeletedRow, TurnRow
<1>3. NoRow.attempt = 0 /\ NoRow.rounds = 0
  BY DEF NoRow
<1>4. QED
  BY <1>2, <1>3, LimitsAssumption DEF RowKept, Knows, Claimed

-----------------------------------------------------------------------------
(* What a step does to the beliefs of the slots *)

\* A step of slot s that may change the row it works for, its place and its
\* memory, each belief it takes up being true of the new row.
Onward(s) ==
  LET me  == slot[s]
      new == slot'[s]
      q   == turn'[slot[s].turn]
  IN /\ Forward
     /\ \A z \in Slot \ {s} : slot'[z] = slot[z]
     /\ new.turn = me.turn /\ new.attempt = me.attempt
     /\ new.pc \in Marked => \/ me.pc \in Marked
                             \/ Owns(s) => q.output
     /\ Calling(new) => Calling(me)
     /\ new.pc \in Following => \/ me.pc \in Following /\ new.rounds = me.rounds
                                \/ Owns(s) => new.rounds = q.rounds
     /\ new.outcome = "stopped" => \/ me.outcome = "stopped"
                                   \/ Owns(s) => q.cancel
     /\ new.pc = "executing" =>
          Owns(s) /\ me.pc \in Marked /\ turn' = turn

\* A belief survives what others do to the row.
LEMMA LaterKnown ==
  ASSUME NEW r \in TurnRow, NEW q \in TurnRow, NEW w, NEW me,
         Knows(w, me, r), Later(r, q)
  PROVE  Knows(w, me, q)
BY LimitsAssumption DEF Knows, Later, Claimed, TurnRow, Terminal

\* Rows keep what holds of every row.
LEMMA RowsKept ==
  ASSUME Forward, retaken' = retaken
  PROVE  \A t \in Turn \ retaken' : RowKept(turn'[t])
BY DeletedKept DEF Forward, Later

\* Only a claim brings a slot to a turn.
LEMMA ApartKept ==
  ASSUME JInv, retaken' = retaken, NEW s \in Slot,
         \A z \in Slot \ {s} : slot'[z] = slot[z],
         slot'[s].turn = slot[s].turn \/ slot'[s].turn \notin Turn
  PROVE  Apart'
<1> SUFFICES ASSUME NEW x \in Slot, NEW y \in Slot,
                    WorkerOf[x] = WorkerOf[y],
                    slot'[x].turn = slot'[y].turn,
                    slot'[x].turn \in Turn \ retaken'
             PROVE  x = y
  BY DEF Apart
<1>1. slot'[x].turn = slot[x].turn /\ slot'[y].turn = slot[y].turn
  OBVIOUS
<1>2. QED
  BY <1>1 DEF JInv, Apart

\* A slot that does not move keeps its beliefs.
LEMMA OthersKeep ==
  ASSUME IInv, IInv', JInv, Forward, retaken' = retaken,
         NEW z \in Slot, slot'[z] = slot[z]
  PROVE  SlotOK(z)'
<1> DEFINE t == slot[z].turn
<1>1. ASSUME t \in Turn \ retaken
      PROVE  Knows(WorkerOf[z], slot[z], turn'[t])
  <2>1. turn[t] \in TurnRow /\ turn'[t] \in TurnRow
    BY <1>1 DEF IInv, TypeOK
  <2>2. Knows(WorkerOf[z], slot[z], turn[t])
    BY <1>1 DEF JInv, SlotOK
  <2>3. CASE Later(turn[t], turn'[t])
    BY <2>1, <2>2, <2>3, LaterKnown
  <2>4. CASE turn'[t] = DeletedRow
    BY <2>4, DeletedKept
  <2>5. QED
    BY <1>1, <2>3, <2>4 DEF Forward
<1>2. QED
  BY <1>1 DEF SlotOK

\* A step of a handler, of the sweep or of time leaves every belief true.
LEMMA HandlersKeep ==
  ASSUME IInv, IInv', JInv, Forward, slot' = slot, retaken' = retaken
  PROVE  JInv' /\ Dispatches
<1>1. Apart'
  BY DEF JInv, Apart
<1>2. QED
  BY <1>1, RowsKept, OthersKeep DEF JInv, Dispatches

\* A slot that goes on keeps the beliefs of all.
LEMMA OnwardKeeps ==
  ASSUME IInv, IInv', JInv, retaken' = retaken, NEW s \in Slot, Onward(s)
  PROVE  JInv' /\ Dispatches
<1> DEFINE t == slot[s].turn
           w == WorkerOf[s]
           new == slot'[s]
<1>1. /\ Forward /\ \A z \in Slot \ {s} : slot'[z] = slot[z]
      /\ new.turn = t
  BY DEF Onward
<1>2. \A u \in Turn \ retaken' : RowKept(turn'[u])
  BY <1>1, RowsKept
<1>3. \A z \in Slot \ {s} : SlotOK(z)'
  BY <1>1, OthersKeep
<1>4. Apart'
  BY <1>1, ApartKept
<1>5. ASSUME t \in Turn \ retaken
      PROVE  Knows(w, new, turn'[t])
  <2>1. turn[t] \in TurnRow /\ turn'[t] \in TurnRow
    BY <1>5 DEF IInv, TypeOK
  <2>2. Knows(w, slot[s], turn[t])
    BY <1>5 DEF JInv, SlotOK
  <2>3. CASE turn'[t] = DeletedRow
    BY <2>3, DeletedKept
  <2>4. CASE Later(turn[t], turn'[t])
    <3>1. Knows(w, slot[s], turn'[t])
      BY <2>1, <2>2, <2>4, LaterKnown
    <3>2. Claimed(w, turn'[t]) => Owns(s)
      BY <1>5, <2>4 DEF Claimed, Later, Owns
    <3>3. ASSUME Claimed(w, turn'[t])
          PROVE  /\ new.attempt = turn'[t].attempt
                 /\ new.pc \in Marked => turn'[t].output
                 /\ Calling(new) => turn'[t].attempt < MaxAttempts + turn'[t].rounds
                 /\ new.pc \in Following => new.rounds = turn'[t].rounds
                 /\ new.outcome = "stopped" => turn'[t].cancel
      BY <3>1, <3>2, <3>3 DEF Knows, Onward
    <3>4. ASSUME new.pc = "executing"
          PROVE  /\ turn'[t].status = "running" /\ turn'[t].output
                 /\ turn'[t].owner = w
      BY <1>5, <2>2, <3>4 DEF Onward, Owns, Knows, Claimed
    <3>5. QED
      BY <3>3, <3>4 DEF Knows
  <2>5. QED
    BY <1>1, <1>5, <2>3, <2>4 DEF Forward
<1>6. SlotOK(s)'
  BY <1>1, <1>5 DEF SlotOK
<1>7. Dispatches
  BY <1>1 DEF Dispatches, Onward
<1>8. QED
  BY <1>2, <1>3, <1>4, <1>6, <1>7 DEF JInv

\* A slot that lets its turn go has no beliefs left.
LEMMA ReleaseKeeps ==
  ASSUME IInv, IInv', JInv, retaken' = retaken, NEW s \in Slot, Forward, Release(s)
  PROVE  JInv' /\ Dispatches
<1>1. slot'[s] = Idle /\ \A z \in Slot \ {s} : slot'[z] = slot[z]
  BY SlotTyped DEF Release
<1>2. Idle.turn \notin Turn /\ Idle.pc # "executing"
  BY OwnersAssumption DEF Idle
<1>3. SlotOK(s)'
  BY <1>1, <1>2 DEF SlotOK
<1>4. Dispatches
  BY <1>1, <1>2 DEF Dispatches
<1>5. Apart'
  BY <1>1, <1>2, ApartKept
<1>6. QED
  BY <1>1, <1>3, <1>4, <1>5, RowsKept, OthersKeep DEF JInv

-----------------------------------------------------------------------------
(* The handlers, the sweep and time *)

\* A step that leaves the rows alone, and one that writes one row.
LEMMA ForwardRows ==
  ASSUME IInv, JInv
  PROVE  /\ UNCHANGED turn => Forward
         /\ \A t \in Turn : \A q :
              /\ t \notin retaken => Later(turn[t], q)
              /\ turn' = [turn EXCEPT ![t] = q]
              => Forward
<1>1. /\ turn \in [Turn -> TurnRow]
      /\ \A t \in Turn \ retaken : turn[t] \in TurnRow /\ Later(turn[t], turn[t])
  BY LaterSame DEF IInv, TypeOK, JInv
<1>2. QED
  BY <1>1 DEF Forward

\* A sweep, over any set of turns (worker.go:1721, ai_turns.go:449).
LEMMA SweptLater ==
  ASSUME IInv, JInv, NEW turns \in SUBSET Turn, NEW t \in Turn \ retaken
  PROVE  Later(turn[t], Swept(turns)[t])
<1>1. turn[t] \in TurnRow /\ RowKept(turn[t])
  BY DEF IInv, TypeOK, JInv
<1>2. QED
  BY <1>1, LaterSame, RecoveredLater DEF Swept, Expired

\* The handlers, the passing of time and the sweeps all move rows forward.
LEMMA HandlersForward ==
  ASSUME IInv, JInv,
         \/ \E t \in Turn : TurnNext(t)
         \/ \E c \in Conversation : DeleteConversation(c)
         \/ \E p \in Project : ChangeConnection(p)
         \/ Recover
  PROVE  Forward /\ slot' = slot
<1>1. ASSUME NEW t \in Turn, Submit(t)
      PROVE  Forward /\ slot' = slot
  <2> DEFINE rows == Swept(Siblings(t))
             new == [NoRow EXCEPT !.status = "queued", !.reply = "pending"]
  <2>1. Siblings(t) \in SUBSET Turn
    BY DEF Siblings
  <2>2. rows \in [Turn -> TurnRow] /\ \A u \in Turn \ retaken : Later(turn[u], rows[u])
    BY <2>1, SweptChanges, SweptLater
  <2>3. turn[t] = NoRow
    BY <1>1 DEF Submit, IInv, RowOK
  <2>4. Later(turn[t], new)
    BY <2>3, SubmittedLater
  <2>5. turn' = [rows EXCEPT ![t] = new] /\ slot' = slot
    BY <1>1 DEF Submit
  <2> HIDE DEF rows, new
  <2>6. QED
    BY <2>2, <2>4, <2>5 DEF Forward
<1>2. ASSUME NEW turns \in SUBSET Turn, turn' = Swept(turns)
      PROVE  Forward
  BY <1>2, SweptLater DEF Forward
<1>3. ASSUME NEW t \in Turn, SubmitBusyOrReplayed(t)
      PROVE  Forward /\ slot' = slot
  BY <1>2, <1>3 DEF SubmitBusyOrReplayed, Siblings
<1>4. CASE Recover
  BY <1>2, <1>4 DEF Recover
<1>5. ASSUME NEW t \in Turn, Cancel(t) \/ Answer(t) \/ ExpireLease(t)
      PROVE  Forward /\ slot' = slot
  <2> DEFINE r == turn[t]
  <2>1. /\ r \in TurnRow /\ RowOK(r) /\ slot' = slot
        /\ t \notin retaken => RowKept(r)
        /\ turn \in [Turn -> TurnRow]
    BY <1>5 DEF IInv, TypeOK, JInv, Cancel, Answer, ExpireLease
  <2>2. PICK q : turn' = [turn EXCEPT ![t] = q] /\ (t \notin retaken => Later(r, q))
    <3>1. CASE Cancel(t) /\ r.status = "running"
      <4> DEFINE q == [CancelQuestions(r) EXCEPT !.cancel = TRUE]
      <4>1. turn' = [turn EXCEPT ![t] = q]
        BY <2>1, <3>1 DEF Cancel
      <4>2. t \notin retaken => Later(r, q)
        BY <2>1, <3>1, CancelledLater
      <4>3. QED
        BY <4>1, <4>2
    <3>2. CASE Cancel(t) /\ r.status # "running"
      <4>1. r.status \in {"queued", "waiting_for_user"}
        BY <3>2 DEF Cancel, Active
      <4>2. turn' = [turn EXCEPT ![t] = StoppedRow(r)]
        BY <2>1, <3>2 DEF Cancel
      <4>3. t \notin retaken => Later(r, StoppedRow(r))
        BY <2>1, <4>1, StoppedLater
      <4>4. QED
        BY <4>2, <4>3
    <3>3. CASE Answer(t)
      <4> DEFINE q == [r EXCEPT !.question = "answered", !.status = "queued",
                                !.owner = NoWorker, !.lease = "none"]
      <4>1. turn' = [turn EXCEPT ![t] = q]
        BY <2>1, <3>3 DEF Answer
      <4>2. t \notin retaken => Later(r, q)
        BY <2>1, <3>3, QueuedLater DEF Answer
      <4>3. QED
        BY <4>1, <4>2
    <3>4. CASE ExpireLease(t)
      <4> DEFINE q == [r EXCEPT !.lease = "expired"]
      <4>1. turn' = [turn EXCEPT ![t] = q]
        BY <2>1, <3>4 DEF ExpireLease
      <4>2. r.status = "running"
        BY <2>1, <3>4 DEF ExpireLease, RowOK
      <4>3. t \notin retaken => Later(r, q)
        BY <2>1, <4>2, WrittenLater
      <4>4. QED
        BY <4>1, <4>3
    <3>5. QED
      BY <1>5, <3>1, <3>2, <3>3, <3>4
  <2>3. QED
    BY <2>1, <2>2, ForwardRows
<1>6. ASSUME NEW c \in Conversation, DeleteConversation(c)
      PROVE  Forward /\ slot' = slot
  <2>1. \A t \in Turn : turn'[t] = turn[t] \/ turn'[t] = DeletedRow
    BY <1>6 DEF DeleteConversation
  <2>2. \A t \in Turn \ retaken : turn[t] \in TurnRow /\ RowKept(turn[t])
    BY DEF IInv, TypeOK, JInv
  <2>3. QED
    BY <1>6, <2>1, <2>2, LaterSame DEF Forward, DeleteConversation
<1>7. ASSUME NEW p \in Project, ChangeConnection(p)
      PROVE  Forward /\ slot' = slot
  <2>1. \A t \in Turn \ retaken : turn[t] \in TurnRow /\ RowKept(turn[t])
    BY DEF IInv, TypeOK, JInv
  <2>2. \A t \in Turn : \/ turn'[t] = turn[t]
                        \/ /\ turn[t].status = "waiting_for_user"
                           /\ turn'[t] = ConnectionLostRow(turn[t])
    BY <1>7 DEF ChangeConnection, WaitingIn
  <2>3. QED
    BY <1>7, <2>1, <2>2, LaterSame, ConnectionLostLater DEF Forward, ChangeConnection
<1>8. QED
  BY <1>1, <1>3, <1>4, <1>5, <1>6, <1>7 DEF TurnNext

-----------------------------------------------------------------------------
(* The steps of a slot *)

\* What moving a slot changes of it, and of the others nothing.
LEMMA SlotFields ==
  ASSUME IInv, NEW s \in Slot
  PROVE  /\ \A pc : GoTo(s, pc) =>
              /\ \A z \in Slot \ {s} : slot'[z] = slot[z]
              /\ slot'[s].turn = slot[s].turn
              /\ slot'[s].attempt = slot[s].attempt
              /\ slot'[s].rounds = slot[s].rounds
              /\ slot'[s].outcome = slot[s].outcome
              /\ slot'[s].pc = pc
         /\ \A outcome : End(s, outcome) =>
              /\ \A z \in Slot \ {s} : slot'[z] = slot[z]
              /\ slot'[s].turn = slot[s].turn
              /\ slot'[s].attempt = slot[s].attempt
              /\ slot'[s].rounds = slot[s].rounds
              /\ slot'[s].outcome = outcome
              /\ slot'[s].pc = "ending"
BY SlotTyped DEF GoTo, End, SlotState

\* Steps that read the database and go on.
LEMMA ReadersOnward ==
  ASSUME IInv, JInv, NEW s \in Slot,
         \/ ClaimSelect(s) \/ ReadCheckpoint(s)
         \/ ResumeStopped(s) \/ ResumeLost(s) \/ Start(s) \/ HeartbeatStop(s)
         \/ Lost(s) \/ BlankRound(s) \/ NextCall(s) \/ Announce(s)
         \/ SkipCall(s) \/ ApprovalStopped(s) \/ ApprovalStale(s)
         \/ Dispatch(s) \/ ToolReturns(s) \/ BatchDone(s) \/ TimedOut(s)
         \/ ParkRefused(s) \/ StepFails(s)
  PROVE  Onward(s)
<1> DEFINE me == slot[s]
<1>1. turn' = turn
  BY DEF ClaimSelect, ReadCheckpoint, ResumeStopped, ResumeLost, Start, HeartbeatStop, Lost, BlankRound, NextCall, Announce, SkipCall, ApprovalStopped, ApprovalStale, Dispatch, ToolReturns, BatchDone, TimedOut, ParkRefused, StepFails
<1>2. Forward
  BY <1>1, ForwardRows
<1>3. /\ \A z \in Slot \ {s} : slot'[z] = slot[z]
      /\ slot'[s].turn = me.turn /\ slot'[s].attempt = me.attempt
      /\ slot'[s].pc \in Following =>
           \/ me.pc \in Following /\ slot'[s].rounds = me.rounds
           \/ slot'[s].rounds = turn[me.turn].rounds
      /\ \/ /\ slot'[s].pc \notin Called \cup {"closing"}
            /\ slot'[s].outcome = me.outcome
         \/ /\ slot'[s].pc \notin Called \cup {"closing"}
            /\ slot'[s].outcome # "stopped"
         \/ /\ slot'[s].pc \notin Called \cup {"closing"}
            /\ Owns(s) => turn[me.turn].cancel
         \/ /\ slot'[s].pc \in Called /\ me.pc \in Called
            /\ slot'[s].pc \in Marked => me.pc \in Marked
            /\ slot'[s].pc = "executing" => Owns(s)
            /\ slot'[s].outcome = me.outcome
  <2>1. CASE ClaimSelect(s)
    BY <2>1, SlotTyped DEF ClaimSelect, SlotState, At, Following, Called, Marked
  <2>2. CASE ReadCheckpoint(s)
    BY <2>2, SlotFields DEF ReadCheckpoint, At, Following, Called, Marked
  <2>3. CASE ResumeStopped(s)
    BY <2>3, SlotFields DEF ResumeStopped, At, Following, Called, Marked
  <2>4. CASE ResumeLost(s)
    BY <2>4, SlotFields DEF ResumeLost, Fail, At, Following, Called, Marked
  <2>5. CASE Start(s)
    <3> DEFINE o == me.output \/ turn[me.turn].saved
               n == turn[me.turn].rounds
    <3>1. slot' = [slot EXCEPT ![s].pc = "streaming", ![s].rounds = n, ![s].output = o]
      BY <2>5, SlotTyped DEF Start
    <3>2. slot' = [slot EXCEPT ![s] = [me EXCEPT !.pc = "streaming", !.rounds = n,
                                                 !.output = o]]
      BY <3>1, SlotTyped
    <3> HIDE DEF o, n
    <3>3. /\ \A z \in Slot \ {s} : slot'[z] = slot[z]
          /\ slot'[s].turn = me.turn /\ slot'[s].attempt = me.attempt
          /\ slot'[s].pc = "streaming" /\ slot'[s].outcome = me.outcome
          /\ slot'[s].rounds = n
      BY <3>2, SlotTyped DEF SlotState
    <3>4. slot'[s].pc = "streaming" /\ slot'[s].rounds = turn[me.turn].rounds
      BY <3>3 DEF n
    <3>5. "streaming" \notin Called \cup {"closing"}
      BY DEF Called, Marked
    <3>6. QED
      BY <3>3, <3>4, <3>5
  <2>6. CASE HeartbeatStop(s)
    BY <2>6, SlotTyped DEF HeartbeatStop, At, SlotState, Following, Called, Marked
  <2>7. CASE Lost(s)
    BY <2>7, SlotFields DEF Lost, Fail, At, Following, Called, Marked
  <2>8. CASE BlankRound(s)
    BY <2>8, SlotFields DEF BlankRound, At, Following, Called, Marked
  <2>9. CASE NextCall(s)
    BY <2>9, SlotFields DEF NextCall, At, Following, Called, Marked
  <2>10. CASE Announce(s)
    BY <2>10, SlotFields DEF Announce, At, Following, Called, Marked
  <2>11. CASE SkipCall(s)
    BY <2>11, SlotFields DEF SkipCall, At, Following, Called, Marked
  <2>12. CASE ApprovalStopped(s)
    BY <2>12, SlotFields DEF ApprovalStopped, At, Following, Called, Marked
  <2>13. CASE ApprovalStale(s)
    BY <2>13, SlotFields DEF ApprovalStale, At, Following, Called, Marked
  <2>14. CASE Dispatch(s)
    BY <2>14, SlotFields DEF Dispatch, At, Following, Called, Marked
  <2>15. CASE ToolReturns(s)
    BY <2>15, SlotFields DEF ToolReturns, At, Following, Called, Marked
  <2>16. CASE BatchDone(s)
    BY <2>16, SlotFields DEF BatchDone, At, Following, Called, Marked
  <2>17. CASE TimedOut(s)
    BY <2>17, SlotFields DEF TimedOut, At, Following, Called, Marked
  <2>18. CASE ParkRefused(s)
    BY <2>18, SlotFields DEF ParkRefused, At, Following, Called, Marked
  <2>19. CASE StepFails(s)
    BY <2>19, SlotFields DEF StepFails, Fail, At, Following, Called, Marked
  <2>20. QED
    BY <2>1, <2>2, <2>3, <2>4, <2>5, <2>6, <2>7, <2>8, <2>9, <2>10, <2>11, <2>12, <2>13, <2>14, <2>15, <2>16, <2>17, <2>18, <2>19
<1>4. QED
  BY <1>1, <1>2, <1>3 DEF Onward, Calling, At, Following, Called, Marked

\* What a slot finds in the row it owns.
LEMMA OwnedKept ==
  ASSUME IInv, JInv, NEW s \in Slot, Owns(s)
  PROVE  LET t == slot[s].turn IN
         /\ t \in Turn /\ turn \in [Turn -> TurnRow]
         /\ turn[t] \in TurnRow /\ turn[t].status = "running"
         /\ Claimed(WorkerOf[s], turn[t])
         /\ t \notin retaken => RowKept(turn[t]) /\ Knows(WorkerOf[s], slot[s], turn[t])
BY DEF IInv, TypeOK, JInv, SlotOK, Owns, Claimed

\* Steps that write the claimed row and go on: resuming, the texts of a round
\* and the mark before tools (user_question.go:214; worker.go:525, 781, 1471).
LEMMA WritersOnward ==
  ASSUME IInv, JInv, NEW s \in Slot,
         \/ ResumeRefused(s) \/ ResumeAnswered(s)
         \/ \E tooLarge \in BOOLEAN : StartWithNotice(s, tooLarge)
         \/ Flush(s)
         \/ \E text \in BOOLEAN : CloseRound(s, text)
         \/ MarkOutput(s)
  PROVE  Onward(s)
<1> DEFINE me == slot[s]
           t  == me.turn
           r  == turn[t]
<1>1. ASSUME Owns(s)
      PROVE  /\ t \in Turn /\ turn \in [Turn -> TurnRow]
             /\ r \in TurnRow /\ r.status = "running"
             /\ t \notin retaken => RowKept(r)
  BY <1>1, OwnedKept
<1> DEFINE GoesOn ==
             /\ \A z \in Slot \ {s} : slot'[z] = slot[z]
             /\ slot'[s].turn = t /\ slot'[s].attempt = me.attempt
             /\ slot'[s].pc \in Following =>
                  \/ me.pc \in Following /\ slot'[s].rounds = me.rounds
                  \/ Owns(s) /\ slot'[s].rounds = r.rounds
             /\ \/ /\ slot'[s].pc \notin Called \cup {"closing"}
                   /\ \/ slot'[s].outcome # "stopped"
                      \/ slot'[s].outcome = me.outcome
                \/ /\ Calling(me) /\ slot'[s].pc = "tools"
                   /\ slot'[s].outcome # "stopped"
                \/ /\ Calling(me) /\ MarkOutput(s)
                   /\ slot'[s].pc = "dispatching"
                   /\ slot'[s].outcome = me.outcome
<1>2. GoesOn
  <2>1. CASE ResumeRefused(s)
    BY <2>1, SlotFields DEF ResumeRefused, Fail, At, Following, Called, Marked
  <2>2. CASE ResumeAnswered(s)
    BY <2>2, SlotTyped DEF ResumeAnswered, SlotState, At, Following, Called, Marked
  <2>3. ASSUME NEW tooLarge \in BOOLEAN, StartWithNotice(s, tooLarge)
        PROVE  GoesOn
    <3> DEFINE pc == IF tooLarge THEN "ending" ELSE "streaming"
               outcome == IF tooLarge THEN "permanent" ELSE me.outcome
               n == turn[me.turn].rounds
    <3>1. /\ slot' = [slot EXCEPT ![s].pc = pc, ![s].output = TRUE,
                                  ![s].rounds = n, ![s].outcome = outcome]
          /\ Owns(s)
      BY <2>3, SlotTyped DEF StartWithNotice, SlotState
    <3>2. /\ pc \in Step /\ n \in 0..MaxRounds
          /\ outcome \in {"none", "answer", "tools", "completed", "stopped",
                          "temporary", "permanent"}
      BY <1>1, <3>1, SlotTyped DEF SlotState, Step, TurnRow
    <3>3. /\ pc \notin Called \cup {"closing"}
          /\ outcome # "stopped" \/ outcome = me.outcome
      BY DEF Called, Marked
    <3> HIDE DEF pc, outcome, n
    <3>4. slot' = [slot EXCEPT ![s] = [me EXCEPT !.pc = pc, !.output = TRUE,
                                         !.rounds = n, !.outcome = outcome]]
      BY <3>1, SlotWritten
    <3>5. /\ \A z \in Slot \ {s} : slot'[z] = slot[z]
          /\ slot'[s].turn = t /\ slot'[s].attempt = me.attempt
          /\ slot'[s].pc = pc /\ slot'[s].outcome = outcome
          /\ slot'[s].rounds = n
      BY <3>2, <3>4, SlotTyped DEF SlotState
    <3>6. slot'[s].rounds = r.rounds
      BY <3>5 DEF n
    <3>7. QED
      BY <3>1, <3>3, <3>5, <3>6
  <2>4. CASE Flush(s)
    BY <2>4, SlotTyped DEF Flush, At, SlotState, Following, Called, Marked
  <2>5. ASSUME NEW text \in BOOLEAN, CloseRound(s, text)
        PROVE  GoesOn
    <3> DEFINE o == me.output \/ text
               pc == IF me.outcome = "tools" THEN "tools" ELSE "ending"
               outcome == IF me.outcome = "tools" THEN "none" ELSE "completed"
    <3>1. slot' = [slot EXCEPT ![s].output = o, ![s].pc = pc,
                               ![s].outcome = outcome]
      BY <2>5 DEF CloseRound
    <3>2. /\ outcome # "stopped"
          /\ \/ pc \notin Called \cup {"closing"}
             \/ pc = "tools" /\ Calling(me)
      BY <2>5 DEF CloseRound, At, Calling, Following, Called, Marked
    <3> HIDE DEF o, pc, outcome
    <3>3. /\ \A z \in Slot \ {s} : slot'[z] = slot[z]
          /\ slot'[s].turn = t /\ slot'[s].attempt = me.attempt
          /\ slot'[s].pc = pc /\ slot'[s].outcome = outcome
          /\ slot'[s].rounds = me.rounds
      BY <3>1, SlotTyped DEF SlotState
    <3>4. me.pc \in Following
      BY <2>5 DEF CloseRound, At, Following
    <3>5. QED
      BY <3>2, <3>3, <3>4
  <2>6. CASE MarkOutput(s)
    BY <2>6, SlotFields DEF MarkOutput, At, Calling, Following, Called, Marked
  <2>7. QED
    BY <2>1, <2>2, <2>3, <2>4, <2>5, <2>6
<1>3. \/ turn' = turn
      \/ /\ Owns(s)
         /\ \/ turn' = [turn EXCEPT ![t] = CancelQuestions(r)]
            \/ turn' = [turn EXCEPT ![t] = [r EXCEPT !.ckpt = FALSE,
                                                     !.awaiting = FALSE]]
            \/ turn' = [turn EXCEPT ![t] = [r EXCEPT !.output = TRUE]]
  BY <1>1 DEF ResumeRefused, ResumeAnswered, StartWithNotice, Flush, CloseRound, MarkOutput
<1>4. Forward
  <2>1. CASE turn' = turn
    BY <2>1, ForwardRows
  <2>2. CASE Owns(s)
    <3>1. t \notin retaken =>
            /\ Later(r, CancelQuestions(r))
            /\ Later(r, [r EXCEPT !.ckpt = FALSE, !.awaiting = FALSE])
            /\ Later(r, [r EXCEPT !.output = TRUE])
      BY <1>1, <2>2, CancelledLater, WrittenLater
    <3>2. QED
      BY <1>1, <1>3, <2>1, <2>2, <3>1, ForwardRows
  <2>3. QED
    BY <1>3, <2>1, <2>2
<1>5. MarkOutput(s) /\ Owns(s) => turn'[t].output
  <2>1. ASSUME MarkOutput(s), Owns(s)
        PROVE  turn'[t].output
    <3>1. turn' = [turn EXCEPT ![t] = [r EXCEPT !.output = TRUE]]
      BY <1>1, <2>1 DEF MarkOutput
    <3>2. QED
      BY <1>1, <2>1, <3>1 DEF TurnRow
  <2>2. QED
    BY <2>1
<1>6. Owns(s) => turn'[t].rounds = r.rounds
  <2>1. ASSUME Owns(s)
        PROVE  turn'[t].rounds = r.rounds
    <3>1. /\ CancelQuestions(r).rounds = r.rounds
          /\ [r EXCEPT !.ckpt = FALSE, !.awaiting = FALSE].rounds = r.rounds
          /\ [r EXCEPT !.output = TRUE].rounds = r.rounds
      BY <1>1, <2>1, CancelQuestionsKeeps DEF TurnRow
    <3>2. \A q : turn' = [turn EXCEPT ![t] = q] => turn'[t] = q
      BY <1>1, <2>1
    <3>3. QED
      BY <1>3, <3>1, <3>2
  <2>2. QED
    BY <2>1
<1>7. QED
  BY <1>2, <1>4, <1>5, <1>6 DEF Onward, Calling, Following, Called, Marked

\* What a saved round does to a slot (worker.go:370, 640, 704).
LEMMA RoundFields ==
  ASSUME IInv, NEW s \in Slot, NEW received \in BOOLEAN, NEW calls \in BOOLEAN,
         CutRound(s, received, calls) \/ SaveRound(s, calls)
  PROVE  /\ \A z \in Slot \ {s} : slot'[z] = slot[z]
         /\ slot'[s].turn = slot[s].turn /\ slot'[s].attempt = slot[s].attempt
         /\ slot'[s].rounds = Extended(s, calls)
         /\ \/ /\ CutRound(s, received, calls) /\ slot'[s].pc = "ending"
               /\ slot'[s].outcome # "stopped" \/ slot[s].outcome = "stopped"
            \/ /\ SaveRound(s, calls) /\ slot'[s].pc = "closing"
               /\ slot'[s].outcome = IF calls THEN "tools" ELSE "answer"
<1> DEFINE me == slot[s]
           o == me.output \/ calls
           n == Extended(s, calls)
<1>1. CASE CutRound(s, received, calls)
  <2>1. PICK cause \in {"temporary", "permanent"} :
          slot' = [slot EXCEPT ![s].pc = "ending", ![s].output = @ \/ calls,
                     ![s].rounds = n,
                     ![s].outcome = IF @ = "stopped" THEN @ ELSE cause]
    BY <1>1 DEF CutRound
  <2> DEFINE x == IF me.outcome = "stopped" THEN "stopped" ELSE cause
  <2>2. x # "stopped" \/ me.outcome = "stopped"
    OBVIOUS
  <2> HIDE DEF n
  <2>3. slot' = [slot EXCEPT ![s].pc = "ending", ![s].output = o,
                             ![s].rounds = n, ![s].outcome = x]
    BY <2>1, SlotTyped DEF SlotState
  <2> HIDE DEF o, x
  <2>4. slot' = [slot EXCEPT ![s] = [me EXCEPT !.pc = "ending", !.output = o,
                                       !.rounds = n, !.outcome = x]]
    BY <2>3, SlotWritten
  <2>5. /\ \A z \in Slot \ {s} : slot'[z] = slot[z]
        /\ slot'[s].turn = me.turn /\ slot'[s].attempt = me.attempt
        /\ slot'[s].pc = "ending" /\ slot'[s].outcome = x
        /\ slot'[s].rounds = n
    BY <2>4, SlotTyped DEF SlotState
  <2>6. QED
    BY <1>1, <2>2, <2>5 DEF n
<1>2. CASE SaveRound(s, calls)
  <2> DEFINE x == IF calls THEN "tools" ELSE "answer"
  <2>1. slot' = [slot EXCEPT ![s].pc = "closing", ![s].output = @ \/ calls,
                             ![s].rounds = n, ![s].outcome = x]
    BY <1>2 DEF SaveRound
  <2> HIDE DEF n
  <2>2. slot' = [slot EXCEPT ![s].pc = "closing", ![s].output = o,
                             ![s].rounds = n, ![s].outcome = x]
    BY <2>1, SlotTyped DEF SlotState
  <2> HIDE DEF o, x
  <2>3. slot' = [slot EXCEPT ![s] = [me EXCEPT !.pc = "closing", !.output = o,
                                       !.rounds = n, !.outcome = x]]
    BY <2>2, SlotWritten
  <2>4. /\ \A z \in Slot \ {s} : slot'[z] = slot[z]
        /\ slot'[s].turn = me.turn /\ slot'[s].attempt = me.attempt
        /\ slot'[s].pc = "closing" /\ slot'[s].outcome = x
        /\ slot'[s].rounds = n
    BY <2>3, SlotTyped DEF SlotState
  <2>5. QED
    BY <1>2, <2>4 DEF n, x
<1>3. QED
  BY <1>1, <1>2

\* A slot that does not write the row it holds knows as much as before of the
\* turns of other slots, when one of those writes its transcript: no sibling
\* holds a turn that was not retaken.
LEMMA OutsidersKeep ==
  ASSUME IInv, JInv, NEW s \in Slot, Owns(s), retaken' = retaken,
         NEW q, q \in TurnRow,
         turn' = [turn EXCEPT ![slot[s].turn] = q],
         q.owner = WorkerOf[s] \/ q.status # "running",
         NEW z \in Slot \ {s}, slot'[z] = slot[z]
  PROVE  SlotOK(z)'
<1> DEFINE t == slot[s].turn
           r == turn[t]
<1>1. /\ t \in Turn /\ turn \in [Turn -> TurnRow]
      /\ r.status = "running" /\ r.owner = WorkerOf[s]
  BY OwnedKept DEF Claimed
<1>2. turn'[t] = q /\ \A u \in Turn \ {t} : turn'[u] = turn[u]
  BY <1>1
<1>3. SlotOK(z)
  BY DEF JInv
<1>4. CASE slot[z].turn # t \/ t \in retaken
  BY <1>2, <1>3, <1>4 DEF SlotOK
<1>5. CASE slot[z].turn = t /\ t \notin retaken
  <2>1. Knows(WorkerOf[z], slot[z], r)
    BY <1>1, <1>3, <1>5 DEF SlotOK
  <2>2. WorkerOf[z] # WorkerOf[s]
    BY <1>1, <1>5 DEF JInv, Apart
  <2>3. slot[z].pc # "executing"
    BY <1>1, <2>1, <2>2 DEF Knows
  <2>4. Knows(WorkerOf[z], slot[z], q)
    BY <2>2, <2>3 DEF Knows, Claimed
  <2>5. QED
    BY <1>1, <1>2, <1>5, <2>4 DEF SlotOK
<1>6. QED
  BY <1>4, <1>5

\* Saving a provider round: the transcript in memory replaces the saved one,
\* and a round with calls makes it a tool round longer, which is what the next
\* attempts are paid with (worker.go:370, 640).
LEMMA RoundsKeep ==
  ASSUME IInv, IInv', JInv, retaken' = retaken,
         NEW s \in Slot, NEW received \in BOOLEAN, NEW calls \in BOOLEAN,
         CutRound(s, received, calls) \/ SaveRound(s, calls)
  PROVE  JInv' /\ Dispatches
<1> DEFINE me == slot[s]
           t  == me.turn
           r  == turn[t]
           n  == Extended(s, calls)
           q  == Save(r, n)
<1>1. /\ \A z \in Slot \ {s} : slot'[z] = slot[z]
      /\ slot'[s].turn = t /\ slot'[s].attempt = me.attempt
      /\ slot'[s].rounds = n
      /\ slot'[s].pc \in {"ending", "closing"}
      /\ slot'[s].pc = "closing" =>
           /\ SaveRound(s, calls)
           /\ slot'[s].outcome = IF calls THEN "tools" ELSE "answer"
      /\ slot'[s].outcome = "stopped" =>
           me.outcome = "stopped" /\ slot'[s].pc = "ending"
  BY RoundFields
<1>2. me.pc = "streaming" /\ me.rounds \in 0..MaxRounds
  BY SlotTyped DEF CutRound, SaveRound, At, SlotState
<1>3. \/ turn' = turn /\ ~SaveRound(s, calls)
      \/ Owns(s) /\ turn' = [turn EXCEPT ![t] = q]
  <2>1. ASSUME Owns(s)
        PROVE  [turn EXCEPT ![t] = Save(@, n)] = [turn EXCEPT ![t] = q]
    BY <2>1, OwnedKept
  <2>2. QED
    BY <2>1 DEF CutRound, SaveRound
<1>4. CASE turn' = turn /\ ~SaveRound(s, calls)
  <2>1. slot'[s].pc = "ending"
    BY <1>1, <1>4
  <2>2. Forward
    BY <1>4, ForwardRows
  <2>3. Onward(s)
    BY <1>1, <1>2, <2>1, <2>2 DEF Onward, Calling, Called, Marked, Following
  <2>4. QED
    BY <2>3, OnwardKeeps
<1>5. CASE Owns(s) /\ turn' = [turn EXCEPT ![t] = q]
  <2>1. /\ t \in Turn /\ turn \in [Turn -> TurnRow]
        /\ r \in TurnRow /\ r.status = "running" /\ r.owner = WorkerOf[s]
        /\ r.lease = "live"
        /\ t \notin retaken => RowKept(r) /\ Knows(WorkerOf[s], me, r)
    BY <1>5, OwnedKept DEF Claimed
  <2>2. /\ q.status = r.status /\ q.owner = r.owner /\ q.lease = r.lease
        /\ q.attempt = r.attempt /\ q.output = r.output /\ q.cancel = r.cancel
        /\ q.rounds = n
    BY <2>1, SavedFields
  <2>3. turn'[t] = q /\ \A u \in Turn \ {t} : turn'[u] = turn[u]
    BY <1>5, <2>1
  <2>4. q \in TurnRow
    BY <2>1, <2>3 DEF IInv, TypeOK
  <2> HIDE DEF q
  <2>5. ASSUME t \notin retaken
        PROVE  /\ RowKept(q) /\ me.attempt = r.attempt
               /\ calls => r.attempt < MaxAttempts + n
               /\ me.outcome = "stopped" => r.cancel
    <3>1. /\ me.attempt = r.attempt /\ me.rounds = r.rounds
          /\ me.outcome = "stopped" => r.cancel
      BY <1>2, <2>1, <2>5 DEF Knows, Claimed, Following
    <3>2. n = IF calls THEN r.rounds + 1 ELSE r.rounds
      BY <1>2, <3>1 DEF Extended
    <3>3. r.attempt <= MaxAttempts + r.rounds /\ r.attempt \in Nat /\ r.rounds \in Nat
      BY <2>1, <2>5 DEF RowKept, TurnRow
    <3>4. /\ r.attempt <= MaxAttempts + n
          /\ calls => r.attempt < MaxAttempts + n
      BY <3>2, <3>3, LimitsAssumption
    <3>5. RowKept(q)
      BY <2>1, <2>2, <3>4 DEF RowKept
    <3>6. QED
      BY <3>1, <3>4, <3>5
  <2>6. \A u \in Turn \ retaken' : RowKept(turn'[u])
    BY <2>3, <2>5 DEF JInv
  <2>7. \A z \in Slot \ {s} : SlotOK(z)'
    BY <1>1, <1>5, <2>1, <2>2, <2>4, OutsidersKeep
  <2>8. SlotOK(s)'
    <3>1. ASSUME t \notin retaken
          PROVE  Knows(WorkerOf[s], slot'[s], q)
      BY <1>1, <2>1, <2>2, <2>5, <3>1
         DEF Knows, Claimed, Calling, Called, Marked, Following
    <3>2. QED
      BY <1>1, <2>3, <3>1 DEF SlotOK
  <2>9. Apart'
    BY <1>1, ApartKept
  <2>10. Dispatches
    BY <1>1 DEF Dispatches
  <2>11. QED
    BY <2>6, <2>7, <2>8, <2>9, <2>10 DEF JInv
<1>6. QED
  BY <1>3, <1>4, <1>5

\* The end of a run: "stopped" is written only by a slot that knows of the
\* request (worker.go:1063, 416, 1646, 1678).
LEMMA EndsForward ==
  ASSUME IInv, JInv, NEW s \in Slot, EndRun(s) \/ FailTurn(s)
  PROVE  Forward /\ Release(s)
<1> DEFINE me == slot[s]
           t  == me.turn
           r  == turn[t]
<1>1. ASSUME Owns(s)
      PROVE  /\ t \in Turn /\ turn \in [Turn -> TurnRow]
             /\ r \in TurnRow /\ r.status = "running"
             /\ t \notin retaken =>
                  RowKept(r) /\ (me.outcome = "stopped" => r.cancel)
  BY <1>1, OwnedKept DEF Knows
<1>2. ASSUME NEW status \in Terminal, NEW reply, Finalize(s, status, reply),
             status = "stopped" => me.outcome = "stopped"
      PROVE  Forward /\ Release(s)
  <2>1. CASE Owns(s)
    <3>1. t \notin retaken => Later(r, FinalRow(r, status, reply))
      BY <1>1, <1>2, <2>1, FinalLater
    <3>2. turn' = [turn EXCEPT ![t] = FinalRow(r, status, reply)]
      BY <1>1, <1>2, <2>1 DEF Finalize
    <3>3. QED
      BY <1>1, <1>2, <2>1, <3>1, <3>2, ForwardRows DEF Finalize
  <2>2. CASE ~Owns(s)
    BY <1>2, <2>2, ForwardRows DEF Finalize
  <2>3. QED
    BY <2>1, <2>2
<1>3. ASSUME Requeue(s)
      PROVE  Forward /\ Release(s)
  <2>1. CASE Owns(s) /\ Retryable(r)
    <3> DEFINE q == [r EXCEPT !.status = "queued", !.owner = NoWorker,
                              !.lease = "none"]
    <3>1. t \notin retaken => Later(r, q)
      BY <1>1, <2>1, QueuedLater
    <3>2. turn' = [turn EXCEPT ![t] = q]
      BY <1>1, <1>3, <2>1 DEF Requeue
    <3> HIDE DEF q
    <3>3. QED
      BY <1>1, <1>3, <2>1, <3>1, <3>2, ForwardRows DEF Requeue
  <2>2. CASE ~(Owns(s) /\ Retryable(r))
    BY <1>3, <2>2, ForwardRows DEF Requeue
  <2>3. QED
    BY <2>1, <2>2
<1>4. \/ Requeue(s)
      \/ Finalize(s, "completed", "complete")
      \/ me.outcome = "stopped" /\ Finalize(s, "stopped", "partial")
      \/ Finalize(s, "failed", ReplyFor(me.output))
  BY DEF EndRun, FailTurn
<1>5. QED
  BY <1>2, <1>3, <1>4 DEF Terminal

\* Taking a queued turn gives it a new attempt: the slot that takes it knows
\* of it; one that still believes to hold it has no claim, and belongs to
\* another process or the turn is retaken (worker.go:216).
LEMMA ClaimTakeKeeps ==
  ASSUME IInv, IInv', JInv, NEW s \in Slot, NEW t \in Turn, ClaimTake(s, t)
  PROVE  JInv' /\ Dispatches
<1> DEFINE r == turn[t]
           n == r.attempt + 1
           w == WorkerOf[s]
           q == [r EXCEPT !.status = "running", !.owner = w, !.lease = "live",
                          !.attempt = n]
           new == [Idle EXCEPT !.pc = "loading", !.turn = t, !.attempt = n]
<1>1. /\ r \in TurnRow /\ r.status = "queued" /\ n \in Nat
      /\ turn \in [Turn -> TurnRow] /\ w \in Worker
      /\ t \notin retaken => RowKept(r)
  BY OwnersAssumption DEF IInv, TypeOK, JInv, ClaimTake, TurnRow
<1>2. turn' = [turn EXCEPT ![t] = q] /\ slot' = [slot EXCEPT ![s] = new]
  BY <1>1 DEF ClaimTake, TurnRow
<1>3. new.pc = "loading" /\ new.turn = t /\ new.attempt = n /\ new.outcome = "none"
  BY DEF Idle
<1>4. t \notin retaken => n <= MaxAttempts + r.rounds
  BY <1>1, LimitsAssumption DEF RowKept, TurnRow
<1> HIDE DEF n
<1>5. /\ q.status = "running" /\ q.owner = w /\ q.lease = "live" /\ q.attempt = n
      /\ q.output = r.output /\ q.cancel = r.cancel /\ q.rounds = r.rounds
  BY <1>1 DEF TurnRow
<1> HIDE DEF q, new
<1>6. turn'[t] = q /\ \A u \in Turn \ {t} : turn'[u] = turn[u]
  BY <1>1, <1>2
<1>7. slot'[s] = new /\ \A z \in Slot \ {s} : slot'[z] = slot[z]
  BY <1>2, SlotTyped
<1>8. /\ retaken \subseteq retaken'
      /\ \A z \in Slot \ {s} :
           WorkerOf[z] = w /\ slot[z].turn = t => t \in retaken'
  BY DEF ClaimTake, HeldBeside
<1>9. \A u \in Turn \ retaken' : RowKept(turn'[u])
  <2>1. t \notin retaken => RowKept(q)
    BY <1>4, <1>5 DEF RowKept
  <2>2. QED
    BY <1>6, <1>8, <2>1 DEF JInv
<1>10. SlotOK(s)'
  <2>1. Knows(w, new, q)
    BY <1>3, <1>5 DEF Knows, Calling, Called, Marked, Following
  <2>2. QED
    BY <1>3, <1>6, <1>7, <2>1 DEF SlotOK
<1>11. ASSUME NEW z \in Slot \ {s}
       PROVE  SlotOK(z)'
  <2>1. SlotOK(z) /\ slot'[z] = slot[z]
    BY <1>7 DEF JInv
  <2>2. CASE slot[z].turn # t
    BY <1>6, <1>8, <2>1, <2>2 DEF SlotOK
  <2>3. CASE slot[z].turn = t /\ t \in retaken'
    BY <2>1, <2>3 DEF SlotOK
  <2>4. CASE slot[z].turn = t /\ t \notin retaken'
    <3>1. Knows(WorkerOf[z], slot[z], r)
      BY <1>8, <2>1, <2>4 DEF SlotOK
    <3>2. WorkerOf[z] # w
      BY <1>8, <2>4
    <3>3. slot[z].pc # "executing"
      BY <1>1, <3>1 DEF Knows, Terminal
    <3>4. Knows(WorkerOf[z], slot[z], q)
      BY <1>5, <3>2, <3>3 DEF Knows, Claimed
    <3>5. QED
      BY <1>6, <2>1, <2>4, <3>4 DEF SlotOK
  <2>5. QED
    BY <2>2, <2>3, <2>4
<1>12. Apart'
  <2> SUFFICES ASSUME NEW x \in Slot, NEW y \in Slot,
                      WorkerOf[x] = WorkerOf[y],
                      slot'[x].turn = slot'[y].turn,
                      slot'[x].turn \in Turn \ retaken'
               PROVE  x = y
    BY DEF Apart
  <2>1. CASE x # s /\ y # s
    BY <1>7, <1>8, <2>1 DEF JInv, Apart
  <2>2. CASE x = s \/ y = s
    BY <1>3, <1>7, <1>8, <2>2
  <2>3. QED
    BY <2>1, <2>2
<1>13. Dispatches
  BY <1>3, <1>7 DEF Dispatches
<1>14. QED
  BY <1>9, <1>10, <1>11, <1>12, <1>13 DEF JInv

\* Parking releases the turn: a slot that runs a tool for it would have to be
\* the one that parks (user_question.go:105).
LEMMA ParkKeeps ==
  ASSUME IInv, IInv', JInv, retaken' = retaken, NEW s \in Slot, Park(s)
  PROVE  JInv' /\ Dispatches
<1> DEFINE t == slot[s].turn
           r == turn[t]
           q == [r EXCEPT !.status = "waiting_for_user", !.owner = NoWorker,
                          !.lease = "none", !.output = TRUE, !.ckpt = TRUE,
                          !.question = "pending", !.awaiting = TRUE]
<1>1. /\ t \in Turn /\ turn \in [Turn -> TurnRow]
      /\ r \in TurnRow /\ r.status = "running" /\ Owns(s)
      /\ Claimed(WorkerOf[s], r)
      /\ t \notin retaken => RowKept(r) /\ Knows(WorkerOf[s], slot[s], r)
  BY OwnedKept DEF Park
<1>2. t \notin retaken => r.attempt < MaxAttempts + r.rounds
  BY <1>1 DEF Park, At, Knows, Calling, Called, Marked
<1>3. turn' = [turn EXCEPT ![t] = q] /\ Release(s)
  BY <1>1 DEF Park
<1>4. /\ q.status = "waiting_for_user" /\ q.attempt = r.attempt
      /\ q.rounds = r.rounds
  BY <1>1 DEF TurnRow
<1> HIDE DEF q
<1>5. /\ turn'[t] = q /\ \A u \in Turn \ {t} : turn'[u] = turn[u]
      /\ q \in TurnRow
  BY <1>1, <1>3 DEF IInv, TypeOK
<1>6. /\ slot'[s] = Idle /\ \A z \in Slot \ {s} : slot'[z] = slot[z]
      /\ Idle.turn \notin Turn
  BY <1>3, SlotTyped, OwnersAssumption DEF Release, Idle
<1>7. \A u \in Turn \ retaken' : RowKept(turn'[u])
  <2>1. t \notin retaken => RowKept(q)
    BY <1>1, <1>2, <1>4 DEF RowKept
  <2>2. QED
    BY <1>5, <2>1 DEF JInv
<1>8. SlotOK(s)'
  BY <1>6 DEF SlotOK
<1>9. \A z \in Slot \ {s} : SlotOK(z)'
  BY <1>1, <1>3, <1>4, <1>5, <1>6, OutsidersKeep
<1>10. Apart'
  BY <1>6, ApartKept
<1>11. Dispatches
  BY <1>6 DEF Dispatches, Idle
<1>12. QED
  BY <1>7, <1>8, <1>9, <1>10, <1>11 DEF JInv

\* Every step of a slot keeps the beliefs of all slots.
LEMMA SlotNextKeeps ==
  ASSUME IInv, IInv', JInv, retaken' = retaken, NEW s \in Slot, SlotNext(s)
  PROVE  JInv' /\ Dispatches
<1>1. CASE Claim(s)
  BY <1>1, ClaimTakeKeeps DEF Claim
<1>2. CASE ClaimNothing(s) \/ Leave(s)
  BY <1>2, ForwardRows, ReleaseKeeps DEF ClaimNothing, Leave
<1>3. CASE \/ ResumeRefused(s) \/ ResumeAnswered(s)
           \/ \E tooLarge \in BOOLEAN : StartWithNotice(s, tooLarge)
           \/ Flush(s)
           \/ \E text \in BOOLEAN : CloseRound(s, text)
           \/ MarkOutput(s)
  BY <1>3, WritersOnward, OnwardKeeps
<1>4. CASE \/ \E received, calls \in BOOLEAN : CutRound(s, received, calls)
           \/ \E calls \in BOOLEAN : SaveRound(s, calls)
  BY <1>4, RoundsKeep
<1>5. CASE Park(s)
  BY <1>5, ParkKeeps
<1>6. CASE EndRun(s) \/ FailTurn(s)
  BY <1>6, EndsForward, ReleaseKeeps
<1>7. CASE \/ ClaimSelect(s) \/ ReadCheckpoint(s)
           \/ ResumeStopped(s) \/ ResumeLost(s) \/ Start(s) \/ HeartbeatStop(s)
           \/ Lost(s) \/ BlankRound(s) \/ NextCall(s) \/ Announce(s)
           \/ SkipCall(s) \/ ApprovalStopped(s) \/ ApprovalStale(s)
           \/ Dispatch(s) \/ ToolReturns(s) \/ BatchDone(s) \/ TimedOut(s)
           \/ ParkRefused(s) \/ StepFails(s)
  BY <1>7, ReadersOnward, OnwardKeeps
<1>8. QED
  BY <1>1, <1>2, <1>3, <1>4, <1>5, <1>6, <1>7 DEF SlotNext, Advance

-----------------------------------------------------------------------------
(* The inductive invariant *)

\* Nobody believes anything before the first claim.
LEMMA InitJInv == Init => JInv
<1> SUFFICES ASSUME Init PROVE JInv
  OBVIOUS
<1>1. RowKept(NoRow)
  BY LimitsAssumption DEF RowKept, NoRow
<1>2. \A s \in Slot : slot[s].turn \notin Turn
  BY OwnersAssumption DEF Init, Idle
<1>3. QED
  BY <1>1, <1>2 DEF Init, JInv, SlotOK, Apart

\* JInv is inductive, relative to IInv.
LEMMA StepJInv ==
  ASSUME IInv, JInv, [Next]_vars
  PROVE  JInv' /\ Dispatches
<1>1. IInv'
  BY StepIInv
<1>2. CASE \E s \in Slot, t \in Turn : ClaimTake(s, t)
  BY <1>1, <1>2, ClaimTakeKeeps
<1>3. CASE retaken' = retaken
  <2>1. CASE UNCHANGED vars
    <3>1. turn' = turn /\ slot' = slot
      BY <2>1 DEF vars
    <3>2. QED
      BY <1>1, <1>3, <3>1, ForwardRows, HandlersKeep
  <2>2. CASE \/ \E t \in Turn : TurnNext(t)
             \/ \E c \in Conversation : DeleteConversation(c)
             \/ \E p \in Project : ChangeConnection(p)
             \/ Recover
    BY <1>1, <1>3, <2>2, HandlersForward, HandlersKeep
  <2>3. CASE \E s \in Slot : SlotNext(s)
    BY <1>1, <1>3, <2>3, SlotNextKeeps
  <2>4. QED
    BY <2>1, <2>2, <2>3 DEF Next
<1>4. QED
  BY <1>2, <1>3, RetakenKept

\* Two slots never run tools for one turn that was not retaken, given that a
\* slot begins only while it owns the turn and that one that runs a tool for a
\* turn still under way is the last to have owned it.
LEMMA DispatchersKept ==
  ASSUME IInv, JInv, OneDispatcher, Dispatches, retaken \subseteq retaken'
  PROVE  OneDispatcher'
<1> SUFFICES ASSUME NEW s \in Slot, NEW z \in Slot,
                    slot'[s].pc = "executing", slot'[z].pc = "executing",
                    slot'[s].turn = slot'[z].turn,
                    slot'[s].turn \notin retaken'
             PROVE  s = z
  BY DEF OneDispatcher, At
<1> DEFINE t == slot[s].turn
<1>1. slot[s].turn = t /\ slot[z].turn = t /\ t \notin retaken
  BY DEF Dispatches
<1>2. CASE slot[s].pc = "executing" /\ slot[z].pc = "executing"
  BY <1>1, <1>2 DEF OneDispatcher, At
<1>3. CASE Owns(s) \/ Owns(z)
  <2>1. t \in Turn /\ turn[t].status = "running"
    BY <1>1, <1>3 DEF Owns
  <2>2. ASSUME NEW x \in {s, z}
        PROVE  turn[t].owner = WorkerOf[x]
    BY <1>1, <2>1 DEF Dispatches, Owns, JInv, SlotOK, Knows
  <2>3. WorkerOf[s] = WorkerOf[z]
    BY <2>2
  <2>4. QED
    BY <1>1, <2>1, <2>3 DEF JInv, Apart
<1>4. QED
  BY <1>2, <1>3 DEF Dispatches

\* What every slot believes of its turn is true in every reachable state, and
\* no two slots of a process hold a turn, as long as the turn was not retaken.
THEOREM BeliefsHold == Spec => [](IInv /\ JInv /\ OneDispatcher)
<1> DEFINE Inv == IInv /\ JInv /\ OneDispatcher
<1>1. Init => Inv
  BY InitIInv, InitJInv DEF Init, Idle, OneDispatcher, At
<1>2. ASSUME Inv, [Next]_vars
      PROVE  Inv'
  BY <1>2, StepIInv, StepJInv, RetakenGrows, DispatchersKept
<1> HIDE DEF Inv
<1>3. Spec => []Inv
  BY <1>1, <1>2, PTL DEF Spec
<1>4. QED
  BY <1>3 DEF Inv

\* Where every slot runs in a process of its own no turn is ever retaken
\* (config.go:116 says how many slots a process has).
THEOREM NothingRetaken ==
  ASSUME \A s, z \in Slot : WorkerOf[s] = WorkerOf[z] => s = z
  PROVE  Spec => [](retaken = {})
<1> DEFINE Inv == retaken = {}
<1>1. Init => Inv
  BY DEF Init
<1>2. ASSUME Inv, [Next]_vars
      PROVE  Inv'
  <2>1. \A s \in Slot, t \in Turn : ClaimTake(s, t) => retaken' = retaken
    BY DEF ClaimTake, HeldBeside
  <2>2. QED
    BY <1>2, <2>1, RetakenKept
<1> HIDE DEF Inv
<1>3. Spec => []Inv
  BY <1>1, <1>2, PTL DEF Spec
<1>4. QED
  BY <1>3 DEF Inv

-----------------------------------------------------------------------------
(* What follows *)

\* A worker's writes are fenced off by the claim of a later attempt: a slot
\* that owns its turn is the one the turn was last given to, unless its own
\* process took the turn up again beside it (every UPDATE of worker.go guarded
\* by claimed_by and lease).
THEOREM FencedOff == Spec => []Fenced
<1>1. JInv => Fenced
  BY DEF JInv, SlotOK, Knows, Claimed, Fenced, Owns
<1>2. QED
  BY BeliefsHold, <1>1, PTL

\* A tool runs only for a turn already known to have output, whichever
\* handler, sweep or slot acted since the mark was read; only a turn retaken
\* within a process may lose its mark (worker.go:787).
THEOREM ToolsMarked == Spec => []ToolsAreMarked
<1>1. IInv /\ JInv => ToolsAreMarked
  BY DEF IInv, Holding, JInv, SlotOK, Knows, ToolsAreMarked, At, Step
<1>2. QED
  BY BeliefsHold, <1>1, PTL

\* Tools never run for one turn in two slots at once, although a slot learns
\* of a lost lease only at its next write, even after the turn has ended or
\* was deleted under the tool, unless one process took the turn up twice
\* (worker.go:988).
THEOREM OneDispatches == Spec => []OneDispatcher
BY BeliefsHold, PTL

\* However turns are parked, answered, requeued and swept, attempts beyond
\* MaxAttempts are paid for by tool rounds, of which there are MaxRounds; two
\* slots of a process that write one transcript may lose rounds of a retaken
\* turn (worker.go:1646, 1721).
THEOREM AttemptsAreBounded == Spec => []AttemptsBounded
<1>1. JInv => AttemptsBounded
  BY DEF JInv, RowKept, AttemptsBounded
<1>2. QED
  BY BeliefsHold, <1>1, PTL

\* A turn ends stopped only if somebody asked for it, whatever a slot
\* remembers from an earlier claim, unless it was retaken (worker.go:1063).
THEOREM StopsWereAsked == Spec => []StoppedOnRequest
<1>1. JInv => StoppedOnRequest
  BY DEF JInv, RowKept, StoppedOnRequest
<1>2. QED
  BY BeliefsHold, <1>1, PTL

-----------------------------------------------------------------------------
(* Every step is a step of the promise.  What users see of a turn is its     *)
(* phase and whether a stop was asked for.                                   *)

Phase == [t \in Turn |-> PhaseOf(turn[t])]
Stops == {t \in Turn : turn[t].cancel}

\* No row shows a difference.
Unseen ==
  \A t \in Turn : /\ PhaseOf(turn'[t]) = PhaseOf(turn[t])
                  /\ turn'[t].cancel = turn[t].cancel

\* A step users do not notice.
Quiet == Unseen /\ UNCHANGED <<used, retaken>>

\* The phase of each status, and that there is no other.
LEMMA Phases ==
  ASSUME NEW r \in TurnRow
  PROVE  \/ r.status = "absent" /\ PhaseOf(r) = "none"
         \/ r.status \in {"queued", "running"} /\ PhaseOf(r) = "working"
         \/ r.status = "waiting_for_user" /\ PhaseOf(r) = "waiting"
         \/ r.status = "deleted" /\ PhaseOf(r) = "removed"
         \/ r.status \in Terminal /\ PhaseOf(r) = r.status
BY DEF PhaseOf, TurnRow, Active, Terminal

\* A step users do not notice leaves the promise's state alone.
LEMMA QuietStutters ==
  ASSUME Quiet
  PROVE  UNCHANGED Promised!vars
BY DEF Quiet, Unseen, Promised!vars

\* One row is written.
LEMMA OnePhase ==
  ASSUME IInv, IInv', NEW t \in Turn, NEW q, turn' = [turn EXCEPT ![t] = q]
  PROVE  /\ q \in TurnRow
         /\ Phase' = [Phase EXCEPT ![t] = PhaseOf(q)]
         /\ q.cancel = turn[t].cancel => Stops' = Stops
         /\ q.cancel => Stops' = Stops \cup {t}
<1>1. turn \in [Turn -> TurnRow] /\ turn' \in [Turn -> TurnRow]
  BY DEF IInv, TypeOK
<1>2. /\ turn'[t] = q /\ q \in TurnRow
      /\ \A u \in Turn \ {t} : turn'[u] = turn[u]
  BY <1>1
<1>3. Phase' = [Phase EXCEPT ![t] = PhaseOf(q)]
  <2> DEFINE phase == PhaseOf(q)
  <2>1. \A u \in Turn : PhaseOf(turn'[u]) = IF u = t THEN phase
                                                    ELSE PhaseOf(turn[u])
    BY <1>2
  <2> HIDE DEF phase
  <2>2. Phase' = [u \in Turn |-> IF u = t THEN phase ELSE PhaseOf(turn[u])]
    BY <2>1 DEF Phase
  <2>3. Phase' = [Phase EXCEPT ![t] = phase]
    BY <2>2 DEF Phase
  <2>4. QED
    BY <2>3 DEF phase
<1>4. /\ q.cancel = turn[t].cancel => Stops' = Stops
      /\ q.cancel => Stops' = Stops \cup {t}
  BY <1>2 DEF Stops
<1>5. QED
  BY <1>2, <1>3, <1>4

\* Accepting a request is Accept: the sweep of its siblings left none of them
\* open, so each that was worked on has failed (ai_turns.go:306).
LEMMA SubmitAccepts ==
  ASSUME IInv, JInv, IInv', NEW t \in Turn, Submit(t)
  PROVE  Promised!Accept(t)
<1> DEFINE sib  == Siblings(t)
           rows == Swept(sib)
           new  == [NoRow EXCEPT !.status = "queued", !.reply = "pending"]
<1>1. sib \in SUBSET Turn /\ sib = Promised!Siblings(t)
  BY DEF Siblings, Promised!Siblings
<1>2. /\ rows \in [Turn -> TurnRow]
      /\ \A u \in Turn : turn[u] \in TurnRow /\ rows[u] \in TurnRow
  BY <1>1, SweptChanges DEF IInv, TypeOK
<1>3. /\ turn' = [rows EXCEPT ![t] = new]
      /\ used' = used + 1 /\ retaken' = retaken
      /\ turn[t] = NoRow /\ used < MonthlyLimit
      /\ \A u \in sib : turn[u].status # "deleted" /\ rows[u].status \notin Active
  BY DEF Submit, Busy, IInv, RowOK
<1>4. new.status = "queued" /\ new.cancel = FALSE /\ NoRow.cancel = FALSE
      /\ NoRow.status = "absent"
  BY DEF NoRow
<1>5. \A u \in Turn \ sib : rows[u] = turn[u]
  BY <1>1 DEF Swept, Expired
<1>6. ASSUME NEW u \in sib
      PROVE  /\ turn[u].status \notin {"waiting_for_user", "deleted"}
             /\ rows[u].cancel = turn[u].cancel
             /\ IF turn[u].status \in {"queued", "running"}
                  THEN rows[u].status = "failed" ELSE rows[u] = turn[u]
  <2>1. u \in Turn /\ turn[u] \in TurnRow
    BY <1>1, <1>2
  <2>2. CASE u \in Expired(sib)
    <3>1. rows[u] = RecoveredRow(turn[u]) /\ turn[u].status = "running"
      BY <2>1, <2>2 DEF Swept, Expired
    <3>2. /\ rows[u].status \in {"queued", "failed"}
          /\ rows[u].cancel = turn[u].cancel
      BY <2>1, <3>1, RecoveredFields
    <3>3. QED
      BY <1>3, <3>1, <3>2 DEF Active
  <2>3. CASE u \notin Expired(sib)
    BY <1>3, <2>1, <2>3 DEF Swept, Active
  <2>4. QED
    BY <2>2, <2>3
<1> HIDE DEF sib, rows, new
<1>7. turn'[t] = new /\ \A u \in Turn \ {t} : turn'[u] = rows[u]
  BY <1>2, <1>3
<1>8. turn'[t] \in TurnRow /\ PhaseOf(turn[t]) = "none" /\ PhaseOf(turn'[t]) = "working"
  BY <1>2, <1>3, <1>4, <1>7, Phases DEF IInv, TypeOK, Terminal
<1>9. \A u \in sib : PhaseOf(turn[u]) \notin {"waiting", "removed"}
  BY <1>1, <1>2, <1>6, Phases DEF Terminal
<1>10. ASSUME NEW u \in Turn \ {t}
       PROVE  PhaseOf(turn'[u]) = IF u \in sib /\ PhaseOf(turn[u]) = "working"
                                    THEN "failed" ELSE PhaseOf(turn[u])
  BY <1>2, <1>5, <1>6, <1>7, Phases DEF Terminal
<1>11. Stops' = Stops
  BY <1>1, <1>3, <1>4, <1>5, <1>6, <1>7 DEF Stops
<1>12. Phase' = [u \in Turn |-> IF u = t THEN "working"
                     ELSE IF u \in sib /\ PhaseOf(turn[u]) = "working" THEN "failed"
                     ELSE PhaseOf(turn[u])]
  BY <1>8, <1>10 DEF Phase
<1>13. QED
  BY <1>1, <1>3, <1>8, <1>9, <1>11, <1>12 DEF Promised!Accept, Promised!Interrupted, Phase, Stops

\* A sweep gives up the work it does not queue again (worker.go:1721).
LEMMA SweepGivesUp ==
  ASSUME IInv, NEW turns \in SUBSET Turn, turn' = Swept(turns), UNCHANGED <<used, retaken>>
  PROVE  \E lost \in SUBSET Turn : Promised!GiveUp(lost)
<1> DEFINE lost == {t \in Expired(turns) : ~Retryable(turn[t])}
<1>1. lost \in SUBSET Turn
  BY DEF Expired
<1>2. ASSUME NEW t \in Turn
      PROVE  /\ turn'[t].cancel = turn[t].cancel
             /\ PhaseOf(turn'[t]) = IF t \in lost /\ PhaseOf(turn[t]) = "working"
                                      THEN "failed" ELSE PhaseOf(turn[t])
  <2>1. turn[t] \in TurnRow /\ turn'[t] \in TurnRow
    BY <1>2, SweptChanges DEF IInv, TypeOK
  <2>2. CASE t \in Expired(turns)
    <3>1. turn'[t] = RecoveredRow(turn[t]) /\ turn[t].status = "running"
      BY <2>2 DEF Swept, Expired
    <3>2. /\ turn'[t].status = IF Retryable(turn[t]) THEN "queued" ELSE "failed"
          /\ turn'[t].cancel = turn[t].cancel
      BY <2>1, <3>1, RecoveredFields
    <3>3. PhaseOf(turn[t]) = "working"
      BY <2>1, <3>1, Phases DEF Terminal
    <3>4. PhaseOf(turn'[t]) = IF Retryable(turn[t]) THEN "working" ELSE "failed"
      BY <2>1, <3>2, Phases DEF Terminal
    <3>5. QED
      BY <2>2, <3>2, <3>3, <3>4
  <2>3. CASE t \notin Expired(turns)
    BY <2>3 DEF Swept
  <2>4. QED
    BY <2>2, <2>3
<1> HIDE DEF lost
<1>3. Phase' = [t \in Turn |-> IF t \in lost /\ PhaseOf(turn[t]) = "working"
                                 THEN "failed" ELSE PhaseOf(turn[t])]
  BY <1>2 DEF Phase
<1>4. Stops' = Stops
  BY <1>2 DEF Stops
<1>5. Promised!GiveUp(lost)
  BY <1>1, <1>3, <1>4 DEF Promised!GiveUp, Promised!Interrupted, Phase, Stops
<1>6. QED
  BY <1>1, <1>5

\* The handlers for turns that exist are RequestStop and Continue, a lease that
\* runs out is nothing (ai_turn_observers.go:289, ai_user_questions.go:81).
LEMMA HandlersPromised ==
  ASSUME IInv, IInv', NEW t \in Turn, Cancel(t) \/ Answer(t) \/ ExpireLease(t)
  PROVE  Promised!RequestStop(t) \/ Promised!Continue(t) \/ Quiet
<1> DEFINE r == turn[t]
<1>1. /\ turn \in [Turn -> TurnRow] /\ r \in TurnRow /\ UNCHANGED <<used, retaken>>
      /\ Phase[t] = PhaseOf(r)
  BY DEF IInv, TypeOK, Cancel, Answer, ExpireLease, Phase
<1>2. CASE Cancel(t) /\ r.status = "running"
  <2> DEFINE c == CancelQuestions(r)
             q == [c EXCEPT !.cancel = TRUE]
  <2>1. turn' = [turn EXCEPT ![t] = q]
    BY <1>1, <1>2 DEF Cancel
  <2>2. c \in TurnRow /\ c.status = "running"
    BY <1>1, <1>2, CancelQuestionsKeeps
  <2> HIDE DEF c
  <2>3. q.status = "running" /\ q.cancel
    BY <2>2 DEF TurnRow
  <2> HIDE DEF q
  <2>4. /\ q \in TurnRow /\ Phase' = [Phase EXCEPT ![t] = PhaseOf(q)]
        /\ Stops' = Stops \cup {t}
    BY <2>1, <2>3, OnePhase
  <2>5. PhaseOf(q) = "working" /\ PhaseOf(r) = "working"
    BY <1>1, <1>2, <2>3, <2>4, Phases DEF Terminal
  <2>6. Phase' = Phase
    BY <1>1, <2>4, <2>5 DEF Phase
  <2>7. Promised!RequestStop(t)
    BY <1>1, <2>4, <2>5, <2>6 DEF Promised!RequestStop, Promised!Open, Phase, Stops
  <2>8. QED
    BY <2>7
<1>3. CASE Cancel(t) /\ r.status # "running"
  <2> DEFINE q == StoppedRow(r)
  <2>1. r.status \in {"queued", "waiting_for_user"}
    BY <1>3 DEF Cancel, Active
  <2>2. turn' = [turn EXCEPT ![t] = q]
    BY <1>1, <1>3 DEF Cancel
  <2>3. q.status = "stopped" /\ q.cancel
    <3> DEFINE c == CancelQuestions(r)
               left == IF c.reply = "pending" THEN "partial" ELSE c.reply
               n == c.endings + 1
               y == [c EXCEPT !.status = "stopped", !.cancel = TRUE,
                              !.reply = left, !.endings = n]
    <3>1. c \in TurnRow
      BY <1>1, CancelQuestionsKeeps
    <3>2. q = y
      BY <3>1 DEF StoppedRow, TurnRow
    <3> HIDE DEF c, left, n, q
    <3>3. QED
      BY <3>1, <3>2 DEF TurnRow
  <2> HIDE DEF q
  <2>4. /\ q \in TurnRow /\ Phase' = [Phase EXCEPT ![t] = PhaseOf(q)]
        /\ Stops' = Stops \cup {t}
    BY <2>2, <2>3, OnePhase
  <2>5. PhaseOf(q) = "stopped" /\ PhaseOf(r) \in {"working", "waiting"}
    BY <1>1, <2>1, <2>3, <2>4, Phases DEF Terminal
  <2>6. Promised!RequestStop(t)
    BY <1>1, <2>4, <2>5 DEF Promised!RequestStop, Promised!Open, Phase, Stops
  <2>7. QED
    BY <2>6
<1>4. CASE Answer(t)
  <2> DEFINE q == [r EXCEPT !.question = "answered", !.status = "queued",
                            !.owner = NoWorker, !.lease = "none"]
  <2>1. turn' = [turn EXCEPT ![t] = q] /\ r.status = "waiting_for_user"
    BY <1>1, <1>4 DEF Answer
  <2>2. q.status = "queued" /\ q.cancel = r.cancel
    BY <1>1 DEF TurnRow
  <2> HIDE DEF q
  <2>3. /\ q \in TurnRow /\ Phase' = [Phase EXCEPT ![t] = PhaseOf(q)]
        /\ Stops' = Stops
    BY <2>1, <2>2, OnePhase
  <2>4. PhaseOf(q) = "working" /\ PhaseOf(r) = "waiting"
    BY <1>1, <2>1, <2>2, <2>3, Phases DEF Terminal
  <2>5. Promised!Continue(t)
    BY <1>1, <2>3, <2>4 DEF Promised!Continue, Phase, Stops
  <2>6. QED
    BY <2>5
<1>5. CASE ExpireLease(t)
  <2>1. \A u \in Turn : /\ turn'[u] \in TurnRow /\ turn[u] \in TurnRow
                        /\ turn'[u].status = turn[u].status
                        /\ turn'[u].cancel = turn[u].cancel
    <3> DEFINE q == [r EXCEPT !.lease = "expired"]
    <3>1. turn' = [turn EXCEPT ![t] = q]
      BY <1>1, <1>5 DEF ExpireLease
    <3>2. q \in TurnRow /\ q.status = r.status /\ q.cancel = r.cancel
      BY <1>1 DEF TurnRow
    <3> HIDE DEF q
    <3>3. QED
      BY <1>1, <3>1, <3>2
  <2>2. QED
    BY <1>1, <2>1 DEF Quiet, Unseen, PhaseOf
<1>6. QED
  BY <1>2, <1>3, <1>4, <1>5

\* Losing a connection withdraws the waiting requests of a project, deleting a
\* conversation removes its requests (mcp_connections.go:1031,
\* ai_conversations.go:336).
LEMMA ManyPromised ==
  ASSUME IInv, IInv'
  PROVE  /\ \A p \in Project : ChangeConnection(p) =>
              \E turns \in SUBSET Turn : Promised!Withdraw(turns)
         /\ \A c \in Conversation : DeleteConversation(c) => Promised!Remove(c)
<1>1. ASSUME NEW p \in Project, ChangeConnection(p)
      PROVE  \E turns \in SUBSET Turn : Promised!Withdraw(turns)
  <2> DEFINE turns == WaitingIn(p)
  <2>1. turns \in SUBSET Turn
    BY DEF WaitingIn
  <2>2. ASSUME NEW t \in Turn
        PROVE  /\ turn'[t].cancel = turn[t].cancel
               /\ PhaseOf(turn'[t]) = IF t \in turns /\ PhaseOf(turn[t]) = "waiting"
                                        THEN "failed" ELSE PhaseOf(turn[t])
    <3>1. turn[t] \in TurnRow /\ turn'[t] \in TurnRow
      BY DEF IInv, TypeOK
    <3>2. CASE t \in turns
      <4>1. turn'[t] = ConnectionLostRow(turn[t])
        BY <1>1, <3>2 DEF ChangeConnection
      <4>2. turn'[t].status = "failed" /\ turn'[t].cancel = turn[t].cancel
        <5> DEFINE r == turn[t]
                   left == IF ~r.output /\ r.reply = "pending" THEN "failed" ELSE r.reply
                   n == r.endings + 1
                   q == [r EXCEPT !.status = "failed", !.owner = NoWorker,
                                  !.lease = "none", !.reply = left, !.endings = n]
        <5>1. turn'[t] = q
          BY <3>1, <4>1 DEF ConnectionLostRow, TurnRow
        <5> HIDE DEF left, n
        <5>2. q.status = "failed" /\ q.cancel = r.cancel
          BY <3>1 DEF TurnRow
        <5>3. QED
          BY <5>1, <5>2
      <4>3. turn[t].status = "waiting_for_user"
        BY <3>2 DEF WaitingIn
      <4>4. PhaseOf(turn'[t]) = "failed" /\ PhaseOf(turn[t]) = "waiting"
        BY <3>1, <4>2, <4>3, Phases DEF Terminal
      <4>5. QED
        BY <3>2, <4>2, <4>4
    <3>3. CASE t \notin turns
      BY <1>1, <3>3 DEF ChangeConnection
    <3>4. QED
      BY <3>2, <3>3
  <2> HIDE DEF turns
  <2>3. Phase' = [t \in Turn |-> IF t \in turns /\ PhaseOf(turn[t]) = "waiting"
                                   THEN "failed" ELSE PhaseOf(turn[t])]
    BY <2>2 DEF Phase
  <2>4. Stops' = Stops /\ UNCHANGED <<used, retaken>>
    BY <1>1, <2>2 DEF Stops, ChangeConnection
  <2>5. Promised!Withdraw(turns)
    BY <2>1, <2>3, <2>4 DEF Promised!Withdraw, Phase, Stops
  <2>6. QED
    BY <2>1, <2>5
<1>2. ASSUME NEW c \in Conversation, DeleteConversation(c)
      PROVE  Promised!Remove(c)
  <2> DEFINE gone == {t \in Turn : /\ ConversationOf[t] = c
                                   /\ turn[t].status # "absent"}
  <2>1. \A t \in Turn : turn'[t] = IF t \in gone THEN DeletedRow ELSE turn[t]
    BY <1>2 DEF DeleteConversation
  <2>2. \A t \in Turn : turn[t] \in TurnRow
    BY DEF IInv, TypeOK
  <2>3. gone = {t \in Turn : ConversationOf[t] = c /\ PhaseOf(turn[t]) # "none"}
    BY <2>2, Phases DEF Terminal
  <2>4. PhaseOf(DeletedRow) = "removed"
    BY DeletedRowOK, Phases DEF Terminal
  <2>5. DeletedRow.cancel = FALSE
    <3>1. NoRow \in TurnRow /\ NoRow.cancel = FALSE
      BY LimitsAssumption DEF NoRow, TurnRow
    <3>2. QED
      BY <3>1 DEF DeletedRow, TurnRow
  <2> HIDE DEF gone
  <2>6. \A t \in Turn : PhaseOf(turn'[t]) = IF t \in gone THEN "removed"
                                                       ELSE PhaseOf(turn[t])
    BY <2>1, <2>4
  <2>7. Phase' = [t \in Turn |-> IF t \in gone THEN "removed" ELSE PhaseOf(turn[t])]
    BY <2>6 DEF Phase
  <2>8. Stops' = Stops \ gone /\ UNCHANGED <<used, retaken>>
    BY <1>2, <2>1, <2>5 DEF Stops, DeleteConversation
  <2>9. QED
    BY <2>3, <2>7, <2>8 DEF Promised!Remove, Phase, Stops
<1>3. QED
  BY <1>1, <1>2

\* A row of a claimed turn that is written without ending it.
LEMMA QuietWrite ==
  ASSUME IInv, IInv', NEW t \in Turn, NEW q, turn' = [turn EXCEPT ![t] = q],
         turn[t].status \in {"queued", "running"},
         q.status \in {"queued", "running"},
         q.cancel = turn[t].cancel
  PROVE  Unseen
<1>1. turn \in [Turn -> TurnRow] /\ turn[t] \in TurnRow /\ q \in TurnRow
  BY OnePhase DEF IInv, TypeOK
<1>2. PhaseOf(q) = "working" /\ PhaseOf(turn[t]) = "working"
  BY <1>1, Phases DEF Terminal
<1>3. QED
  BY <1>1, <1>2 DEF Unseen

\* Taking up queued work is the workers' own affair, unless another slot of
\* the process is still at it (worker.go:216).
LEMMA ClaimPromised ==
  ASSUME IInv, IInv', NEW s \in Slot, NEW t \in Turn, ClaimTake(s, t)
  PROVE  Quiet \/ Promised!TakeUpAgain(t)
<1> DEFINE r == turn[t]
           n == r.attempt + 1
           q == [r EXCEPT !.status = "running", !.owner = WorkerOf[s],
                          !.lease = "live", !.attempt = n]
<1>1. turn \in [Turn -> TurnRow] /\ r \in TurnRow /\ r.status = "queued"
  BY DEF IInv, TypeOK, ClaimTake
<1>2. turn' = [turn EXCEPT ![t] = q]
  BY <1>1 DEF ClaimTake, TurnRow
<1>3. /\ UNCHANGED used
      /\ retaken' = retaken \/ retaken' = retaken \cup {t}
  BY DEF ClaimTake
<1> HIDE DEF n
<1>4. q.status = "running" /\ q.cancel = r.cancel
  BY <1>1 DEF TurnRow
<1> HIDE DEF q
<1>5. Unseen
  BY <1>1, <1>2, <1>4, QuietWrite
<1>6. Phase' = Phase /\ Stops' = Stops /\ Phase[t] = "working"
  BY <1>1, <1>5, Phases DEF Unseen, Phase, Stops, Terminal
<1>7. CASE retaken' = retaken \cup {t}
  BY <1>3, <1>6, <1>7 DEF Promised!TakeUpAgain, Phase, Stops
<1>8. QED
  BY <1>3, <1>5, <1>7 DEF Quiet

\* Rounds, output and retries are the workers' own affair.
LEMMA WorkIsQuiet ==
  ASSUME IInv, JInv, IInv', NEW s \in Slot,
         \/ ResumeRefused(s) \/ ResumeAnswered(s)
         \/ \E tooLarge \in BOOLEAN : StartWithNotice(s, tooLarge)
         \/ Flush(s)
         \/ \E text \in BOOLEAN : CloseRound(s, text)
         \/ MarkOutput(s)
         \/ \E received, calls \in BOOLEAN : CutRound(s, received, calls)
         \/ \E calls \in BOOLEAN : SaveRound(s, calls)
         \/ Requeue(s)
  PROVE  Quiet
<1> DEFINE t == slot[s].turn
           r == turn[t]
<1>1. UNCHANGED <<used, retaken>>
  BY DEF ResumeRefused, ResumeAnswered, StartWithNotice, Flush, CloseRound, MarkOutput, CutRound, SaveRound, Requeue
<1>2. turn \in [Turn -> TurnRow] /\ (turn' = turn => Quiet)
  BY <1>1 DEF IInv, TypeOK, Quiet, Unseen
<1>3. ASSUME Owns(s), NEW q, turn' = [turn EXCEPT ![t] = q],
             q.status \in {"queued", "running"}, q.cancel = r.cancel
      PROVE  Quiet
  BY <1>1, <1>3, OwnedKept, QuietWrite DEF Quiet
<1>4. ASSUME Owns(s)
      PROVE  /\ t \in Turn /\ r \in TurnRow /\ r.status = "running"
             /\ CancelQuestions(r).status = "running"
             /\ CancelQuestions(r).cancel = r.cancel
             /\ \A n : Save(r, n).status = "running" /\ Save(r, n).cancel = r.cancel
  BY <1>4, OwnedKept, CancelQuestionsKeeps, SavedFields
<1>5. CASE ResumeRefused(s)
  <2>1. Owns(s) /\ turn' = [turn EXCEPT ![t] = CancelQuestions(r)]
    BY <1>2, <1>4, <1>5 DEF ResumeRefused
  <2>2. QED
    BY <1>3, <1>4, <2>1
<1>6. CASE ResumeAnswered(s)
  <2> DEFINE q == [r EXCEPT !.ckpt = FALSE, !.awaiting = FALSE]
  <2>1. Owns(s) /\ turn' = [turn EXCEPT ![t] = q]
    BY <1>2, <1>4, <1>6 DEF ResumeAnswered
  <2>2. q.status = "running" /\ q.cancel = r.cancel
    BY <1>4, <2>1 DEF TurnRow
  <2> HIDE DEF q
  <2>3. QED
    BY <1>3, <2>1, <2>2
<1>7. CASE \/ \E tooLarge \in BOOLEAN : StartWithNotice(s, tooLarge)
           \/ Flush(s)
           \/ \E text \in BOOLEAN : CloseRound(s, text)
           \/ MarkOutput(s)
  <2> DEFINE q == [r EXCEPT !.output = TRUE]
  <2>1. turn' = turn \/ (Owns(s) /\ turn' = [turn EXCEPT ![t] = q])
    BY <1>2, <1>4, <1>7 DEF StartWithNotice, Flush, CloseRound, MarkOutput
  <2>2. Owns(s) => q.status = "running" /\ q.cancel = r.cancel
    BY <1>4 DEF TurnRow
  <2> HIDE DEF q
  <2>3. QED
    BY <1>2, <1>3, <2>1, <2>2
<1>8. ASSUME NEW received \in BOOLEAN, NEW calls \in BOOLEAN,
             CutRound(s, received, calls) \/ SaveRound(s, calls)
      PROVE  Quiet
  <2> DEFINE q == Save(r, Extended(s, calls))
  <2>1. turn' = turn \/ (Owns(s) /\ turn' = [turn EXCEPT ![t] = q])
    BY <1>2, <1>4, <1>8 DEF CutRound, SaveRound
  <2>2. Owns(s) => q.status = "running" /\ q.cancel = r.cancel
    BY <1>4
  <2> HIDE DEF q
  <2>3. QED
    BY <1>2, <1>3, <2>1, <2>2
<1>9. CASE Requeue(s)
  <2> DEFINE q == [r EXCEPT !.status = "queued", !.owner = NoWorker,
                            !.lease = "none"]
  <2>1. turn' = turn \/ (Owns(s) /\ turn' = [turn EXCEPT ![t] = q])
    BY <1>2, <1>4, <1>9 DEF Requeue
  <2>2. Owns(s) => q.status = "queued" /\ q.cancel = r.cancel
    BY <1>4 DEF TurnRow
  <2> HIDE DEF q
  <2>3. QED
    BY <1>2, <1>3, <2>1, <2>2
<1>10. QED
  BY <1>5, <1>6, <1>7, <1>8, <1>9

\* Parking asks the user (user_question.go:105).
LEMMA ParkAsks ==
  ASSUME IInv, JInv, IInv', NEW s \in Slot, Park(s)
  PROVE  \E t \in Turn : Promised!AskUser(t)
<1> DEFINE t == slot[s].turn
           r == turn[t]
           q == [r EXCEPT !.status = "waiting_for_user", !.owner = NoWorker,
                          !.lease = "none", !.output = TRUE, !.ckpt = TRUE,
                          !.question = "pending", !.awaiting = TRUE]
<1>1. /\ t \in Turn /\ turn \in [Turn -> TurnRow] /\ r \in TurnRow
      /\ r.status = "running"
  BY OwnedKept DEF Park
<1>2. turn' = [turn EXCEPT ![t] = q] /\ UNCHANGED <<used, retaken>> /\ ~r.cancel
  BY <1>1 DEF Park
<1>3. q.status = "waiting_for_user" /\ q.cancel = r.cancel
  BY <1>1 DEF TurnRow
<1> HIDE DEF q
<1>4. /\ q \in TurnRow /\ Phase' = [Phase EXCEPT ![t] = PhaseOf(q)]
      /\ Stops' = Stops
  BY <1>1, <1>2, <1>3, OnePhase
<1>5. PhaseOf(q) = "waiting" /\ PhaseOf(r) = "working"
  BY <1>1, <1>3, <1>4, Phases DEF Terminal
<1>6. Promised!AskUser(t)
  BY <1>1, <1>2, <1>4, <1>5 DEF Promised!AskUser, Phase, Stops
<1>7. QED
  BY <1>1, <1>6

\* A worker ends a request it owns, "stopped" only one it was asked to stop, or
\* finds it taken away and ends nothing (worker.go:1063, 416, 1678).
LEMMA EndsPromised ==
  ASSUME IInv, JInv, IInv', NEW s \in Slot, EndRun(s) \/ FailTurn(s)
  PROVE  Quiet \/ \E t \in Turn : Promised!End(t)
<1> DEFINE me == slot[s]
           t == me.turn
           r == turn[t]
<1>1. ASSUME NEW status \in Terminal, NEW reply, Finalize(s, status, reply),
             status = "stopped" => me.outcome = "stopped"
      PROVE  Quiet \/ \E u \in Turn : Promised!End(u)
  <2>1. CASE ~Owns(s)
    BY <1>1, <2>1 DEF Finalize, Quiet, Unseen
  <2>2. CASE Owns(s)
    <3>1. /\ t \in Turn /\ turn \in [Turn -> TurnRow] /\ r \in TurnRow
          /\ r.status = "running"
          /\ status = "stopped" => r.cancel \/ t \in retaken
      BY <1>1, <2>2, OwnedKept DEF Knows
    <3> DEFINE n == r.endings + 1
               q == [r EXCEPT !.status = status, !.lease = "none",
                              !.reply = reply, !.endings = n]
    <3>2. turn' = [turn EXCEPT ![t] = q] /\ UNCHANGED <<used, retaken>>
      BY <1>1, <2>2, <3>1 DEF Finalize, FinalRow, TurnRow
    <3> HIDE DEF n
    <3>3. q.status = status /\ q.cancel = r.cancel
      BY <3>1 DEF TurnRow
    <3> HIDE DEF q
    <3>4. /\ q \in TurnRow /\ Phase' = [Phase EXCEPT ![t] = PhaseOf(q)]
          /\ Stops' = Stops
      BY <3>1, <3>2, <3>3, OnePhase
    <3>5. PhaseOf(q) = status /\ PhaseOf(r) = "working"
      BY <3>1, <3>3, <3>4, Phases DEF Terminal
    <3>6. status \in Promised!Ended
      BY DEF Promised!Ended, Terminal
    <3>7. Promised!End(t)
      BY <3>1, <3>2, <3>4, <3>5, <3>6 DEF Promised!End, Phase, Stops
    <3>8. QED
      BY <3>1, <3>7
  <2>3. QED
    BY <2>1, <2>2
<1>2. \/ Requeue(s)
      \/ Finalize(s, "completed", "complete")
      \/ me.outcome = "stopped" /\ Finalize(s, "stopped", "partial")
      \/ Finalize(s, "failed", ReplyFor(me.output))
  BY DEF EndRun, FailTurn
<1>3. Requeue(s) => Quiet
  BY WorkIsQuiet
<1>4. QED
  BY <1>1, <1>2, <1>3 DEF Terminal

\* Every step of ChatTurns is a step of TurnPromise or nothing to its users.
LEMMA StepPromised ==
  ASSUME IInv, JInv, [Next]_vars
  PROVE  [Promised!Next]_Promised!vars
<1>1. IInv'
  BY StepIInv
<1>2. CASE UNCHANGED vars
  BY <1>2, QuietStutters DEF vars, Quiet, Unseen
<1>3. ASSUME NEW t \in Turn, TurnNext(t)
      PROVE  Promised!Next \/ Quiet
  <2>1. CASE Submit(t)
    BY <1>1, <2>1, SubmitAccepts DEF Promised!Next
  <2>2. CASE SubmitBusyOrReplayed(t)
    <3>1. /\ Siblings(t) \in SUBSET Turn
          /\ turn' = Swept(Siblings(t)) /\ UNCHANGED <<used, retaken>>
      BY <2>2 DEF SubmitBusyOrReplayed, Siblings
    <3>2. QED
      BY <3>1, SweepGivesUp DEF Promised!Next
  <2>3. CASE Cancel(t) \/ Answer(t) \/ ExpireLease(t)
    BY <1>1, <2>3, HandlersPromised DEF Promised!Next
  <2>4. QED
    BY <1>3, <2>1, <2>2, <2>3 DEF TurnNext
<1>4. CASE Recover
  <2>1. turn' = Swept(Turn) /\ UNCHANGED <<used, retaken>>
    BY <1>4 DEF Recover
  <2>2. QED
    BY <2>1, SweepGivesUp DEF Promised!Next
<1>5. ASSUME NEW c \in Conversation, DeleteConversation(c)
      PROVE  Promised!Next
  BY <1>1, <1>5, ManyPromised DEF Promised!Next
<1>6. ASSUME NEW p \in Project, ChangeConnection(p)
      PROVE  Promised!Next
  BY <1>1, <1>6, ManyPromised DEF Promised!Next
<1>7. ASSUME NEW s \in Slot, SlotNext(s)
      PROVE  Promised!Next \/ Quiet
  <2>1. CASE \/ ResumeRefused(s) \/ ResumeAnswered(s)
             \/ \E tooLarge \in BOOLEAN : StartWithNotice(s, tooLarge)
             \/ Flush(s)
             \/ \E text \in BOOLEAN : CloseRound(s, text)
             \/ MarkOutput(s)
             \/ \E received, calls \in BOOLEAN : CutRound(s, received, calls)
             \/ \E calls \in BOOLEAN : SaveRound(s, calls)
    BY <1>1, <2>1, WorkIsQuiet
  <2>2. CASE Park(s)
    BY <1>1, <2>2, ParkAsks DEF Promised!Next
  <2>3. CASE EndRun(s) \/ FailTurn(s)
    BY <1>1, <2>3, EndsPromised DEF Promised!Next
  <2>4. CASE UNCHANGED <<turn, used, retaken>>
    BY <2>4 DEF Quiet, Unseen
  <2>5. CASE \/ ClaimSelect(s) \/ ClaimNothing(s) \/ ReadCheckpoint(s)
             \/ ResumeStopped(s) \/ ResumeLost(s) \/ Start(s) \/ HeartbeatStop(s)
             \/ Lost(s) \/ BlankRound(s) \/ NextCall(s) \/ Announce(s)
             \/ SkipCall(s) \/ ApprovalStopped(s) \/ ApprovalStale(s)
             \/ Dispatch(s) \/ ToolReturns(s) \/ BatchDone(s) \/ TimedOut(s)
             \/ ParkRefused(s) \/ StepFails(s) \/ Leave(s)
    BY <2>4, <2>5 DEF ClaimSelect, ClaimNothing, ReadCheckpoint, ResumeStopped, ResumeLost, Start, HeartbeatStop, Lost, BlankRound, NextCall, Announce, SkipCall, ApprovalStopped, ApprovalStale, Dispatch, ToolReturns, BatchDone, TimedOut, ParkRefused, StepFails, Leave
  <2>6. CASE Claim(s)
    BY <1>1, <2>6, ClaimPromised DEF Claim, Promised!Next
  <2>7. QED
    BY <1>7, <2>1, <2>2, <2>3, <2>5, <2>6 DEF SlotNext, Advance
<1>8. Promised!Next \/ Quiet \/ UNCHANGED Promised!vars
  <2>1. Next \/ UNCHANGED vars
    OBVIOUS
  <2>2. QED
    BY <1>2, <1>3, <1>4, <1>5, <1>6, <1>7, <2>1 DEF Next
<1>9. Quiet => UNCHANGED Promised!vars
  BY QuietStutters
<1>10. QED
  BY <1>8, <1>9

\* Nothing was asked at first.
LEMMA InitPromised == Init => Promised!Init
<1> SUFFICES ASSUME Init PROVE Promised!Init
  OBVIOUS
<1>1. NoRow.status = "absent" /\ NoRow.cancel = FALSE
  BY DEF NoRow
<1>2. PhaseOf(NoRow) = "none"
  BY <1>1 DEF PhaseOf, Terminal
<1>3. \A t \in Turn : PhaseOf(turn[t]) = "none" /\ ~turn[t].cancel
  BY <1>1, <1>2 DEF Init
<1>4. Phase = [t \in Turn |-> "none"]
  BY <1>3 DEF Phase
<1>5. QED
  BY <1>3, <1>4 DEF Init, Promised!Init, Phase

\* Rows, leases, retries, sweeps and stops, in any interleaving, show users a
\* legal history of their requests: charged once, one open request per
\* conversation, ended once, stopped only when asked or when taken up again
\* while being worked on (ai_turns.go, ai_turn_observers.go,
\* ai_user_questions.go, worker.go).
THEOREM PromiseKeptSafely == Spec => Promised!Safety
<1>1. IInv /\ JInv /\ [Next]_vars => [Promised!Next]_Promised!vars
  BY StepPromised
<1>2. QED
  BY InitPromised, BeliefsHold, <1>1, PTL DEF Spec, Promised!Safety

=============================================================================
