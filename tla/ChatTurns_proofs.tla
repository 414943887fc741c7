--------------------------- MODULE ChatTurns_proofs ---------------------------
(***************************************************************************)
(* Proofs about ChatTurns for any number of turns, conversations, users,   *)
(* slots and processes, whatever ids the processes go by.                  *)
(*                                                                         *)
(* The facts about single rows are proved together: RowOK is inductive,    *)
(* and every step but a submission leaves each row alone, deletes it, or   *)
(* replaces a row that has not ended by one that is RowOK (Changes).       *)
(***************************************************************************)
EXTENDS ChatTurns, TLAPS

\* What holds of every row, as one inductive predicate.
RowOK(r) ==
  /\ r \in TurnRow
  /\ r.status = "running" <=> r.lease # "none"
  /\ r.status \in Active => r.reply = "pending"
  /\ r.status = "absent" => r = NoRow
  /\ r.endings = IF r.status \in Terminal THEN 1 ELSE 0
  /\ r.status = "waiting_for_user" => r.question = "pending"
  /\ r.question = "pending" => r.status \in {"waiting_for_user", "failed"}
  /\ r.question = "pending" => r.ckpt /\ r.awaiting
  /\ r.ckpt => r.question \in {"pending", "answered"}
  /\ r.ckpt /\ r.status \in Active => r.awaiting
  /\ r.status = "queued" /\ r.output => r.ckpt /\ r.question = "answered"
  /\ r.status = "completed" <=> r.reply = "complete"
  /\ r.status = "stopped" => r.reply = "partial"
  /\ r.status = "failed" => \/ r.reply \in {"partial", "failed"}
                            \/ r.output /\ r.reply = "pending"

\* A slot that runs has a turn.
Holding == \A s \in Slot : slot[s].pc \in Step => slot[s].turn \in Turn

\* The inductive invariant.
IInv ==
  /\ \A t \in Turn : RowOK(turn[t])
  /\ OneActiveTurn
  /\ TypeOK
  /\ Holding

\* A row that has not ended may be replaced by a good one that is active
\* only if it was active before.
Change(r, q) ==
  \/ q = r
  \/ /\ r.status \notin Terminal
     /\ RowOK(q)
     /\ q.status \in Active => r.status \in Active

Changes ==
  \A t \in Turn : Change(turn[t], turn'[t]) \/ turn'[t] = DeletedRow

\* The shape every action keeps.
Good ==
  /\ Changes
  /\ turn' \in [Turn -> TurnRow]
  /\ slot' \in [Slot -> SlotState]
  /\ used' \in Nat

-----------------------------------------------------------------------------
(* What the operators on rows preserve *)

\* Giving up a turn's questions touches the question and the checkpoint only
\* (user_question.go:436).
LEMMA CancelQuestionsFields ==
  ASSUME NEW r \in TurnRow, NEW c, c = CancelQuestions(r)
  PROVE  /\ c \in TurnRow
         /\ c.question = IF r.question = "pending" THEN "cancelled" ELSE r.question
         /\ c.ckpt = FALSE
         /\ c.status = r.status /\ c.lease = r.lease /\ c.output = r.output
         /\ c.reply = r.reply /\ c.endings = r.endings /\ c.awaiting = r.awaiting
BY DEF CancelQuestions, TurnRow

\* A claimed turn stays well formed without its questions.
LEMMA CancelQuestionsOK ==
  ASSUME NEW r, RowOK(r), r.status = "running", NEW b \in BOOLEAN
  PROVE  /\ RowOK(CancelQuestions(r))
         /\ RowOK([CancelQuestions(r) EXCEPT !.cancel = b])
<1> DEFINE c == CancelQuestions(r)
           q == [c EXCEPT !.cancel = b]
<1>1. r \in TurnRow /\ RowOK(r)
  BY DEF RowOK
<1>2. /\ c \in TurnRow /\ ~c.ckpt /\ c.status = r.status /\ c.lease = r.lease
      /\ c.output = r.output /\ c.reply = r.reply /\ c.endings = r.endings
      /\ c.awaiting = r.awaiting /\ c.question # "pending"
  BY <1>1, CancelQuestionsFields
<1> HIDE DEF c
<1>3. RowOK(c)
  BY <1>1, <1>2 DEF RowOK, Active, Terminal
<1>4. /\ q \in TurnRow /\ q.ckpt = c.ckpt /\ q.status = c.status
      /\ q.lease = c.lease /\ q.output = c.output /\ q.reply = c.reply
      /\ q.endings = c.endings /\ q.awaiting = c.awaiting /\ q.question = c.question
  BY <1>2 DEF TurnRow
<1> HIDE DEF q
<1>5. RowOK(q)
  BY <1>2, <1>3, <1>4 DEF RowOK, Active, Terminal
<1>6. QED
  BY <1>3, <1>5 DEF c, q

\* Stopping a turn no worker holds (ai_turn_observers.go:289).
LEMMA StoppedRowOK ==
  ASSUME NEW r, RowOK(r), r.status \in {"queued", "waiting_for_user"}
  PROVE  RowOK(StoppedRow(r))
<1> DEFINE c == CancelQuestions(r)
           q == [c EXCEPT !.status = "stopped", !.cancel = TRUE,
                          !.reply = "partial", !.endings = 1]
<1>1. /\ r \in TurnRow /\ r.endings = 0 /\ r.reply = "pending" /\ r.lease = "none"
  BY DEF RowOK, TurnRow, Active, Terminal
<1>2. /\ c \in TurnRow /\ c.endings = 0 /\ c.reply = "pending"
      /\ c.lease = "none" /\ ~c.ckpt /\ c.question # "pending"
  BY <1>1, CancelQuestionsFields
<1>3. StoppedRow(r) = q
  BY <1>2 DEF StoppedRow
<1> HIDE DEF c
<1>4. /\ q \in TurnRow
      /\ q.status = "stopped" /\ q.lease = "none" /\ q.endings = 1
      /\ q.reply = "partial" /\ q.question = c.question /\ q.ckpt = c.ckpt
  BY <1>2 DEF TurnRow, Active, Terminal
<1> HIDE DEF q
<1>5. RowOK(q)
  BY <1>2, <1>4 DEF RowOK, Active, Terminal
<1>6. QED
  BY <1>3, <1>5

\* The terminal write of a worker (worker.go:1678).
LEMMA FinalRowOK ==
  ASSUME NEW r, RowOK(r), r.status = "running", NEW status, NEW reply,
         \/ status = "completed" /\ reply = "complete"
         \/ status = "stopped" /\ reply = "partial"
         \/ status = "failed" /\ reply \in {"partial", "failed"}
  PROVE  RowOK(FinalRow(r, status, reply))
<1> DEFINE q == [r EXCEPT !.status = status, !.lease = "none",
                          !.reply = reply, !.endings = 1]
<1>1. FinalRow(r, status, reply) = q
  BY DEF RowOK, FinalRow, Active, Terminal
<1>2. q \in TurnRow
  BY DEF RowOK, TurnRow, Active, Terminal
<1>3. /\ q.status = status /\ q.lease = "none" /\ q.endings = 1
      /\ q.reply = reply /\ q.question = r.question /\ q.ckpt = r.ckpt
  BY DEF RowOK, TurnRow
<1> HIDE DEF q
<1>4. RowOK(q)
  BY <1>2, <1>3 DEF RowOK, Active, Terminal
<1>5. QED
  BY <1>1, <1>4

\* The sweep of an expired lease (worker.go:1721, ai_turns.go:449).
LEMMA RecoveredRowOK ==
  ASSUME NEW r, RowOK(r), r.status = "running"
  PROVE  RowOK(RecoveredRow(r))
<1>1. CASE Retryable(r)
  <2> DEFINE q == [r EXCEPT !.status = "queued", !.owner = NoWorker, !.lease = "none"]
  <2>1. q \in TurnRow
    BY DEF RowOK, TurnRow, Active, Terminal
  <2>2. /\ q.status = "queued" /\ q.lease = "none" /\ q.endings = r.endings
        /\ q.reply = r.reply /\ q.question = r.question /\ q.ckpt = r.ckpt
        /\ q.output = r.output /\ q.awaiting = r.awaiting
    BY DEF RowOK, TurnRow
  <2> HIDE DEF q
  <2>3. RowOK(q)
    BY <1>1, <2>1, <2>2 DEF RowOK, Active, Terminal, Retryable
  <2>4. QED
    BY <1>1, <2>3 DEF RecoveredRow, q
<1>2. CASE ~Retryable(r)
  <2> DEFINE c == CancelQuestions(r)
             left == IF ~r.output THEN "failed" ELSE "pending"
             q == [c EXCEPT !.status = "failed", !.owner = NoWorker,
                            !.lease = "none", !.reply = left, !.endings = 1]
  <2>1. r \in TurnRow /\ r.endings = 0 /\ r.reply = "pending"
    BY DEF RowOK, TurnRow, Active, Terminal
  <2>2. /\ c \in TurnRow /\ c.endings = 0 /\ c.reply = "pending"
        /\ ~c.ckpt /\ c.question # "pending" /\ c.output = r.output
    BY <2>1, CancelQuestionsFields
  <2>3. RecoveredRow(r) = q
    BY <1>2, <2>2 DEF RecoveredRow
  <2> HIDE DEF c
  <2>4. left \in {"absent", "pending", "complete", "partial", "failed"}
    OBVIOUS
  <2> HIDE DEF left
  <2>5. q \in TurnRow
    <3> DEFINE d == [c EXCEPT !.status = "failed", !.owner = NoWorker]
    <3>1. d \in TurnRow
      BY <2>2 DEF TurnRow, Active, Terminal
    <3>2. q = [d EXCEPT !.lease = "none", !.reply = left, !.endings = 1]
      BY <2>2 DEF TurnRow
    <3> HIDE DEF d, q
    <3>3. QED
      BY <2>4, <3>1, <3>2 DEF TurnRow
  <2>6. /\ q.status = "failed" /\ q.lease = "none" /\ q.endings = 1
        /\ q.reply = left /\ q.question = c.question
        /\ q.ckpt = c.ckpt /\ q.output = c.output
    BY <2>2 DEF TurnRow
  <2> HIDE DEF q
  <2>7. RowOK(q)
    BY <2>2, <2>5, <2>6 DEF RowOK, Active, Terminal, left
  <2>8. QED
    BY <2>3, <2>7
<1>3. QED
  BY <1>1, <1>2

\* Recording output and saving a round of a claimed turn (worker.go:370,
\* 1471, 1530).
LEMMA OutputRowOK ==
  ASSUME NEW r, RowOK(r), r.status = "running"
  PROVE  RowOK([r EXCEPT !.output = TRUE])
BY DEF RowOK, TurnRow, Active, Terminal

\* The saved transcript is the one of the slot (transcript.go:36).
LEMMA SavedRowOK ==
  ASSUME NEW r, RowOK(r), r.status = "running", NEW rounds \in 0..MaxRounds
  PROVE  RowOK(Save(r, rounds))
<1> DEFINE q == [r EXCEPT !.saved = TRUE, !.rounds = rounds]
<1>1. RowOK(q)
  BY DEF RowOK, TurnRow, Active, Terminal
<1>2. QED
  BY <1>1 DEF Save

\* Parking, resuming and queueing a claimed turn again (user_question.go:105,
\* 214; worker.go:1646).
LEMMA HandedOverRowOK ==
  ASSUME NEW r, RowOK(r), r.status = "running"
  PROVE  /\ RowOK([r EXCEPT !.status = "waiting_for_user", !.owner = NoWorker,
                            !.lease = "none", !.output = TRUE, !.ckpt = TRUE,
                            !.question = "pending", !.awaiting = TRUE])
         /\ r.question = "answered" =>
              RowOK([r EXCEPT !.ckpt = FALSE, !.awaiting = FALSE])
         /\ ~r.output =>
              RowOK([r EXCEPT !.status = "queued", !.owner = NoWorker,
                              !.lease = "none"])
<1>1. RowOK([r EXCEPT !.status = "waiting_for_user", !.owner = NoWorker,
                      !.lease = "none", !.output = TRUE, !.ckpt = TRUE,
                      !.question = "pending", !.awaiting = TRUE])
  BY DEF RowOK, TurnRow, Active, Terminal
<1>2. ASSUME r.question = "answered"
      PROVE  RowOK([r EXCEPT !.ckpt = FALSE, !.awaiting = FALSE])
  BY <1>2 DEF RowOK, TurnRow, Active, Terminal
<1>3. ASSUME ~r.output
      PROVE  RowOK([r EXCEPT !.status = "queued", !.owner = NoWorker,
                             !.lease = "none"])
  BY <1>3 DEF RowOK, TurnRow, Active, Terminal
<1>4. QED
  BY <1>1, <1>2, <1>3

\* Claiming a queued turn and answering a waiting one (worker.go:216,
\* ai_user_questions.go:81).
LEMMA TakenUpRowOK ==
  ASSUME NEW r, RowOK(r)
  PROVE  /\ \A w \in Worker : r.status = "queued" =>
              RowOK([r EXCEPT !.status = "running", !.owner = w,
                              !.lease = "live", !.attempt = @ + 1])
         /\ r.status = "waiting_for_user" =>
              RowOK([r EXCEPT !.question = "answered", !.status = "queued",
                              !.owner = NoWorker, !.lease = "none"])
<1>1. ASSUME NEW w \in Worker, r.status = "queued"
      PROVE  RowOK([r EXCEPT !.status = "running", !.owner = w,
                             !.lease = "live", !.attempt = @ + 1])
  <2> DEFINE n == r.attempt + 1
             q == [r EXCEPT !.status = "running", !.owner = w,
                            !.lease = "live", !.attempt = n]
  <2>1. n \in Nat
    BY DEF RowOK, TurnRow
  <2> HIDE DEF n
  <2>2. RowOK(q)
    BY <1>1, <2>1 DEF RowOK, TurnRow, Active, Terminal
  <2>3. QED
    BY <2>2 DEF n, RowOK, TurnRow
<1>2. ASSUME r.status = "waiting_for_user"
      PROVE  RowOK([r EXCEPT !.question = "answered", !.status = "queued",
                             !.owner = NoWorker, !.lease = "none"])
  BY <1>2 DEF RowOK, TurnRow, Active, Terminal
<1>3. QED
  BY <1>1, <1>2

\* What a deleted conversation leaves (ai_conversations.go:336).
LEMMA DeletedRowOK ==
  /\ DeletedRow \in TurnRow
  /\ DeletedRow.status = "deleted"
  /\ RowOK(DeletedRow)
<1>1. NoRow \in TurnRow
  BY LimitsAssumption DEF NoRow, TurnRow
<1>2. /\ DeletedRow \in TurnRow
      /\ DeletedRow.status = "deleted" /\ DeletedRow.lease = "none"
      /\ DeletedRow.reply = "absent" /\ DeletedRow.endings = 0
      /\ DeletedRow.question = "none" /\ DeletedRow.ckpt = FALSE
  <2> DEFINE q == [NoRow EXCEPT !.status = "deleted"]
  <2>1. /\ q \in TurnRow /\ q.status = "deleted"
        /\ q.lease = NoRow.lease /\ q.reply = NoRow.reply
        /\ q.endings = NoRow.endings /\ q.question = NoRow.question
        /\ q.ckpt = NoRow.ckpt
    BY <1>1 DEF TurnRow
  <2>2. QED
    BY <2>1 DEF DeletedRow, NoRow
<1>3. QED
  BY <1>2 DEF RowOK, Active, Terminal

-----------------------------------------------------------------------------
(* What the actions preserve, action by action *)

\* A step that leaves the rows alone.
LEMMA RowsUntouched ==
  ASSUME IInv, UNCHANGED turn
  PROVE  Changes /\ turn' \in [Turn -> TurnRow]
BY DEF IInv, TypeOK, Changes, Change

\* A step that writes one row, as every worker write does.
LEMMA OneRowWritten ==
  ASSUME IInv, NEW t \in Turn, NEW q, RowOK(q),
         turn[t].status \notin Terminal,
         q.status \in Active => turn[t].status \in Active,
         turn' = [turn EXCEPT ![t] = q]
  PROVE  Changes /\ turn' \in [Turn -> TurnRow]
<1>1. turn \in [Turn -> TurnRow] /\ q \in TurnRow
  BY DEF IInv, TypeOK, RowOK
<1>2. \A u \in Turn : turn'[u] = IF u = t THEN q ELSE turn[u]
  BY <1>1
<1>3. QED
  BY <1>1, <1>2 DEF Changes, Change

\* What a slot that owns its turn may rely on.
LEMMA Owned ==
  ASSUME IInv, NEW s \in Slot, Owns(s)
  PROVE  /\ slot[s].turn \in Turn
         /\ turn[slot[s].turn].status = "running"
         /\ RowOK(turn[slot[s].turn])
BY DEF IInv, Owns

\* A guarded write of a row that stays claimed.
LEMMA OwnedRowWritten ==
  ASSUME IInv, NEW s \in Slot, Owns(s), NEW q, RowOK(q),
         turn' = [turn EXCEPT ![slot[s].turn] = q]
  PROVE  Changes /\ turn' \in [Turn -> TurnRow]
BY Owned, OneRowWritten DEF Active, Terminal

\* What typing gives about a slot.
LEMMA SlotTyped ==
  ASSUME IInv
  PROVE  /\ slot \in [Slot -> SlotState]
         /\ used \in Nat
         /\ Idle \in SlotState
         /\ \A s \in Slot : slot[s] \in SlotState
BY LimitsAssumption DEF IInv, TypeOK, Idle, SlotState

\* The sweep, over any set of turns (worker.go:1721, ai_turns.go:449).
LEMMA SweptChanges ==
  ASSUME IInv, NEW turns \in SUBSET Turn
  PROVE  /\ Swept(turns) \in [Turn -> TurnRow]
         /\ \A t \in Turn : Change(turn[t], Swept(turns)[t])
         /\ \A t \in Turn : RowOK(Swept(turns)[t])
<1> SUFFICES ASSUME NEW t \in Turn
             PROVE  /\ RowOK(Swept(turns)[t])
                    /\ Change(turn[t], Swept(turns)[t])
  BY DEF Swept, RowOK
<1>1. RowOK(turn[t])
  BY DEF IInv
<1>2. CASE t \in Expired(turns)
  <2>1. turn[t].status = "running"
    BY <1>2 DEF Expired
  <2>2. Swept(turns)[t] = RecoveredRow(turn[t])
    BY <1>2 DEF Swept
  <2>3. RowOK(RecoveredRow(turn[t]))
    BY <1>1, <2>1, RecoveredRowOK
  <2>4. QED
    BY <2>1, <2>2, <2>3 DEF Change, Active, Terminal
<1>3. CASE t \notin Expired(turns)
  BY <1>1, <1>3 DEF Swept, Change
<1>4. QED
  BY <1>2, <1>3

\* Losing a connection (mcp_connections.go:1031).
LEMMA ConnectionLostRowOK ==
  ASSUME NEW r, RowOK(r), r.status = "waiting_for_user"
  PROVE  RowOK(ConnectionLostRow(r))
<1> DEFINE left == IF ~r.output THEN "failed" ELSE "pending"
           q == [r EXCEPT !.status = "failed", !.owner = NoWorker,
                          !.lease = "none", !.reply = left, !.endings = 1]
<1>1. r \in TurnRow /\ r.endings = 0 /\ r.reply = "pending" /\ r.question = "pending"
  BY DEF RowOK, TurnRow, Active, Terminal
<1>2. ConnectionLostRow(r) = q
  BY <1>1 DEF ConnectionLostRow
<1>3. /\ q \in TurnRow
      /\ q.status = "failed" /\ q.lease = "none" /\ q.endings = 1
      /\ q.reply = left /\ q.question = "pending" /\ q.ckpt = r.ckpt
      /\ q.output = r.output /\ q.awaiting = r.awaiting
  BY <1>1 DEF TurnRow, Active, Terminal
<1> HIDE DEF q
<1>4. RowOK(q)
  BY <1>1, <1>3 DEF RowOK, Active, Terminal
<1>5. QED
  BY <1>2, <1>4

\* The connection handlers, over all waiting turns of a project.
LEMMA ConnectionGood ==
  ASSUME IInv, NEW p \in Project, ChangeConnection(p)
  PROVE  Good
<1>1. ASSUME NEW t \in Turn
      PROVE  turn'[t] \in TurnRow /\ Change(turn[t], turn'[t])
  <2>1. RowOK(turn[t])
    BY DEF IInv
  <2>2. CASE t \in WaitingIn(p)
    <3>1. turn[t].status = "waiting_for_user" /\ turn'[t] = ConnectionLostRow(turn[t])
      BY <2>2 DEF WaitingIn, ChangeConnection
    <3>2. RowOK(turn'[t])
      BY <2>1, <3>1, ConnectionLostRowOK
    <3>3. QED
      BY <3>1, <3>2 DEF Change, RowOK, Active, Terminal
  <2>3. CASE t \notin WaitingIn(p)
    BY <2>1, <2>3 DEF ChangeConnection, Change, RowOK
  <2>4. QED
    BY <2>2, <2>3
<1>2. turn' \in [Turn -> TurnRow]
  BY <1>1 DEF ChangeConnection
<1>3. QED
  BY <1>1, <1>2, SlotTyped DEF ChangeConnection, Good, Changes

\* Deleting a conversation, over all its turns.
LEMMA DeleteGood ==
  ASSUME IInv, NEW c \in Conversation, DeleteConversation(c)
  PROVE  Good
<1>1. PICK gone \in SUBSET Turn :
        turn' = [t \in Turn |-> IF t \in gone THEN DeletedRow ELSE turn[t]]
  BY DEF DeleteConversation
<1>2. \A t \in Turn : turn[t] \in TurnRow
  BY DEF IInv, TypeOK
<1>3. Changes /\ turn' \in [Turn -> TurnRow]
  BY <1>1, <1>2, DeletedRowOK DEF Changes, Change
<1>4. QED
  BY <1>3, SlotTyped DEF DeleteConversation, Good

\* The recovery sweep of the workers and that of a submission turned away.
LEMMA SweepsGood ==
  ASSUME IInv, NEW t \in Turn, Recover \/ SubmitBusyOrReplayed(t)
  PROVE  Good
<1>1. PICK turns \in SUBSET Turn : turn' = Swept(turns)
  BY DEF Recover, SubmitBusyOrReplayed, Siblings
<1>2. slot' = slot /\ used' = used
  BY DEF Recover, SubmitBusyOrReplayed
<1>3. QED
  BY <1>1, <1>2, SweptChanges, SlotTyped DEF Good, Changes

\* The other handlers and the passing of time.
LEMMA HandlersGood ==
  ASSUME IInv, NEW t \in Turn, Cancel(t) \/ Answer(t) \/ ExpireLease(t)
  PROVE  Good
<1> DEFINE r == turn[t]
<1>1. RowOK(r) /\ slot' = slot /\ used' = used
  BY DEF IInv, Cancel, Answer, ExpireLease
<1>2. CASE Cancel(t)
  <2>1. CASE r.status = "running"
    <3>1. RowOK([CancelQuestions(r) EXCEPT !.cancel = TRUE])
      BY <1>1, <2>1, CancelQuestionsOK
    <3>2. turn' = [turn EXCEPT ![t] = [CancelQuestions(r) EXCEPT !.cancel = TRUE]]
      BY <1>2, <2>1 DEF Cancel, IInv, TypeOK
    <3>3. QED
      BY <1>1, <2>1, <3>1, <3>2, OneRowWritten, SlotTyped DEF Good, Active, Terminal
  <2>2. CASE r.status \in {"queued", "waiting_for_user"}
    <3>1. RowOK(StoppedRow(r))
      BY <1>1, <2>2, StoppedRowOK
    <3>2. turn' = [turn EXCEPT ![t] = StoppedRow(r)]
      BY <1>2, <2>2 DEF Cancel, IInv, TypeOK
    <3>3. QED
      BY <1>1, <2>2, <3>1, <3>2, OneRowWritten, SlotTyped DEF Good, Active, Terminal
  <2>3. QED
    BY <1>2, <2>1, <2>2 DEF Cancel, Active
<1>3. CASE Answer(t)
  <2> DEFINE q == [r EXCEPT !.question = "answered", !.status = "queued",
                            !.owner = NoWorker, !.lease = "none"]
  <2>1. RowOK(q)
    BY <1>1, <1>3, TakenUpRowOK DEF Answer
  <2>2. turn' = [turn EXCEPT ![t] = q]
    BY <1>3 DEF Answer, IInv, TypeOK
  <2>3. r.status = "waiting_for_user"
    BY <1>3 DEF Answer
  <2>4. QED
    BY <1>1, <2>1, <2>2, <2>3, OneRowWritten, SlotTyped DEF Good, Active, Terminal
<1>4. CASE ExpireLease(t)
  <2> DEFINE q == [r EXCEPT !.lease = "expired"]
  <2>1. r.status = "running"
    BY <1>1, <1>4 DEF ExpireLease, RowOK
  <2>2. RowOK(q)
    BY <1>1, <2>1 DEF RowOK, TurnRow, Active, Terminal
  <2>3. turn' = [turn EXCEPT ![t] = q]
    BY <1>4 DEF ExpireLease, IInv, TypeOK
  <2>4. QED
    BY <1>1, <2>1, <2>2, <2>3, OneRowWritten, SlotTyped DEF Good, Active, Terminal
<1>5. QED
  BY <1>2, <1>3, <1>4

\* Moving a slot, and letting it go.
LEMMA SlotMoves ==
  ASSUME IInv, NEW s \in Slot
  PROVE  /\ \A pc \in Step : GoTo(s, pc) => slot' \in [Slot -> SlotState]
         /\ Fail(s) \/ Release(s) => slot' \in [Slot -> SlotState]
         /\ \A o \in {"completed", "stopped", "temporary", "permanent"} :
              End(s, o) => slot' \in [Slot -> SlotState]
BY SlotTyped DEF GoTo, Fail, Release, End, SlotState, Step

\* Moving a slot while its local variables change.
LEMMA SlotUpdated ==
  ASSUME IInv, NEW s \in Slot, NEW pc \in {"idle", "selecting"} \cup Step,
         NEW output \in BOOLEAN,
         NEW outcome \in {"none", "answer", "tools", "completed", "stopped",
                          "temporary", "permanent"}
  PROVE  /\ slot' = [slot EXCEPT ![s].pc = pc, ![s].output = output]
              => slot' \in [Slot -> SlotState]
         /\ slot' = [slot EXCEPT ![s].output = output, ![s].pc = pc,
                                 ![s].outcome = outcome]
              => slot' \in [Slot -> SlotState]
<1> DEFINE z == slot[s]
           a == [z EXCEPT !.pc = pc, !.output = output]
           b == [z EXCEPT !.pc = pc, !.output = output, !.outcome = outcome]
<1>1. z \in SlotState /\ slot \in [Slot -> SlotState]
  BY SlotTyped
<1>2. a \in SlotState /\ b \in SlotState
  BY <1>1 DEF SlotState
<1>3. /\ [slot EXCEPT ![s].pc = pc, ![s].output = output] = [slot EXCEPT ![s] = a]
      /\ [slot EXCEPT ![s].output = output, ![s].pc = pc, ![s].outcome = outcome]
           = [slot EXCEPT ![s] = b]
  BY <1>1 DEF SlotState
<1> HIDE DEF a, b
<1>4. QED
  BY <1>1, <1>2, <1>3

\* Four fields of a slot written one by one are one new slot.
LEMMA SlotWritten ==
  ASSUME IInv, NEW s \in Slot, NEW pc, NEW output, NEW rounds, NEW outcome
  PROVE  [slot EXCEPT ![s].pc = pc, ![s].output = output,
                      ![s].rounds = rounds, ![s].outcome = outcome]
         = [slot EXCEPT ![s] = [slot[s] EXCEPT !.pc = pc, !.output = output,
                                  !.rounds = rounds, !.outcome = outcome]]
<1>1. slot \in [Slot -> SlotState]
  BY SlotTyped
<1>2. QED
  BY <1>1

\* Moving a slot while its transcript and its local variables change.
LEMMA SlotExtended ==
  ASSUME IInv, NEW s \in Slot, NEW pc \in {"idle", "selecting"} \cup Step,
         NEW output \in BOOLEAN, NEW rounds \in 0..MaxRounds,
         NEW outcome \in {"none", "answer", "tools", "completed", "stopped",
                          "temporary", "permanent"},
         slot' = [slot EXCEPT ![s].pc = pc, ![s].output = output,
                              ![s].rounds = rounds, ![s].outcome = outcome]
  PROVE  /\ slot' \in [Slot -> SlotState]
         /\ \A z \in Slot \ {s} : slot'[z] = slot[z]
         /\ slot'[s].turn = slot[s].turn /\ slot'[s].attempt = slot[s].attempt
         /\ slot'[s].pc = pc /\ slot'[s].outcome = outcome
         /\ slot'[s].rounds = rounds
<1> DEFINE z == slot[s]
           c == [z EXCEPT !.pc = pc, !.output = output, !.rounds = rounds,
                          !.outcome = outcome]
<1>1. z \in SlotState /\ slot \in [Slot -> SlotState]
  BY SlotTyped
<1>2. /\ c \in SlotState /\ c.turn = z.turn /\ c.attempt = z.attempt
      /\ c.pc = pc /\ c.outcome = outcome /\ c.rounds = rounds
  BY <1>1 DEF SlotState
<1>3. slot' = [slot EXCEPT ![s] = c]
  BY SlotWritten
<1> HIDE DEF c
<1>4. \A f : f = [slot EXCEPT ![s] = c] =>
        /\ f \in [Slot -> SlotState] /\ f[s] = c
        /\ \A x \in Slot \ {s} : f[x] = slot[x]
  BY <1>1, <1>2
<1>5. QED
  BY <1>2, <1>3, <1>4, Zenon

\* Steps of a slot that only read the database.
LEMMA ReadersGood ==
  ASSUME IInv, NEW s \in Slot,
         \/ ClaimSelect(s) \/ ClaimNothing(s) \/ ReadCheckpoint(s)
         \/ ResumeStopped(s) \/ ResumeLost(s) \/ Start(s) \/ HeartbeatStop(s)
         \/ Lost(s) \/ BlankRound(s) \/ NextCall(s) \/ Announce(s)
         \/ SkipCall(s) \/ ApprovalStopped(s) \/ ApprovalStale(s)
         \/ Dispatch(s) \/ ToolReturns(s) \/ BatchDone(s) \/ TimedOut(s)
         \/ ParkRefused(s) \/ StepFails(s) \/ Leave(s)
  PROVE  Good
<1>1. UNCHANGED <<turn, used>>
  BY DEF ClaimSelect, ClaimNothing, ReadCheckpoint, ResumeStopped, ResumeLost, Start, HeartbeatStop, Lost, BlankRound, NextCall, Announce, SkipCall, ApprovalStopped, ApprovalStale, Dispatch, ToolReturns, BatchDone, TimedOut, ParkRefused, StepFails, Leave
<1>2. slot' \in [Slot -> SlotState]
  <2>1. CASE ClaimSelect(s)
    <3>1. Eligible \in SUBSET Turn
      BY DEF Eligible
    <3>2. slot' = [slot EXCEPT ![s] = [slot[s] EXCEPT !.pc = "selecting",
                                                      !.seen = Eligible]]
      BY <2>1, SlotTyped DEF ClaimSelect
    <3> DEFINE row == [slot[s] EXCEPT !.pc = "selecting", !.seen = Eligible]
    <3>3. row \in SlotState
      BY <3>1, SlotTyped DEF SlotState
    <3> HIDE DEF row
    <3>4. slot' = [slot EXCEPT ![s] = row]
      BY <3>2 DEF row
    <3>5. QED
      BY <3>3, <3>4, SlotTyped
  <2>2. CASE ClaimNothing(s)
    BY <2>2, SlotTyped, SlotMoves DEF ClaimNothing, Step
  <2>3. CASE ReadCheckpoint(s)
    BY <2>3, SlotTyped, SlotMoves DEF ReadCheckpoint, Step
  <2>4. CASE ResumeStopped(s)
    BY <2>4, SlotTyped, SlotMoves DEF ResumeStopped, Step
  <2>5. CASE ResumeLost(s)
    BY <2>5, SlotTyped, SlotMoves DEF ResumeLost, Step
  <2>6. CASE Start(s)
    <3> DEFINE o == slot[s].output \/ turn[slot[s].turn].saved
               n == turn[slot[s].turn].rounds
               row == [[slot[s] EXCEPT !.pc = "streaming", !.output = o]
                         EXCEPT !.rounds = n]
    <3>1. o \in BOOLEAN /\ n \in 0..MaxRounds
      BY <2>6 DEF Start, At, Step, IInv, Holding, TypeOK, TurnRow
    <3>2. slot' = [slot EXCEPT ![s] = row]
      BY <2>6, SlotTyped DEF Start
    <3> HIDE DEF o, n
    <3>3. row \in SlotState
      BY <3>1, SlotTyped DEF SlotState, Step
    <3> HIDE DEF row
    <3>4. QED
      BY <3>2, <3>3, SlotTyped
  <2>7. CASE HeartbeatStop(s)
    BY <2>7, SlotTyped, SlotMoves DEF HeartbeatStop, SlotState, Step
  <2>8. CASE Lost(s)
    BY <2>8, SlotTyped, SlotMoves DEF Lost, Step
  <2>9. CASE BlankRound(s)
    BY <2>9, SlotTyped, SlotMoves DEF BlankRound, Step
  <2>10. CASE NextCall(s)
    BY <2>10, SlotTyped, SlotMoves DEF NextCall, Step
  <2>11. CASE Announce(s)
    BY <2>11, SlotTyped, SlotMoves DEF Announce, Step
  <2>12. CASE SkipCall(s)
    BY <2>12, SlotTyped, SlotMoves DEF SkipCall, Step
  <2>13. CASE ApprovalStopped(s)
    BY <2>13, SlotTyped, SlotMoves DEF ApprovalStopped, Step
  <2>14. CASE ApprovalStale(s)
    BY <2>14, SlotTyped, SlotMoves DEF ApprovalStale, Step
  <2>15. CASE Dispatch(s)
    BY <2>15, SlotTyped, SlotMoves DEF Dispatch, Step
  <2>16. CASE ToolReturns(s)
    BY <2>16, SlotTyped, SlotMoves DEF ToolReturns, Step
  <2>17. CASE BatchDone(s)
    BY <2>17, SlotTyped, SlotMoves DEF BatchDone, Step
  <2>18. CASE TimedOut(s)
    BY <2>18, SlotTyped, SlotMoves DEF TimedOut, Step
  <2>19. CASE ParkRefused(s)
    BY <2>19, SlotTyped, SlotMoves DEF ParkRefused, Step
  <2>20. CASE StepFails(s)
    BY <2>20, SlotTyped, SlotMoves DEF StepFails, Step
  <2>21. CASE Leave(s)
    BY <2>21, SlotTyped, SlotMoves DEF Leave, Step
  <2>22. QED
    BY <2>1, <2>2, <2>3, <2>4, <2>5, <2>6, <2>7, <2>8, <2>9, <2>10, <2>11, <2>12, <2>13, <2>14, <2>15, <2>16, <2>17, <2>18, <2>19, <2>20, <2>21
<1>3. QED
  BY <1>1, <1>2, RowsUntouched, SlotTyped DEF Good

\* Taking a turn (worker.go:216).
LEMMA ClaimTakeGood ==
  ASSUME IInv, NEW s \in Slot, NEW t \in Turn, ClaimTake(s, t)
  PROVE  Good
<1> DEFINE r == turn[t]
           q == [r EXCEPT !.status = "running", !.owner = WorkerOf[s],
                          !.lease = "live", !.attempt = @ + 1]
           n == r.attempt + 1
           z == [Idle EXCEPT !.pc = "loading", !.turn = t, !.attempt = n]
<1>1. RowOK(r) /\ r.status = "queued" /\ WorkerOf[s] \in Worker /\ n \in Nat
  BY OwnersAssumption DEF ClaimTake, IInv, TypeOK, TurnRow
<1>2. RowOK(q)
  BY <1>1, TakenUpRowOK
<1>3. turn' = [turn EXCEPT ![t] = q] /\ UNCHANGED used
  BY DEF ClaimTake, IInv, TypeOK
<1>4. slot' = [slot EXCEPT ![s] = z]
  BY DEF ClaimTake
<1> HIDE DEF n
<1>5. z \in SlotState
  BY <1>1, SlotTyped DEF SlotState, Step
<1> HIDE DEF z
<1>6. slot' \in [Slot -> SlotState]
  BY <1>4, <1>5, SlotTyped
<1> HIDE DEF q
<1>7. QED
  BY <1>1, <1>2, <1>3, <1>6, OneRowWritten, SlotTyped DEF Good, Active, Terminal

\* Resuming after an answer (user_question.go:214).
LEMMA ResumeGood ==
  ASSUME IInv, NEW s \in Slot, ResumeRefused(s) \/ ResumeAnswered(s)
  PROVE  Good
<1> DEFINE r == turn[slot[s].turn]
<1>1. Owns(s) /\ slot[s].turn \in Turn /\ r.status = "running" /\ RowOK(r)
  BY Owned DEF ResumeRefused, ResumeAnswered
<1>2. CASE ResumeRefused(s)
  <2>1. RowOK(CancelQuestions(r))
    BY <1>1, CancelQuestionsOK
  <2>2. turn' = [turn EXCEPT ![slot[s].turn] = CancelQuestions(r)]
    BY <1>1, <1>2 DEF ResumeRefused, IInv, TypeOK
  <2>3. slot' \in [Slot -> SlotState] /\ UNCHANGED used
    BY <1>2, SlotMoves DEF ResumeRefused
  <2>4. QED
    BY <1>1, <2>1, <2>2, <2>3, OwnedRowWritten, SlotTyped DEF Good
<1>3. CASE ResumeAnswered(s)
  <2> DEFINE q == [r EXCEPT !.ckpt = FALSE, !.awaiting = FALSE]
  <2>1. RowOK(q)
    BY <1>1, <1>3, HandedOverRowOK DEF ResumeAnswered
  <2>2. turn' = [turn EXCEPT ![slot[s].turn] = q]
    BY <1>1, <1>3 DEF ResumeAnswered, IInv, TypeOK
  <2>3. slot' \in [Slot -> SlotState] /\ UNCHANGED used
    BY <1>3, SlotUpdated DEF ResumeAnswered, Step
  <2>4. QED
    BY <1>1, <2>1, <2>2, <2>3, OwnedRowWritten, SlotTyped DEF Good
<1>4. QED
  BY <1>2, <1>3

\* Publishing output: the trim notice, a flush, the text of a round, the mark
\* before tools (worker.go:525, 1471, 1530, 781).
LEMMA OutputGood ==
  ASSUME IInv, NEW s \in Slot,
         \/ \E tooLarge \in BOOLEAN : StartWithNotice(s, tooLarge)
         \/ Flush(s)
         \/ \E text \in BOOLEAN : CloseRound(s, text)
         \/ MarkOutput(s)
  PROVE  Good
<1> DEFINE r == turn[slot[s].turn]
           q == [r EXCEPT !.output = TRUE]
<1>1. \/ UNCHANGED turn
      \/ Owns(s) /\ turn' = [turn EXCEPT ![slot[s].turn] = q]
  <2>1. CASE \E tooLarge \in BOOLEAN : StartWithNotice(s, tooLarge)
    BY <2>1, Owned DEF StartWithNotice, IInv, TypeOK
  <2>2. CASE Flush(s)
    BY <2>2, Owned DEF Flush, IInv, TypeOK
  <2>3. CASE \E text \in BOOLEAN : CloseRound(s, text)
    BY <2>3, Owned DEF CloseRound, IInv, TypeOK
  <2>4. CASE MarkOutput(s)
    BY <2>4, Owned DEF MarkOutput, IInv, TypeOK
  <2>5. QED
    BY <2>1, <2>2, <2>3, <2>4
<1>2. Changes /\ turn' \in [Turn -> TurnRow]
  <2>1. CASE UNCHANGED turn
    BY <2>1, RowsUntouched
  <2>2. CASE Owns(s) /\ turn' = [turn EXCEPT ![slot[s].turn] = q]
    <3>1. RowOK(q)
      BY <2>2, Owned, OutputRowOK
    <3> HIDE DEF q
    <3>2. QED
      BY <2>2, <3>1, OwnedRowWritten
  <2>3. QED
    BY <1>1, <2>1, <2>2
<1>3. slot' \in [Slot -> SlotState] /\ UNCHANGED used
  <2>1. CASE \E tooLarge \in BOOLEAN : StartWithNotice(s, tooLarge)
    <3>1. PICK tooLarge \in BOOLEAN : StartWithNotice(s, tooLarge)
      BY <2>1
    <3> DEFINE pc == IF tooLarge THEN "ending" ELSE "streaming"
               outcome == IF tooLarge THEN "permanent" ELSE slot[s].outcome
               n == turn[slot[s].turn].rounds
    <3>2. /\ slot' = [slot EXCEPT ![s].pc = pc, ![s].output = TRUE,
                                  ![s].rounds = n, ![s].outcome = outcome]
          /\ UNCHANGED used
      BY <3>1, SlotTyped DEF StartWithNotice, SlotState
    <3>3. /\ pc \in Step
          /\ n \in 0..MaxRounds
          /\ outcome \in {"none", "answer", "tools", "completed", "stopped",
                          "temporary", "permanent"}
      BY <3>1, SlotTyped DEF StartWithNotice, Owns, IInv, TypeOK, TurnRow, SlotState, Step
    <3> HIDE DEF pc, n, outcome
    <3>4. QED
      BY <3>2, <3>3, SlotExtended
  <2>2. CASE Flush(s)
    BY <2>2, SlotTyped DEF Flush, SlotState, Step
  <2>3. CASE \E text \in BOOLEAN : CloseRound(s, text)
    <3>1. PICK text \in BOOLEAN : CloseRound(s, text)
      BY <2>3
    <3> DEFINE o == slot[s].output \/ text
               pc == IF slot[s].outcome = "tools" THEN "tools" ELSE "ending"
               outcome == IF slot[s].outcome = "tools" THEN "none" ELSE "completed"
    <3>2. /\ slot' = [slot EXCEPT ![s].output = o, ![s].pc = pc,
                                  ![s].outcome = outcome]
          /\ UNCHANGED used
      BY <3>1 DEF CloseRound
    <3>3. /\ o \in BOOLEAN
          /\ pc \in Step
          /\ outcome \in {"none", "answer", "tools", "completed", "stopped",
                          "temporary", "permanent"}
      BY DEF Step
    <3> HIDE DEF o, pc, outcome
    <3>4. QED
      BY <3>2, <3>3, SlotUpdated
  <2>4. CASE MarkOutput(s)
    BY <2>4, SlotMoves DEF MarkOutput, Step
  <2>5. QED
    BY <2>1, <2>2, <2>3, <2>4
<1>4. QED
  BY <1>2, <1>3, SlotTyped DEF Good

\* The transcript of a round that may have calls stays within the limit of
\* rounds (worker.go:546).
LEMMA ExtendedTyped ==
  ASSUME IInv, NEW s \in Slot, NEW calls \in BOOLEAN, calls => MayCall(s)
  PROVE  Extended(s, calls) \in 0..MaxRounds
<1>1. slot[s].rounds \in 0..MaxRounds
  BY SlotTyped DEF SlotState
<1>2. QED
  BY <1>1, LimitsAssumption DEF Extended, MayCall

\* Saving a provider round, whole or cut short (worker.go:370, 640, 704).
LEMMA RoundsGood ==
  ASSUME IInv, NEW s \in Slot, NEW received \in BOOLEAN, NEW calls \in BOOLEAN,
         CutRound(s, received, calls) \/ SaveRound(s, calls)
  PROVE  Good
<1> DEFINE r == turn[slot[s].turn]
           o == slot[s].output \/ calls
           n == Extended(s, calls)
<1>1. /\ calls => MayCall(s)
      /\ \/ UNCHANGED turn
         \/ Owns(s) /\ turn' = [turn EXCEPT ![slot[s].turn] = Save(r, n)]
  BY Owned DEF CutRound, SaveRound, IInv, TypeOK
<1>2. n \in 0..MaxRounds
  BY <1>1, ExtendedTyped
<1>3. Changes /\ turn' \in [Turn -> TurnRow]
  <2>1. CASE UNCHANGED turn
    BY <2>1, RowsUntouched
  <2>2. CASE Owns(s) /\ turn' = [turn EXCEPT ![slot[s].turn] = Save(r, n)]
    <3>1. RowOK(Save(r, n))
      BY <1>2, <2>2, Owned, SavedRowOK
    <3>2. QED
      BY <2>2, <3>1, OwnedRowWritten
  <2>3. QED
    BY <1>1, <2>1, <2>2
<1>4. UNCHANGED used
  BY DEF CutRound, SaveRound
<1>5. o \in BOOLEAN
  OBVIOUS
<1>6. CASE CutRound(s, received, calls)
  <2>1. PICK cause \in {"temporary", "permanent"} :
          slot' = [slot EXCEPT ![s].pc = "ending", ![s].output = @ \/ calls,
                     ![s].rounds = n,
                     ![s].outcome = IF @ = "stopped" THEN @ ELSE cause]
    BY <1>6 DEF CutRound
  <2> DEFINE x == IF slot[s].outcome = "stopped" THEN "stopped" ELSE cause
  <2> HIDE DEF n
  <2>2. slot' = [slot EXCEPT ![s].pc = "ending", ![s].output = o,
                             ![s].rounds = n, ![s].outcome = x]
    BY <2>1, SlotTyped DEF SlotState
  <2>3. x \in {"stopped", "temporary", "permanent"}
    OBVIOUS
  <2> HIDE DEF o, x
  <2>4. QED
    BY <1>2, <1>3, <1>4, <1>5, <2>2, <2>3, SlotExtended, SlotTyped DEF Good, Step
<1>7. CASE SaveRound(s, calls)
  <2> DEFINE x == IF calls THEN "tools" ELSE "answer"
  <2>1. slot' = [slot EXCEPT ![s].pc = "closing", ![s].output = @ \/ calls,
                             ![s].rounds = n, ![s].outcome = x]
    BY <1>7 DEF SaveRound
  <2> HIDE DEF n
  <2>2. slot' = [slot EXCEPT ![s].pc = "closing", ![s].output = o,
                             ![s].rounds = n, ![s].outcome = x]
    BY <2>1, SlotTyped DEF SlotState
  <2>3. x \in {"tools", "answer"}
    OBVIOUS
  <2> HIDE DEF o, x
  <2>4. QED
    BY <1>2, <1>3, <1>4, <1>5, <2>2, <2>3, SlotExtended, SlotTyped DEF Good, Step
<1>8. QED
  BY <1>6, <1>7

\* Parking for a question (user_question.go:105).
LEMMA ParkGood ==
  ASSUME IInv, NEW s \in Slot, Park(s)
  PROVE  Good
<1> DEFINE r == turn[slot[s].turn]
           q == [r EXCEPT !.status = "waiting_for_user", !.owner = NoWorker,
                          !.lease = "none", !.output = TRUE, !.ckpt = TRUE,
                          !.question = "pending", !.awaiting = TRUE]
<1>1. Owns(s) /\ slot[s].turn \in Turn /\ r.status = "running" /\ RowOK(r)
  BY Owned DEF Park
<1>2. RowOK(q)
  BY <1>1, HandedOverRowOK
<1>3. turn' = [turn EXCEPT ![slot[s].turn] = q]
  BY <1>1 DEF Park, IInv, TypeOK
<1>4. slot' \in [Slot -> SlotState] /\ UNCHANGED used
  BY SlotMoves DEF Park
<1> HIDE DEF q
<1>5. QED
  BY <1>1, <1>2, <1>3, <1>4, OwnedRowWritten, SlotTyped DEF Good

\* The guarded terminal write (worker.go:1678).
LEMMA FinalizeGood ==
  ASSUME IInv, NEW s \in Slot, NEW status, NEW reply,
         \/ status = "completed" /\ reply = "complete"
         \/ status = "stopped" /\ reply = "partial"
         \/ status = "failed" /\ reply \in {"partial", "failed"},
         Finalize(s, status, reply)
  PROVE  Good
<1> DEFINE r == turn[slot[s].turn]
<1>1. slot' \in [Slot -> SlotState] /\ UNCHANGED used
  BY SlotMoves DEF Finalize
<1>2. CASE Owns(s)
  <2>1. RowOK(FinalRow(r, status, reply))
    BY <1>2, Owned, FinalRowOK
  <2>2. turn' = [turn EXCEPT ![slot[s].turn] = FinalRow(r, status, reply)]
    BY <1>2, Owned DEF Finalize, IInv, TypeOK
  <2>3. QED
    BY <1>1, <1>2, <2>1, <2>2, OwnedRowWritten, SlotTyped DEF Good
<1>3. CASE ~Owns(s)
  BY <1>1, <1>3, RowsUntouched, SlotTyped DEF Finalize, Good
<1>4. QED
  BY <1>2, <1>3

\* Queueing the turn again after a failure without output (worker.go:1646).
LEMMA RequeueGood ==
  ASSUME IInv, NEW s \in Slot, Requeue(s)
  PROVE  Good
<1> DEFINE r == turn[slot[s].turn]
           q == [r EXCEPT !.status = "queued", !.owner = NoWorker, !.lease = "none"]
<1>1. slot' \in [Slot -> SlotState] /\ UNCHANGED used
  BY SlotMoves DEF Requeue
<1>2. CASE Owns(s) /\ Retryable(r)
  <2>1. slot[s].turn \in Turn /\ r.status = "running" /\ RowOK(r)
    BY <1>2, Owned
  <2>2. RowOK(q)
    BY <1>2, <2>1, HandedOverRowOK DEF Retryable
  <2>3. turn' = [turn EXCEPT ![slot[s].turn] = q]
    BY <1>2, <2>1 DEF Requeue, IInv, TypeOK
  <2> HIDE DEF q
  <2>4. QED
    BY <1>1, <1>2, <2>2, <2>3, OwnedRowWritten, SlotTyped DEF Good
<1>3. CASE ~(Owns(s) /\ Retryable(r))
  BY <1>1, <1>3, RowsUntouched, SlotTyped DEF Requeue, Good
<1>4. QED
  BY <1>2, <1>3

\* The end of a run (worker.go:1063, 416).
LEMMA EndsGood ==
  ASSUME IInv, NEW s \in Slot, EndRun(s) \/ FailTurn(s)
  PROVE  Good
<1>1. ReplyFor(slot[s].output) \in {"partial", "failed"}
  BY DEF ReplyFor
<1>2. \/ Requeue(s)
      \/ Finalize(s, "completed", "complete")
      \/ Finalize(s, "stopped", "partial")
      \/ Finalize(s, "failed", ReplyFor(slot[s].output))
  BY DEF EndRun, FailTurn
<1>3. QED
  BY <1>1, <1>2, RequeueGood, FinalizeGood

\* Every step of a slot keeps the shape.
LEMMA SlotNextGood ==
  ASSUME IInv, NEW s \in Slot, SlotNext(s)
  PROVE  Good
<1>1. CASE Claim(s)
  BY <1>1, ClaimTakeGood DEF Claim
<1>2. CASE ResumeRefused(s) \/ ResumeAnswered(s)
  BY <1>2, ResumeGood
<1>3. CASE \/ \E tooLarge \in BOOLEAN : StartWithNotice(s, tooLarge)
           \/ Flush(s)
           \/ \E text \in BOOLEAN : CloseRound(s, text)
           \/ MarkOutput(s)
  BY <1>3, OutputGood
<1>4. CASE \/ \E received, calls \in BOOLEAN : CutRound(s, received, calls)
           \/ \E calls \in BOOLEAN : SaveRound(s, calls)
  BY <1>4, RoundsGood
<1>5. CASE Park(s)
  BY <1>5, ParkGood
<1>6. CASE EndRun(s) \/ FailTurn(s)
  BY <1>6, EndsGood
<1>7. CASE \/ ClaimSelect(s) \/ ClaimNothing(s) \/ ReadCheckpoint(s)
           \/ ResumeStopped(s) \/ ResumeLost(s) \/ Start(s) \/ HeartbeatStop(s)
           \/ Lost(s) \/ BlankRound(s) \/ NextCall(s) \/ Announce(s)
           \/ SkipCall(s) \/ ApprovalStopped(s) \/ ApprovalStale(s)
           \/ Dispatch(s) \/ ToolReturns(s) \/ BatchDone(s) \/ TimedOut(s)
           \/ ParkRefused(s) \/ StepFails(s) \/ Leave(s)
  BY <1>7, ReadersGood
<1>8. QED
  BY <1>1, <1>2, <1>3, <1>4, <1>5, <1>6, <1>7 DEF SlotNext, Advance

-----------------------------------------------------------------------------
(* The inductive invariant *)

\* Nothing is under way before the first submission (000084, 000085).
LEMMA InitIInv == Init => IInv
<1> SUFFICES ASSUME Init PROVE IInv
  OBVIOUS
<1>1. NoRow \in TurnRow
  BY LimitsAssumption DEF NoRow, TurnRow
<1>2. RowOK(NoRow)
  BY <1>1 DEF RowOK, NoRow, Active, Terminal
<1>3. TypeOK
  BY <1>1, LimitsAssumption DEF Init, TypeOK, Idle, SlotState
<1>4. \A t \in Turn : RowOK(turn[t])
  BY <1>2 DEF Init
<1>5. OneActiveTurn
  BY DEF Init, OneActiveTurn, NoRow, Active
<1>6. Holding
  BY DEF Init, Holding, Idle, Step
<1>7. QED
  BY <1>3, <1>4, <1>5, <1>6 DEF IInv

\* Only a claim adds to the history of the turns taken up again.
LEMMA RetakenKept ==
  ASSUME [Next]_vars
  PROVE  \/ retaken' = retaken
         \/ \E s \in Slot, t \in Turn : ClaimTake(s, t)
<1>1. CASE \E t \in Turn : TurnNext(t)
  BY <1>1 DEF TurnNext, Submit, SubmitBusyOrReplayed, Cancel, Answer, ExpireLease
<1>2. CASE \E c \in Conversation : DeleteConversation(c)
  BY <1>2 DEF DeleteConversation
<1>3. CASE \E p \in Project : ChangeConnection(p)
  BY <1>3 DEF ChangeConnection
<1>4. CASE Recover
  BY <1>4 DEF Recover
<1>5. ASSUME NEW s \in Slot, SlotNext(s)
      PROVE  \/ retaken' = retaken
             \/ \E z \in Slot, t \in Turn : ClaimTake(z, t)
  <2>1. CASE Claim(s)
    BY <2>1 DEF Claim
  <2>2. CASE \/ ClaimSelect(s) \/ ClaimNothing(s) \/ ReadCheckpoint(s)
             \/ ResumeStopped(s) \/ ResumeLost(s) \/ Start(s) \/ HeartbeatStop(s)
             \/ Lost(s) \/ BlankRound(s) \/ NextCall(s) \/ Announce(s)
    BY <2>2 DEF ClaimSelect, ClaimNothing, ReadCheckpoint, ResumeStopped, ResumeLost, Start, HeartbeatStop, Lost, BlankRound, NextCall, Announce
  <2>3. CASE \/ SkipCall(s) \/ ApprovalStopped(s) \/ ApprovalStale(s)
             \/ Dispatch(s) \/ ToolReturns(s) \/ BatchDone(s) \/ TimedOut(s)
             \/ ParkRefused(s) \/ StepFails(s) \/ Leave(s)
    BY <2>3 DEF SkipCall, ApprovalStopped, ApprovalStale, Dispatch, ToolReturns, BatchDone, TimedOut, ParkRefused, StepFails, Leave
  <2>4. CASE \/ ResumeRefused(s) \/ ResumeAnswered(s) \/ Flush(s) \/ MarkOutput(s)
             \/ \E tooLarge \in BOOLEAN : StartWithNotice(s, tooLarge)
             \/ \E text \in BOOLEAN : CloseRound(s, text)
    BY <2>4 DEF ResumeRefused, ResumeAnswered, Flush, MarkOutput, StartWithNotice, CloseRound
  <2>5. CASE \/ \E received, calls \in BOOLEAN : CutRound(s, received, calls)
             \/ \E calls \in BOOLEAN : SaveRound(s, calls)
    BY <2>5 DEF CutRound, SaveRound
  <2>6. CASE Park(s) \/ EndRun(s) \/ FailTurn(s)
    BY <2>6 DEF Park, EndRun, FailTurn, Requeue, Finalize
  <2>7. QED
    BY <1>5, <2>1, <2>2, <2>3, <2>4, <2>5, <2>6 DEF SlotNext, Advance
<1>6. CASE UNCHANGED vars
  BY <1>6 DEF vars
<1>7. QED
  BY <1>1, <1>2, <1>3, <1>4, <1>5, <1>6 DEF Next

\* The history only grows, by turns.
LEMMA RetakenGrows ==
  ASSUME IInv, [Next]_vars
  PROVE  retaken \subseteq retaken' /\ retaken' \in SUBSET Turn
<1>1. \A s \in Slot, t \in Turn :
        ClaimTake(s, t) => retaken' = retaken \/ retaken' = retaken \cup {t}
  BY DEF ClaimTake
<1>2. QED
  BY <1>1, RetakenKept DEF IInv, TypeOK

\* A slot that goes on keeps its turn; one without a turn does not run.
LEMMA SlotKeepsTurn ==
  ASSUME IInv, NEW s \in Slot, SlotNext(s)
  PROVE  /\ \A z \in Slot \ {s} : slot'[z] = slot[z]
         /\ \/ slot'[s] = Idle
            \/ slot'[s].pc = "selecting"
            \/ slot[s].pc \in Step /\ slot'[s].turn = slot[s].turn
            \/ \E t \in Turn : slot'[s].turn = t /\ ClaimTake(s, t)
<1>1. slot \in [Slot -> SlotState] /\ slot[s] \in SlotState
  BY SlotTyped
<1>2. CASE Claim(s)
  <2>1. PICK t \in Turn : ClaimTake(s, t)
    BY <1>2 DEF Claim
  <2> DEFINE n == turn[t].attempt + 1
             new == [Idle EXCEPT !.pc = "loading", !.turn = t, !.attempt = n]
  <2>2. slot' = [slot EXCEPT ![s] = new] /\ new.turn = t
    BY <2>1 DEF ClaimTake, Idle
  <2> HIDE DEF new
  <2>3. QED
    BY <1>1, <2>1, <2>2
<1>3. CASE ClaimSelect(s)
  BY <1>1, <1>3 DEF ClaimSelect, SlotState
<1>4. CASE ClaimNothing(s) \/ Leave(s) \/ Park(s) \/ EndRun(s) \/ FailTurn(s)
  BY <1>1, <1>4 DEF ClaimNothing, Leave, Park, EndRun, FailTurn, Requeue, Finalize, Release
<1>5. CASE \/ ReadCheckpoint(s) \/ ResumeStopped(s) \/ ResumeLost(s)
           \/ ResumeRefused(s) \/ HeartbeatStop(s) \/ Lost(s) \/ BlankRound(s)
           \/ NextCall(s) \/ Announce(s) \/ Flush(s)
  BY <1>1, <1>5 DEF ReadCheckpoint, ResumeStopped, ResumeLost, ResumeRefused, HeartbeatStop, Lost, BlankRound, NextCall, Announce, Flush, At, Step, GoTo, Fail, End, SlotState
<1>6. CASE \/ MarkOutput(s) \/ SkipCall(s) \/ ApprovalStopped(s)
           \/ ApprovalStale(s) \/ Dispatch(s) \/ ToolReturns(s) \/ BatchDone(s)
           \/ TimedOut(s) \/ ParkRefused(s) \/ StepFails(s)
  BY <1>1, <1>6 DEF MarkOutput, SkipCall, ApprovalStopped, ApprovalStale, Dispatch, ToolReturns, BatchDone, TimedOut, ParkRefused, StepFails, At, Step, GoTo, Fail, End, SlotState
<1>7. CASE Start(s)
  BY <1>1, <1>7 DEF Start, At, Step, SlotState
<1>8. CASE ResumeAnswered(s)
  BY <1>1, <1>8 DEF ResumeAnswered, At, Step, SlotState
<1>9. CASE \/ \E received, calls \in BOOLEAN : CutRound(s, received, calls)
           \/ \E calls \in BOOLEAN : SaveRound(s, calls)
  <2>1. PICK calls \in BOOLEAN :
          \/ \E received \in BOOLEAN : CutRound(s, received, calls)
          \/ SaveRound(s, calls)
    BY <1>9
  <2>2. slot[s].pc \in Step
    BY <2>1 DEF CutRound, SaveRound, At, Step
  <2> DEFINE n == Extended(s, calls)
             o == slot[s].output \/ calls
  <2>3. \E pc, x : slot' = [slot EXCEPT ![s] = [slot[s] EXCEPT
                      !.pc = pc, !.output = o, !.rounds = n, !.outcome = x]]
    <3>1. CASE SaveRound(s, calls)
      <4> DEFINE x == IF calls THEN "tools" ELSE "answer"
      <4>1. slot' = [slot EXCEPT ![s].pc = "closing", ![s].output = @ \/ calls,
                                 ![s].rounds = n, ![s].outcome = x]
        BY <3>1 DEF SaveRound
      <4> HIDE DEF n, x
      <4>2. slot' = [slot EXCEPT ![s] = [slot[s] EXCEPT !.pc = "closing",
                       !.output = o, !.rounds = n, !.outcome = x]]
        BY <1>1, <4>1
      <4>3. QED
        BY <4>2
    <3>2. ASSUME NEW received \in BOOLEAN, CutRound(s, received, calls)
          PROVE  \E pc, x : slot' = [slot EXCEPT ![s] = [slot[s] EXCEPT
                      !.pc = pc, !.output = o, !.rounds = n, !.outcome = x]]
      <4>1. PICK cause \in {"temporary", "permanent"} :
              slot' = [slot EXCEPT ![s].pc = "ending", ![s].output = @ \/ calls,
                         ![s].rounds = n,
                         ![s].outcome = IF @ = "stopped" THEN @ ELSE cause]
        BY <3>2 DEF CutRound
      <4> DEFINE x == IF slot[s].outcome = "stopped" THEN slot[s].outcome ELSE cause
      <4> HIDE DEF n
      <4>2. slot' = [slot EXCEPT ![s] = [slot[s] EXCEPT !.pc = "ending",
                       !.output = o, !.rounds = n, !.outcome = x]]
        BY <1>1, <4>1
      <4>3. QED
        BY <4>2
    <3>3. QED
      BY <2>1, <3>1, <3>2
  <2> HIDE DEF n, o
  <2>4. PICK pc, x : slot' = [slot EXCEPT ![s] = [slot[s] EXCEPT
                       !.pc = pc, !.output = o, !.rounds = n, !.outcome = x]]
    BY <2>3
  <2>5. QED
    BY <1>1, <2>2, <2>4 DEF SlotState
<1>10. CASE \E tooLarge \in BOOLEAN : StartWithNotice(s, tooLarge)
  <2>1. PICK tooLarge \in BOOLEAN : StartWithNotice(s, tooLarge)
    BY <1>10
  <2>2. slot[s].pc \in Step
    BY <2>1 DEF StartWithNotice, At, Step
  <2>3. QED
    BY <1>1, <2>1, <2>2 DEF StartWithNotice, SlotState
<1>11. CASE \E text \in BOOLEAN : CloseRound(s, text)
  <2>1. PICK text \in BOOLEAN : CloseRound(s, text)
    BY <1>11
  <2>2. slot[s].pc \in Step
    BY <2>1 DEF CloseRound, At, Step
  <2>3. QED
    BY <1>1, <2>1, <2>2 DEF CloseRound, SlotState
<1>12. QED
  BY <1>2, <1>3, <1>4, <1>5, <1>6, <1>7, <1>8, <1>9, <1>10, <1>11 DEF SlotNext, Advance

\* A slot without a turn does not run.
LEMMA HoldingKept ==
  ASSUME IInv, [Next]_vars
  PROVE  Holding'
<1>1. ASSUME NEW s \in Slot, SlotNext(s)
      PROVE  Holding'
  <2>1. slot'[s].pc \in Step => slot'[s].turn \in Turn
    BY <1>1, SlotKeepsTurn DEF Idle, Step, IInv, Holding
  <2>2. QED
    BY <1>1, <2>1, SlotKeepsTurn DEF IInv, Holding
<1>2. CASE slot' = slot
  BY <1>2 DEF IInv, Holding
<1>3. CASE \E t \in Turn : TurnNext(t)
  BY <1>2, <1>3 DEF TurnNext, Submit, SubmitBusyOrReplayed, Cancel, Answer, ExpireLease
<1>4. CASE \/ \E c \in Conversation : DeleteConversation(c)
           \/ \E p \in Project : ChangeConnection(p)
           \/ Recover \/ UNCHANGED vars
  BY <1>2, <1>4 DEF DeleteConversation, ChangeConnection, Recover, vars
<1>5. QED
  BY <1>1, <1>3, <1>4 DEF Next

\* A step of the good shape makes no second turn of a conversation active.
LEMMA GoodKeepsIInv ==
  ASSUME IInv, [Next]_vars, Good
  PROVE  IInv'
<1>1. \A t \in Turn : RowOK(turn'[t])
  BY DeletedRowOK DEF IInv, Good, Changes, Change
<1>2. \A t \in Turn : turn'[t].status \in Active => turn[t].status \in Active
  BY DeletedRowOK DEF Good, Changes, Change, Active
<1>3. OneActiveTurn'
  BY <1>2 DEF OneActiveTurn, IInv
<1>4. TypeOK'
  BY RetakenGrows DEF Good, TypeOK
<1>5. QED
  BY <1>1, <1>3, <1>4, HoldingKept DEF IInv

\* A submission is the one step that makes a row active: under the lock of
\* the conversation, after the sweep, it found none (ai_turns.go:306).
LEMMA SubmitKeepsIInv ==
  ASSUME IInv, [Next]_vars, NEW t \in Turn, Submit(t)
  PROVE  IInv'
<1> DEFINE new == [NoRow EXCEPT !.status = "queued", !.reply = "pending"]
           rows == Swept(Siblings(t))
<1>1. Siblings(t) \in SUBSET Turn
  BY DEF Siblings
<1>2. /\ rows \in [Turn -> TurnRow]
      /\ \A u \in Turn : Change(turn[u], rows[u])
      /\ \A u \in Turn : RowOK(rows[u])
  BY <1>1, SweptChanges
<1>3. RowOK(new)
  <2> DEFINE q == new
  <2>1. NoRow \in TurnRow
    BY LimitsAssumption DEF NoRow, TurnRow
  <2>2. /\ q \in TurnRow
        /\ q.status = "queued" /\ q.lease = "none" /\ q.reply = "pending"
        /\ q.endings = 0 /\ q.question = "none" /\ ~q.ckpt /\ ~q.output
    BY <2>1 DEF NoRow, TurnRow, Active, Terminal
  <2> HIDE DEF q
  <2>3. RowOK(q)
    BY <2>2 DEF RowOK, Active, Terminal
  <2>4. QED
    BY <2>3 DEF q
<1>4. turn' = [rows EXCEPT ![t] = new] /\ slot' = slot /\ used' = used + 1
  BY DEF Submit
<1>5. \A u \in Siblings(t) : rows[u].status \notin Active
  BY DEF Submit, Busy
<1> HIDE DEF rows, new
<1>6. \A u \in Turn : turn'[u] = IF u = t THEN new ELSE rows[u]
  BY <1>2, <1>4
<1>7. new \in TurnRow /\ turn' \in [Turn -> TurnRow]
  BY <1>2, <1>3, <1>4 DEF RowOK
<1>8. TypeOK'
  BY <1>4, <1>7, SlotTyped, RetakenGrows DEF TypeOK
<1>9. \A u \in Turn : RowOK(turn'[u])
  BY <1>2, <1>3, <1>6
<1>10. OneActiveTurn'
  <2> SUFFICES ASSUME NEW u \in Turn, NEW v \in Turn,
                      ConversationOf[u] = ConversationOf[v],
                      turn'[u].status \in Active, turn'[v].status \in Active
               PROVE  u = v
    BY DEF OneActiveTurn
  <2>1. CASE u = t \/ v = t
    BY <1>5, <1>6, <2>1 DEF Siblings
  <2>2. CASE u # t /\ v # t
    <3>1. turn[u].status \in Active /\ turn[v].status \in Active
      BY <1>2, <1>6, <2>2 DEF Change
    <3>2. QED
      BY <3>1 DEF IInv, OneActiveTurn
  <2>3. QED
    BY <2>1, <2>2
<1>11. QED
  BY <1>8, <1>9, <1>10, HoldingKept DEF IInv

\* Every step but a submission has the good shape.
LEMMA NextGood ==
  ASSUME IInv, [Next]_vars
  PROVE  Good \/ \E t \in Turn : Submit(t)
<1>1. CASE UNCHANGED vars
  BY <1>1, RowsUntouched, SlotTyped DEF vars, Good
<1>2. CASE Recover
  <2>1. CASE Turn = {}
    BY <1>2, <2>1 DEF Recover, Expired
  <2>2. CASE Turn # {}
    BY <1>2, <2>2, SweepsGood
  <2>3. QED
    BY <2>1, <2>2
<1>3. ASSUME NEW t \in Turn, TurnNext(t), ~Submit(t)
      PROVE  Good
  BY <1>3, SweepsGood, HandlersGood DEF TurnNext
<1>4. ASSUME NEW s \in Slot, SlotNext(s)
      PROVE  Good
  BY <1>4, SlotNextGood
<1>5. ASSUME NEW p \in Project, ChangeConnection(p)
      PROVE  Good
  BY <1>5, ConnectionGood
<1>6. ASSUME NEW c \in Conversation, DeleteConversation(c)
      PROVE  Good
  BY <1>6, DeleteGood
<1>7. QED
  BY <1>1, <1>2, <1>3, <1>4, <1>5, <1>6 DEF Next

\* IInv is inductive.
LEMMA StepIInv ==
  ASSUME IInv, [Next]_vars
  PROVE  IInv'
BY NextGood, GoodKeepsIInv, SubmitKeepsIInv

\* IInv holds in every reachable state, for the handlers, the slots and the
\* sweep in any number.
THEOREM Invariance == Spec => []IInv
<1>1. IInv /\ [Next]_vars => IInv'
  BY StepIInv
<1>2. QED
  BY InitIInv, <1>1, PTL DEF Spec

-----------------------------------------------------------------------------
(* What follows *)

\* Rows, slots and the usage counter keep their types, for any number of
\* turns and slots (worker.go:272, ai_turns.go:306).
THEOREM TypeCorrect == Spec => []TypeOK
<1>1. IInv => TypeOK
  BY DEF IInv
<1>2. QED
  BY Invariance, <1>1, PTL

\* One turn of a conversation under way at a time, whichever of submission,
\* answer, requeue and sweep made it active.
THEOREM OneActive == Spec => []OneActiveTurn
<1>1. IInv => OneActiveTurn
  BY DEF IInv
<1>2. QED
  BY Invariance, <1>1, PTL

\* Exactly one terminal event per ended turn, for any number of workers,
\* stops and sweeps, even when processes share their id.
THEOREM EndedOnce == Spec => []OneEnding
<1>1. IInv => OneEnding
  BY DEF IInv, RowOK, OneEnding
<1>2. QED
  BY Invariance, <1>1, PTL

\* The sweep finds the pending reply of every turn it has to fail, so one
\* turn never keeps all others from being recovered.
THEOREM SweepCommits == Spec => []SweepNeverWedged
<1>1. IInv => SweepNeverWedged
  BY DEF IInv, RowOK, SweepNeverWedged
<1>2. QED
  BY Invariance, <1>1, PTL

\* Turn, question, checkpoint and awaiting call stay in step.
THEOREM QuestionsInStep == Spec => []QuestionInStep
<1>1. IInv => QuestionInStep
  BY DEF IInv, RowOK, QuestionInStep
<1>2. QED
  BY Invariance, <1>1, PTL

\* A queued turn with output is one whose question was answered.
THEOREM NoRetries == Spec => []NoRetryAfterOutput
<1>1. IInv => NoRetryAfterOutput
  BY DEF IInv, RowOK, NoRetryAfterOutput
<1>2. QED
  BY Invariance, <1>1, PTL

\* The reply of an ended turn agrees with how the turn ended.
THEOREM RepliesMatch == Spec => []ReplyMatchesEnding
<1>1. IInv => ReplyMatchesEnding
  BY DEF IInv, RowOK, ReplyMatchesEnding
<1>2. QED
  BY Invariance, <1>1, PTL

\* No step of any actor touches a turn that has ended, but the deletion of
\* its conversation.
THEOREM EndedForGood == Spec => EndedStaysEnded
<1>1. ASSUME IInv, [Next]_vars
      PROVE  \A t \in Turn :
               turn[t].status \in Terminal /\ turn'[t].status # "deleted" =>
                 /\ turn'[t].status = turn[t].status
                 /\ turn'[t].reply = turn[t].reply
                 /\ turn'[t].endings = turn[t].endings
  <2>1. CASE Good
    BY <2>1, DeletedRowOK DEF Good, Changes, Change
  <2>2. ASSUME NEW u \in Turn, Submit(u), NEW t \in Turn,
               turn[t].status \in Terminal
        PROVE  turn'[t] = turn[t]
    <3> DEFINE rows == Swept(Siblings(u))
               new == [NoRow EXCEPT !.status = "queued", !.reply = "pending"]
    <3>1. Siblings(u) \in SUBSET Turn
      BY DEF Siblings
    <3>2. rows \in [Turn -> TurnRow] /\ rows[t] = turn[t]
      BY <1>1, <2>2, <3>1, SweptChanges DEF Change
    <3>3. turn' = [rows EXCEPT ![u] = new] /\ t # u
      BY <2>2 DEF Submit, Terminal
    <3> HIDE DEF rows, new
    <3>4. QED
      BY <3>2, <3>3
  <2>3. QED
    BY <1>1, <2>1, <2>2, NextGood
<1>2. QED
  BY Invariance, <1>1, PTL DEF Spec, EndedStaysEnded

=============================================================================
