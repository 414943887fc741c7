----------------------------- MODULE ChatTurns -----------------------------
(***************************************************************************)
(* The life of AI chat turns: the rows the HTTP handlers and the chat      *)
(* workers share in PostgreSQL, and the worker slots that process them.    *)
(*                                                                         *)
(* One action is one statement or one transaction of the code, so every    *)
(* interleaving of handlers, slots and the recovery sweep that the         *)
(* database allows is a behaviour.  What a worker remembers between two    *)
(* transactions lives in slot[s]; what the database knows lives in         *)
(* turn[t].  Time appears only as the moment a lease runs out.             *)
(***************************************************************************)
EXTENDS Naturals, FiniteSets

CONSTANTS
  Turn,              \* client request ids: each names at most one turn
  Conversation, Project,
  User,
  Slot,              \* goroutines running Worker.loop, over all processes
  Worker,            \* values of ai_turns.claimed_by (hostname-pid)
  NoTurn, NoWorker,  \* NULL
  ConversationOf,    \* [Turn -> Conversation]
  ProjectOf,         \* [Conversation -> Project]
  UserOf,            \* [Turn -> User], the initiator, in one organization
  WorkerOf,          \* [Slot -> Worker], one id for the slots of a process
  MonthlyLimit,      \* ai_monthly_message_limit
  UserLimit,         \* ai_concurrent_turn_limit_per_user
  MaxAttempts,       \* defaultAttempts = aiTurnMaxAttempts
  MaxRounds          \* maxAgentRounds: tool rounds in a turn's transcript

ASSUME OwnersAssumption ==
  /\ ConversationOf \in [Turn -> Conversation]
  /\ ProjectOf \in [Conversation -> Project]
  /\ UserOf \in [Turn -> User]
  /\ WorkerOf \in [Slot -> Worker]
  /\ NoTurn \notin Turn
  /\ NoWorker \notin Worker

ASSUME LimitsAssumption ==
  /\ MonthlyLimit \in Nat
  /\ UserLimit \in Nat
  /\ MaxAttempts \in Nat \ {0}
  /\ MaxRounds \in Nat

VARIABLES
  turn,    \* per turn: its ai_turns row with the rows that hang from it
  slot,    \* per slot: where Worker.run stands and what it holds in memory
  used,    \* ai_workspace_monthly_usage.used_messages
  retaken  \* history: the turns a process claimed again while another of its
           \* slots still worked on them; no action reads it

vars == <<turn, slot, used, retaken>>

-----------------------------------------------------------------------------
(* Rows *)

Terminal == {"completed", "stopped", "failed"}
Active   == {"queued", "running", "waiting_for_user"}

TurnRow ==
  [ status   : {"absent", "deleted"} \cup Active \cup Terminal,
    owner    : Worker \cup {NoWorker},              \* claimed_by
    lease    : {"none", "live", "expired"},         \* lease_expires_at
    attempt  : Nat,                                 \* attempt_count
    output   : BOOLEAN,                             \* output_started_at set
    cancel   : BOOLEAN,                             \* cancel_requested_at set
    reply    : {"absent", "pending", "complete", "partial", "failed"},
    endings  : Nat,                                 \* terminal events written
    question : {"none", "pending", "answered", "cancelled"},  \* newest request
    ckpt     : BOOLEAN,                             \* checkpoint row present
    awaiting : BOOLEAN,             \* a tool call row still has status awaiting
    saved    : BOOLEAN,                             \* transcript row present
    rounds   : 0..MaxRounds ]                       \* tool rounds it records

NoRow ==
  [ status |-> "absent", owner |-> NoWorker, lease |-> "none", attempt |-> 0,
    output |-> FALSE, cancel |-> FALSE, reply |-> "absent", endings |-> 0,
    question |-> "none", ckpt |-> FALSE, awaiting |-> FALSE, saved |-> FALSE,
    rounds |-> 0 ]

\* What the deletion of its conversation leaves of a turn.
DeletedRow == [NoRow EXCEPT !.status = "deleted"]

\* The steps of Worker.run that a database statement or a wait separates.
Step == { "loading", "resuming", "starting", "streaming", "closing", "tools",
          "announcing", "marking", "dispatching", "executing", "more",
          "failing", "ending" }

SlotState ==
  [ pc      : {"idle", "selecting"} \cup Step,
    turn    : Turn \cup {NoTurn},
    seen    : SUBSET Turn,   \* rows eligible in the claim statement's snapshot
    attempt : Nat,           \* claimed.AttemptCount
    output  : BOOLEAN,       \* the local variable output
    rounds  : 0..MaxRounds,  \* tool rounds of turnLocal
    outcome : {"none", "answer", "tools", "completed", "stopped",
               "temporary", "permanent"} ]

Idle == [ pc |-> "idle", turn |-> NoTurn, seen |-> {}, attempt |-> 0,
          output |-> FALSE, rounds |-> 0, outcome |-> "none" ]

TypeOK ==
  /\ turn \in [Turn -> TurnRow]
  /\ slot \in [Slot -> SlotState]
  /\ used \in Nat
  /\ retaken \in SUBSET Turn

Init ==
  /\ turn = [t \in Turn |-> NoRow]
  /\ slot = [s \in Slot |-> Idle]
  /\ used = 0
  /\ retaken = {}

-----------------------------------------------------------------------------
(* Helpers *)

\* Mutant: the owner is not compared.
OwnsAnyWorker(s) ==
  /\ slot[s].turn \in Turn
  /\ turn[slot[s].turn].status = "running"
  /\ turn[slot[s].turn].lease = "live"

\* The guard of every worker write: status = 'running' AND claimed_by = $id
\* AND lease_expires_at > now().
Owns(s) ==
  /\ slot[s].turn \in Turn
  /\ turn[slot[s].turn].status = "running"
  /\ turn[slot[s].turn].owner = WorkerOf[s]
  /\ turn[slot[s].turn].lease = "live"

At(s, pcs) == slot[s].pc \in pcs

GoTo(s, pc) == slot' = [slot EXCEPT ![s].pc = pc]
Release(s)  == slot' = [slot EXCEPT ![s] = Idle]
Fail(s)     == GoTo(s, "failing")
End(s, outcome) ==
  slot' = [slot EXCEPT ![s].pc = "ending", ![s].outcome = outcome]

\* Mutant: the checkpoint is left behind.
CancelQuestionsOnly(r) ==
  [r EXCEPT !.question = IF @ = "pending" THEN "cancelled" ELSE @]

\* CancelPendingUserQuestionsForTurn: close the question, drop the checkpoint.
CancelQuestions(r) ==
  [r EXCEPT !.question = IF @ = "pending" THEN "cancelled" ELSE @, !.ckpt = FALSE]

\* How a turn ends outside a worker: by a stop the handler carries out.
StoppedRow(r) ==
  [CancelQuestions(r) EXCEPT !.status = "stopped", !.cancel = TRUE,
     !.reply = IF @ = "pending" THEN "partial" ELSE @, !.endings = @ + 1]

\* Mutant: the reply is not updated.
FinalRowOnly(r, status, reply) ==
  [r EXCEPT !.status = status, !.lease = "none", !.endings = @ + 1]

\* finalize: the terminal status, its event and the reply's status.
FinalRow(r, status, reply) ==
  [r EXCEPT !.status = status, !.lease = "none", !.reply = reply,
            !.endings = @ + 1]

\* messageStatusForOutput
ReplyFor(output) == IF output THEN "partial" ELSE "failed"

\* Mutant: the update is not guarded by the claim.
FinalizeUnguarded(s, status, reply) ==
  /\ turn' = [turn EXCEPT ![slot[s].turn] = FinalRow(@, status, reply)]
  /\ Release(s)
  /\ UNCHANGED <<used, retaken>>

Finalize(s, status, reply) ==
  /\ turn' = IF Owns(s)
               THEN [turn EXCEPT ![slot[s].turn] = FinalRow(@, status, reply)]
               ELSE turn
  /\ Release(s)
  /\ UNCHANGED <<used, retaken>>

-----------------------------------------------------------------------------
(* The lease sweep *)

Expired(turns) ==
  {t \in turns : turn[t].status = "running" /\ turn[t].lease = "expired"}

\* Mutants: output, or the number of attempts, is not looked at.
RetryableWithOutput(r) == r.attempt < MaxAttempts
RetryableForEver(r)    == ~r.output

Retryable(r) == ~r.output /\ r.attempt < MaxAttempts

\* Mutant: the reply fails although the turn is queued again.
RecoveredRowFailsReply(r) ==
  [r EXCEPT !.status = IF Retryable(r) THEN "queued" ELSE "failed",
            !.owner = NoWorker, !.lease = "none", !.reply = "failed",
            !.question = IF @ = "pending" THEN "cancelled" ELSE @,
            !.ckpt = IF Retryable(r) THEN @ ELSE FALSE,
            !.endings = IF Retryable(r) THEN @ ELSE @ + 1]

\* A turn with output fails with its reply left as it is; one without is
\* queued again while it has attempts left.
RecoveredRow(r) ==
  IF Retryable(r)
    THEN [r EXCEPT !.status = "queued", !.owner = NoWorker, !.lease = "none"]
    ELSE [CancelQuestions(r) EXCEPT
            !.status = "failed", !.owner = NoWorker, !.lease = "none",
            !.reply = IF ~r.output /\ @ = "pending" THEN "failed" ELSE @,
            !.endings = @ + 1]

Swept(turns) ==
  [t \in Turn |-> IF t \in Expired(turns) THEN RecoveredRow(turn[t]) ELSE turn[t]]

\* Worker.recover: one transaction over all expired turns, rolled back as a
\* whole when a failing turn has no pending reply to mark.
Recover ==
  /\ Expired(Turn) # {}
  /\ \A t \in Expired(Turn) :
       ~turn[t].output /\ ~Retryable(turn[t]) => turn[t].reply = "pending"
  /\ turn' = Swept(Turn)
  /\ UNCHANGED <<slot, used, retaken>>

\* Time: a lease that was not refreshed runs out.
ExpireLease(t) ==
  /\ turn[t].lease = "live"
  /\ turn' = [turn EXCEPT ![t].lease = "expired"]
  /\ UNCHANGED <<slot, used, retaken>>

-----------------------------------------------------------------------------
(* The HTTP handlers *)

Siblings(t) == {u \in Turn : ConversationOf[u] = ConversationOf[t]}

\* Mutant: a turn that waits for its user does not make it busy.
BusyUnlessWaiting(turns, rows) ==
  \E u \in turns : rows[u].status \in {"queued", "running"}

Busy(turns, rows) == \E u \in turns : rows[u].status \in Active

\* submitAITurn under the conversation lock: sweep, then accept.  Without
\* quota the transaction rolls back, so nothing happens.
Submit(t) ==
  /\ turn[t].status = "absent"
  /\ \A u \in Siblings(t) : turn[u].status # "deleted"
  /\ ~Busy(Siblings(t), Swept(Siblings(t)))
  /\ used < MonthlyLimit
  /\ turn' = [Swept(Siblings(t)) EXCEPT
                ![t] = [NoRow EXCEPT !.status = "queued", !.reply = "pending"]]
  /\ used' = used + 1
  /\ UNCHANGED <<slot, retaken>>

\* A submission that finds the conversation busy, or repeats a request id,
\* commits the sweep and nothing else.
SubmitBusyOrReplayed(t) ==
  /\ Expired(Siblings(t)) # {}
  /\ \/ turn[t].status # "absent"
     \/ Busy(Siblings(t), Swept(Siblings(t)))
  /\ turn' = Swept(Siblings(t))
  /\ UNCHANGED <<slot, used, retaken>>

\* Mutant: a turn that has ended is stopped once more.
CancelEnded(t) ==
  /\ turn[t].status # "absent"
  /\ turn' = [turn EXCEPT ![t] =
                IF @.status = "running"
                  THEN [CancelQuestions(@) EXCEPT !.cancel = TRUE]
                  ELSE StoppedRow(@)]
  /\ UNCHANGED <<slot, used, retaken>>

\* handleCancelAITurn
Cancel(t) ==
  /\ turn[t].status \in Active
  /\ turn' = [turn EXCEPT ![t] =
                IF @.status = "running"
                  THEN [CancelQuestions(@) EXCEPT !.cancel = TRUE]
                  ELSE StoppedRow(@)]
  /\ UNCHANGED <<slot, used, retaken>>

\* handleAnswerUserQuestionRequest: an answer or a skip queues the turn.
Answer(t) ==
  /\ turn[t].status = "waiting_for_user"
  /\ turn[t].question = "pending"
  /\ turn' = [turn EXCEPT ![t].question = "answered", ![t].status = "queued",
                          ![t].owner = NoWorker, ![t].lease = "none"]
  /\ UNCHANGED <<slot, used, retaken>>

\* handleDeleteAIConversation: the rows of all its turns go, whatever a worker
\* is doing with them.
DeleteConversation(c) ==
  LET gone == {t \in Turn : ConversationOf[t] = c /\ turn[t].status # "absent"} IN
  /\ \E t \in gone : turn[t] # DeletedRow
  /\ turn' = [t \in Turn |-> IF t \in gone THEN DeletedRow ELSE turn[t]]
  /\ UNCHANGED <<slot, used, retaken>>

\* invalidateMCPConnectionApprovalsTx: replacing or removing an MCP connection
\* fails every waiting turn of the project, and looks at nothing but its status.
ConnectionLostRow(r) ==
  [r EXCEPT !.status = "failed", !.owner = NoWorker, !.lease = "none",
            !.reply = IF ~r.output /\ @ = "pending" THEN "failed" ELSE @,
            !.endings = @ + 1]

WaitingIn(p) ==
  {t \in Turn : /\ turn[t].status = "waiting_for_user"
                /\ ProjectOf[ConversationOf[t]] = p}

ChangeConnection(p) ==
  /\ WaitingIn(p) # {}
  /\ turn' = [t \in Turn |-> IF t \in WaitingIn(p) THEN ConnectionLostRow(turn[t])
                                                   ELSE turn[t]]
  /\ UNCHANGED <<slot, used, retaken>>

-----------------------------------------------------------------------------
(* Worker.claim: the SELECT sees a snapshot taken when it starts, before it  *)
(* holds the advisory lock of a user; only the row it locks is read again.   *)
(* The lock makes the rest of the claim one step.  queued_at order is left   *)
(* open: SKIP LOCKED and the limit let any eligible row be the first.        *)

Running(u) == {t \in Turn : turn[t].status = "running" /\ UserOf[t] = u}

Eligible ==
  {t \in Turn : /\ turn[t].status = "queued"
                /\ Cardinality(Running(UserOf[t])) < UserLimit}

ClaimSelect(s) ==
  /\ At(s, {"idle"})
  /\ Eligible # {}
  /\ slot' = [slot EXCEPT ![s].pc = "selecting", ![s].seen = Eligible]
  /\ UNCHANGED <<turn, used, retaken>>

\* Another slot of the claimant's process still works on the turn.
HeldBeside(s, t) ==
  \E z \in Slot \ {s} : WorkerOf[z] = WorkerOf[s] /\ slot[z].turn = t

ClaimTake(s, t) ==
  /\ At(s, {"selecting"})
  /\ t \in slot[s].seen
  /\ turn[t].status = "queued"
  /\ turn' = [turn EXCEPT ![t].status = "running", ![t].owner = WorkerOf[s],
                          ![t].lease = "live", ![t].attempt = @ + 1]
  /\ retaken' = IF HeldBeside(s, t) THEN retaken \cup {t} ELSE retaken
  /\ slot' = [slot EXCEPT ![s] = [Idle EXCEPT !.pc = "loading", !.turn = t,
                                 !.attempt = turn[t].attempt + 1]]
  /\ UNCHANGED used

ClaimNothing(s) ==
  /\ At(s, {"selecting"})
  /\ \A t \in slot[s].seen : turn[t].status # "queued"
  /\ Release(s)
  /\ UNCHANGED <<turn, used, retaken>>

-----------------------------------------------------------------------------
(* Worker.run: from the claim to the first provider request *)

\* loadContext, setupMCP (no heartbeat in either), then the plain read of
\* the checkpoint with which resumeUserQuestionIfParked begins.
ReadCheckpoint(s) ==
  /\ At(s, {"loading"})
  /\ GoTo(s, IF turn[slot[s].turn].ckpt THEN "resuming" ELSE "starting")
  /\ UNCHANGED <<turn, used, retaken>>

\* A stop that lands after that read ends the run without a request.
ResumeStopped(s) ==
  /\ At(s, {"resuming"})
  /\ turn[slot[s].turn].cancel
  /\ End(s, "stopped")
  /\ UNCHANGED <<turn, used, retaken>>

ResumeLost(s) ==
  /\ At(s, {"resuming"})
  /\ ~turn[slot[s].turn].cancel
  /\ ~Owns(s)
  /\ Fail(s)
  /\ UNCHANGED <<turn, used, retaken>>

\* The tool was disabled while the turn waited, or the question has no
\* answer: the checkpoint goes and the run fails.
ResumeRefused(s) ==
  /\ At(s, {"resuming"})
  /\ ~turn[slot[s].turn].cancel
  /\ Owns(s)
  /\ turn' = [turn EXCEPT ![slot[s].turn] = CancelQuestions(@)]
  /\ Fail(s)
  /\ UNCHANGED <<used, retaken>>

ResumeAnswered(s) ==
  /\ At(s, {"resuming"})
  /\ ~turn[slot[s].turn].cancel
  /\ Owns(s)
  /\ turn[slot[s].turn].question = "answered"
  /\ turn[slot[s].turn].awaiting
  /\ turn' = [turn EXCEPT ![slot[s].turn].ckpt = FALSE,
                          ![slot[s].turn].awaiting = FALSE]
  /\ slot' = [slot EXCEPT ![s].pc = "starting", ![s].output = TRUE]
  /\ UNCHANGED <<used, retaken>>

\* Load the transcript and open the first provider round.  A saved
\* transcript counts as output; completing its dangling calls is local.
Start(s) ==
  /\ At(s, {"starting"})
  /\ slot' = [slot EXCEPT ![s].pc = "streaming",
                          ![s].rounds = turn[slot[s].turn].rounds,
                          ![s].output = @ \/ turn[slot[s].turn].saved]
  /\ UNCHANGED <<turn, used, retaken>>

\* A run that was not resumed may first publish a trim notice; when even the
\* trimmed history is too large the notice is its last word.
StartWithNotice(s, tooLarge) ==
  /\ At(s, {"starting"})
  /\ ~slot[s].output
  /\ Owns(s)
  /\ turn' = [turn EXCEPT ![slot[s].turn].output = TRUE]
  /\ slot' = [slot EXCEPT ![s].output = TRUE,
                          ![s].rounds = turn[slot[s].turn].rounds,
                          ![s].pc = IF tooLarge THEN "ending" ELSE "streaming",
                          ![s].outcome = IF tooLarge THEN "permanent" ELSE @]
  /\ UNCHANGED <<used, retaken>>

-----------------------------------------------------------------------------
(* Worker.run: provider rounds.  A refreshed lease is a live lease, so a     *)
(* heartbeat shows only in what it reads: a lost turn or a requested stop.   *)

Flush(s) ==
  /\ At(s, {"streaming"})
  /\ Owns(s)
  /\ turn' = [turn EXCEPT ![slot[s].turn].output = TRUE]
  /\ slot' = [slot EXCEPT ![s].output = TRUE]
  /\ UNCHANGED <<used, retaken>>

HeartbeatStop(s) ==
  /\ At(s, {"streaming"})
  /\ Owns(s)
  /\ turn[slot[s].turn].cancel
  /\ slot' = [slot EXCEPT ![s].outcome = "stopped"]
  /\ UNCHANGED <<turn, used, retaken>>

\* Any guarded write or refresh that finds the turn taken away.
Lost(s) ==
  /\ At(s, {"streaming", "closing", "tools", "announcing", "dispatching",
            "executing", "more"})
  /\ ~Owns(s)
  /\ Fail(s)
  /\ UNCHANGED <<turn, used, retaken>>

\* saveProgress: the transcript in memory replaces the saved one.
Save(r, rounds) == [r EXCEPT !.saved = TRUE, !.rounds = rounds]

\* Calls make the transcript in memory one tool round longer.
Extended(s, calls) == slot[s].rounds + (IF calls THEN 1 ELSE 0)

\* Mutant: off by one.
MayCallOnceMore(s) == slot[s].rounds <= MaxRounds

MayCall(s) == slot[s].rounds < MaxRounds

\* The stream ends early: by a stop, or by a provider error or the turn's
\* deadline.  What was received is saved; calls count as output.
CutRound(s, received, calls) ==
  /\ At(s, {"streaming"})
  /\ received => Owns(s)
  /\ calls => received /\ MayCall(s)
  /\ turn' = IF received
               THEN [turn EXCEPT ![slot[s].turn] = Save(@, Extended(s, calls))]
               ELSE turn
  /\ \E cause \in {"temporary", "permanent"} :
       slot' = [slot EXCEPT ![s].pc = "ending", ![s].output = @ \/ calls,
                 ![s].rounds = Extended(s, calls),
                 ![s].outcome = IF @ = "stopped" THEN @ ELSE cause]
  /\ UNCHANGED <<used, retaken>>

\* A blank round completes the turn with nothing to save.
BlankRound(s) ==
  /\ At(s, {"streaming"})
  /\ slot[s].outcome # "stopped"
  /\ End(s, "completed")
  /\ UNCHANGED <<turn, used, retaken>>

SaveRound(s, calls) ==
  /\ At(s, {"streaming"})
  /\ slot[s].outcome # "stopped"
  /\ Owns(s)
  /\ calls => MayCall(s)
  /\ turn' = [turn EXCEPT ![slot[s].turn] = Save(@, Extended(s, calls))]
  /\ slot' = [slot EXCEPT ![s].pc = "closing", ![s].output = @ \/ calls,
                 ![s].rounds = Extended(s, calls),
                 ![s].outcome = IF calls THEN "tools" ELSE "answer"]
  /\ UNCHANGED <<used, retaken>>

\* closeAssistantRound writes only when the round has text.
CloseRound(s, text) ==
  /\ At(s, {"closing"})
  /\ text => Owns(s)
  /\ turn' = IF text THEN [turn EXCEPT ![slot[s].turn].output = TRUE] ELSE turn
  /\ LET called == slot[s].outcome = "tools"
     IN slot' = [slot EXCEPT ![s].output = slot[s].output \/ text,
                    ![s].pc = IF called THEN "tools" ELSE "ending",
                    ![s].outcome = IF called THEN "none" ELSE "completed"]
  /\ UNCHANGED <<used, retaken>>

-----------------------------------------------------------------------------
(* Worker.run: one batch of tool calls, from "tools" before the first call   *)
(* and "more" after each.                                                    *)

\* Save, then refresh the lease; a requested stop ends the batch here.
NextCall(s) ==
  /\ At(s, {"tools", "more"})
  /\ Owns(s)
  /\ IF turn[slot[s].turn].cancel
       THEN End(s, "stopped")
       ELSE GoTo(s, IF At(s, {"tools"}) THEN "announcing" ELSE "dispatching")
  /\ UNCHANGED <<turn, used, retaken>>

\* The phase event, guarded like every event.
Announce(s) ==
  /\ At(s, {"announcing"})
  /\ Owns(s)
  /\ GoTo(s, "marking")
  /\ UNCHANGED <<turn, used, retaken>>

\* Mutant: output is recorded only with text, not before tools.
MarkNothing(s) ==
  /\ At(s, {"marking"})
  /\ GoTo(s, "dispatching")
  /\ UNCHANGED <<turn, used, retaken>>

\* The update that records output before a tool runs: guarded in SQL, but
\* the number of rows it changed is not looked at.
MarkOutput(s) ==
  /\ At(s, {"marking"})
  /\ turn' = IF Owns(s)
               THEN [turn EXCEPT ![slot[s].turn].output = TRUE] ELSE turn
  /\ GoTo(s, "dispatching")
  /\ UNCHANGED <<used, retaken>>

\* Unparsable arguments, a denied or blocked call: a result, no dispatch.
SkipCall(s) ==
  /\ At(s, {"dispatching"})
  /\ Owns(s)
  /\ GoTo(s, "more")
  /\ UNCHANGED <<turn, used, retaken>>

\* While a call waits for approval the lease is refreshed and a stop seen.
ApprovalStopped(s) ==
  /\ At(s, {"dispatching"})
  /\ Owns(s)
  /\ turn[slot[s].turn].cancel
  /\ End(s, "stopped")
  /\ UNCHANGED <<turn, used, retaken>>

\* The approved call no longer matches its connection.
ApprovalStale(s) ==
  /\ At(s, {"dispatching"})
  /\ End(s, "permanent")
  /\ UNCHANGED <<turn, used, retaken>>

\* Mutant: the event is inserted whatever the claim.
DispatchUnguarded(s) ==
  /\ At(s, {"dispatching"})
  /\ GoTo(s, "executing")
  /\ UNCHANGED <<turn, used, retaken>>

\* The tool_call event is the last guard before the tool runs.
Dispatch(s) ==
  /\ At(s, {"dispatching"})
  /\ Owns(s)
  /\ GoTo(s, "executing")
  /\ UNCHANGED <<turn, used, retaken>>

ToolReturns(s) ==
  /\ At(s, {"executing"})
  /\ Owns(s)
  /\ GoTo(s, "more")
  /\ UNCHANGED <<turn, used, retaken>>

BatchDone(s) ==
  /\ At(s, {"more"})
  /\ Owns(s)
  /\ GoTo(s, "streaming")
  /\ UNCHANGED <<turn, used, retaken>>

\* The turn's deadline passes during the batch.
TimedOut(s) ==
  /\ At(s, {"tools", "dispatching", "executing", "more"})
  /\ End(s, "temporary")
  /\ UNCHANGED <<turn, used, retaken>>

\* Mutant: parks although a stop was requested.
ParkStopped(s) ==
  /\ At(s, {"dispatching"})
  /\ Owns(s)
  /\ ~turn[slot[s].turn].ckpt
  /\ turn[slot[s].turn].question # "pending"
  /\ turn' = [turn EXCEPT ![slot[s].turn] =
                [@ EXCEPT !.status = "waiting_for_user", !.owner = NoWorker,
                          !.lease = "none", !.output = TRUE, !.ckpt = TRUE,
                          !.question = "pending", !.awaiting = TRUE]]
  /\ Release(s)
  /\ UNCHANGED <<used, retaken>>

\* parkTurnForUserQuestion: request, checkpoint, awaiting call and the turn's
\* release are one transaction.
Park(s) ==
  /\ At(s, {"dispatching"})
  /\ Owns(s)
  /\ LET r == turn[slot[s].turn] IN
       /\ ~r.cancel
       /\ ~r.ckpt
       /\ r.question # "pending"
  /\ turn' = [turn EXCEPT ![slot[s].turn] =
                [@ EXCEPT !.status = "waiting_for_user", !.owner = NoWorker,
                          !.lease = "none", !.output = TRUE, !.ckpt = TRUE,
                          !.question = "pending", !.awaiting = TRUE]]
  /\ Release(s)
  /\ UNCHANGED <<used, retaken>>

\* No row to park is taken to mean a stop came first.
ParkRefused(s) ==
  /\ At(s, {"dispatching"})
  /\ Owns(s) => turn[slot[s].turn].cancel
  /\ End(s, "stopped")
  /\ UNCHANGED <<turn, used, retaken>>

-----------------------------------------------------------------------------
(* Worker.run: the end *)

\* requeue
Requeue(s) ==
  /\ turn' = IF Owns(s) /\ Retryable(turn[slot[s].turn])
               THEN [turn EXCEPT ![slot[s].turn].status = "queued",
                                 ![slot[s].turn].owner = NoWorker,
                                 ![slot[s].turn].lease = "none"]
               ELSE turn
  /\ Release(s)
  /\ UNCHANGED <<used, retaken>>

EndRun(s) ==
  /\ At(s, {"ending"})
  /\ LET me == slot[s] IN
       \/ /\ me.outcome = "completed"
          /\ Finalize(s, "completed", "complete")
       \/ /\ me.outcome = "stopped"
          /\ Finalize(s, "stopped", "partial")
       \/ /\ me.outcome = "temporary" /\ ~me.output /\ me.attempt < MaxAttempts
          /\ Requeue(s)
       \/ /\ \/ me.outcome = "permanent"
             \/ me.outcome = "temporary" /\ (me.output \/ me.attempt >= MaxAttempts)
          /\ Finalize(s, "failed", ReplyFor(me.output))

\* failTurn
FailTurn(s) ==
  /\ At(s, {"failing"})
  /\ Finalize(s, "failed", ReplyFor(slot[s].output))

\* A statement, or something a step needs besides, fails for its own reasons.
StepFails(s) ==
  /\ At(s, Step \ {"failing", "ending"})
  /\ Fail(s)
  /\ UNCHANGED <<turn, used, retaken>>

\* The slot leaves its turn as it is: the process crashes, the shutdown grace
\* ends, or a lost lease makes the batch abandon the run.
Leave(s) ==
  /\ ~At(s, {"idle"})
  /\ Release(s)
  /\ UNCHANGED <<turn, used, retaken>>

-----------------------------------------------------------------------------
(* The system *)

Claim(s) == \E t \in Turn : ClaimTake(s, t)

\* The steps that take a run on; each step of the run has one.
Advance(s) ==
  \/ Claim(s) \/ ClaimNothing(s)
  \/ ReadCheckpoint(s)
  \/ ResumeStopped(s) \/ ResumeLost(s) \/ ResumeRefused(s) \/ ResumeAnswered(s)
  \/ Start(s)
  \/ \E tooLarge \in BOOLEAN : StartWithNotice(s, tooLarge)
  \/ \E received, calls \in BOOLEAN : CutRound(s, received, calls)
  \/ BlankRound(s)
  \/ \E calls \in BOOLEAN : SaveRound(s, calls)
  \/ \E text \in BOOLEAN : CloseRound(s, text)
  \/ NextCall(s) \/ Announce(s) \/ MarkOutput(s)
  \/ SkipCall(s) \/ ApprovalStopped(s) \/ ApprovalStale(s)
  \/ Dispatch(s) \/ ToolReturns(s) \/ BatchDone(s) \/ TimedOut(s)
  \/ Park(s) \/ ParkRefused(s)
  \/ Lost(s) \/ EndRun(s) \/ FailTurn(s)

SlotNext(s) ==
  \/ ClaimSelect(s) \/ Advance(s)
  \/ Flush(s) \/ HeartbeatStop(s)
  \/ StepFails(s) \/ Leave(s)

TurnNext(t) ==
  \/ Submit(t) \/ SubmitBusyOrReplayed(t)
  \/ Cancel(t) \/ Answer(t)
  \/ ExpireLease(t)

Next ==
  \/ \E t \in Turn : TurnNext(t)
  \/ \E c \in Conversation : DeleteConversation(c)
  \/ \E p \in Project : ChangeConnection(p)
  \/ \E s \in Slot : SlotNext(s)
  \/ Recover

Spec == Init /\ [][Next]_vars

\* A lease nobody can refresh any more runs out.
ExpireAbandoned(t) ==
  /\ \A s \in Slot : slot[s].turn # t
  /\ ExpireLease(t)

\* Users owe nothing.  Slots poll and run on; a claim does not fail for ever
\* and a batch of calls is finite; the sweep runs every minute.
Fairness ==
  /\ \A s \in Slot :
       /\ WF_vars(ClaimSelect(s))
       /\ WF_vars(Advance(s))
       /\ SF_vars(Claim(s))
       /\ SF_vars(BatchDone(s))
  /\ \A t \in Turn : WF_vars(ExpireAbandoned(t))
  /\ WF_vars(Recover)

FairSpec == Spec /\ Fairness

-----------------------------------------------------------------------------
(* Safety *)

\* One conversation never has two turns under way, whatever the order of
\* submissions, sweeps, answers and retries (worker.go:1721 recover and
\* ai_turns.go:306 submitAITurnTx both create active turns).
OneActiveTurn ==
  \A t, u \in Turn :
    /\ ConversationOf[t] = ConversationOf[u]
    /\ turn[t].status \in Active
    /\ turn[u].status \in Active
    => t = u

\* A turn has exactly one terminal event when it has ended and none before:
\* stops, finalizations and sweeps by different processes never both end it.
OneEnding ==
  \A t \in Turn :
    turn[t].endings = IF turn[t].status \in Terminal THEN 1 ELSE 0

\* An unfinished turn still has its pending reply, so the sweep, which rolls
\* everything back when that row is missing, can always commit.
SweepNeverWedged ==
  \A t \in Turn : turn[t].status \in Active => turn[t].reply = "pending"

\* The status of the turn, of its question and of its checkpoint, kept in
\* three tables by handlers, slots and sweep, stay in step.  (A turn failed by
\* a connection change keeps its question: see WaitsForItsUser.)
QuestionInStep ==
  \A t \in Turn : LET r == turn[t] IN
    /\ r.status = "waiting_for_user" => r.question = "pending"
    /\ r.question = "pending" => /\ r.status \in {"waiting_for_user", "failed"}
                                 /\ r.ckpt /\ r.awaiting
    /\ r.ckpt => r.question \in {"pending", "answered"}
    /\ r.ckpt /\ r.status \in Active => r.awaiting

\* A turn that has shown output waits for a worker again only to continue
\* from an answered question, never to repeat what it has done.
NoRetryAfterOutput ==
  \A t \in Turn : LET r == turn[t] IN
    r.status = "queued" /\ r.output => r.ckpt /\ r.question = "answered"

\* The guard of a worker's write compares the id of its process
\* (worker.go:1629), and the slots of a process, 20 by default, share that id
\* (config.go:116): two processes are fenced from each other, two slots of one
\* are not.  The next five therefore except the turns a process took up again
\* while another of its slots still worked on them, and only those; what goes
\* wrong there is shown by StaleOwnersRejected.

\* Besides the answers of its user, each of which took a tool round, a turn
\* is given to a worker at most MaxAttempts times.
AttemptsBounded ==
  \A t \in Turn : turn[t].attempt <= MaxAttempts + turn[t].rounds \/ t \in retaken

\* A tool runs only for a turn already known to have output (or deleted
\* meanwhile), so a crash in the middle of the call can never lead to a second
\* run of the turn.  The mark is a statement of its own whose row count is
\* ignored; a retaken turn may lose it.
ToolsAreMarked ==
  \A s \in Slot : At(s, {"executing"}) =>
    \/ turn[slot[s].turn].output
    \/ turn[slot[s].turn].status = "deleted"
    \/ slot[s].turn \in retaken

\* Two slots never run tools for one turn at the same time, unless one process
\* took the turn up twice.
OneDispatcher ==
  \A s, z \in Slot :
    /\ At(s, {"executing"})
    /\ At(z, {"executing"})
    /\ slot[s].turn = slot[z].turn
    => s = z \/ slot[s].turn \in retaken

\* What a worker writes is written under its own claim: a slot whose turn was
\* given to a later attempt of another process changes nothing of it.
Fenced ==
  \A s \in Slot : Owns(s) =>
    \/ slot[s].attempt = turn[slot[s].turn].attempt
    \/ slot[s].turn \in retaken

\* A turn is stopped only when somebody asked for it, unless a slot that had
\* lost the turn found its process to own it again (ParkRefused).
StoppedOnRequest ==
  \A t \in Turn : turn[t].status = "stopped" => turn[t].cancel \/ t \in retaken

\* What the user sees of an ended turn agrees with how it ended.
ReplyMatchesEnding ==
  \A t \in Turn : LET r == turn[t] IN
    /\ r.status = "completed" <=> r.reply = "complete"
    /\ r.status = "stopped" => r.reply = "partial"
    /\ r.status = "failed" => \/ r.reply \in {"partial", "failed"}
                              \/ r.output /\ r.reply = "pending"

-----------------------------------------------------------------------------
(* What no step may do *)

\* Once ended, a turn and its reply never change again until the conversation
\* is deleted: late finalizations, sweeps and stops all leave it alone.
EndedStaysEnded ==
  [][\A t \in Turn :
       turn[t].status \in Terminal /\ turn'[t].status # "deleted" =>
         /\ turn'[t].status = turn[t].status
         /\ turn'[t].reply = turn[t].reply
         /\ turn'[t].endings = turn[t].endings]_vars

\* A turn that waits for its user goes on waiting until the user answers or
\* stops it (PLAN.md:600).
WaitsForItsUser ==
  [][\A t \in Turn :
       turn[t].status = "waiting_for_user"
       /\ turn'[t].status \notin {"waiting_for_user", "deleted"}
         => turn'[t].question = "answered" \/ turn'[t].cancel]_vars

\* Updates from a stale lease owner are rejected (PLAN.md:341), so a slot that
\* writes to its turn does so under the turn's latest claim.
StaleOwnersRejected ==
  [][\A s \in Slot : LET t == slot[s].turn IN
       t \in Turn /\ slot'[s] # slot[s] /\ turn'[t] # turn[t]
         => slot[s].attempt = turn[t].attempt]_vars

=============================================================================
