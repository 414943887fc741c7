# Revserp in TLA+

Revserp crawls a customer's website, derives issues and scores, sets up AI
visibility audits for it, and answers questions about it in a chat whose agent
calls tools. This directory holds TLA+ models of its concurrent core, the TLC
configurations that check them, and proofs that TLAPS checks. Paths below are
relative to the root of the repository, which the models call `src/`.

All durable state of the program is in one Postgres database. An HTTP API
(`cmd/api`), crawl workers (`cmd/worker`), AI workers (`cmd/ai-audit-worker`)
and chat workers (`cmd/ai-chat-worker`) run as separate processes, any number of
each, and meet only in its rows: a handler inserts a row with a status, a worker
claims it by an `UPDATE`, sweeps fail what a dead worker has left, and guarded
updates (`WHERE status = ...`) decide who wins. What can go wrong lies between
these statements, so **one action of a model is one statement, or one
transaction, of one process**, and everything a process remembers between two
statements is a variable of its own.

## 1. Inventory

| Component | State | Operations | Correct when |
|---|---|---|---|
| **AI chat, HTTP** `internal/app/ai_turns.go`, `ai_turn_observers.go`, `ai_user_questions.go`, `ai_conversations.go` | `ai_turns`, `ai_messages`, `ai_turn_events`, `ai_user_questions`, `ai_user_question_checkpoints`, monthly usage | submit, stop, answer or skip a question, delete a conversation, sweep before submitting | one turn of a conversation is under way; every accepted turn is charged once and ends once; stop and answer never both win |
| **AI chat worker** `internal/aichatworker` | lease columns of `ai_turns`, transcript, tool calls; in memory: round, tool batch, partial text | claim, heartbeat, provider round, tool batch, park, resume, finalize, requeue, recover | only the holder of the lease writes; nothing shown to the user is run twice; a crash or a stop ends the turn |
| **MCP approvals** `aichatworker/mcp_approval.go`, `app/mcp_approvals.go` | `ai_mcp_approvals` | request, decide, execute, complete, invalidate | an approved call runs once, unchanged, under the connection it was approved for |
| **MCP connections** `app/mcp_connections.go`, `internal/mcpclient` | connections with a revision | save, test, replace, remove, refresh credentials | a change invalidates what was approved under the old revision, and nothing else |
| **Event stream** `app/ai_turn_observers.go:440` | event rows, a cursor per reader | page of 100 above the cursor, poll, close on a terminal event | a reader sees every event once, in order, and the stream ends |
| **Project setup** `internal/projectsetup`, `internal/aiaudit/setup_finalization.go` | `project_setup`: status, failed step, crawl | start, retry, advance, fail, reclaim | a setup never moves back, is never left without work, and settles |
| **AI worker** `internal/aiaudit` | `ai_worker_jobs`, `ai_audits`, `project_ai_questions`, monthly audits | claim, the job handlers, finalize, reclaim | a job is ended by whoever claimed it or by the sweep; audits end, and stay ended |
| **Crawl worker** `internal/worker`, `internal/crawler/store.go` | `crawls.status`, phase, progress | claim, start, crawl, analyse, complete, fail, watch for cancellation, reclaim | a member has one running crawl; a cancelled crawl stays cancelled; each end takes its setup along |
| **Crawler** `internal/crawler`, `internal/issues` | frontier, pages, links, issues | fetch, parse, deduplicate, derive, score | the frontier visits each page once within its limits |
| **Scheduler** `internal/schedule`, `worker.go:400` | due date per project | sweep due auto crawls under an advisory lock | a due crawl is queued once |
| **Issue work** `app/issue_work.go`, `crawler/issue_work_verification.go` | attempts with a verification crawl | lock at the start of a crawl, verify at its end, release on failure | an attempt is verified by a crawl that began after the fix |
| **Local visibility, Maps credits** `internal/localvisibility` | runs, reserved and spent credits | reserve, execute, settle, refund | credits are conserved, settled once |
| **Location setup** `internal/locationsetup` | a setup per office | the steps of the project setup, with keyword and map-query steps | as the project setup, and never touches it |
| **Competitors** `internal/competitorsetup`, `competitorcrawls`, `competitorgaps` | setup per competitor | reconcile loop over child crawls and jobs | as above |
| **Sessions** `internal/auth/session_manager.go` | session rows, tokens | renew, refresh, revoke | a refresh is not lost to a concurrent renewal |
| **Rest** organizations and invites, content drafts, keywords, prompts, Google and other clients | rows of single requests; none | CRUD, I/O | access rules; out of the scope of these models |

Interactions that matter: submission, answer, sweep and retry all make a turn
active; the API stops a turn by a column that the worker reads at its next
heartbeat; replacing an MCP connection ends waiting turns; the end of a crawl
advances or fails a setup in the transaction that ends the crawl; each finished
job queues the next one in the transaction that moves the setup; a prompt job
creates the audit that a visibility job runs.

Hard behaviours: leases that run out under a live worker; crashes between any two
statements; snapshots older than the lock that is meant to protect them; ids
shared by goroutines of a process; late finishes of work that was given up and
redone; cancellations that race starts. `PROJECT.json` lists every hazard with
its line and the properties that would catch it.

## 2. Modules

| Module | What it is |
|---|---|
| `ChatTurns` | turns, chat workers, requests of users: the detailed specification |
| `TurnPromise` | what a conversation promises its users: the abstract specification |
| `ChatTurnsPromise` | the refinement mapping from `ChatTurns` to `TurnPromise` |
| `McpApprovals` | calls of remote tools, their policy and the decisions of users |
| `EventStream` | the transactions that feed a turn's events, and an observer |
| `LockOrder` | the row locks of the transactions around chat turns and connections |
| `ProjectSetup` | a project's setup, its crawls, AI jobs and audits |
| `IssueWork` | work on an issue, and the crawls that verify it |
| `LocalVisibility` | paid runs, the allowances they spend, and the Maps step of a location's setup |
| `MC...` | small instances of each |
| `ChatTurns_proofs` | theorems about the rows of `ChatTurns` |
| `ChatSlots_proofs` | theorems about its slots, and the refinement of `TurnPromise` |
| `EventStream_proofs`, `McpApprovals_proofs`, `LockOrder_proofs`, `ProjectSetup_proofs`, `IssueWork_proofs`, `LocalVisibility_proofs` | theorems about one module each |

`ChatTurns` has the life of a turn, with remote tool calls only as far as they
end or mark it; `McpApprovals` has those calls, for one running turn;
`EventStream` has the events of the same transactions, which the other two leave
out; `LockOrder` has the order in which all of them take their locks, which the
others take as granted at once. `ProjectSetup` and `IssueWork` are two views of
the crawl worker: one follows the setups that wait for crawls, the other the
attempts that crawls judge. `ProjectSetup` and `LocalVisibility` are two views
of the AI worker in the same way.

### 2.1 ChatTurns

Variables: `turn` (per turn, the row of `ai_turns` with the rows that hang on
it: reply, terminal events, question, checkpoint, awaiting tool call, transcript
rounds), `used` (the workspace's monthly count), `slot` (per goroutine of
`Worker.loop`: where it is, its turn, the tool rounds of the transcript it holds,
its tool batch, whether it has seen a stop). A *slot* belongs to a *worker*, whose
id (`hostname-pid`) is what `claimed_by` holds; slots of one process are
*siblings* and share it. One variable is history: `retaken`, the turns that a
process has claimed again while another of its slots still worked on them, having
lost the lease without knowing it.

| Actions | Code |
|---|---|
| `Submit`, `SubmitBusyOrReplayed` | `submitAITurn`, `submitAITurnTx`: lock, sweep the conversation, busy test, quota, turn, messages, event; a refused submission commits the sweep only |
| `Cancel`, `Answer`, `DeleteConversation` | `handleCancelAITurn`, `handleAnswerUserQuestionRequest`, `handleDeleteAIConversation` |
| `ChangeConnection` | `invalidateMCPConnectionApprovalsTx` |
| `ClaimSelect`, `ClaimTake`, `ClaimNothing` | `Worker.claim`: the snapshot of its SELECT, and its UPDATE, are two steps |
| `ReadCheckpoint`, `ResumeAnswered`, `ResumeRefused`, `ResumeStopped`, `ResumeLost` | `resumeUserQuestionIfParked` |
| `Start`, `StartWithNotice`, `Flush`, `HeartbeatStop`, `CutRound`, `BlankRound`, `SaveRound`, `CloseRound` | a provider round of `Worker.run` |
| `NextCall`, `Announce`, `MarkOutput`, `SkipCall`, `ApprovalStopped`, `ApprovalStale`, `Dispatch`, `ToolReturns`, `BatchDone` | its tool batch |
| `Park`, `ParkRefused` | `parkTurnForUserQuestion` |
| `EndRun`, `FailTurn`, `TimedOut`, `StepFails`, `Leave` | `finalize`, `requeue`, `failTurn`, the 20-minute deadline, errors of the database, crashes and shutdown |
| `Recover`, `ExpireLease` | `Worker.recover`; the 45 s lease running out, at any moment of an owner that does not refresh it |

Every write of a run compares the lease (`Owns`) where the code does, and only
there. Abstractions: the order of claims is left open (the code takes the oldest
eligible turn, so this allows more); one month; the provider and the tools answer
as they like, except that a provider that is offered no tools returns no calls
(`MayCall`); the rows of MCP approvals appear through what they do to the turn;
the text of events, messages and transcripts is reduced to whether it exists;
`waiting`, a status of an older schema, is not used; attachments and efforts are
left out. Deleting an office deletes only conversations without an active turn
and is covered by `DeleteConversation`.

`TurnPromise` knows a request as none, working, waiting, ended (completed,
stopped or failed) or removed, with the stops that were asked for and the count
of charges; queued and running are both "working". It says that a request is
accepted, and charged, only when no other of its conversation is open, that one
whose stop was asked for never begins to wait for its user, that it ends once, and
as "stopped" only if asked to or if it was retaken (`TakeUpAgain`: the promise
names this exception, since the code makes it), and that work ends or waits for
the user in the end. Leases, claims, retries and rounds are stutters of it.

### 2.2 ProjectSetup

Variables: `setup` (the `project_setup` row), `crawl` and `crawler` (the
status of each crawl, and where the worker that claimed it stands), `job` and
`audit` (rows of `ai_worker_jobs` and `ai_audits`), `questions`, `worker` (per
goroutine of `runLoop`: the job row it claimed and how far it is), and `late`, a
history: the first steps (`EarlyStep`) that a worker has failed after its own job
was given up.

| Actions | Code |
|---|---|
| `StartCrawl`, `Resume` | `StartOrResume`, `resumeFailedSetup` |
| `RequestCrawl`, `CancelCrawl`, `DeleteCrawl` | `handleCreateCrawl`, `handleCancelCrawl`, `handleDeleteCrawl` |
| `ClaimCrawl`, `MarkCrawlRunning` | `ClaimNextQueuedCrawlManual`; `Store.MarkCrawlRunning`, some seconds later |
| `CrawlCompletes`, `CrawlFails`, `CrawlStops`, `CrawlerLeaves`, `ReclaimCrawl` | `Store.MarkCrawlCompleted`, `MarkCrawlFailed`, the watcher and the guards, a crash, `ReclaimStaleRunningCrawls` |
| `RequestPrompts`, `RequestAudit` | `handleRegenerateProjectAIQuestions` and the profile form, `handleCreateAIAudit` |
| `ClaimJob`, `FinishStep`, `WriteQuestions`, `FinishPrompts`, `LaunchAudit`, `BeginAudit`, `EndAudit`, `FinishAudit`, `JobFails`, `WorkerLeaves` | `runLoop`, the handlers, `finalizeJobSuccess`, `finalizeJobFailure` |
| `ReclaimJob`, `ReclaimAudit` | `reclaimStale` |

Abstractions: one project; a job is known by the step it carries out; ended jobs
leave nothing that others look at, so their ids are used again; the audits of
the month are the ids of `Audit`, and a plan without audits is an empty `Audit`;
`completed_with_failures` counts as completed; a business profile is taken as
saved once it is needed. `RoomForJobs` bounds what users queue, so that a job id
is left for the pipeline. The sweep may give up any running job, whether its
worker lives or not: it takes a job that is 2 hours old, and the code sets no
deadline on a job, only on each call it makes. A worker that outlasts its job goes
on, and ends the row it once claimed.

### 2.3 McpApprovals

Variables: `conn` (the connection's row: whether it is there, its revision, the
tools and schemas it lists), `rule` (saved permissions), `turn` (status, lease,
stop), `run` (the goroutine of the turn: where it is, its call, the handle of the
session it dialled and the proofs it carries), `approval` (a row per call), and
`ran`, a history of what reached the remote server and under which rule.

| Actions | Code |
|---|---|
| `Load`, `setupMCP`, `BeginCall` | `loadMCPConnections`, `setupMCP`, the gate of a call in `Worker.run` |
| `requestMCPApproval`, `ReadDecision`, `Poll`, `ApprovalWaitRunsOut`, `GiveUpWaiting` | `requestMCPApproval`, `waitForApprovalDecision`, `closeApproval` |
| `Recheck`, `MarkExecuting`, `Announce`, `CheckGuard`, `RemoteCall`, `RecordResult`, `CompleteApproval` | `approvedCallUnchanged`, the tool batch of `run`, `mcpCallGuard` and `verifyMCPCallCurrent` |
| `Decide` | `handleDecideMCPApproval`, with or without "always" |
| `PutPermissions`, `CheckConnection`, `ReplaceConnection`, `DeleteConnection` | the handlers of `mcp_connections.go` |
| `Cancel`, `Sweep`, `LeaseLapses`, `Crash` | stop, `recover`, lease and process |

Abstractions: what the server answers is open, so the comparison of revisions at
the end of a check or a replacement is all that is left of them; a schema is its
digest; one connection; a repeated decision, which changes nothing, is left out.

### 2.4 EventStream

Variables: `turn`, `run` and `tx` (open transactions of the workers, the sweep,
the handlers of decisions and of users), `holder` (of the turn's row lock),
`event` (rows by id), `overtaken` (history: committed after a larger id),
`stream` (the observer: place, cursor, draining, what it was shown) and `rested`.
Every event is inserted by one action and seen after `Commit`. `Snapshot`,
`Reconnect`, `List`, `ListTail`, `PollTick` and `StatusTick` are
`handleGetAITurnEvents` and its loop. Events of one statement count as one; a
transaction that inserts without changing the turn keeps no lock.

### 2.5 LockOrder

A handler is the list of the row locks its statements take, in order, with
PostgreSQL's modes: an insert takes a key share on the rows its foreign keys
name, an `UPDATE` a lock that only excludes key changes, `SELECT FOR UPDATE` and
`DELETE` an exclusive one. `Begin`, `Lock`, `Pass` (the statement finds nothing)
and `End` run any mix of them. One row of each table stands for all: statements
of one form read rows of a table in one order. `Ordered` is every handler but
three kinds: a stop (see `stops` below), the flush of partial text, which locks
the reply and then the turn, and the deletion of a conversation, whose cascade
goes from the turn to its approvals; the last two are hazards without a property.
Permissions are locked under the lock of their connection only, so their place
in the order does not matter.

### 2.6 IssueWork

Variables: `crawl`, `worker` (per crawl, the goroutine that runs it with the
batch its open completion judges), `item`, `attempt` (with contributors), `mark`
(the open transaction of a member who marks work done).

| Actions | Code |
|---|---|
| `RequestCrawl`, `SweepDueAutoCrawls`, `EnqueueMissing` | `handleCreateCrawl`, `sweepDueAutoCrawls`, `competitorcrawls.EnqueueMissing` |
| `ClaimNextQueuedCrawlManual`, `ClaimNextQueuedCrawlAuto`, `MarkCrawlRunning`, `LockIssueWorkAttemptsForCrawlStart` | the two claim loops; the first and second statement of `Store.MarkCrawlRunning` |
| `CheckRunning`, `BeginSettle`, `EndSettle` | checks of the analysis; `Store.MarkCrawlCompleted` with `reconcileIssueWorkAttempts`, split where it waits for the item's row |
| `MarkCrawlFailed`, `CrawlerLeaves`, `ReclaimStaleRunningCrawl`, `CancelCrawl`, `DeleteCrawl` | the ends of a crawl |
| `BeginMark`, `AddIssueWorkAttemptContributor`, `CommitMark`, `AbortMark` | `handleMarkCrawlIssueWorkDone` |
| `RemoveOwnContribution` | `handleRemoveOwnIssueWorkContribution` |

Abstractions: crawls requested over MCP count as manual; one item, one
competitor; an issue is looked up before the transaction that uses it, so
`Workable` allows any completed home crawl that has found it; waiting for a row
lock is a guard; which evidence a crawl gathers is open, except that it needs the
crawl the work was marked on and that a competitor's crawl has none. What a
crawl's end does to a setup is in `ProjectSetup`.

### 2.7 LocalVisibility

Variables: `platform` and `budget` (the allowances), `run` (rows with their cells
and results), `job`, `worker` (per job, the goroutine that executes its run),
`setup` (the Maps step of a location's setup).

| Actions | Code |
|---|---|
| `EnqueueRun` | `LocalVisibilityStore.EnqueueRun`, one transaction |
| `UpdatePlatformMapsCreditBudget`, `UpdateOrganizationMapsCreditBudget` | the administrator's two handlers |
| `DeleteLocation` | `handleDeleteLocationSetup`, `handleDeleteProject`, and the trigger that guards both |
| `ClaimNextPendingAIWorkerJob`, `StartLocalVisibilityRun`, `FailToStart`, `StartLocalRunCell`, `RecordCellOutcome`, `LoseCellOutcome`, `EndLoop`, `FinishAsWorker`, `FailToFinish`, `FinalizeLocalRun`, `Crash` | `runLoop` and `ExecuteLocalVisibilityRun` |
| `ReclaimStaleRunningAIWorkerJobs`, `FinishInterrupted`, `ReclaimSetup` | `reclaimStale` |
| `LaunchAdopts`, `LaunchRejoins`, `LaunchSkips`, `LaunchRefused`, `LaunchRun`, `Resume` | `launchMapsVisibilityTx`, `StartOrResume` |

Abstractions: a call answers when its result is recorded, since its answer
changes nothing that others see; the sweep may reclaim any running job, whatever
its age, so an overrunning one is included; the other steps of the setup are left
out, and the Maps step may be launched whenever it is pending; a deleted run
keeps `used`, as history, because the allowances keep what it spent; the deletion
of a project is the weaker of the two, so its guard is the one modelled. The
paid lookups of listings have no caller outside the tests, and those of places
cost nothing.

## 3. Runs

Deadlock checking is off where a system may really stop: every turn has ended,
every setup has completed, every crawl or the only location is deleted.

| Run | Instance | States | Shows |
|---|---|---|---|
| `turn` | 1 turn, 3 slots in 2 processes, so two siblings and a stranger, 2 rounds, 2 attempts | 1,817,267 | twelve safety properties of a turn: one ending, no retry after output, question and checkpoint in step, tools marked before they run, writes fenced by the lease, stop obeyed |
| `conversation` | 2 turns of a conversation, 1 slot, 1 round, quota 2, fair | 289,924 | one active turn; `ChatTurns` implements `TurnPromise`, liveness included |
| `approvals` | 1 turn with 2 calls of a tool, 2 schemas, 1 replacement, fair | 811,888 | what reaches the remote server is what the rule or the user allowed; refused calls are never sent; ended approvals stay ended; turns end |
| `stream` | 2 workers, 3 events, pages of 1, fair | 1,228,788 | no event is shown twice, the last pages are complete up to overtaken events, the stream closes when the turn rests and not before |
| `locks` | 3 transactions among 15 handlers | 113,109 | no circle of waiting |
| `setup` | 2 crawls, 2 jobs, 1 audit, 1 worker, fair | 468,046 | rows well-formed, a step is always carried by work, no move back, one job of a first step unless that step was failed late, setups settle |
| `work` | 2 members, 2 attempts, 3 crawls | 3,661,005 | locks are released or carried, verdicts are about work done before the crawl, work is credited, "fixed" is proven |
| `maps` | 1 location with its setup, 2 runs of 2 calls, 2 jobs, fair | 264,106 | runs hold what their unsettled calls may cost, allowances are the sums of the runs, every run ends |

Why these bounds. *Turns:* three slots let an old owner, a new owner and a third
claimant of one turn meet, each in a different state; two of them are siblings, so
that the one that lost the turn and the one that has it may share a name or not;
and two attempts are the least in which a retry can be tried and refused; two
rounds give a first round with tools and a last one without, the only distinction
the code makes. Everything a turn shares with others is the conversation's lock,
the quota and the user's limit, which two turns exercise. *Approvals:* the second
call of a tool is the first that could run on the proof of another; a replacement
gives two revisions and two schemas of each. *Stream:* three events and pages of
one let a terminal event be overtaken, come before and come after the page that
ends the stream. *Locks:* a circle among the seven rows is closed by two or three
transactions, and the theorem covers more. *Setup:* two crawls are an own and a
foreign one (or the failed one and its retry), two jobs the one given up and its
retry or one that a user has asked for. One worker is enough for a late finish: it
holds the job that was given up while the setup is retried; what a second worker
adds is proved, as the safety theorems hold for any number of both. *Work:* two
attempts are a locked one and the one made while it is locked; three crawls are
the one that found the issue, one that judges and one that overtakes it or is its
child. *Maps:* two jobs are the one that was given up and the one that executes
the same run again, two calls the one in progress and one not started; the prices
are the expected one, none and one above it. A second location and organization
was checked for safety alone (1.9 million states).

The transactions of `locks` are interchangeable: `SYMMETRY` is used in that safety
run only.

Fairness. Users owe nothing. *Chat:* slots poll (weak fairness of `ClaimSelect`);
a claim that is possible again and again succeeds in the end (strong fairness of
`Claim`, since another slot may win it meanwhile); a slot that has claimed goes
on (weak fairness of `Advance`), since its calls have timeouts and its turn a
deadline of 20 minutes; a tool batch is finite (strong fairness of `BatchDone`);
a lease that no slot holds any more runs out after 45 s; the sweep runs every
minute. *Approvals:* a goroutine goes on, its wait has a deadline, and the lease
of a turn nobody runs lapses. *Stream:* the handler goes on; of its two tickers
the status check is strongly fair, since `select` chooses at random and a tick is
kept. *Setups:* crawls have a deadline (`CrawlTimeout`, `AnalysisTimeout`),
queues of crawls and jobs are served in order of age (strong fairness, as a
running crawl of the member, or a busy worker, blocks a claim for a while), and
both sweeps run for ever. *Maps:* workers poll, their statements and calls time
out, the sweep runs every 15 minutes and sees a job that stays `running`. `work`
has safety properties only and assumes none.

### Disagreements between code and documentation

Each is a run whose one property states what a comment or PLAN.md says, and which
TLC refutes; `PROJECT.json` quotes the lines.

| Run | Property | What happens |
|---|---|---|
| `siblings` | `StaleOwnersRejected` | PLAN.md says that a worker that has lost its lease cannot write; slots of one process share `claimed_by`, so one that lost its turn to a sibling still does |
| `connection` | `WaitsForItsUser` | changing any MCP connection fails turns that wait for an answer of their user |
| `drain` | `DrainComplete` | an event that commits after one with a larger id may never be sent, although the stream closes as complete |
| `stops` | `NoDeadlock` | a stop locks the turn and then its approvals, a decision the approval and then, through its event, the turn |

Others were met while modelling. The models allow them, and no property states
the opposite:

- two claims of one user pass the limit of running turns together: the count is
  read from a snapshot older than the advisory lock (`aichatworker/worker.go:226`);
- a turn that the sweep ends after output leaves its reply pending (`:1767`);
- a worker that fails a first step after its job was given up fails the retry
  beside its active job, and the next retry queues a second one (start, claim,
  reclaim, retry, the late failure, retry), contrary to `project_setup.go:237`;
  `OneSetupJob` excepts the step, by `late`, from then on;
- an audit that a member asked for ends the setup's visibility step when the setup
  waits for its own (`setup_finalization.go:269` compares no audit);
- claim, cancel, start: `MarkCrawlRunning` compares no status, and a cancelled
  crawl runs again;
- a superseded or reclaimed audit is revived by the job that carries it; an audit
  whose job fails before it begins stays queued, and blocks its crawl;
- a cancellation seen only during the analysis of a crawl leaves the attempts it
  has locked locked for good; so does the deletion of a crawl whose child runs,
  which leaves an attempt locked by no crawl;
- a completion that finds its crawl cancelled still records its verdicts; an item
  is shown as fixed while a newer attempt awaits its crawl, when the completion
  has listed the other attempts before it waited for the item's row; two attempts
  at one item may both be judged fixed by one crawl and are both reported,
  although `issue_work.go:218` speaks of a deduplicated report; crawls of
  competitors lock attempts too and hand them back unjudged;
- a worker whose run was ended by the sweep may still start a call
  (`StartLocalRunCell` compares the cell and not its run): it is billed and never
  recorded, and what was reserved for it has been released, although
  `run_storage.go:134` says that unknown charges keep their reservation. Two hours
  are not needed for it: when the setup is resumed after its first job failed, a
  second job starts the queued run, and the sweep ends it for the sake of the
  first.

## 4. Proofs

All theorems hold for any number of turns, slots, workers, crawls, jobs, audits,
transactions, calls, runs, locations, issues' attempts, events and users.
Assumptions: `OwnersAssumption` (every turn has a conversation and a user, every
conversation a project, every slot a worker; the null values are no members) and
`LimitsAssumption` (limits are numbers, and a turn may be attempted once) for
`ChatTurns`; `ValuesAssumption` (there is a tool, bounds are numbers, the null
schema is none) for `McpApprovals`; `BoundsAssumption` (requesters are users,
there is a first crawl) for `IssueWork`; `IdsAssumption` (every crawl has a
requester; the null ids are no members; the set of job ids is finite) for
`ProjectSetup`; `HandlerAssumption` for `LockOrder`; `MapsAssumption` (locations
have organizations, the null location is none, bounds are positive, prices and
allowances are numbers) for `LocalVisibility`; `SizesAssumption` (a page holds an
event) and `WorkersAssumption` (the id of a process is none of the names the model
gives to other writers) for `EventStream`.

**ChatTurns.** None of the properties is inductive alone. The invariant `IInv`
says that every row satisfies `RowOK`, a conjunction that relates status, lease,
reply, terminal events, output, question, checkpoint and the awaiting tool call,
and that a conversation has one active turn. It needs nothing of the slots: every
statement of a worker is guarded by the row itself. Every step but a submission
leaves a row alone, deletes it, or replaces a row that has not ended by one that
is `RowOK` and is active only if it was active before (`Changes`); there is a
lemma per row operator and one per action. Only `Submit` makes a turn active that
was not, and its busy test, after the sweep of the conversation, allows that for
one turn. Theorems: `Invariance`, `TypeCorrect`, `OneActive`, `EndedOnce`,
`SweepCommits`, `QuestionsInStep`, `NoRetries`, `RepliesMatch`, `EndedForGood`.

**Slots of ChatTurns.** Five properties are about what a slot does from memory:
its round, its batch and its outcome come from reads several statements old. The
invariant `JInv` says of every slot that what it remembers is true of the row as
long as its process has claimed that row (`Knows`): the attempt is its own, a
batch that has passed the marking has marked the turn, a batch is only begun
while a round is left, a slot that ends its turn as stopped has seen a stop that
is still there. Of every row it says what outlives the slots (`RowKept`):
attempts beyond the limit are paid for by tool rounds. `Later` is what others may
do to a row under a slot without surprising it, and every action of users, sweeps
and slots of other processes is shown to do no more.

The guard of a worker's write compares `claimed_by`, which is `hostname-pid` and the
same for all slots of a process (20 by default, `config.go:116`). A slot that lost
its turn to a sibling writes under the sibling's claim: `siblings` shows it. So the
beliefs, the properties and the abstract specification except the turns in
`retaken`, and no others, and the theorems need no hypothesis about slots and
processes. Claims that two processes, or two attempts, have on a turn are kept
apart by the proof, and siblings as well until one takes up the turn of another.
`OneDispatcher` belongs to the invariant, since a slot that runs a tool for a turn
no longer its own must meet no other. A separate theorem says when the exception
is empty: where each process has one slot, nothing is ever retaken
(`NothingRetaken`). Theorems: `BeliefsHold`, `FencedOff`, `ToolsMarked`,
`OneDispatches`, `AttemptsAreBounded`, `StopsWereAsked`, `NothingRetaken`.

`PromiseKeptSafely` shows that `ChatTurns` implements `TurnPromise`, as far as
safety goes: the initial rows map to initial requests, and every step of any
actor maps to the step of the abstract specification it should be, or to a
stutter. Most statements of a worker leave the phase of every row alone; for the
others there is a lemma each, naming the abstract step. The ends of a run need
the beliefs: without `JInv` a finalization could end as stopped a turn whose stop
nobody asked for. It does end one so where a turn was retaken, and the abstract
specification says as much. The fairness of `TurnPromise` is left to the run
`conversation`.

**EventStream.** `NeverTwice` and `FinalDrain` depend on what the observer read
before it asks for the next page. The invariant has two halves. `Database` says
what writers may hold: the uncommitted events of a transaction are its own and
nobody else's, a terminal event goes with the end of the turn, whoever has
updated the row holds its lock. `Streaming` says what the cursor means: it is the
id of an event that was seen, nothing above it was, and of what is committed
below it only overtaken events were missed; on its way to its end a stream has
seen the turn at rest. The writers touch the second half only by commits
(`Grows`): what appears below the cursor is overtaken by definition, the reason
for which the documented completeness fails (`drain`) and this one holds.
Theorems: `StreamInvariant`, `StreamTyped`, `NoneTwice`, `DrainsAll`,
`OpenUntilRest`.

**ProjectSetup.** `StepIsCarried` is inductive only together with
`JobsWellFormed`, `WorkersHoldTheirJobs` and `OneHolder`: a worker ends the job
row it holds whatever has happened to it, so one has to know that this row is of
the step the worker carries out, that nobody else holds it and that a new job
never takes its id. The proof has a lemma per way in which jobs change (a new
one, the end of one, its replacement) and then one per action. Theorems:
`TypeCorrect`, `EveryStepIsCarried`, and `SetupsGoForward`, which proves the
action property `NeverBackward` from the same invariant and the progress each
kind of row has.

`OneJobOfAStep` proves `OneSetupJob`, with jobs reclaimed under live workers and
any number of those. Its invariant adds that the setup has come to, or gone past,
the step of every active job of a first step (`Reached`), so that a retry, which
starts from a failed setup, finds none beside the one it queues. A setup fails at
a step when the job that carries it ends, so this is kept, with one exception,
which `late` records: the worker of a job that was given up fails the setup that
the retry has brought back, and the retry's job is active still.

**LockOrder.** `NeverDeadlocks`: if the handlers are among `Ordered`, no set of
open transactions waits in a circle. `Level` orders what a handler can wait for:
conversation, update of a turn, connection, approval, permission, weaker locks of
a turn, message, the rest. Two facts about a handler are enough, and each is
shown of every one of them: it `Climbs`, that is, whoever waits for one of its
locks waits at a lower level than whatever the handler waits for later; and it is
`Gated`, that is, it locks a permission only after the exclusive lock of its
connection, so that nobody ever waits for a permission, the one row that does not
climb. A transaction then waits only for transactions that do not wait, or wait
at a higher level, and in a circle the levels could not return.

**McpApprovals.** What a worker dispatches depends on what it read several
statements ago, so no property is inductive. `IInv` has one part for each call,
`RowOK`, which relates its approval to what was dispatched, and two for each
turn: `Ahead`, that the calls after the one in hand have left no trace, and
`PlaceOK`, what the run knows of the call in hand at each place it can be: that
it is still undispatched, that its approval matches the tool, revision and schema
the run holds, that the row is `executing` (or was failed by a stop) when the
guard is passed. Whatever users, managers, sweeps and other runs do in between
is a step `Outside` the run, which may only settle an approval, never move it to
another call or back; there is a lemma for each of those and one per statement of
the run. Theorems: `Invariance`, `TypeCorrect`, `ApprovedRuns`, `RefusedStays`,
`CompletedIsDone` and `EndsOnce`, which proves the action property.

**IssueWork.** The invariant relates each crawl to the goroutine that runs it
(`CrawlOK`), each attempt to the crawls it refers to (`AttemptOK`: a source has
completed, a verifier has started after the work was marked and has passed its
lock statement, and one that still holds the attempt is running or cancelled),
the batch of an open completion to the attempts it was read from, which must be
unchanged when the verdicts are written (`BatchOK`), and the attempt of an open
mark to the numbers already given (`MarkOK`, `Numbered`). Deleting a crawl is the
hard step: rows that referred to it forget it, and the proof needs that nothing
open does. Theorems: `Invariance`, `TypeCorrect`, `LocksCarried`,
`VerdictsLater`, `WorkCredited`, `FixedProven`.

**LocalVisibility.** `CreditsHeld` proves `RunsHold`: a run holds three credits
for every call that is not settled. A row's sum changes in three ways: a call is
settled, calls that were not started are released, or a call starts. The invariant
`IInv` has to say more, because two workers may execute one run: that a call
being made is not settled, that it is the only one of its cell, and that only an
ended run has a call started late. Without the second, the same reservation could
be released twice. There is a lemma per statement on a row, one per way rows, jobs
and workers change together, and one per action.

`CreditsConserved` proves `BudgetsMatch`, which compares both allowances with sums
over runs. The library's fold has no theorem the provers can use, so the sum is
first shown to be what one expects: a finite set is taken apart element by
element, in any order, with the same result (`SumIs`). The induction behind it
needs no theorem about an operator: a set of sums that is not complete would have
a smallest part it lacks, in the ordering of strict subsets, which the library
shows to be well-founded (`SetInduction`). After that, a row whose reservation or
use changes moves the sum by the difference (`SumMoves`), and the proof has a
lemma for each kind of transaction, which moves the row, its organization and the
platform together. `TypeCorrect` comes last: that no budget goes below zero is
true because it is a sum over runs none of which does.

*Model-checked only.* Every safety invariant and every action property of a
passing run is stated by a theorem. What is left to TLC is out of the provers'
reach: the liveness properties `SetupSettles`, `TurnsEnd`, `StreamCloses` and
`RunsEnd`, and the fairness in `KeepsPromise`, whose safety is `PromiseKeptSafely`.

## 5. Not modelled, and why

- *Location and competitor setups*, but for the Maps step and the crawls of
  competitors: their steps, retries and reclaims are those of `ProjectSetup` over
  other tables, and would be a second instance of the same hazards.
- *Sessions*: a renewal and a token refresh are two statements on one row.
- *The crawler, parsing, scoring, the chat tools, drafts, prompts*: I/O or pure
  functions of large data, and CRUD handlers that touch a row in one transaction;
  they have no behaviour over time. They are most of the lines of the program,
  which is why the models cover a tenth of it: what they cover is nearly every
  statement that claims, ends, reclaims or hands over work.
- *External services* are open choices of answers.

## 6. Plan

1. The promise of a setup as an abstract specification that `ProjectSetup` and
   models of the two other setups implement.
2. *Sessions*: renewal under a row lock against a token refresh without one.
