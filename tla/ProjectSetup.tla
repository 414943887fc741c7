---------------------------- MODULE ProjectSetup ----------------------------
(***************************************************************************)
(* The durable setup of one project: its first crawl, then the jobs that   *)
(* write the business profile, analyse keywords, write prompts and run the *)
(* first visibility audit.  API, crawl workers and AI workers share the    *)
(* rows; one action is one statement or one transaction.                   *)
(*                                                                         *)
(* A job is known here by the setup step it carries out                    *)
(* (business_profile_bootstrap by profile_generation, visibility_run by    *)
(* visibility).  Jobs of locations and competitors, which must leave the   *)
(* setup of the project alone, have no part here.                          *)
(***************************************************************************)
EXTENDS Naturals, FiniteSets

CONSTANTS
  Crawl, Job, Audit,         \* ids; Audit is the audits the month allows
  Worker,                    \* goroutines running the AI worker's runLoop
  User, RequesterOf,         \* [Crawl -> User], requested_by_user_id
  NoCrawl, NoJob, NoAudit    \* NULL

ASSUME IdsAssumption ==
  /\ RequesterOf \in [Crawl -> User]
  /\ NoCrawl \notin Crawl /\ NoJob \notin Job /\ NoAudit \notin Audit
  /\ IsFiniteSet(Job)

VARIABLES
  setup,    \* the project_setup row
  crawl,    \* per crawl of the project: crawls.status
  crawler,  \* per crawl: where the crawl worker that claimed it stands
  job,      \* per id: its ai_worker_jobs row
  audit,    \* per id: its ai_audits row
  questions, \* does the project have AI questions?
  worker,   \* per AI worker: the job row it claimed and how far it is
  late      \* history: the steps failed by a worker whose job of that step
            \* had been given up before; no action reads it

vars == <<setup, crawl, crawler, job, audit, questions, worker, late>>

-----------------------------------------------------------------------------
(* Rows *)

JobStep == {"profile_generation", "keyword_analysis", "prompt_generation",
            "visibility"}
Step    == {"crawling"} \cup JobStep

\* The steps whose jobs only the setup itself asks for.
EarlyStep == {"profile_generation", "keyword_analysis"}

\* A setup has a failed step exactly when it has failed.
SetupRow ==
  [ status     : {"ready", "completed"} \cup Step,
    failedStep : {"none"},
    crawl      : Crawl \cup {NoCrawl} ]
  \cup
  [ status     : {"failed"},
    failedStep : Step,
    crawl      : Crawl \cup {NoCrawl} ]

Unfinished == {"queued", "running"}

CrawlStatus ==
  {"absent", "deleted", "completed", "failed", "cancelled"} \cup Unfinished

\* A job that has ended leaves no trace the others look at: its id is free.
JobRow ==
  [ status : {"ended", "pending", "running"},
    step   : JobStep \cup {"none"},
    audit  : Audit \cup {NoAudit} ]

AuditRow ==
  [ status : {"absent", "completed", "failed"} \cup Unfinished,
    crawl  : Crawl \cup {NoCrawl} ]

WorkerState ==
  [ at    : {"idle", "handling", "auditing", "audited", "audit_failed"},
    job   : Job \cup {NoJob},
    step  : JobStep \cup {"none"},
    audit : Audit \cup {NoAudit} ]

Ended   == [status |-> "ended", step |-> "none", audit |-> NoAudit]
Idle    == [at |-> "idle", job |-> NoJob, step |-> "none", audit |-> NoAudit]
NoAuditRow == [status |-> "absent", crawl |-> NoCrawl]

TypeOK ==
  /\ setup \in SetupRow
  /\ crawl \in [Crawl -> CrawlStatus]
  /\ crawler \in [Crawl -> {"none", "starting", "crawling"}]
  /\ job \in [Job -> JobRow]
  /\ audit \in [Audit -> AuditRow]
  /\ questions \in BOOLEAN
  /\ worker \in [Worker -> WorkerState]
  /\ late \in SUBSET EarlyStep

\* The setup row is created "ready" together with its project.
Init ==
  /\ setup = [status |-> "ready", failedStep |-> "none", crawl |-> NoCrawl]
  /\ crawl = [c \in Crawl |-> "absent"]
  /\ crawler = [c \in Crawl |-> "none"]
  /\ job = [j \in Job |-> Ended]
  /\ audit = [a \in Audit |-> NoAuditRow]
  /\ questions = FALSE
  /\ worker = [w \in Worker |-> Idle]
  /\ late = {}

-----------------------------------------------------------------------------
(* Helpers *)

MoveTo(status) == [setup EXCEPT !.status = status, !.failedStep = "none"]
FailAt(step)   == [setup EXCEPT !.status = "failed", !.failedStep = step]

\* Mutant: a late failure is not compared with the step the setup is on.
FailedAnyway(step) == FailAt(step)

\* failSetupAtStep: only a setup still on the step fails.
FailedIfOn(step) == IF setup.status = step THEN FailAt(step) ELSE setup

\* Mutant: the failure of a crawl leaves its setup alone.
CrawlFailedAlone(c) == setup

\* OnCrawlFailed: only a setup that waits for this very crawl fails.
CrawlFailed(c) == IF setup.crawl = c THEN FailedIfOn("crawling") ELSE setup

NewJob(step, a) == [status |-> "pending", step |-> step, audit |-> a]

Held(j) == \E w \in Worker : worker[w].job = j
FreeJobs == {j \in Job : job[j] = Ended /\ ~Held(j)}

\* Which id a new job or audit gets makes no difference.
FreshJob   == CHOOSE j \in FreeJobs : TRUE
FreshAudit == CHOOSE a \in Audit : audit[a].status = "absent"

\* The quota of the month is the audits that are still absent.
QuotaLeft == \E a \in Audit : audit[a].status = "absent"

\* Bound: users leave one id free for the job of a finished crawl or a retry.
RoomForJobs == Cardinality(FreeJobs) >= 2

Enqueue(step, a) == [job EXCEPT ![FreshJob] = NewJob(step, a)]

Active(j) == job[j].status \in {"pending", "running"}

\* idx_ai_audits_one_active_per_crawl
ActiveAuditsOf(c) ==
  {a \in Audit : c # NoCrawl /\ audit[a].crawl = c /\ audit[a].status \in Unfinished}

-----------------------------------------------------------------------------
(* The owner's setup POST: StartOrResume *)

\* The first crawl, or another one after a failed one.
StartCrawl(c) ==
  /\ \/ setup.status = "ready"
     \/ setup.status = "failed" /\ setup.failedStep = "crawling"
  /\ crawl[c] = "absent"
  /\ crawl' = [crawl EXCEPT ![c] = "queued"]
  /\ setup' = [MoveTo("crawling") EXCEPT !.crawl = c]
  /\ UNCHANGED <<crawler, job, audit, worker, questions, late>>

\* A failed visibility step is retried from its prompts.
RetryStep(failedStep) ==
  IF failedStep = "visibility" THEN "prompt_generation" ELSE failedStep

\* Mutant: the failed step stays on the row.
ResumeStillFailed ==
  /\ setup.status = "failed"
  /\ setup.failedStep \in JobStep
  /\ FreeJobs # {}
  /\ setup' = [setup EXCEPT !.status = RetryStep(setup.failedStep)]
  /\ job' = Enqueue(RetryStep(setup.failedStep), NoAudit)
  /\ UNCHANGED <<crawl, crawler, audit, worker, questions, late>>

\* Mutant: a setup that is on its way is resumed once more.
ResumeAgain ==
  LET step == IF setup.status = "failed" THEN setup.failedStep ELSE setup.status IN
  /\ step \in JobStep
  /\ FreeJobs # {}
  /\ setup' = MoveTo(RetryStep(step))
  /\ job' = Enqueue(RetryStep(step), NoAudit)
  /\ UNCHANGED <<crawl, crawler, audit, questions, worker, late>>

\* resumeFailedSetup, resumeSetup
Resume ==
  /\ setup.status = "failed"
  /\ setup.failedStep \in JobStep
  /\ FreeJobs # {}
  /\ setup' = MoveTo(RetryStep(setup.failedStep))
  /\ job' = Enqueue(RetryStep(setup.failedStep), NoAudit)
  /\ UNCHANGED <<crawl, crawler, audit, worker, questions, late>>

-----------------------------------------------------------------------------
(* Crawls: requests *)

\* Another crawl of the project, by a member.
RequestCrawl(c) ==
  /\ crawl[c] = "absent"
  /\ crawl' = [crawl EXCEPT ![c] = "queued"]
  /\ UNCHANGED <<setup, crawler, job, audit, worker, questions, late>>

\* handleCancelCrawl: a cancelled setup crawl fails its setup with it.
CancelCrawl(c) ==
  /\ crawl[c] \in Unfinished
  /\ crawl' = [crawl EXCEPT ![c] = "cancelled"]
  /\ setup' = CrawlFailed(c)
  /\ UNCHANGED <<crawler, job, audit, worker, questions, late>>

\* handleDeleteCrawl: rows that name the crawl keep NULL.
DeleteCrawl(c) ==
  /\ crawl[c] \in {"completed", "failed", "cancelled"}
  /\ crawl' = [crawl EXCEPT ![c] = "deleted"]
  /\ setup' = IF setup.crawl = c THEN [setup EXCEPT !.crawl = NoCrawl] ELSE setup
  /\ audit' = [a \in Audit |-> IF audit[a].crawl = c
                                 THEN [audit[a] EXCEPT !.crawl = NoCrawl]
                                 ELSE audit[a]]
  /\ UNCHANGED <<crawler, job, worker, questions, late>>

-----------------------------------------------------------------------------
(* Crawls: the crawl worker *)

\* idx_crawls_one_running_per_user, and the claim's own test.
UserIsFree(c) ==
  \A d \in Crawl \ {c} : RequesterOf[d] = RequesterOf[c] => crawl[d] # "running"

ClaimCrawl(c) ==
  /\ crawl[c] = "queued"
  /\ UserIsFree(c)
  /\ crawl' = [crawl EXCEPT ![c] = "running"]
  /\ crawler' = [crawler EXCEPT ![c] = "starting"]
  /\ UNCHANGED <<setup, job, audit, worker, questions, late>>

\* MarkCrawlRunning, when the settings and the baseline are loaded: the row
\* becomes running whatever its status is.
MarkCrawlRunning(c) ==
  /\ crawler[c] = "starting"
  /\ crawl[c] # "deleted" => UserIsFree(c)
  /\ crawl' = [crawl EXCEPT ![c] = IF @ = "deleted" THEN @ ELSE "running"]
  /\ crawler' = [crawler EXCEPT ![c] = "crawling"]
  /\ UNCHANGED <<setup, job, audit, worker, questions, late>>

\* Store.MarkCrawlCompleted with OnCrawlCompleted.
CrawlCompletes(c) ==
  /\ crawler[c] = "crawling"
  /\ crawl[c] = "running"
  /\ crawl' = [crawl EXCEPT ![c] = "completed"]
  /\ crawler' = [crawler EXCEPT ![c] = "none"]
  /\ IF setup.status = "crawling" /\ setup.crawl = c
       THEN /\ setup' = MoveTo("profile_generation")
            /\ FreeJobs # {}
            /\ job' = Enqueue("profile_generation", NoAudit)
       ELSE UNCHANGED <<setup, job>>
  /\ UNCHANGED <<audit, worker, questions, late>>

\* Store.MarkCrawlFailed: bad settings, a failed stage, a deadline, a panic.
CrawlFails(c) ==
  /\ crawler[c] # "none"
  /\ crawl[c] = "running"
  /\ crawl' = [crawl EXCEPT ![c] = "failed"]
  /\ crawler' = [crawler EXCEPT ![c] = "none"]
  /\ setup' = CrawlFailed(c)
  /\ UNCHANGED <<job, audit, worker, questions, late>>

\* The watcher, or a write that finds no running row, stops the crawl.
CrawlStops(c) ==
  /\ crawler[c] # "none"
  /\ crawl[c] # "running"
  /\ crawler' = [crawler EXCEPT ![c] = "none"]
  /\ UNCHANGED <<setup, crawl, job, audit, worker, questions, late>>

\* A crash, a shutdown, or an error before the row could be marked.
CrawlerLeaves(c) ==
  /\ crawler[c] # "none"
  /\ crawler' = [crawler EXCEPT ![c] = "none"]
  /\ UNCHANGED <<setup, crawl, job, audit, worker, questions, late>>

\* ReclaimStaleRunningCrawls, one crawl at a time.  Its cutoff is longer than
\* the deadlines of a crawl, so no worker is left.
ReclaimCrawl(c) ==
  /\ crawl[c] = "running"
  /\ crawler[c] = "none"
  /\ crawl' = [crawl EXCEPT ![c] = "failed"]
  /\ setup' = CrawlFailed(c)
  /\ UNCHANGED <<crawler, job, audit, worker, questions, late>>

-----------------------------------------------------------------------------
(* AI jobs: requests *)

\* Saving the profile or asking for new questions queues their generation.
RequestPrompts ==
  /\ RoomForJobs
  /\ job' = Enqueue("prompt_generation", NoAudit)
  /\ UNCHANGED <<setup, crawl, crawler, audit, worker, questions, late>>

\* A member's own visibility audit of a crawl (POST ai-audits).
RequestAudit(c) ==
  /\ crawl[c] \notin {"absent", "deleted"}
  /\ questions
  /\ ActiveAuditsOf(c) = {}
  /\ QuotaLeft
  /\ RoomForJobs
  /\ audit' = [audit EXCEPT ![FreshAudit] = [status |-> "queued", crawl |-> c]]
  /\ job' = Enqueue("visibility", FreshAudit)
  /\ UNCHANGED <<setup, crawl, crawler, worker, questions, late>>

-----------------------------------------------------------------------------
(* AI jobs: runLoop *)

\* ClaimNextPendingAIWorkerJob; SKIP LOCKED lets any pending job be next.
ClaimJob(w, j) ==
  /\ worker[w].at = "idle"
  /\ job[j].status = "pending"
  /\ job' = [job EXCEPT ![j].status = "running"]
  /\ worker' = [worker EXCEPT ![w] = [at |-> "handling", job |-> j,
                  step |-> job[j].step, audit |-> job[j].audit]]
  /\ UNCHANGED <<setup, crawl, crawler, audit, questions, late>>

Handling(w, steps) == worker[w].at = "handling" /\ worker[w].step \in steps

\* The worker is done with its job, whose row ends unless it had ended before.
Rest(w) == worker' = [worker EXCEPT ![w] = Idle]
EndJob(w) == [job EXCEPT ![worker[w].job] = Ended]

\* The next job takes the id of the one that ends.
ReplaceJob(w, step, a) == [job EXCEPT ![worker[w].job] = NewJob(step, a)]

\* finalizeBootstrapSuccess, finalizeKeywordAnalysisSuccess: only the
\* transaction that moves the setup queues the next job.
FinishStep(w) ==
  LET step == worker[w].step
      next == IF step = "profile_generation" THEN "keyword_analysis"
                                             ELSE "prompt_generation" IN
  /\ Handling(w, {"profile_generation", "keyword_analysis"})
  /\ IF setup.status = step
       THEN /\ setup' = MoveTo(next)
            /\ job' = ReplaceJob(w, next, NoAudit)
       ELSE /\ job' = EndJob(w)
            /\ UNCHANGED setup
  /\ Rest(w)
  /\ UNCHANGED <<crawl, crawler, audit, questions, late>>

\* handlePromptGeneration writes the questions before its job ends.
WriteQuestions(w) ==
  /\ Handling(w, {"prompt_generation"})
  /\ questions' = TRUE
  /\ UNCHANGED <<setup, crawl, crawler, job, audit, worker, late>>

\* finalizePromptGenerationSuccess, when the setup does not wait for prompts
\* or no audit is left for the month.
FinishPrompts(w) ==
  /\ Handling(w, {"prompt_generation"})
  /\ questions
  /\ \/ setup.status # "prompt_generation" /\ UNCHANGED setup
     \/ /\ setup.status = "prompt_generation"
        /\ ~QuotaLeft
        /\ setup' = MoveTo("completed")
  /\ job' = EndJob(w)
  /\ Rest(w)
  /\ UNCHANGED <<crawl, crawler, audit, questions, late>>

\* finalizePromptGenerationSuccess: active audits of the crawl are failed to
\* make room for a fresh one.
LaunchAudit(w) ==
  /\ Handling(w, {"prompt_generation"})
  /\ questions
  /\ setup.status = "prompt_generation"
  /\ QuotaLeft
  /\ audit' = [b \in Audit |->
                 IF b = FreshAudit THEN [status |-> "queued", crawl |-> setup.crawl]
                 ELSE IF b \in ActiveAuditsOf(setup.crawl)
                        THEN [audit[b] EXCEPT !.status = "failed"]
                 ELSE audit[b]]
  /\ setup' = MoveTo("visibility")
  /\ job' = ReplaceJob(w, "visibility", FreshAudit)
  /\ Rest(w)
  /\ UNCHANGED <<crawl, crawler, questions, late>>

\* runVisibilityQuestions begins: the row becomes running whatever its status
\* is, unless another audit of its crawl is active.
BeginAudit(w) ==
  LET a == worker[w].audit IN
  /\ Handling(w, {"visibility"})
  /\ a # NoAudit
  /\ questions
  /\ ActiveAuditsOf(audit[a].crawl) \subseteq {a}
  /\ audit' = [audit EXCEPT ![a].status = "running"]
  /\ worker' = [worker EXCEPT ![w].at = "auditing"]
  /\ UNCHANGED <<setup, crawl, crawler, job, questions, late>>

\* ... and ends: completed, or failed when every question failed.  The row is
\* written whatever its status is; the worker remembers the result.
EndAudit(w) ==
  /\ worker[w].at = "auditing"
  /\ \E result \in {"completed", "failed"} :
       /\ audit' = [audit EXCEPT ![worker[w].audit].status = result]
       /\ worker' = [worker EXCEPT ![w].at =
                       IF result = "failed" THEN "audit_failed" ELSE "audited"]
  /\ UNCHANGED <<setup, crawl, crawler, job, questions, late>>

\* finalizeVisibilitySuccess
FinishAudit(w) ==
  /\ worker[w].at \in {"audited", "audit_failed"}
  /\ setup' = IF worker[w].at = "audit_failed" THEN FailedIfOn("visibility")
              ELSE IF setup.status = "visibility" THEN MoveTo("completed")
              ELSE setup
  /\ job' = EndJob(w)
  /\ Rest(w)
  /\ UNCHANGED <<crawl, crawler, audit, questions, late>>

\* The setup is on the step of a worker whose job somebody else has ended.
Late(w) ==
  /\ worker[w].step \in EarlyStep
  /\ setup.status = worker[w].step
  /\ ~Active(worker[w].job)

\* finalizeJobFailure: the job fails, and its setup if it is on that step; the
\* job's own status is not looked at.
JobFails(w) ==
  /\ worker[w].at \in {"handling", "auditing"}
  /\ setup' = FailedIfOn(worker[w].step)
  /\ job' = EndJob(w)
  /\ late' = IF Late(w) THEN late \cup {worker[w].step} ELSE late
  /\ Rest(w)
  /\ UNCHANGED <<crawl, crawler, audit, questions>>

\* The worker crashes, or the finalization itself fails: the job row is left
\* running.
WorkerLeaves(w) ==
  /\ worker[w].at # "idle"
  /\ Rest(w)
  /\ UNCHANGED <<setup, crawl, crawler, job, audit, questions, late>>

-----------------------------------------------------------------------------
(* AI jobs: reclaimStale.  Running rows fail by age, rows of live workers    *)
(* among them: nothing bounds the time a job takes.                          *)

\* Mutant: the job is reclaimed, its setup is not.
ReclaimJobAlone(j) ==
  /\ job[j].status = "running"
  /\ job' = [job EXCEPT ![j] = Ended]
  /\ UNCHANGED <<setup, crawl, crawler, audit, worker, questions, late>>

ReclaimJob(j) ==
  /\ job[j].status = "running"
  /\ job' = [job EXCEPT ![j] = Ended]
  /\ setup' = FailedIfOn(job[j].step)
  /\ UNCHANGED <<crawl, crawler, audit, worker, questions, late>>

\* ReclaimStaleRunningAIAudits
ReclaimAudit(a) ==
  /\ audit[a].status = "running"
  /\ audit' = [audit EXCEPT ![a].status = "failed"]
  /\ UNCHANGED <<setup, crawl, crawler, job, worker, questions, late>>

-----------------------------------------------------------------------------
(* The system *)

\* What the crawl worker owes a crawl it has claimed.
Crawling(c) ==
  \/ MarkCrawlRunning(c)
  \/ CrawlCompletes(c) \/ CrawlFails(c) \/ CrawlStops(c)

CrawlNext(c) ==
  \/ StartCrawl(c) \/ RequestCrawl(c) \/ CancelCrawl(c) \/ DeleteCrawl(c)
  \/ ClaimCrawl(c) \/ Crawling(c) \/ CrawlerLeaves(c) \/ ReclaimCrawl(c)
  \/ RequestAudit(c)

\* What an AI worker owes a job it has claimed.
Working(w) ==
  \/ FinishStep(w)
  \/ WriteQuestions(w) \/ FinishPrompts(w) \/ LaunchAudit(w)
  \/ BeginAudit(w) \/ EndAudit(w) \/ FinishAudit(w)
  \/ JobFails(w)

WorkerNext(w) ==
  \/ \E j \in Job : ClaimJob(w, j)
  \/ Working(w) \/ WorkerLeaves(w)

Next ==
  \/ \E c \in Crawl : CrawlNext(c)
  \/ \E w \in Worker : WorkerNext(w)
  \/ \E j \in Job : ReclaimJob(j)
  \/ Resume \/ RequestPrompts
  \/ \E a \in Audit : ReclaimAudit(a)

Spec == Init /\ [][Next]_vars

\* Users owe nothing.  Queues are served in order, so no row is passed over
\* for ever; crawls have deadlines and the calls a job makes have timeouts; the
\* sweeps run for ever.
Fairness ==
  /\ \A c \in Crawl : /\ SF_vars(ClaimCrawl(c))
                      /\ WF_vars(Crawling(c))
                      /\ WF_vars(ReclaimCrawl(c))
  /\ \A w \in Worker : WF_vars(Working(w))
  /\ \A j \in Job : /\ SF_vars(\E w \in Worker : ClaimJob(w, j))
                    /\ WF_vars(ReclaimJob(j))
  /\ \A a \in Audit : WF_vars(ReclaimAudit(a))

FairSpec == Spec /\ Fairness

-----------------------------------------------------------------------------
(* Properties *)

\* A setup on a step is carried by something that will end it: its own crawl,
\* still unfinished, or an active job of that step.  "A crashed worker cannot
\* leave a setup active forever", reclaimStale says; that no retry, late
\* finish, cancellation or reclaim leaves it without work is the same promise.
StepIsCarried ==
  /\ setup.status = "crawling" =>
       /\ setup.crawl \in Crawl
       /\ crawl[setup.crawl] \in Unfinished
  /\ \A step \in JobStep :
       setup.status = step => \E j \in Job : Active(j) /\ job[j].step = step

\* "Exactly one" bootstrap and analysis job at a time, however often a step
\* fails, is retried, is reclaimed under its worker, or is finished twice.  The
\* exception is a step that a worker failed after its job had been given up:
\* that fails the retry beside its active job, and the next retry queues
\* another (project_setup.go:237 says no duplicate is ever created).
OneSetupJob ==
  \A step \in EarlyStep \ late :
    \A i, j \in Job : /\ Active(i) /\ job[i].step = step
                      /\ Active(j) /\ job[j].step = step
                      => i = j

Rank(step) ==
  CASE step = "ready"              -> 0
    [] step = "crawling"           -> 1
    [] step = "profile_generation" -> 2
    [] step = "keyword_analysis"   -> 3
    [] step = "prompt_generation"  -> 4
    [] step = "visibility"         -> 5
    [] step = "completed"          -> 6

\* How far a setup is; a failed one is where it failed.
Progress(row) ==
  IF row.status = "failed" THEN Rank(row.failedStep) ELSE Rank(row.status)

\* "A stale job cannot move an already-advanced setup backward": neither can a
\* crawl, a reclaim or a retry, but for the retry of a failed visibility step.
NeverBackward ==
  [][ \/ Progress(setup') >= Progress(setup)
      \/ /\ setup = FailAt("visibility")
         /\ setup'.status = "prompt_generation" ]_vars

\* A setup that is working on a step completes or fails: whatever crashes, it
\* is never left active forever.
SetupSettles ==
  (setup.status \in Step) ~> (setup.status \in {"completed", "failed"})

=============================================================================
