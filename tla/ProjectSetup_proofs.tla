------------------------ MODULE ProjectSetup_proofs -------------------------
(***************************************************************************)
(* Proofs about ProjectSetup for any number of crawls, jobs, audits and    *)
(* workers, with jobs that outlast the age at which they are reclaimed.    *)
(***************************************************************************)
EXTENDS ProjectSetup, FiniteSetTheorems, TLAPS

\* A job that has ended leaves nothing, one that has not carries out a step.
JobsWellFormed ==
  \A j \in Job : IF Active(j) THEN job[j].step \in JobStep ELSE job[j] = Ended

\* A worker ends the job it holds, if someone has not ended it before, and
\* that job is of the step the worker carries out; only visibility jobs run
\* an audit.
WorkersHoldTheirJobs ==
  \A w \in Worker :
    IF worker[w].at = "idle"
      THEN worker[w] = Idle
      ELSE /\ worker[w].job \in Job
           /\ worker[w].step \in JobStep
           /\ worker[w].at # "handling" => worker[w].step = "visibility"
           /\ Active(worker[w].job) =>
                /\ job[worker[w].job].status = "running"
                /\ job[worker[w].job].step = worker[w].step

\* No two workers have claimed the same job.
OneHolder ==
  \A v, w \in Worker :
    v # w /\ worker[v].job \in Job => worker[v].job # worker[w].job

\* The inductive invariant: StepIsCarried needs the rest, so that no worker
\* ends another step's job, and no new job takes the id of an active one.
IInv ==
  /\ TypeOK
  /\ JobsWellFormed
  /\ WorkersHoldTheirJobs
  /\ OneHolder
  /\ StepIsCarried

-----------------------------------------------------------------------------
(* Operators *)

\* The row that a transition to a step writes.
LEMMA MoveToRow ==
  ASSUME setup \in SetupRow,
         NEW status \in {"ready", "completed"} \cup Step
  PROVE  /\ MoveTo(status) \in SetupRow
         /\ MoveTo(status).status = status
         /\ MoveTo(status).crawl = setup.crawl
BY DEF MoveTo, SetupRow, Step, JobStep

\* The row that a failure writes.
LEMMA FailAtRow ==
  ASSUME setup \in SetupRow, NEW step \in Step
  PROVE  /\ FailAt(step) \in SetupRow
         /\ FailAt(step).status = "failed"
         /\ FailAt(step).failedStep = step
BY DEF FailAt, SetupRow, Step, JobStep

\* A failure keeps a setup well-formed, and off the step that failed.
LEMMA FailedIfOnRow ==
  ASSUME setup \in SetupRow, NEW step \in Step
  PROVE  /\ FailedIfOn(step) \in SetupRow
         /\ FailedIfOn(step) = setup \/ FailedIfOn(step).status = "failed"
         /\ FailedIfOn(step).status # step
BY FailAtRow DEF FailedIfOn, Step, JobStep

\* The failure of a crawl keeps a setup well-formed, and off that crawl.
LEMMA CrawlFailedRow ==
  ASSUME setup \in SetupRow, NEW c
  PROVE  /\ CrawlFailed(c) \in SetupRow
         /\ CrawlFailed(c) = setup \/ CrawlFailed(c).status = "failed"
         /\ CrawlFailed(c).status = "crawling" =>
              CrawlFailed(c) = setup /\ setup.crawl # c
<1>1. "crawling" \in Step
  BY DEF Step
<1>. QED
  BY <1>1, FailedIfOnRow DEF CrawlFailed

\* A fresh id is free.
LEMMA FreshJobIsFree ==
  ASSUME FreeJobs # {}
  PROVE  /\ FreshJob \in Job
         /\ job[FreshJob] = Ended
         /\ \A w \in Worker : worker[w].job # FreshJob
<1>1. FreshJob \in FreeJobs
  BY DEF FreshJob
<1>. QED
  BY <1>1 DEF FreeJobs, Held

\* Room for jobs means that an id is free.
LEMMA RoomMeansFree ==
  ASSUME RoomForJobs
  PROVE  FreeJobs # {}
<1>1. Cardinality({}) = 0
  BY FS_EmptySet
<1>. QED
  BY <1>1 DEF RoomForJobs

\* While quota is left, a fresh audit is one nobody has asked for.
LEMMA FreshAuditIsAbsent ==
  ASSUME QuotaLeft
  PROVE  FreshAudit \in Audit /\ audit[FreshAudit].status = "absent"
BY DEF QuotaLeft, FreshAudit

-----------------------------------------------------------------------------
(* What a change of the jobs keeps *)

\* A setup that stays where it is, or ends, is carried as long as the jobs of
\* its step stay active.
LEMMA StillCarried ==
  ASSUME IInv, crawl' = crawl,
         setup' = setup \/ setup'.status \in {"completed", "failed"},
         setup' = setup => \A j \in Job :
           Active(j) /\ job[j].step = setup.status =>
             job'[j].status \in {"pending", "running"} /\ job'[j].step = job[j].step
  PROVE  StepIsCarried'
BY DEF IInv, StepIsCarried, Active, JobStep

\* A setup that moves to a step is carried by the job that came with the move.
LEMMA NewlyCarried ==
  ASSUME NEW step \in JobStep, setup'.status = step,
         \E j \in Job : job'[j].status = "pending" /\ job'[j].step = step
  PROVE  StepIsCarried'
BY DEF StepIsCarried, Active, JobStep

\* A new job takes a free id (EnqueueAIWorkerJob).
LEMMA EnqueueKeeps ==
  ASSUME IInv, FreeJobs # {}, NEW step \in JobStep, NEW a \in Audit \cup {NoAudit},
         job' = Enqueue(step, a), worker' = worker
  PROVE  /\ job' \in [Job -> JobRow]
         /\ JobsWellFormed' /\ WorkersHoldTheirJobs' /\ OneHolder'
         /\ \E j \in Job : job'[j].status = "pending" /\ job'[j].step = step
         /\ \A j \in Job : Active(j) => job'[j] = job[j]
<1> DEFINE f == FreshJob
<1>1. /\ f \in Job /\ job[f] = Ended
      /\ \A w \in Worker : worker[w].job # f
  BY FreshJobIsFree
<1>2. NewJob(step, a) \in JobRow
  BY DEF NewJob, JobRow
<1>3. job' = [job EXCEPT ![f] = NewJob(step, a)]
  BY DEF Enqueue
<1> HIDE DEF f
<1>4. \A j \in Job : job'[j] = IF j = f THEN NewJob(step, a) ELSE job[j]
  BY <1>3 DEF IInv, TypeOK
<1>5. job' \in [Job -> JobRow]
  BY <1>2, <1>3 DEF IInv, TypeOK
<1>6. \A j \in Job : Active(j) => job'[j] = job[j]
  BY <1>1, <1>4 DEF Active, Ended
<1>7. JobsWellFormed'
  BY <1>4 DEF IInv, JobsWellFormed, Active, NewJob
<1>8. WorkersHoldTheirJobs'
  BY <1>1, <1>4 DEF IInv, WorkersHoldTheirJobs, Active
<1>9. OneHolder'
  BY DEF IInv, OneHolder
<1>10. job'[f].status = "pending" /\ job'[f].step = step
  BY <1>1, <1>4 DEF NewJob
<1>. QED
  BY <1>1, <1>5, <1>6, <1>7, <1>8, <1>9, <1>10

\* A worker that rests ends its own job only (MarkAIWorkerJobCompleted,
\* MarkAIWorkerJobFailed).
LEMMA EndJobKeeps ==
  ASSUME IInv, NEW w \in Worker, worker[w].at # "idle",
         job' = EndJob(w), Rest(w)
  PROVE  /\ job' \in [Job -> JobRow] /\ worker' \in [Worker -> WorkerState]
         /\ JobsWellFormed' /\ WorkersHoldTheirJobs' /\ OneHolder'
         /\ \A j \in Job :
              Active(j) /\ job[j].step # worker[w].step => job'[j] = job[j]
<1> DEFINE own == worker[w].job
<1>1. /\ own \in Job
      /\ Active(own) => job[own].step = worker[w].step
  BY DEF IInv, WorkersHoldTheirJobs
<1>2. Ended \in JobRow /\ Idle \in WorkerState
  BY DEF Ended, JobRow, Idle, WorkerState
<1>3. job' = [job EXCEPT ![own] = Ended]
  BY DEF EndJob
<1> HIDE DEF own
<1>4. \A j \in Job : job'[j] = IF j = own THEN Ended ELSE job[j]
  BY <1>3 DEF IInv, TypeOK
<1>5. \A v \in Worker : worker'[v] = IF v = w THEN Idle ELSE worker[v]
  BY DEF Rest, IInv, TypeOK
<1>6. job' \in [Job -> JobRow] /\ worker' \in [Worker -> WorkerState]
  BY <1>2, <1>3 DEF Rest, IInv, TypeOK
<1>7. JobsWellFormed'
  BY <1>4 DEF IInv, JobsWellFormed, Active, Ended
<1>8. WorkersHoldTheirJobs'
  BY <1>4, <1>5 DEF IInv, WorkersHoldTheirJobs, Active, Ended, Idle
<1>9. OneHolder'
  BY <1>5, IdsAssumption DEF IInv, OneHolder, Idle
<1>10. \A j \in Job : Active(j) /\ job[j].step # worker[w].step => job'[j] = job[j]
  BY <1>1, <1>4
<1>. QED
  BY <1>6, <1>7, <1>8, <1>9, <1>10

\* A worker that replaces its job by the next one leaves the others alone.
LEMMA ReplaceJobKeeps ==
  ASSUME IInv, NEW w \in Worker, worker[w].at # "idle",
         NEW step \in JobStep, NEW a \in Audit \cup {NoAudit},
         job' = ReplaceJob(w, step, a), Rest(w)
  PROVE  /\ job' \in [Job -> JobRow] /\ worker' \in [Worker -> WorkerState]
         /\ JobsWellFormed' /\ WorkersHoldTheirJobs' /\ OneHolder'
         /\ \E j \in Job : job'[j].status = "pending" /\ job'[j].step = step
<1> DEFINE own == worker[w].job
<1>1. own \in Job /\ \A v \in Worker \ {w} : worker[v].job # own
  BY DEF IInv, WorkersHoldTheirJobs, OneHolder
<1>2. NewJob(step, a) \in JobRow /\ Idle \in WorkerState
  BY DEF NewJob, JobRow, Idle, WorkerState
<1>3. job' = [job EXCEPT ![own] = NewJob(step, a)]
  BY DEF ReplaceJob
<1> HIDE DEF own
<1>4. \A j \in Job : job'[j] = IF j = own THEN NewJob(step, a) ELSE job[j]
  BY <1>3 DEF IInv, TypeOK
<1>5. \A v \in Worker : worker'[v] = IF v = w THEN Idle ELSE worker[v]
  BY DEF Rest, IInv, TypeOK
<1>6. job' \in [Job -> JobRow] /\ worker' \in [Worker -> WorkerState]
  BY <1>2, <1>3 DEF Rest, IInv, TypeOK
<1>7. JobsWellFormed'
  BY <1>4 DEF IInv, JobsWellFormed, Active, NewJob
<1>8. WorkersHoldTheirJobs'
  BY <1>1, <1>4, <1>5 DEF IInv, WorkersHoldTheirJobs, Active, Idle
<1>9. OneHolder'
  BY <1>5, IdsAssumption DEF IInv, OneHolder, Idle
<1>10. job'[own].status = "pending" /\ job'[own].step = step
  BY <1>1, <1>4 DEF NewJob
<1>. QED
  BY <1>1, <1>6, <1>7, <1>8, <1>9, <1>10

-----------------------------------------------------------------------------
(* The inductive invariant *)

\* Nothing is asked for, claimed or started when the project is created.
LEMMA InitIInv == Init => IInv
<1> SUFFICES ASSUME Init PROVE IInv
  OBVIOUS
<1>1. TypeOK
  BY DEF Init, TypeOK, SetupRow, CrawlStatus, JobRow, Ended, AuditRow,
         NoAuditRow, WorkerState, Idle
<1>2. JobsWellFormed
  BY DEF Init, JobsWellFormed, Active, Ended
<1>3. WorkersHoldTheirJobs /\ OneHolder
  BY IdsAssumption DEF Init, WorkersHoldTheirJobs, OneHolder, Idle
<1>4. StepIsCarried
  BY DEF Init, StepIsCarried, JobStep
<1>. QED
  BY <1>1, <1>2, <1>3, <1>4 DEF IInv

\* A step that touches neither jobs nor workers keeps what is said of them.
LEMMA JobsUntouched ==
  ASSUME IInv, job' = job, worker' = worker
  PROVE  /\ job' \in [Job -> JobRow] /\ worker' \in [Worker -> WorkerState]
         /\ JobsWellFormed' /\ WorkersHoldTheirJobs' /\ OneHolder'
BY DEF IInv, TypeOK, JobsWellFormed, WorkersHoldTheirJobs, OneHolder, Active

\* The owner starts the first crawl, or another after a failed one.
LEMMA StartCrawlIInv ==
  ASSUME IInv, NEW c \in Crawl, StartCrawl(c)
  PROVE  IInv'
<1>1. setup' \in SetupRow /\ setup'.status = "crawling" /\ setup'.crawl = c
  BY DEF StartCrawl, MoveTo, SetupRow, Step, JobStep, IInv, TypeOK
<1>2. crawl' \in [Crawl -> CrawlStatus] /\ crawl'[c] = "queued"
  BY DEF StartCrawl, IInv, TypeOK, CrawlStatus, Unfinished
<1>3. StepIsCarried'
  BY <1>1, <1>2 DEF StepIsCarried, JobStep, Unfinished
<1>4. job' = job /\ worker' = worker
  BY DEF StartCrawl
<1>5. TypeOK'
  BY <1>1, <1>2, <1>4 DEF StartCrawl, IInv, TypeOK
<1>. QED
  BY <1>3, <1>4, <1>5, JobsUntouched DEF IInv

\* A crawl that begins, or goes on, carries the setup that waits for it.
LEMMA CrawlGoesOnIInv ==
  ASSUME IInv, NEW c \in Crawl,
         \/ RequestCrawl(c) \/ ClaimCrawl(c) \/ MarkCrawlRunning(c)
         \/ CrawlStops(c) \/ CrawlerLeaves(c)
  PROVE  IInv'
<1>1. setup' = setup /\ job' = job /\ worker' = worker /\ audit' = audit
      /\ questions' = questions /\ late' = late
  BY DEF RequestCrawl, ClaimCrawl, MarkCrawlRunning, CrawlStops, CrawlerLeaves
<1>2. /\ crawl' \in [Crawl -> CrawlStatus]
      /\ \A d \in Crawl : crawl[d] \in Unfinished => crawl'[d] \in Unfinished
  BY DEF RequestCrawl, ClaimCrawl, MarkCrawlRunning, CrawlStops, CrawlerLeaves,
         IInv, TypeOK, CrawlStatus, Unfinished
<1>3. crawler' \in [Crawl -> {"none", "starting", "crawling"}]
  BY DEF RequestCrawl, ClaimCrawl, MarkCrawlRunning, CrawlStops, CrawlerLeaves,
         IInv, TypeOK
<1>4. StepIsCarried'
  BY <1>1, <1>2 DEF IInv, StepIsCarried, Active
<1>5. TypeOK'
  BY <1>1, <1>2, <1>3 DEF IInv, TypeOK
<1>. QED
  BY <1>1, <1>4, <1>5, JobsUntouched DEF IInv

\* A crawl that is cancelled, fails or is reclaimed takes along the setup that
\* waits for it, and no other.
LEMMA CrawlEndsIInv ==
  ASSUME IInv, NEW c \in Crawl, CancelCrawl(c) \/ CrawlFails(c) \/ ReclaimCrawl(c)
  PROVE  IInv'
<1>1. setup' = CrawlFailed(c) /\ job' = job /\ worker' = worker
      /\ audit' = audit /\ questions' = questions /\ late' = late
  BY DEF CancelCrawl, CrawlFails, ReclaimCrawl
<1>2. /\ crawl' \in [Crawl -> CrawlStatus]
      /\ \A d \in Crawl \ {c} : crawl'[d] = crawl[d]
  BY DEF CancelCrawl, CrawlFails, ReclaimCrawl, IInv, TypeOK, CrawlStatus
<1>3. crawler' \in [Crawl -> {"none", "starting", "crawling"}]
  BY DEF CancelCrawl, CrawlFails, ReclaimCrawl, IInv, TypeOK
<1>4. /\ setup' \in SetupRow
      /\ setup' = setup \/ setup'.status = "failed"
      /\ setup'.status = "crawling" => setup' = setup /\ setup.crawl # c
  BY <1>1, CrawlFailedRow DEF IInv, TypeOK
<1>5. StepIsCarried'
  BY <1>1, <1>2, <1>4 DEF IInv, StepIsCarried, Active, JobStep
<1>6. TypeOK'
  BY <1>1, <1>2, <1>3, <1>4 DEF IInv, TypeOK
<1>. QED
  BY <1>1, <1>5, <1>6, JobsUntouched DEF IInv

\* Only a crawl that has ended is deleted, so no setup waits for it.
LEMMA DeleteCrawlIInv ==
  ASSUME IInv, NEW c \in Crawl, DeleteCrawl(c)
  PROVE  IInv'
<1>1. /\ setup' \in SetupRow
      /\ setup'.status = setup.status
      /\ setup.crawl # c => setup' = setup
  BY DEF DeleteCrawl, SetupRow, IInv, TypeOK
<1>2. setup.status = "crawling" => setup.crawl # c
  BY DEF DeleteCrawl, IInv, StepIsCarried, Unfinished
<1>3. /\ crawl' \in [Crawl -> CrawlStatus]
      /\ \A d \in Crawl \ {c} : crawl'[d] = crawl[d]
  BY DEF DeleteCrawl, IInv, TypeOK, CrawlStatus
<1>4. audit' \in [Audit -> AuditRow]
  BY DEF DeleteCrawl, IInv, TypeOK, AuditRow
<1>5. /\ job' = job /\ worker' = worker /\ crawler' = crawler
      /\ questions' = questions /\ late' = late
  BY DEF DeleteCrawl
<1>6. StepIsCarried'
  BY <1>1, <1>2, <1>3, <1>5 DEF IInv, StepIsCarried, Active
<1>7. TypeOK'
  BY <1>1, <1>3, <1>4, <1>5 DEF IInv, TypeOK
<1>. QED
  BY <1>5, <1>6, <1>7, JobsUntouched DEF IInv

\* The completed crawl of a waiting setup brings its bootstrap job along.
LEMMA CrawlCompletesIInv ==
  ASSUME IInv, NEW c \in Crawl, CrawlCompletes(c)
  PROVE  IInv'
<1>1. /\ crawl' \in [Crawl -> CrawlStatus]
      /\ \A d \in Crawl \ {c} : crawl'[d] = crawl[d]
      /\ crawler' \in [Crawl -> {"none", "starting", "crawling"}]
      /\ worker' = worker /\ audit' = audit /\ questions' = questions /\ late' = late
  BY DEF CrawlCompletes, IInv, TypeOK, CrawlStatus
<1>2. CASE setup.status = "crawling" /\ setup.crawl = c
  <2>1. /\ setup' = MoveTo("profile_generation") /\ FreeJobs # {}
        /\ job' = Enqueue("profile_generation", NoAudit)
    BY <1>2 DEF CrawlCompletes
  <2>2. "profile_generation" \in JobStep /\ "profile_generation" \in Step
    BY DEF JobStep, Step
  <2>3. setup' \in SetupRow /\ setup'.status = "profile_generation"
    BY <2>1, <2>2, MoveToRow DEF IInv, TypeOK
  <2>4. /\ job' \in [Job -> JobRow]
        /\ JobsWellFormed' /\ WorkersHoldTheirJobs' /\ OneHolder'
        /\ \E j \in Job : /\ job'[j].status = "pending"
                          /\ job'[j].step = "profile_generation"
    BY <1>1, <2>1, <2>2, EnqueueKeeps
  <2>5. StepIsCarried'
    BY <2>2, <2>3, <2>4, NewlyCarried
  <2>. QED
    BY <1>1, <2>3, <2>4, <2>5 DEF IInv, TypeOK
<1>3. CASE ~(setup.status = "crawling" /\ setup.crawl = c)
  <2>1. setup' = setup /\ job' = job
    BY <1>3 DEF CrawlCompletes
  <2>2. StepIsCarried'
    BY <1>1, <1>3, <2>1 DEF IInv, StepIsCarried, Active
  <2>3. TypeOK'
    BY <1>1, <2>1 DEF IInv, TypeOK
  <2>. QED
    BY <1>1, <2>1, <2>2, <2>3, JobsUntouched DEF IInv
<1>. QED
  BY <1>2, <1>3

\* The owner's retry brings the job of the step along.
LEMMA ResumeIInv ==
  ASSUME IInv, Resume
  PROVE  IInv'
<1> DEFINE step == RetryStep(setup.failedStep)
<1>1. step \in JobStep /\ step \in Step
  BY DEF Resume, RetryStep, JobStep, Step
<1>2. /\ setup' = MoveTo(step) /\ job' = Enqueue(step, NoAudit) /\ FreeJobs # {}
      /\ crawl' = crawl /\ crawler' = crawler /\ audit' = audit
      /\ questions' = questions /\ late' = late /\ worker' = worker
  BY DEF Resume
<1> HIDE DEF step
<1>3. setup' \in SetupRow /\ setup'.status = step
  BY <1>1, <1>2, MoveToRow DEF IInv, TypeOK
<1>4. /\ job' \in [Job -> JobRow]
      /\ JobsWellFormed' /\ WorkersHoldTheirJobs' /\ OneHolder'
      /\ \E j \in Job : job'[j].status = "pending" /\ job'[j].step = step
  BY <1>1, <1>2, EnqueueKeeps
<1>5. StepIsCarried'
  BY <1>1, <1>3, <1>4, NewlyCarried
<1>. QED
  BY <1>2, <1>3, <1>4, <1>5 DEF IInv, TypeOK

\* A job that a member asks for disturbs no active one.
LEMMA RequestsIInv ==
  ASSUME IInv, RequestPrompts \/ \E c \in Crawl : RequestAudit(c)
  PROVE  IInv'
<1>1. PICK step \in JobStep, a \in Audit \cup {NoAudit} : job' = Enqueue(step, a)
  BY FreshAuditIsAbsent DEF RequestPrompts, RequestAudit, JobStep
<1>2. /\ FreeJobs # {} /\ setup' = setup /\ crawl' = crawl /\ crawler' = crawler
      /\ questions' = questions /\ late' = late /\ worker' = worker
  BY RoomMeansFree DEF RequestPrompts, RequestAudit
<1>3. audit' \in [Audit -> AuditRow]
  BY FreshAuditIsAbsent DEF RequestPrompts, RequestAudit, IInv, TypeOK, AuditRow,
     Unfinished
<1>4. /\ job' \in [Job -> JobRow]
      /\ JobsWellFormed' /\ WorkersHoldTheirJobs' /\ OneHolder'
      /\ \A j \in Job : Active(j) => job'[j] = job[j]
  BY <1>1, <1>2, EnqueueKeeps
<1>5. StepIsCarried'
  BY <1>2, <1>4, StillCarried DEF Active
<1>. QED
  BY <1>2, <1>3, <1>4, <1>5 DEF IInv, TypeOK

\* A claimed job stays active, and its worker remembers its step.
LEMMA ClaimJobIInv ==
  ASSUME IInv, NEW w \in Worker, NEW j \in Job, ClaimJob(w, j)
  PROVE  IInv'
<1> DEFINE row == [job[j] EXCEPT !.status = "running"]
           held == [at |-> "handling", job |-> j,
                    step |-> job[j].step, audit |-> job[j].audit]
<1>1. job[j] \in JobRow /\ job[j].step \in JobStep /\ job[j].status = "pending"
  BY DEF ClaimJob, IInv, TypeOK, JobsWellFormed, Active
<1>2. /\ row \in JobRow /\ row.status = "running" /\ row.step = job[j].step
      /\ held \in WorkerState /\ held.job = j /\ held.step = job[j].step
      /\ held.at = "handling"
  BY <1>1 DEF JobRow, WorkerState, JobStep
<1>3. job' = [job EXCEPT ![j] = row] /\ worker' = [worker EXCEPT ![w] = held]
  BY DEF ClaimJob
<1> HIDE DEF row, held
<1>4. /\ \A i \in Job : job'[i] = IF i = j THEN row ELSE job[i]
      /\ \A v \in Worker : worker'[v] = IF v = w THEN held ELSE worker[v]
      /\ job' \in [Job -> JobRow] /\ worker' \in [Worker -> WorkerState]
  BY <1>2, <1>3 DEF IInv, TypeOK
<1>5. \A v \in Worker : worker[v].job # j
  BY <1>1, IdsAssumption
     DEF IInv, WorkersHoldTheirJobs, Active, Idle
<1>6. JobsWellFormed'
  BY <1>1, <1>2, <1>4 DEF IInv, JobsWellFormed, Active
<1>7. WorkersHoldTheirJobs'
  BY <1>1, <1>2, <1>4, <1>5 DEF IInv, WorkersHoldTheirJobs, Active
<1>8. OneHolder'
  BY <1>2, <1>4, <1>5 DEF IInv, OneHolder
<1>9. crawl' = crawl /\ setup' = setup /\ crawler' = crawler /\ audit' = audit
      /\ questions' = questions /\ late' = late
  BY DEF ClaimJob
<1>10. StepIsCarried'
  BY <1>2, <1>4, <1>9, StillCarried DEF Active
<1>. QED
  BY <1>4, <1>6, <1>7, <1>8, <1>9, <1>10 DEF IInv, TypeOK

\* The finished step's worker moves the setup with the next job, or ends its
\* job alone when the setup is elsewhere.
LEMMA FinishStepIInv ==
  ASSUME IInv, NEW w \in Worker, FinishStep(w)
  PROVE  IInv'
<1> DEFINE step == worker[w].step
           next == IF step = "profile_generation" THEN "keyword_analysis"
                                                  ELSE "prompt_generation"
<1>1. /\ worker[w].at # "idle" /\ Rest(w)
      /\ crawl' = crawl /\ crawler' = crawler /\ audit' = audit
      /\ questions' = questions /\ late' = late
  BY DEF FinishStep, Handling
<1>2. next \in JobStep /\ next \in Step
  BY DEF JobStep, Step
<1>3. CASE setup.status = step
  <2>1. setup' = MoveTo(next) /\ job' = ReplaceJob(w, next, NoAudit)
    BY <1>3 DEF FinishStep
  <2> HIDE DEF step, next
  <2>2. setup' \in SetupRow /\ setup'.status = next
    BY <1>2, <2>1, MoveToRow DEF IInv, TypeOK
  <2>3. /\ job' \in [Job -> JobRow] /\ worker' \in [Worker -> WorkerState]
        /\ JobsWellFormed' /\ WorkersHoldTheirJobs' /\ OneHolder'
        /\ \E j \in Job : job'[j].status = "pending" /\ job'[j].step = next
    BY <1>1, <1>2, <2>1, ReplaceJobKeeps
  <2>4. StepIsCarried'
    BY <1>2, <2>2, <2>3, NewlyCarried
  <2>. QED
    BY <1>1, <2>2, <2>3, <2>4 DEF IInv, TypeOK
<1>4. CASE setup.status # step
  <2>1. setup' = setup /\ job' = EndJob(w)
    BY <1>4 DEF FinishStep
  <2>2. /\ job' \in [Job -> JobRow] /\ worker' \in [Worker -> WorkerState]
        /\ JobsWellFormed' /\ WorkersHoldTheirJobs' /\ OneHolder'
        /\ \A j \in Job : Active(j) /\ job[j].step # step => job'[j] = job[j]
    BY <1>1, <2>1, EndJobKeeps
  <2>3. StepIsCarried'
    BY <1>1, <1>4, <2>1, <2>2, StillCarried DEF Active
  <2>. QED
    BY <1>1, <2>1, <2>2, <2>3 DEF IInv, TypeOK
<1>. QED
  BY <1>3, <1>4

\* A worker that is done with its job leaves a setup that another step's job
\* carries, or one that has completed or failed.
LEMMA WorkerDoneIInv ==
  ASSUME IInv, NEW w \in Worker, FinishPrompts(w) \/ FinishAudit(w) \/ JobFails(w)
  PROVE  IInv'
<1>1. /\ worker[w].at # "idle" /\ Rest(w) /\ job' = EndJob(w)
      /\ crawl' = crawl /\ crawler' = crawler /\ audit' = audit
      /\ questions' = questions
  BY DEF FinishPrompts, FinishAudit, JobFails, Handling
<1>2. worker[w].step \in JobStep
  BY <1>1 DEF IInv, WorkersHoldTheirJobs
<1>3. worker[w].at \in {"audited", "audit_failed"} => worker[w].step = "visibility"
  BY DEF IInv, WorkersHoldTheirJobs
<1>4. /\ setup' \in SetupRow
      /\ setup' = setup \/ setup'.status \in {"completed", "failed"}
      /\ setup'.status # worker[w].step
  <2>1. CASE FinishPrompts(w)
    BY <2>1, MoveToRow DEF FinishPrompts, Handling, IInv, TypeOK
  <2>2. CASE FinishAudit(w)
    <3>1. worker[w].step = "visibility" /\ "visibility" \in Step
      BY <1>3, <2>2 DEF FinishAudit, Step, JobStep
    <3>2. CASE setup' = FailedIfOn("visibility")
      BY <3>1, <3>2, FailedIfOnRow DEF IInv, TypeOK
    <3>3. CASE setup.status = "visibility" /\ setup' = MoveTo("completed")
      BY <3>1, <3>3, MoveToRow DEF IInv, TypeOK
    <3>4. CASE setup.status # "visibility" /\ setup' = setup
      BY <3>1, <3>4 DEF IInv, TypeOK
    <3>. QED
      BY <2>2, <3>2, <3>3, <3>4 DEF FinishAudit
  <2>3. CASE JobFails(w)
    BY <1>2, <2>3, FailedIfOnRow DEF JobFails, Step, IInv, TypeOK
  <2>. QED
    BY <2>1, <2>2, <2>3
<1>5. /\ job' \in [Job -> JobRow] /\ worker' \in [Worker -> WorkerState]
      /\ JobsWellFormed' /\ WorkersHoldTheirJobs' /\ OneHolder'
      /\ \A j \in Job :
           Active(j) /\ job[j].step # worker[w].step => job'[j] = job[j]
  BY <1>1, EndJobKeeps
<1>6. StepIsCarried'
  BY <1>1, <1>4, <1>5, StillCarried DEF Active
<1>7. late' \in SUBSET EarlyStep
  BY DEF FinishPrompts, FinishAudit, JobFails, Late, IInv, TypeOK
<1>. QED
  BY <1>1, <1>4, <1>5, <1>6, <1>7 DEF IInv, TypeOK

\* The fresh audit comes with the job that runs it.
LEMMA LaunchAuditIInv ==
  ASSUME IInv, NEW w \in Worker, LaunchAudit(w)
  PROVE  IInv'
<1>1. /\ worker[w].at # "idle" /\ Rest(w)
      /\ setup' = MoveTo("visibility")
      /\ job' = ReplaceJob(w, "visibility", FreshAudit)
      /\ crawl' = crawl /\ crawler' = crawler /\ questions' = questions /\ late' = late
  BY DEF LaunchAudit, Handling
<1>2. "visibility" \in JobStep /\ "visibility" \in Step
  BY DEF JobStep, Step
<1>3. FreshAudit \in Audit
  BY FreshAuditIsAbsent DEF LaunchAudit
<1>4. audit' \in [Audit -> AuditRow]
  <2>1. /\ setup.crawl \in Crawl \cup {NoCrawl}
        /\ audit \in [Audit -> AuditRow]
    BY DEF IInv, TypeOK, SetupRow
  <2>2. [status |-> "queued", crawl |-> setup.crawl] \in AuditRow
    BY <2>1 DEF AuditRow, Unfinished
  <2>3. \A b \in Audit : [audit[b] EXCEPT !.status = "failed"] \in AuditRow
    BY <2>1 DEF AuditRow
  <2>. QED
    BY <2>1, <2>2, <2>3 DEF LaunchAudit
<1>5. setup' \in SetupRow /\ setup'.status = "visibility"
  BY <1>1, <1>2, MoveToRow DEF IInv, TypeOK
<1>6. /\ job' \in [Job -> JobRow] /\ worker' \in [Worker -> WorkerState]
      /\ JobsWellFormed' /\ WorkersHoldTheirJobs' /\ OneHolder'
      /\ \E j \in Job : job'[j].status = "pending" /\ job'[j].step = "visibility"
  BY <1>1, <1>2, <1>3, ReplaceJobKeeps
<1>7. StepIsCarried'
  BY <1>2, <1>5, <1>6, NewlyCarried
<1>. QED
  BY <1>1, <1>4, <1>5, <1>6, <1>7 DEF IInv, TypeOK

\* A worker that goes on with its job, or drops it, leaves the rows alone.
LEMMA WorkerGoesOnIInv ==
  ASSUME IInv, NEW w \in Worker,
         WriteQuestions(w) \/ BeginAudit(w) \/ EndAudit(w) \/ WorkerLeaves(w)
  PROVE  IInv'
<1>1. setup' = setup /\ crawl' = crawl /\ crawler' = crawler /\ job' = job
  BY DEF WriteQuestions, BeginAudit, EndAudit, WorkerLeaves
<1>2. questions' \in BOOLEAN /\ late' = late
  BY DEF WriteQuestions, BeginAudit, EndAudit, WorkerLeaves, IInv, TypeOK
<1>3. audit' \in [Audit -> AuditRow]
  BY DEF WriteQuestions, BeginAudit, EndAudit, WorkerLeaves, IInv, TypeOK,
         AuditRow, Unfinished
<1>4. /\ worker' \in [Worker -> WorkerState]
      /\ \A v \in Worker :
           \/ worker'[v] = worker[v]
           \/ worker'[v] = Idle
           \/ /\ worker[v].at # "idle" /\ worker'[v].at # "idle"
              /\ worker'[v].job = worker[v].job
              /\ worker'[v].step = worker[v].step
              /\ worker'[v].at # "handling" => worker[v].step = "visibility"
  BY DEF WriteQuestions, BeginAudit, EndAudit, WorkerLeaves, Rest, Handling,
         IInv, TypeOK, WorkersHoldTheirJobs, WorkerState, Idle
<1>5. WorkersHoldTheirJobs' /\ OneHolder'
  BY <1>1, <1>4, IdsAssumption
     DEF IInv, WorkersHoldTheirJobs, OneHolder, Active, Idle
<1>6. JobsWellFormed'
  BY <1>1 DEF IInv, JobsWellFormed, Active
<1>7. StepIsCarried'
  BY <1>1, StillCarried DEF Active
<1>. QED
  BY <1>1, <1>2, <1>3, <1>4, <1>5, <1>6, <1>7 DEF IInv, TypeOK

\* The sweep fails the setup with the job that carried it, though its worker
\* may still be at work (ReclaimStaleRunningAIWorkerJobs).
LEMMA ReclaimsIInv ==
  ASSUME IInv, (\E j \in Job : ReclaimJob(j)) \/ \E a \in Audit : ReclaimAudit(a)
  PROVE  IInv'
<1>1. ASSUME NEW j \in Job, ReclaimJob(j)
      PROVE  IInv'
  <2>1. /\ job' = [job EXCEPT ![j] = Ended] /\ setup' = FailedIfOn(job[j].step)
        /\ crawl' = crawl /\ crawler' = crawler /\ audit' = audit
        /\ questions' = questions /\ late' = late /\ worker' = worker
    BY <1>1 DEF ReclaimJob
  <2>2. job[j].step \in JobStep /\ job[j].step \in Step
    BY <1>1 DEF ReclaimJob, IInv, JobsWellFormed, Active, Step
  <2>3. /\ setup' \in SetupRow
        /\ setup' = setup \/ setup'.status = "failed"
        /\ setup'.status # job[j].step
    BY <2>1, <2>2, FailedIfOnRow DEF IInv, TypeOK
  <2>4. /\ job' \in [Job -> JobRow]
        /\ \A i \in Job : job'[i] = IF i = j THEN Ended ELSE job[i]
    BY <2>1 DEF IInv, TypeOK, Ended, JobRow
  <2>5. JobsWellFormed' /\ WorkersHoldTheirJobs' /\ OneHolder'
    BY <2>1, <2>4
       DEF IInv, JobsWellFormed, WorkersHoldTheirJobs, OneHolder, Active, Ended
  <2>6. StepIsCarried'
    BY <2>1, <2>3, <2>4, StillCarried DEF Active
  <2>. QED
    BY <2>1, <2>3, <2>4, <2>5, <2>6 DEF IInv, TypeOK
<1>2. ASSUME NEW a \in Audit, ReclaimAudit(a)
      PROVE  IInv'
  <2>1. /\ setup' = setup /\ crawl' = crawl /\ crawler' = crawler /\ job' = job
        /\ questions' = questions /\ late' = late /\ worker' = worker
        /\ audit' \in [Audit -> AuditRow]
    BY <1>2 DEF ReclaimAudit, IInv, TypeOK, AuditRow
  <2>2. StepIsCarried'
    BY <2>1, StillCarried DEF Active
  <2>. QED
    BY <2>1, <2>2, JobsUntouched DEF IInv, TypeOK
<1>. QED
  BY <1>1, <1>2

\* IInv is inductive.
LEMMA StepIInv ==
  ASSUME IInv, [Next]_vars
  PROVE  IInv'
<1>1. CASE UNCHANGED vars
  BY <1>1 DEF vars, IInv, TypeOK, JobsWellFormed, WorkersHoldTheirJobs, OneHolder,
              StepIsCarried, Active
<1>2. ASSUME NEW c \in Crawl, CrawlNext(c)
      PROVE  IInv'
  BY <1>2, StartCrawlIInv, CrawlGoesOnIInv, CrawlEndsIInv, DeleteCrawlIInv,
     CrawlCompletesIInv, RequestsIInv DEF CrawlNext, Crawling
<1>3. ASSUME NEW w \in Worker, WorkerNext(w)
      PROVE  IInv'
  BY <1>3, ClaimJobIInv, FinishStepIInv, WorkerDoneIInv, LaunchAuditIInv,
     WorkerGoesOnIInv DEF WorkerNext, Working
<1>4. CASE Resume \/ RequestPrompts
  BY <1>4, ResumeIInv, RequestsIInv
<1>5. CASE (\E j \in Job : ReclaimJob(j)) \/ \E a \in Audit : ReclaimAudit(a)
  BY <1>5, ReclaimsIInv
<1>. QED
  BY <1>1, <1>2, <1>3, <1>4, <1>5 DEF Next

\* IInv holds in every reachable state.
THEOREM Invariance == Spec => []IInv
<1>1. IInv /\ [Next]_vars => IInv'
  BY StepIInv
<1>. QED
  BY <1>1, InitIInv, PTL DEF Spec

\* The rows stay well-formed: a setup names a failed step exactly when it has
\* failed, as the retry of the owner expects.
THEOREM TypeCorrect == Spec => []TypeOK
<1>1. IInv => TypeOK
  BY DEF IInv
<1>. QED
  BY <1>1, Invariance, PTL

\* No crash, retry, cancellation, late finish or reclaim, in any order, leaves
\* a setup on a step without a crawl or a job that will end it.
THEOREM EveryStepIsCarried == Spec => []StepIsCarried
<1>1. IInv => StepIsCarried
  BY DEF IInv
<1>. QED
  BY <1>1, Invariance, PTL

-----------------------------------------------------------------------------
(* Setups do not move backward *)

\* The rank of a step is a number.
LEMMA Ranks ==
  /\ Rank("ready") = 0 /\ Rank("crawling") = 1
  /\ Rank("profile_generation") = 2 /\ Rank("keyword_analysis") = 3
  /\ Rank("prompt_generation") = 4 /\ Rank("visibility") = 5
  /\ Rank("completed") = 6
BY DEF Rank

\* Every row of a setup has a progress, and only its status and failed step
\* count for it.
LEMMA ProgressOfRow ==
  ASSUME NEW row \in SetupRow
  PROVE  /\ Progress(row) \in 0..6
         /\ row.status = "failed" => Progress(row) = Rank(row.failedStep)
         /\ row.status # "failed" => Progress(row) = Rank(row.status)
BY Ranks DEF Progress, SetupRow, Step, JobStep

\* A setup that fails where it is has come as far as it was.
LEMMA FailedIfOnProgress ==
  ASSUME setup \in SetupRow, NEW step \in Step, setup' = FailedIfOn(step)
  PROVE  Progress(setup') = Progress(setup)
<1>1. CASE setup.status = step
  <2>1. setup' = FailAt(step)
    BY <1>1 DEF FailedIfOn
  <2>2. setup' \in SetupRow /\ setup'.status = "failed" /\ setup'.failedStep = step
    BY <2>1, FailAtRow
  <2>3. step # "failed"
    BY DEF Step, JobStep
  <2>. QED
    BY <1>1, <2>2, <2>3, ProgressOfRow
<1>2. CASE setup.status # step
  BY <1>2 DEF FailedIfOn
<1>. QED
  BY <1>1, <1>2

\* The failure of a crawl is such a failure, or nothing to the setup.
LEMMA CrawlFailedProgress ==
  ASSUME setup \in SetupRow, NEW c, setup' = CrawlFailed(c)
  PROVE  Progress(setup') = Progress(setup)
<1>1. "crawling" \in Step
  BY DEF Step
<1>. QED
  BY <1>1, FailedIfOnProgress DEF CrawlFailed

\* A move to a step has the rank of that step.
LEMMA MoveToProgress ==
  ASSUME setup \in SetupRow, NEW status \in {"ready", "completed"} \cup Step,
         setup' = MoveTo(status)
  PROVE  Progress(setup') = Rank(status)
<1>1. setup' \in SetupRow /\ setup'.status = status /\ status # "failed"
  BY MoveToRow DEF Step, JobStep
<1>. QED
  BY <1>1, ProgressOfRow

\* Requests and crawls move a setup forward, or leave it where it is.
LEMMA CrawlForward ==
  ASSUME IInv, NEW c \in Crawl, CrawlNext(c)
  PROVE  Progress(setup') >= Progress(setup)
<1>1. setup \in SetupRow
  BY DEF IInv, TypeOK
<1>2. Progress(setup) \in 0..6
  BY <1>1, ProgressOfRow
<1>3. CASE StartCrawl(c)
  <2>1. setup' \in SetupRow /\ setup'.status = "crawling"
    BY <1>1, <1>3 DEF StartCrawl, MoveTo, SetupRow, Step, JobStep
  <2>2. Progress(setup') = 1
    BY <2>1, ProgressOfRow, Ranks
  <2>3. Progress(setup) \in {0, 1}
    BY <1>1, <1>3, ProgressOfRow, Ranks DEF StartCrawl
  <2>. QED
    BY <2>2, <2>3
<1>4. CASE CancelCrawl(c) \/ CrawlFails(c) \/ ReclaimCrawl(c)
  <2>1. setup' = CrawlFailed(c)
    BY <1>4 DEF CancelCrawl, CrawlFails, ReclaimCrawl
  <2>. QED
    BY <1>1, <1>2, <2>1, CrawlFailedProgress
<1>5. CASE DeleteCrawl(c)
  <2>1. setup'.status = setup.status /\ setup'.failedStep = setup.failedStep
    BY <1>1, <1>5 DEF DeleteCrawl, SetupRow
  <2>. QED
    BY <1>2, <2>1 DEF Progress
<1>6. CASE CrawlCompletes(c)
  <2>1. CASE setup.status = "crawling" /\ setup.crawl = c
    <3>1. setup' = MoveTo("profile_generation")
      BY <1>6, <2>1 DEF CrawlCompletes
    <3>2. Progress(setup') = 2
      BY <1>1, <3>1, MoveToProgress, Ranks DEF Step, JobStep
    <3>. QED
      BY <1>1, <2>1, <3>2, ProgressOfRow, Ranks
  <2>2. CASE ~(setup.status = "crawling" /\ setup.crawl = c)
    BY <1>2, <1>6, <2>2 DEF CrawlCompletes
  <2>. QED
    BY <2>1, <2>2
<1>7. CASE \/ RequestCrawl(c) \/ ClaimCrawl(c) \/ MarkCrawlRunning(c)
           \/ CrawlStops(c) \/ CrawlerLeaves(c) \/ RequestAudit(c)
  <2>1. setup' = setup
    BY <1>7 DEF RequestCrawl, ClaimCrawl, MarkCrawlRunning, CrawlStops,
                CrawlerLeaves, RequestAudit
  <2>. QED
    BY <1>2, <2>1
<1>. QED
  BY <1>3, <1>4, <1>5, <1>6, <1>7 DEF CrawlNext, Crawling

\* So do the workers, however late they finish.
LEMMA WorkerForward ==
  ASSUME IInv, NEW w \in Worker, WorkerNext(w)
  PROVE  Progress(setup') >= Progress(setup)
<1>1. setup \in SetupRow
  BY DEF IInv, TypeOK
<1>2. /\ Progress(setup) \in 0..6
      /\ setup.status # "failed" => Progress(setup) = Rank(setup.status)
  BY <1>1, ProgressOfRow
<1>3. worker[w].at # "idle" => worker[w].step \in Step
  BY DEF IInv, WorkersHoldTheirJobs, Step
<1>4. /\ "keyword_analysis" \in Step /\ "prompt_generation" \in Step
      /\ "visibility" \in Step
  BY DEF Step, JobStep
<1>5. CASE FinishStep(w)
  <2>1. CASE setup.status = "profile_generation" /\ worker[w].step = setup.status
    <3>1. setup' = MoveTo("keyword_analysis")
      BY <1>5, <2>1 DEF FinishStep
    <3>. QED
      BY <1>1, <1>2, <1>4, <2>1, <3>1, MoveToProgress, Ranks
  <2>2. CASE setup.status = "keyword_analysis" /\ worker[w].step = setup.status
    <3>1. setup' = MoveTo("prompt_generation")
      BY <1>5, <2>2 DEF FinishStep
    <3>. QED
      BY <1>1, <1>2, <1>4, <2>2, <3>1, MoveToProgress, Ranks
  <2>3. CASE worker[w].step # setup.status
    BY <1>2, <1>5, <2>3 DEF FinishStep
  <2>. QED
    BY <1>5, <2>1, <2>2, <2>3 DEF FinishStep, Handling
<1>6. CASE FinishPrompts(w)
  <2>1. CASE setup' = setup
    BY <1>2, <2>1
  <2>2. CASE setup' = MoveTo("completed")
    BY <1>1, <1>2, <2>2, MoveToProgress, Ranks
  <2>. QED
    BY <1>6, <2>1, <2>2 DEF FinishPrompts
<1>7. CASE LaunchAudit(w)
  <2>1. setup.status = "prompt_generation" /\ setup' = MoveTo("visibility")
    BY <1>7 DEF LaunchAudit
  <2>. QED
    BY <1>1, <1>2, <1>4, <2>1, MoveToProgress, Ranks
<1>8. CASE FinishAudit(w)
  <2>1. CASE setup' = FailedIfOn("visibility")
    BY <1>1, <1>2, <1>4, <2>1, FailedIfOnProgress
  <2>2. CASE setup' = MoveTo("completed")
    BY <1>1, <1>2, <2>2, MoveToProgress, Ranks
  <2>3. CASE setup' = setup
    BY <1>2, <2>3
  <2>. QED
    BY <1>8, <2>1, <2>2, <2>3 DEF FinishAudit
<1>9. CASE JobFails(w)
  <2>1. setup' = FailedIfOn(worker[w].step) /\ worker[w].at # "idle"
    BY <1>9 DEF JobFails
  <2>. QED
    BY <1>1, <1>2, <1>3, <2>1, FailedIfOnProgress
<1>10. CASE \/ \E j \in Job : ClaimJob(w, j)
            \/ WriteQuestions(w) \/ BeginAudit(w) \/ EndAudit(w) \/ WorkerLeaves(w)
  <2>1. setup' = setup
    BY <1>10 DEF ClaimJob, WriteQuestions, BeginAudit, EndAudit, WorkerLeaves
  <2>. QED
    BY <1>2, <2>1
<1>. QED
  BY <1>5, <1>6, <1>7, <1>8, <1>9, <1>10 DEF WorkerNext, Working

\* The owner's retry goes back to the step that failed, and from a failed
\* visibility step to its prompts.
LEMMA ResumeForward ==
  ASSUME IInv, Resume
  PROVE  \/ Progress(setup') >= Progress(setup)
         \/ setup = FailAt("visibility") /\ setup'.status = "prompt_generation"
<1>1. setup \in SetupRow /\ setup.status = "failed" /\ setup.failedStep \in JobStep
      /\ setup' = MoveTo(RetryStep(setup.failedStep))
  BY DEF Resume, IInv, TypeOK
<1>2. CASE setup.failedStep = "visibility"
  <2>1. setup = FailAt("visibility")
    BY <1>1, <1>2 DEF FailAt, SetupRow
  <2>2. setup'.status = "prompt_generation"
    BY <1>1, <1>2, MoveToRow DEF RetryStep, Step, JobStep
  <2>. QED
    BY <2>1, <2>2
<1>3. CASE setup.failedStep # "visibility"
  <2>1. setup' = MoveTo(setup.failedStep) /\ setup.failedStep \in Step
    BY <1>1, <1>3 DEF RetryStep, Step
  <2>2. Progress(setup') = Rank(setup.failedStep)
    BY <1>1, <2>1, MoveToProgress
  <2>3. Progress(setup) = Rank(setup.failedStep) /\ Progress(setup) \in 0..6
    BY <1>1, ProgressOfRow
  <2>. QED
    BY <2>2, <2>3
<1>. QED
  BY <1>2, <1>3

\* No late or stale finish, failure or reclaim moves a setup back; only the
\* owner's retry of a failed visibility step does, to its prompts.
THEOREM SetupsGoForward == Spec => NeverBackward
<1> DEFINE Forward == \/ Progress(setup') >= Progress(setup)
                      \/ /\ setup = FailAt("visibility")
                         /\ setup'.status = "prompt_generation"
<1>1. IInv /\ [Next]_vars => [Forward]_vars
  <2> SUFFICES ASSUME IInv, Next
               PROVE  Forward
    OBVIOUS
  <2>1. setup \in SetupRow /\ Progress(setup) \in 0..6
    BY ProgressOfRow DEF IInv, TypeOK
  <2>2. ASSUME NEW j \in Job, ReclaimJob(j)
        PROVE  Progress(setup') >= Progress(setup)
    <3>1. setup' = FailedIfOn(job[j].step)
      BY <2>2 DEF ReclaimJob
    <3>2. job[j].step \in Step
      BY <2>2 DEF ReclaimJob, IInv, JobsWellFormed, Active, Step
    <3>. QED
      BY <2>1, <3>1, <3>2, FailedIfOnProgress
  <2>3. ASSUME RequestPrompts \/ \E a \in Audit : ReclaimAudit(a)
        PROVE  Progress(setup') >= Progress(setup)
    <3>1. setup' = setup
      BY <2>3 DEF RequestPrompts, ReclaimAudit
    <3>. QED
      BY <2>1, <3>1
  <2>. QED
    BY <2>2, <2>3, CrawlForward, WorkerForward, ResumeForward DEF Next
<1>. QED
  BY <1>1, Invariance, PTL DEF Spec, NeverBackward

-----------------------------------------------------------------------------
(* One job of a step at a time *)

\* The setup is on a step, or past it.
Reached(step) == setup.status = step \/ Progress(setup) > Rank(step)

\* No early job is active where the setup has not come to, or has failed: a
\* retry finds none of its step, but for the steps that were failed late.
JobsAreReached ==
  \A j \in Job : Active(j) /\ job[j].step \in EarlyStep \ late => Reached(job[j].step)

\* What OneSetupJob needs beyond the invariant.
OneInv == JobsAreReached /\ OneSetupJob

\* Jobs end or go on, and the setup does not fail under those that go on.
LEMMA GoingOnKeepsOne ==
  ASSUME OneInv, late \subseteq late',
         \A j \in Job : Active(j)' => Active(j) /\ job'[j].step = job[j].step,
         \A early \in EarlyStep \ late', j \in Job :
           Active(j)' /\ job'[j].step = early /\ Reached(early) => Reached(early)'
  PROVE  OneInv'
<1>1. EarlyStep' = EarlyStep
  BY DEF EarlyStep
<1>2. ASSUME NEW j \in Job, Active(j)', NEW early \in EarlyStep \ late',
             job'[j].step = early
      PROVE  Reached(early)'
  <2>1. Active(j) /\ job[j].step = early /\ early \in EarlyStep \ late
    BY <1>2
  <2>2. Reached(early)
    BY <2>1 DEF OneInv, JobsAreReached
  <2>. QED
    BY <1>2, <2>1, <2>2
<1>3. JobsAreReached'
  BY <1>1, <1>2 DEF JobsAreReached, Reached
<1>4. OneSetupJob'
  BY <1>1 DEF OneInv, OneSetupJob
<1>. QED
  BY <1>3, <1>4 DEF OneInv

\* A new job is of a step that the setup comes to now, or of a later step.
LEMMA NewJobKeepsOne ==
  ASSUME OneInv, late' = late, NEW new \in Job, NEW step,
         job'[new].step = step,
         \A j \in Job \ {new} : Active(j)' => Active(j) /\ job'[j].step = job[j].step,
         step \in EarlyStep => ~Reached(step) /\ Reached(step)',
         \A other \in EarlyStep : other # step /\ Reached(other) => Reached(other)'
  PROVE  OneInv'
<1>1. EarlyStep' = EarlyStep
  BY DEF EarlyStep
<1>2. ASSUME NEW j \in Job, j # new, Active(j)', NEW early \in EarlyStep \ late,
             job'[j].step = early
      PROVE  Active(j) /\ job[j].step = early /\ Reached(early) /\ early # step
  <2>1. Active(j) /\ job[j].step = early
    BY <1>2
  <2>2. Reached(early)
    BY <2>1 DEF OneInv, JobsAreReached
  <2>. QED
    BY <2>1, <2>2
<1>3. ASSUME NEW j \in Job, Active(j)', NEW early \in EarlyStep \ late,
             job'[j].step = early
      PROVE  Reached(early)'
  BY <1>2, <1>3
<1>4. OneSetupJob'
  <2> SUFFICES ASSUME NEW early \in EarlyStep \ late, NEW i \in Job, NEW j \in Job,
                      Active(i)', job'[i].step = early,
                      Active(j)', job'[j].step = early
               PROVE  i = j
    BY <1>1 DEF OneSetupJob
  <2>1. CASE i # new /\ j # new
    BY <1>2, <2>1 DEF OneInv, OneSetupJob
  <2>2. CASE i = new \/ j = new
    BY <1>2, <2>2
  <2>. QED
    BY <2>1, <2>2
<1>5. JobsAreReached'
  BY <1>1, <1>3 DEF JobsAreReached, Reached
<1>. QED
  BY <1>4, <1>5 DEF OneInv

\* A setup that fails where it is leaves what it reached, but for that step.
LEMMA FailedIsReached ==
  ASSUME setup \in SetupRow, NEW step \in Step, setup' = FailedIfOn(step),
         NEW other \in EarlyStep, other # step, Reached(other)
  PROVE  Reached(other)'
<1>1. Progress(setup') = Progress(setup)
  BY FailedIfOnProgress
<1>2. setup'.status = setup.status \/ setup.status = step
  BY DEF FailedIfOn
<1>. QED
  BY <1>1, <1>2 DEF Reached, Progress

\* A setup that moves on has reached the step it moves to, and all before.
LEMMA MovedIsReached ==
  ASSUME setup \in SetupRow, NEW step \in {"ready", "completed"} \cup Step,
         setup' = MoveTo(step), NEW other \in EarlyStep,
         other = step \/ Rank(step) > Rank(other)
  PROVE  Reached(other)'
<1>1. setup'.status = step
  BY MoveToRow
<1>2. Progress(setup') = Rank(step)
  BY MoveToProgress
<1>. QED
  BY <1>1, <1>2 DEF Reached, Progress

\* What the setup has reached, by the status of its row.
LEMMA ReachedByStatus ==
  ASSUME setup \in SetupRow, NEW other \in EarlyStep
  PROVE  /\ setup.status \in {"ready", "crawling"} => ~Reached(other)
         /\ setup.status = "profile_generation" =>
              (Reached(other) <=> other = "profile_generation")
         /\ setup.status = "failed" /\ setup.failedStep \in {"crawling", other} =>
              ~Reached(other)
BY ProgressOfRow, Ranks DEF Reached, EarlyStep

\* A worker that goes on with its job, or drops it, and a crawl, or an audit,
\* that leaves the setup alone.
LEMMA NothingMovedKeepsOne ==
  ASSUME OneInv, job' = job, late' = late,
         setup'.status = setup.status, Progress(setup') = Progress(setup)
  PROVE  OneInv'
<1>1. \A j \in Job : Active(j)' => Active(j) /\ job'[j].step = job[j].step
  BY DEF Active
<1>2. \A step : Reached(step) => Reached(step)'
  BY DEF Reached, Progress
<1>. QED
  BY <1>1, <1>2, GoingOnKeepsOne

\* A new job, in a free id, of a step the setup comes to now, or of a later one.
LEMMA EnqueuedKeepsOne ==
  ASSUME IInv, OneInv, FreeJobs # {}, NEW step \in JobStep,
         NEW a \in Audit \cup {NoAudit}, job' = Enqueue(step, a), late' = late,
         step \in EarlyStep => ~Reached(step) /\ Reached(step)',
         \A other \in EarlyStep : other # step /\ Reached(other) => Reached(other)'
  PROVE  OneInv'
<1> DEFINE f == FreshJob
<1>1. f \in Job
  BY FreshJobIsFree
<1>2. job' = [job EXCEPT ![f] = NewJob(step, a)]
  BY DEF Enqueue
<1> HIDE DEF f
<1>3. \A j \in Job : job'[j] = IF j = f THEN NewJob(step, a) ELSE job[j]
  BY <1>2 DEF IInv, TypeOK
<1>4. job'[f].step = step
  BY <1>1, <1>3 DEF NewJob
<1>5. \A j \in Job \ {f} : Active(j)' => Active(j) /\ job'[j].step = job[j].step
  BY <1>3 DEF Active
<1>. QED
  BY <1>1, <1>4, <1>5, NewJobKeepsOne

\* A worker that replaces its job by that of a step the setup comes to now, or
\* of a later one.
LEMMA ReplacedKeepsOne ==
  ASSUME IInv, OneInv, NEW w \in Worker, worker[w].at # "idle",
         NEW step \in JobStep, NEW a \in Audit \cup {NoAudit},
         job' = ReplaceJob(w, step, a), late' = late,
         step \in EarlyStep => ~Reached(step) /\ Reached(step)',
         \A other \in EarlyStep : other # step /\ Reached(other) => Reached(other)'
  PROVE  OneInv'
<1> DEFINE own == worker[w].job
<1>1. own \in Job
  BY DEF IInv, WorkersHoldTheirJobs
<1>2. job' = [job EXCEPT ![own] = NewJob(step, a)]
  BY DEF ReplaceJob
<1> HIDE DEF own
<1>3. \A j \in Job : job'[j] = IF j = own THEN NewJob(step, a) ELSE job[j]
  BY <1>2 DEF IInv, TypeOK
<1>4. job'[own].step = step
  BY <1>1, <1>3 DEF NewJob
<1>5. \A j \in Job \ {own} : Active(j)' => Active(j) /\ job'[j].step = job[j].step
  BY <1>3 DEF Active
<1>. QED
  BY <1>1, <1>4, <1>5, NewJobKeepsOne

\* A job that ends leaves the setup on what it had reached, or is the only job
\* of the step that fails with it, or the step has failed late.
LEMMA EndedKeepsOne ==
  ASSUME IInv, OneInv, NEW own \in Job, late \subseteq late',
         \A j \in Job : job'[j] = IF j = own THEN Ended ELSE job[j],
         \A early \in EarlyStep : \/ Reached(early) => Reached(early)'
                                  \/ Active(own) /\ job[own].step = early
                                  \/ early \in late'
  PROVE  OneInv'
<1>1. \A j \in Job : Active(j)' => j # own /\ Active(j) /\ job'[j] = job[j]
  BY DEF Active, Ended
<1>2. ASSUME NEW early \in EarlyStep \ late', NEW j \in Job,
             Active(j)', job'[j].step = early, Reached(early)
      PROVE  Reached(early)'
  <2>1. j # own /\ Active(j) /\ job[j].step = early /\ early \in EarlyStep \ late
    BY <1>1, <1>2
  <2>2. ~(Active(own) /\ job[own].step = early)
    BY <2>1 DEF OneInv, OneSetupJob
  <2>. QED
    BY <1>2, <2>2
<1>. QED
  BY <1>1, <1>2, GoingOnKeepsOne

\* A worker's own job, when it ends (EndJob).
LEMMA WorkerEndsKeepsOne ==
  ASSUME IInv, OneInv, NEW w \in Worker, worker[w].at # "idle",
         job' = EndJob(w), late \subseteq late',
         \A early \in EarlyStep :
           \/ Reached(early) => Reached(early)'
           \/ Active(worker[w].job) /\ worker[w].step = early
           \/ early \in late'
  PROVE  OneInv'
<1> DEFINE own == worker[w].job
<1>1. own \in Job /\ (Active(own) => job[own].step = worker[w].step)
  BY DEF IInv, WorkersHoldTheirJobs
<1>2. job' = [job EXCEPT ![own] = Ended]
  BY DEF EndJob
<1>3. \A early \in EarlyStep : \/ Reached(early) => Reached(early)'
                               \/ Active(own) /\ job[own].step = early
                               \/ early \in late'
  BY <1>1
<1> HIDE DEF own
<1>4. \A j \in Job : job'[j] = IF j = own THEN Ended ELSE job[j]
  BY <1>2 DEF IInv, TypeOK
<1>. QED
  BY <1>1, <1>3, <1>4, EndedKeepsOne

\* Crawls start and fail a setup that has reached no early step.
LEMMA CrawlKeepsOne ==
  ASSUME IInv, OneInv, NEW c \in Crawl, CrawlNext(c)
  PROVE  OneInv'
<1>1. setup \in SetupRow
  BY DEF IInv, TypeOK
<1>2. ASSUME job' = job, late' = late, \A early \in EarlyStep : ~Reached(early)
      PROVE  OneInv'
  BY <1>2, GoingOnKeepsOne DEF Active
<1>3. CASE StartCrawl(c)
  <2>1. job' = job /\ late' = late
    BY <1>3 DEF StartCrawl
  <2>2. \A early \in EarlyStep : ~Reached(early)
    BY <1>1, <1>3, ReachedByStatus DEF StartCrawl
  <2>. QED
    BY <1>2, <2>1, <2>2
<1>4. CASE \/ RequestCrawl(c) \/ DeleteCrawl(c) \/ ClaimCrawl(c)
           \/ MarkCrawlRunning(c) \/ CrawlStops(c) \/ CrawlerLeaves(c)
  <2>1. /\ job' = job /\ late' = late
        /\ setup'.status = setup.status /\ setup'.failedStep = setup.failedStep
    BY <1>1, <1>4 DEF RequestCrawl, DeleteCrawl, ClaimCrawl, MarkCrawlRunning,
                CrawlStops, CrawlerLeaves, SetupRow
  <2>2. Progress(setup') = Progress(setup)
    BY <2>1 DEF Progress
  <2>. QED
    BY <2>1, <2>2, NothingMovedKeepsOne
<1>5. CASE CancelCrawl(c) \/ CrawlFails(c) \/ ReclaimCrawl(c)
  <2>1. job' = job /\ late' = late /\ setup' = CrawlFailed(c)
    BY <1>5 DEF CancelCrawl, CrawlFails, ReclaimCrawl
  <2>2. CASE setup.status = "crawling"
    <3>1. \A early \in EarlyStep : ~Reached(early)
      BY <1>1, <2>2, ReachedByStatus
    <3>. QED
      BY <1>2, <2>1, <3>1
  <2>3. CASE setup.status # "crawling"
    <3>1. setup' = setup
      BY <2>1, <2>3 DEF CrawlFailed, FailedIfOn
    <3>. QED
      BY <2>1, <3>1, NothingMovedKeepsOne
  <2>. QED
    BY <2>2, <2>3
<1>6. CASE CrawlCompletes(c)
  <2>1. late' = late
    BY <1>6 DEF CrawlCompletes
  <2>2. CASE setup.status = "crawling" /\ setup.crawl = c
    <3>1. /\ setup' = MoveTo("profile_generation") /\ FreeJobs # {}
          /\ job' = Enqueue("profile_generation", NoAudit)
      BY <1>6, <2>2 DEF CrawlCompletes
    <3>2. /\ "profile_generation" \in JobStep /\ "profile_generation" \in Step
          /\ "profile_generation" \in EarlyStep
      BY DEF JobStep, Step, EarlyStep
    <3>3. \A early \in EarlyStep : ~Reached(early)
      BY <1>1, <2>2, ReachedByStatus
    <3>4. Reached("profile_generation")'
      BY <1>1, <3>1, <3>2, MovedIsReached
    <3>. QED
      BY <2>1, <3>1, <3>2, <3>3, <3>4, EnqueuedKeepsOne
  <2>3. CASE ~(setup.status = "crawling" /\ setup.crawl = c)
    <3>1. setup' = setup /\ job' = job
      BY <1>6, <2>3 DEF CrawlCompletes
    <3>. QED
      BY <2>1, <3>1, NothingMovedKeepsOne
  <2>. QED
    BY <2>2, <2>3
<1>7. CASE RequestAudit(c)
  <2>1. /\ job' = Enqueue("visibility", FreshAudit) /\ FreshAudit \in Audit
        /\ FreeJobs # {} /\ setup' = setup /\ late' = late
    BY <1>7, FreshAuditIsAbsent, RoomMeansFree DEF RequestAudit
  <2>2. "visibility" \in JobStep /\ "visibility" \notin EarlyStep
    BY DEF JobStep, EarlyStep
  <2>3. \A other \in EarlyStep : Reached(other) => Reached(other)'
    BY <2>1 DEF Reached, Progress
  <2>. QED
    BY <2>1, <2>2, <2>3, EnqueuedKeepsOne
<1>. QED
  BY <1>3, <1>4, <1>5, <1>6, <1>7 DEF CrawlNext, Crawling

\* A failed setup is retried where it failed, and prompts are asked for at any
\* time.
LEMMA AskedKeepsOne ==
  ASSUME IInv, OneInv, Resume \/ RequestPrompts
  PROVE  OneInv'
<1>1. setup \in SetupRow
  BY DEF IInv, TypeOK
<1>2. CASE Resume
  <2>1. PICK step \in JobStep : step = RetryStep(setup.failedStep)
    BY <1>2 DEF Resume, RetryStep, JobStep
  <2>2. step \in Step /\ (step \in EarlyStep => step = setup.failedStep)
    BY <2>1 DEF RetryStep, JobStep, Step, EarlyStep
  <2>3. /\ setup' = MoveTo(step) /\ job' = Enqueue(step, NoAudit)
        /\ FreeJobs # {} /\ late' = late
        /\ setup.status = "failed" /\ setup.failedStep \in JobStep
    BY <1>2, <2>1 DEF Resume
  <2>4. ASSUME NEW other \in EarlyStep, other # step, Reached(other)
        PROVE  Reached(other)'
    <3>1. Progress(setup) = Rank(setup.failedStep) /\ setup.status # other
      BY <1>1, <2>3, ProgressOfRow DEF EarlyStep
    <3>2. Rank(setup.failedStep) > Rank(other)
      BY <2>4, <3>1 DEF Reached
    <3>3. Rank(step) > Rank(other)
      <4>1. CASE setup.failedStep = "visibility"
        <5>1. step = "prompt_generation" /\ Rank(step) = 4
          BY <2>1, <4>1, Ranks DEF RetryStep
        <5>2. Rank(other) \in {2, 3}
          BY Ranks DEF EarlyStep
        <5>. QED
          BY <5>1, <5>2
      <4>2. CASE setup.failedStep # "visibility"
        BY <2>1, <3>2, <4>2 DEF RetryStep
      <4>. QED
        BY <4>1, <4>2
    <3>. QED
      BY <1>1, <2>2, <2>3, <3>3, MovedIsReached
  <2>5. step \in EarlyStep => ~Reached(step)
    BY <1>1, <2>2, <2>3, ReachedByStatus
  <2>6. step \in EarlyStep => Reached(step)'
    BY <1>1, <2>2, <2>3, MovedIsReached
  <2>. QED
    BY <2>3, <2>4, <2>5, <2>6, EnqueuedKeepsOne
<1>3. CASE RequestPrompts
  <2>1. /\ job' = Enqueue("prompt_generation", NoAudit) /\ FreeJobs # {}
        /\ setup' = setup /\ late' = late
    BY <1>3, RoomMeansFree DEF RequestPrompts
  <2>2. "prompt_generation" \in JobStep /\ "prompt_generation" \notin EarlyStep
    BY DEF JobStep, EarlyStep
  <2>3. \A other \in EarlyStep : Reached(other) => Reached(other)'
    BY <2>1 DEF Reached, Progress
  <2>. QED
    BY <2>1, <2>2, <2>3, EnqueuedKeepsOne
<1>. QED
  BY <1>2, <1>3

\* Claims and the work on a job: a step that is finished moves the setup on,
\* one that fails ends the only job of that step, unless it fails late.
LEMMA WorkerKeepsOne ==
  ASSUME IInv, OneInv, NEW w \in Worker, WorkerNext(w)
  PROVE  OneInv'
<1>1. setup \in SetupRow
  BY DEF IInv, TypeOK
<1>2. ASSUME setup' = setup
      PROVE  \A early \in EarlyStep : Reached(early) => Reached(early)'
  BY <1>2 DEF Reached, Progress
<1>3. ASSUME NEW j \in Job, ClaimJob(w, j)
      PROVE  OneInv'
  <2> DEFINE row == [job[j] EXCEPT !.status = "running"]
  <2>1. job[j] \in JobRow /\ Active(j)
    BY <1>3 DEF ClaimJob, IInv, TypeOK, Active
  <2>2. row.step = job[j].step
    BY <2>1 DEF JobRow
  <2>3. job' = [job EXCEPT ![j] = row] /\ setup' = setup /\ late' = late
    BY <1>3 DEF ClaimJob
  <2> HIDE DEF row
  <2>4. \A i \in Job : job'[i] = IF i = j THEN row ELSE job[i]
    BY <2>3 DEF IInv, TypeOK
  <2>5. \A i \in Job : Active(i)' => Active(i) /\ job'[i].step = job[i].step
    BY <2>1, <2>2, <2>4 DEF Active
  <2>. QED
    BY <1>2, <2>3, <2>5, GoingOnKeepsOne
<1>4. CASE FinishStep(w)
  <2>1. /\ worker[w].at # "idle" /\ late' = late
        /\ worker[w].step \in {"profile_generation", "keyword_analysis"}
    BY <1>4 DEF FinishStep, Handling
  <2>2. CASE setup.status = worker[w].step
    <3>1. PICK next \in {"keyword_analysis", "prompt_generation"} :
            /\ worker[w].step = "profile_generation" <=> next = "keyword_analysis"
            /\ setup' = MoveTo(next) /\ job' = ReplaceJob(w, next, NoAudit)
      BY <1>4, <2>2 DEF FinishStep
    <3>2. next \in JobStep /\ next \in Step
      BY DEF JobStep, Step
    <3>3. next \in EarlyStep => ~Reached(next)
      BY <1>1, <2>1, <2>2, <3>1, ReachedByStatus DEF EarlyStep
    <3>4. ASSUME NEW other \in EarlyStep, other # next, Reached(other)
          PROVE  Rank(next) > Rank(other)
      <4>1. CASE next = "keyword_analysis"
        BY <3>4, <4>1, Ranks DEF EarlyStep
      <4>2. CASE next = "prompt_generation"
        BY <4>2, Ranks DEF EarlyStep
      <4>. QED
        BY <4>1, <4>2
    <3>5. next \in EarlyStep => Reached(next)'
      BY <1>1, <3>1, <3>2, MovedIsReached
    <3>6. \A other \in EarlyStep : other # next /\ Reached(other) => Reached(other)'
      BY <1>1, <3>1, <3>2, <3>4, MovedIsReached
    <3>. QED
      BY <2>1, <3>1, <3>2, <3>3, <3>5, <3>6, ReplacedKeepsOne
  <2>3. CASE setup.status # worker[w].step
    <3>1. setup' = setup /\ job' = EndJob(w)
      BY <1>4, <2>3 DEF FinishStep
    <3>. QED
      BY <1>2, <2>1, <3>1, WorkerEndsKeepsOne
  <2>. QED
    BY <2>2, <2>3
<1>5. CASE FinishPrompts(w) \/ FinishAudit(w)
  <2>1. worker[w].at # "idle" /\ job' = EndJob(w) /\ late' = late
    BY <1>5 DEF FinishPrompts, FinishAudit, Handling
  <2>2. \/ setup' = setup
        \/ setup' = MoveTo("completed")
        \/ setup' = FailedIfOn("visibility")
    BY <1>5 DEF FinishPrompts, FinishAudit
  <2>3. CASE setup' = MoveTo("completed")
    <3>1. \A other \in EarlyStep : Rank("completed") > Rank(other)
      BY Ranks DEF EarlyStep
    <3>2. \A other \in EarlyStep : Reached(other)'
      BY <1>1, <2>3, <3>1, MovedIsReached
    <3>. QED
      BY <2>1, <3>2, WorkerEndsKeepsOne
  <2>4. CASE setup' = FailedIfOn("visibility")
    <3>1. "visibility" \in Step /\ "visibility" \notin EarlyStep
      BY DEF Step, JobStep, EarlyStep
    <3>2. \A other \in EarlyStep : Reached(other) => Reached(other)'
      BY <1>1, <2>4, <3>1, FailedIsReached
    <3>. QED
      BY <2>1, <3>2, WorkerEndsKeepsOne
  <2>. QED
    BY <1>2, <2>1, <2>2, <2>3, <2>4, WorkerEndsKeepsOne
<1>6. CASE JobFails(w)
  <2>1. /\ worker[w].at # "idle" /\ job' = EndJob(w) /\ late \subseteq late'
        /\ setup' = FailedIfOn(worker[w].step)
    BY <1>6 DEF JobFails
  <2>2. worker[w].step \in Step
    BY <2>1 DEF IInv, WorkersHoldTheirJobs, Step
  <2>3. ASSUME NEW early \in EarlyStep
        PROVE  \/ Reached(early) => Reached(early)'
               \/ Active(worker[w].job) /\ worker[w].step = early
               \/ early \in late'
    <3>1. CASE worker[w].step # early
      BY <1>1, <2>1, <2>2, <3>1, FailedIsReached
    <3>2. CASE worker[w].step = early /\ setup.status # early
      BY <1>2, <2>1, <3>2 DEF FailedIfOn
    <3>3. CASE /\ worker[w].step = early /\ setup.status = early
               /\ ~Active(worker[w].job)
      BY <1>6, <3>3 DEF JobFails, Late
    <3>. QED
      BY <3>1, <3>2, <3>3
  <2>. QED
    BY <2>1, <2>3, WorkerEndsKeepsOne
<1>7. CASE LaunchAudit(w)
  <2>1. /\ worker[w].at # "idle" /\ late' = late
        /\ setup' = MoveTo("visibility")
        /\ job' = ReplaceJob(w, "visibility", FreshAudit)
    BY <1>7 DEF LaunchAudit, Handling
  <2>2. /\ "visibility" \in JobStep /\ "visibility" \in Step
        /\ "visibility" \notin EarlyStep
    BY DEF JobStep, Step, EarlyStep
  <2>3. FreshAudit \in Audit
    BY <1>7, FreshAuditIsAbsent DEF LaunchAudit
  <2>4. \A other \in EarlyStep : Rank("visibility") > Rank(other)
    BY Ranks DEF EarlyStep
  <2>5. \A other \in EarlyStep : Reached(other)'
    BY <1>1, <2>1, <2>2, <2>4, MovedIsReached
  <2>. QED
    BY <2>1, <2>2, <2>3, <2>5, ReplacedKeepsOne
<1>8. CASE WriteQuestions(w) \/ BeginAudit(w) \/ EndAudit(w) \/ WorkerLeaves(w)
  <2>1. setup' = setup /\ job' = job /\ late' = late
    BY <1>8 DEF WriteQuestions, BeginAudit, EndAudit, WorkerLeaves
  <2>. QED
    BY <2>1, NothingMovedKeepsOne
<1>. QED
  BY <1>3, <1>4, <1>5, <1>6, <1>7, <1>8 DEF WorkerNext, Working

\* The sweep ends a job that is the only one of its step, as far as no late
\* failure has doubled it.
LEMMA SweepKeepsOne ==
  ASSUME IInv, OneInv,
         (\E j \in Job : ReclaimJob(j)) \/ \E a \in Audit : ReclaimAudit(a)
  PROVE  OneInv'
<1>1. setup \in SetupRow
  BY DEF IInv, TypeOK
<1>2. ASSUME NEW j \in Job, ReclaimJob(j)
      PROVE  OneInv'
  <2>1. /\ job' = [job EXCEPT ![j] = Ended] /\ setup' = FailedIfOn(job[j].step)
        /\ late' = late /\ Active(j)
    BY <1>2 DEF ReclaimJob, Active
  <2>2. \A i \in Job : job'[i] = IF i = j THEN Ended ELSE job[i]
    BY <2>1 DEF IInv, TypeOK
  <2>3. job[j].step \in Step
    BY <2>1 DEF IInv, JobsWellFormed, Step
  <2>4. \A early \in EarlyStep : \/ Reached(early) => Reached(early)'
                                 \/ job[j].step = early
    BY <1>1, <2>1, <2>3, FailedIsReached
  <2>. QED
    BY <2>1, <2>2, <2>4, EndedKeepsOne
<1>3. ASSUME NEW a \in Audit, ReclaimAudit(a)
      PROVE  OneInv'
  <2>1. setup' = setup /\ job' = job /\ late' = late
    BY <1>3 DEF ReclaimAudit
  <2>. QED
    BY <2>1, NothingMovedKeepsOne
<1>. QED
  BY <1>2, <1>3

\* There is one bootstrap job and one analysis job at most, however often a
\* step fails, is retried, is reclaimed under its worker, loses its worker or
\* is finished twice, until a worker fails the step after its job was given up.
THEOREM OneJobOfAStep == Spec => []OneSetupJob
<1>1. Init => OneInv
  BY DEF Init, OneInv, JobsAreReached, OneSetupJob, Active, Ended
<1>2. IInv /\ OneInv /\ [Next]_vars => OneInv'
  <2> SUFFICES ASSUME IInv, OneInv, [Next]_vars
               PROVE  OneInv'
    OBVIOUS
  <2>1. CASE UNCHANGED vars
    BY <2>1, NothingMovedKeepsOne DEF vars
  <2>2. CASE Next
    BY <2>2, CrawlKeepsOne, AskedKeepsOne, WorkerKeepsOne, SweepKeepsOne DEF Next
  <2>. QED
    BY <2>1, <2>2
<1>3. OneInv => OneSetupJob
  BY DEF OneInv
<1>. QED
  BY <1>1, <1>2, <1>3, Invariance, PTL DEF Spec
=============================================================================
