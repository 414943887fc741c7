----------------------------- MODULE IssueWork -----------------------------
(***************************************************************************)
(* Work that users mark done on one issue of a project, and the crawls     *)
(* that verify it.                                                         *)
(*                                                                         *)
(* An attempt gathers the users who did the work.  A crawl that starts     *)
(* locks the open attempts, judges them when it completes and hands them   *)
(* back when it fails.  Marking work done and completing a crawl are       *)
(* transactions of several statements, so each is several actions here;    *)
(* between any two of them crawls are requested, scheduled, claimed,       *)
(* cancelled, deleted and reclaimed, and worker processes die.             *)
(***************************************************************************)
EXTENDS Naturals, FiniteSets

CONSTANTS
  User,        \* members of the organization, who do the work
  Requester,   \* those of them who request crawls
  MaxCrawl,    \* bound: crawls of the project, numbered as created
  MaxAttempt   \* bound: attempts at the issue, numbered as created

ASSUME BoundsAssumption ==
  /\ Requester \subseteq User
  /\ MaxCrawl \in Nat \ {0} /\ MaxAttempt \in Nat

VARIABLES
  crawl,       \* the crawls rows
  worker,      \* per crawl: the goroutine that runs it
  item,        \* the status of the issue_work_items row
  attempt,     \* the issue_work_attempts rows with their contributors
  mark         \* the open transaction that marks work done

vars == <<crawl, worker, item, attempt, mark>>

-----------------------------------------------------------------------------
(* Rows and goroutines *)

Crawl   == 1..MaxCrawl
NoCrawl == 0                      \* a NULL reference
Issue   == 1..MaxAttempt          \* attempts at the issue
NoUser  == "nobody"

Ended == {"completed", "failed", "cancelled"}

\* upto: the attempts created by started_at are 1..upto.
\* issue: a home crawl has completed and found the issue.
CrawlRow ==
  [ status : {"none", "queued", "running", "deleted"} \cup Ended,
    source : {"manual", "auto", "competitor"},   \* mcp crawls are manual here
    by     : Requester \cup {NoUser},
    parent : Crawl \cup {NoCrawl},
    upto   : 0..MaxAttempt,
    issue  : BOOLEAN ]

\* batch, others, held: of the completion that is open, the attempts it
\* judges, the other open attempts it saw, and whether it completed the row.
Worker ==
  [ at     : {"none", "claimed", "locking", "crawling", "finishing",
              "settling"},
    batch  : SUBSET Issue,
    others : SUBSET Issue,
    held   : BOOLEAN ]

AttemptRow ==
  [ status   : {"none", "awaiting_verification", "not_verified", "fixed",
                "still_open", "deleted"},
    locked   : BOOLEAN,
    source   : Crawl \cup {NoCrawl},
    verifier : Crawl \cup {NoCrawl},             \* verification_crawl_id
    workers  : SUBSET User ]                     \* the contributors

\* attempt: 0 when no transaction is open; source: the crawl of a new attempt,
\* NoCrawl when an attempt that exists was found.
Mark ==
  [ user : User \cup {NoUser}, attempt : 0..MaxAttempt,
    source : Crawl \cup {NoCrawl}, added : BOOLEAN ]

TypeOK ==
  /\ crawl \in [Crawl -> CrawlRow]
  /\ worker \in [Crawl -> Worker]
  /\ item \in {"open", "awaiting_verification", "fixed"}
  /\ attempt \in [Issue -> AttemptRow]
  /\ mark \in Mark

NotCrawled ==
  [status |-> "none", source |-> "manual", by |-> NoUser, parent |-> NoCrawl,
   upto |-> 0, issue |-> FALSE]

Away == [at |-> "none", batch |-> {}, others |-> {}, held |-> FALSE]

NoAttempt == [status |-> "none", locked |-> FALSE, source |-> NoCrawl,
              verifier |-> NoCrawl, workers |-> {}]

NoMark == [user |-> NoUser, attempt |-> 0, source |-> NoCrawl, added |-> FALSE]

\* The first crawl of the project has found the issue; the row of the item is
\* inserted, open, by the first upsert.
Init ==
  /\ \E u \in Requester :
       crawl = [c \in Crawl |->
                  IF c = 1 THEN [NotCrawled EXCEPT !.status = "completed",
                                   !.by = u, !.issue = TRUE]
                  ELSE NotCrawled]
  /\ worker = [c \in Crawl |-> Away]
  /\ item = "open"
  /\ attempt = [a \in Issue |-> NoAttempt]
  /\ mark = NoMark

-----------------------------------------------------------------------------
(* What the statements read *)

Home(c) == crawl[c].source \in {"manual", "auto"}

With(S) == {c \in Crawl : crawl[c].status \in S}

Running(c) == crawl[c].status = "running"

\* Open attempts; the uncommitted one of a mark is seen by nobody.
Active == {a \in Issue :
             attempt[a].status \in {"awaiting_verification", "not_verified"}}

Free == {a \in Active : ~attempt[a].locked}

GetActiveIssueWorkAttemptForWorkItem == {a \in Free : \A b \in Free : b <= a}

ListIssueWorkAttemptsForVerification(c) ==
  {a \in Active : /\ attempt[a].locked
                  /\ attempt[a].verifier = c /\ attempt[a].source # c}

\* How many attempts have been created, that of an open mark included.
Made == Cardinality({a \in Issue : attempt[a].status # "none"
                                     \/ (mark.attempt = a /\ mark.source # NoCrawl)})

\* The issue is looked up before the transaction that uses it: its crawl was
\* the latest completed one then and need not be any more.
Workable == {c \in With({"completed"}) : Home(c) /\ crawl[c].issue}

\* The unique indexes on running crawls: one for a user, one auto crawl.
Excludes(d, c) ==
  /\ d # c /\ Running(d)
  /\ \/ crawl[c].by # NoUser /\ crawl[d].by = crawl[c].by
     \/ crawl[c].source = "auto" /\ crawl[d].source = "auto"

\* The attempts as they are once the crawls in C are deleted: both references
\* are set to NULL.
Forget(C) ==
  [a \in Issue |->
     [attempt[a] EXCEPT
        !.source   = IF @ \in C THEN NoCrawl ELSE @,
        !.verifier = IF @ \in C THEN NoCrawl ELSE @]]

\* Variant: only attempts that no crawl has judged before are released.
ReleasesTheFresh(C) ==
  [a \in Issue |->
     IF attempt[a].status = "awaiting_verification" /\ attempt[a].verifier \in C
       THEN [attempt[a] EXCEPT !.locked = FALSE, !.verifier = NoCrawl]
       ELSE attempt[a]]

\* The attempts as they are once the open ones of the crawls in C are released.
ReleaseIssueWorkAttemptsForFailedCrawl(C) ==
  [a \in Issue |->
     IF a \in Active /\ attempt[a].verifier \in C
       THEN [attempt[a] EXCEPT !.locked = FALSE, !.verifier = NoCrawl]
       ELSE attempt[a]]

-----------------------------------------------------------------------------
(* Crawls are created *)

CreateCrawl(rows, source, u, p) ==
  \E c \in Crawl :
    /\ crawl[c].status = "none" /\ \A d \in 1..(c - 1) : crawl[d].status # "none"
    /\ crawl' = [rows EXCEPT ![c] =
                   [NotCrawled EXCEPT !.status = "queued", !.source = source,
                                      !.by = u, !.parent = p]]

RequestCrawl(u) ==
  /\ CreateCrawl(crawl, "manual", u, NoCrawl)
  /\ UNCHANGED <<worker, item, attempt, mark>>

\* A schedule is due; home crawls that wait or run hold it back.
SweepDueAutoCrawls ==
  /\ ~ \E c \in With({"queued", "running"}) : Home(c)
  /\ CreateCrawl(crawl, "auto", NoUser, NoCrawl)
  /\ UNCHANGED <<worker, item, attempt, mark>>

Child(p) == {c \in Crawl : crawl[c].parent = p}

Delete(C) ==
  [c \in Crawl |-> IF c \in C THEN [NotCrawled EXCEPT !.status = "deleted"]
                   ELSE crawl[c]]

\* Rows that an open transaction has changed, or refers to, keep a crawl.
Pinned(C) ==
  \/ mark.source \in C
  \/ \E w \in Crawl : \E a \in worker[w].batch :
       attempt[a].source \in C \/ attempt[a].verifier \in C

\* The project has one competitor, so failed children are all there is.
EnqueueMissing(u, p) ==
  /\ crawl[p].status = "completed" /\ Home(p)
  /\ Child(p) \subseteq With({"failed", "cancelled"}) /\ ~Pinned(Child(p))
  /\ CreateCrawl(Delete(Child(p)), "competitor", u, p)
  /\ attempt' = Forget(Child(p))
  /\ UNCHANGED <<worker, item, mark>>

-----------------------------------------------------------------------------
(* Crawls are claimed and run *)

Go(c, place) == worker' = [worker EXCEPT ![c] = [Away EXCEPT !.at = place]]

Start(c) == crawl' = [crawl EXCEPT ![c].status = "running", ![c].upto = Made]

\* The first of the waiting crawls in C is claimed.
Claim(C) ==
  \E c \in C :
    /\ \A d \in C : c <= d
    /\ Start(c)
    /\ Go(c, "claimed")
    /\ UNCHANGED <<item, attempt, mark>>

ClaimNextQueuedCrawlManual ==
  Claim({c \in With({"queued"}) : crawl[c].source # "auto"
                                    /\ ~ \E d \in Crawl : Excludes(d, c)})

ClaimNextQueuedCrawlAuto ==
  Claim({c \in With({"queued"}) : crawl[c].source = "auto"
                                    /\ ~ \E d \in Crawl : Running(d) /\ Home(d)})

\* The row is started again whatever its status, if it is there; an index that
\* refuses the update ends the run.
MarkCrawlRunning(c) ==
  /\ worker[c].at = "claimed"
  /\ \/ /\ crawl[c].status = "deleted" /\ UNCHANGED crawl
        /\ Go(c, "locking")
     \/ /\ crawl[c].status # "deleted" /\ ~ \E d \in Crawl : Excludes(d, c)
        /\ Start(c)
        /\ Go(c, "locking")
     \/ /\ crawl[c].status # "deleted" /\ \E d \in Crawl : Excludes(d, c)
        /\ Go(c, "none")
        /\ UNCHANGED crawl
  /\ UNCHANGED <<item, attempt, mark>>

\* Variant: whatever is free by now is locked.
LocksWhatIsFree(c) ==
  /\ worker[c].at = "locking"
  /\ attempt' = [a \in Issue |->
       IF a \in Free /\ crawl[c].status # "deleted"
         THEN [attempt[a] EXCEPT !.locked = TRUE, !.verifier = c]
         ELSE attempt[a]]
  /\ Go(c, "crawling")
  /\ UNCHANGED <<crawl, item, mark>>

LockIssueWorkAttemptsForCrawlStart(c) ==
  /\ worker[c].at = "locking"
  /\ attempt' = [a \in Issue |->
       IF a \in Free /\ crawl[c].status # "deleted" /\ a <= crawl[c].upto
         THEN [attempt[a] EXCEPT !.locked = TRUE, !.verifier = c]
         ELSE attempt[a]]
  /\ Go(c, "crawling")
  /\ UNCHANGED <<crawl, item, mark>>

\* ensureCrawlRunning, after fetching and between the stages of the analysis.
CheckRunning(c) ==
  /\ worker[c].at = "crawling"
  /\ Go(c, IF Running(c) THEN "finishing" ELSE "none")
  /\ UNCHANGED <<crawl, item, attempt, mark>>

\* The completion begins: the row is completed if it still runs, and in
\* either case the attempts of the crawl are listed and judged.
BeginSettle(c) ==
  LET batch == ListIssueWorkAttemptsForVerification(c)
  IN  /\ worker[c].at = "finishing"
      /\ worker' = [worker EXCEPT ![c] =
           [at |-> "settling", batch |-> batch,
            others |-> IF Cardinality(batch) = 1 THEN Active \ batch ELSE {},
            held |-> Running(c)]]
      /\ UNCHANGED <<crawl, item, attempt, mark>>

\* Whether the crawl may have fetched what the issue was found on: the evidence
\* needs the source, and a competitor's crawl sees none of the pages.
MayObserve(c, a) == attempt[a].source # NoCrawl /\ Home(c)

classifyIssueWorkVerification(observed, present) ==
  CASE ~observed             -> "not_verified"
    [] observed /\ present   -> "still_open"
    [] observed /\ ~present  -> "fixed"

\* Variants: the item takes the attempt's result, or keeps the first guess of
\* reconcileIssueWorkAttempts.
ResultAsStatus(verdict) == verdict

StaysFixed(verdict) == IF verdict = "still_open" THEN "open" ELSE "fixed"

ItemStatus(verdict) ==
  CASE verdict = "fixed"        -> "fixed"
    [] verdict = "still_open"   -> "open"
    [] verdict = "not_verified" -> "awaiting_verification"

\* Of every attempt of the batch; one that was not verified is free again.
UpdateIssueWorkAttemptVerification(c, verdict) ==
  [a \in Issue |->
     IF a \in DOMAIN verdict
       THEN [attempt[a] EXCEPT !.status = verdict[a], !.verifier = c,
                               !.locked = @ /\ verdict[a] # "not_verified"]
       ELSE attempt[a]]

\* The item gets the verdict on the last attempt unless another is open.  The
\* statement that waited for the item's row judges by the others it saw before.
UpdateIssueWorkItemStatusAfterVerification(c, verdict) ==
  LET last  == CHOOSE a \in DOMAIN verdict : \A b \in DOMAIN verdict : b <= a
      other == (IF Cardinality(DOMAIN verdict) = 1 THEN worker[c].others
                ELSE Active \ DOMAIN verdict)
                 \cup {a \in DOMAIN verdict \ {last} : verdict[a] = "not_verified"}
  IN  item' = IF other # {} THEN "awaiting_verification"
              ELSE ItemStatus(verdict[last])

Complete(c, issue) ==
  [crawl EXCEPT ![c].status = "completed", ![c].issue = issue]

\* The item's row was free and the transaction commits.
EndSettle(c) ==
  \E present \in BOOLEAN, observed \in SUBSET worker[c].batch :
    LET verdict == [a \in worker[c].batch |->
                      classifyIssueWorkVerification(a \in observed, present)]
    IN
    /\ worker[c].at = "settling"
    /\ \A a \in observed : MayObserve(c, a)
    /\ crawl' = IF worker[c].held THEN Complete(c, present /\ Home(c)) ELSE crawl
    /\ attempt' = UpdateIssueWorkAttemptVerification(c, verdict)
    /\ IF worker[c].batch = {} THEN UNCHANGED item
       ELSE mark = NoMark /\ UpdateIssueWorkItemStatusAfterVerification(c, verdict)
    /\ Go(c, "none")
    /\ UNCHANGED mark

FailRunning(c) ==
  IF Running(c) THEN [crawl EXCEPT ![c].status = "failed"] ELSE crawl

\* An error, a panic, or a stop seen while pages are fetched.
MarkCrawlFailed(c) ==
  /\ worker[c].at \in {"claimed", "locking", "crawling", "finishing"}
  /\ crawl' = FailRunning(c)
  /\ attempt' = ReleaseIssueWorkAttemptsForFailedCrawl({c})
  /\ Go(c, "none")
  /\ UNCHANGED <<item, mark>>

\* The process dies, or a statement fails and the run ends without a word; an
\* open completion is rolled back.
CrawlerLeaves(c) ==
  /\ worker[c].at # "none"
  /\ Go(c, "none")
  /\ UNCHANGED <<crawl, item, attempt, mark>>

\* The cutoff is past every budget of a run, so nobody runs the crawl.
ReclaimStaleRunningCrawl(c) ==
  /\ Running(c) /\ worker[c].at = "none"
  /\ crawl' = FailRunning(c)
  /\ attempt' = ReleaseIssueWorkAttemptsForFailedCrawl({c})
  /\ UNCHANGED <<worker, item, mark>>

-----------------------------------------------------------------------------
(* What users do to crawls *)

\* The row is not locked by its own completion.
CancelCrawl(c) ==
  /\ c \in With({"queued", "running"}) /\ ~worker[c].held
  /\ crawl' = [crawl EXCEPT ![c].status = "cancelled"]
  /\ UNCHANGED <<worker, item, attempt, mark>>

\* The children go with their parent, those that run included.
DeleteCrawl(c) ==
  LET gone == {c} \cup Child(c)
  IN  /\ c \in With(Ended)
      /\ ~Pinned(gone) /\ \A d \in gone : ~worker[d].held
      /\ crawl' = Delete(gone)
      /\ attempt' = Forget(gone)
      /\ UNCHANGED <<worker, item, mark>>

-----------------------------------------------------------------------------
(* What users do to attempts *)

\* The upsert locks the item; then the newest free attempt is found, or one is
\* inserted, which refers to the crawl of the issue and keeps it.
BeginMark(u) ==
  /\ mark = NoMark
  /\ \E c \in Workable :
       \/ \E a \in GetActiveIssueWorkAttemptForWorkItem :
            mark' = [user |-> u, attempt |-> a, source |-> NoCrawl,
                     added |-> FALSE]
       \/ /\ Free = {} /\ Made < MaxAttempt
          /\ mark' = [user |-> u, attempt |-> Made + 1, source |-> c,
                      added |-> FALSE]
  /\ UNCHANGED <<crawl, worker, item, attempt>>

\* The contributor's row keeps the attempt's key from here on.
AddIssueWorkAttemptContributor ==
  /\ mark # NoMark /\ ~mark.added
  /\ mark.source # NoCrawl \/ mark.attempt \in Free
  /\ mark' = [mark EXCEPT !.added = TRUE]
  /\ UNCHANGED <<crawl, worker, item, attempt>>

\* The attempt with one contributor more, whose rows are its workers here.
JoinIssueWorkAttempt ==
  [attempt[mark.attempt] EXCEPT
     !.workers = attempt[mark.attempt].workers \cup {mark.user}]

CreateIssueWorkAttempt ==
  [NoAttempt EXCEPT !.status  = "awaiting_verification",
                    !.source  = mark.source,
                    !.workers = {mark.user}]

CommitMark ==
  /\ mark.added
  /\ attempt' = [attempt EXCEPT ![mark.attempt] =
       IF mark.source = NoCrawl THEN JoinIssueWorkAttempt
       ELSE CreateIssueWorkAttempt]
  /\ item' = "awaiting_verification"
  /\ mark' = NoMark
  /\ UNCHANGED <<crawl, worker>>

\* A conflict with a verification that has begun, or an error.  The number of
\* an attempt that was not inserted after all is not used again.
AbortMark ==
  /\ mark # NoMark
  /\ attempt' = IF mark.source = NoCrawl THEN attempt
                ELSE [attempt EXCEPT ![mark.attempt].status = "deleted"]
  /\ mark' = NoMark
  /\ UNCHANGED <<crawl, worker, item>>

\* Variant: the attempt is read without its lock.
RemovesUnlocked(u, a) ==
  /\ a \in Free /\ u \in attempt[a].workers
  /\ IF attempt[a].workers = {u}
       THEN /\ attempt' = [attempt EXCEPT ![a] =
                             [NoAttempt EXCEPT !.status = "deleted"]]
            /\ item' = "open"
       ELSE /\ attempt' = [attempt EXCEPT ![a].workers = @ \ {u}]
            /\ UNCHANGED item
  /\ UNCHANGED <<crawl, worker, mark>>

\* The attempt is locked first, so a contributor being added to it holds this
\* up; one that is left empty is deleted and the item, if free, opened.
RemoveOwnContribution(u, a) ==
  /\ a \in Free /\ u \in attempt[a].workers
  /\ ~(mark.added /\ mark.attempt = a)
  /\ IF attempt[a].workers = {u}
       THEN /\ mark = NoMark
            /\ attempt' = [attempt EXCEPT ![a] =
                             [NoAttempt EXCEPT !.status = "deleted"]]
            /\ item' = "open"
       ELSE /\ attempt' = [attempt EXCEPT ![a].workers = @ \ {u}]
            /\ UNCHANGED item
  /\ UNCHANGED <<crawl, worker, mark>>

-----------------------------------------------------------------------------
(* Specification *)

Next ==
  \/ \E u \in Requester : RequestCrawl(u)
  \/ \E u \in User : BeginMark(u)
  \/ \E u \in User, a \in Issue : RemoveOwnContribution(u, a)
  \/ \E u \in Requester, p \in Crawl : EnqueueMissing(u, p)
  \/ SweepDueAutoCrawls
  \/ ClaimNextQueuedCrawlManual
  \/ ClaimNextQueuedCrawlAuto
  \/ AddIssueWorkAttemptContributor
  \/ CommitMark
  \/ AbortMark
  \/ \E c \in Crawl :
       \/ MarkCrawlRunning(c)
       \/ LockIssueWorkAttemptsForCrawlStart(c)
       \/ CheckRunning(c)
       \/ BeginSettle(c)
       \/ EndSettle(c)
       \/ MarkCrawlFailed(c)
       \/ CrawlerLeaves(c)
       \/ ReclaimStaleRunningCrawl(c)
       \/ CancelCrawl(c)
       \/ DeleteCrawl(c)

Spec == Init /\ [][Next]_vars

-----------------------------------------------------------------------------
(* Properties *)

\* A locked attempt can neither be withdrawn nor joined.  The lock is held for
\* a crawl that runs, or that a user has cancelled or deleted: failing,
\* reclaiming and completing a crawl leave none behind, though the attempts are
\* locked by a statement of their own after the crawl has started.
LocksAreCarried ==
  \A a \in Active :
    attempt[a].locked =>
      \/ attempt[a].verifier = NoCrawl
      \/ Running(attempt[a].verifier)
      \/ crawl[attempt[a].verifier].status = "cancelled"

\* A crawl judges only attempts that were there when it started, and never the
\* attempt at an issue it found itself.  A member who joins such an attempt
\* between the start of the crawl and its lock statement is credited all the same.
VerdictsAfterWork ==
  \A a \in Issue :
    attempt[a].verifier # NoCrawl =>
      /\ a <= crawl[attempt[a].verifier].upto
      /\ attempt[a].source # attempt[a].verifier

\* Whoever joins or withdraws while an attempt is found, deleted or judged, an
\* attempt has somebody to credit as long as it exists, and nobody after.
WorkIsCredited ==
  \A a \in Issue :
    (attempt[a].workers = {}) <=> (attempt[a].status \in {"none", "deleted"})

\* The item is shown as fixed only while some attempt at it has been found
\* fixed, whatever was marked or withdrawn while crawls completed.
FixedIsProven ==
  item = "fixed" => \E a \in Issue : attempt[a].status = "fixed"

=============================================================================
