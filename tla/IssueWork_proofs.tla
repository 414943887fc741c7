-------------------------- MODULE IssueWork_proofs --------------------------
(***************************************************************************)
(* Crawls judge the work that was there when they started, hold attempts   *)
(* no longer than they run, and never lose whose work it was, for every    *)
(* number of users, crawls and attempts.                                   *)
(*                                                                         *)
(* The invariant relates each crawl to the goroutine that runs it, each    *)
(* attempt to the crawls it refers to, and the batch of an open completion *)
(* to the attempts it was read from, which have to be unchanged when the   *)
(* verdicts are written.                                                   *)
(***************************************************************************)
EXTENDS IssueWork, FiniteSetTheorems, WellFoundedInduction, TLAPS

IsActive(a) == attempt[a].status \in {"awaiting_verification", "not_verified"}

\* A crawl and its goroutine: only its completion ends it in the end.
CrawlOK(row, w) ==
  /\ w.at # "none" => row.status \in {"running", "cancelled", "deleted"}
  /\ w.at # "settling" => w.batch = {} /\ w.held = FALSE
  /\ w.held => row.status = "running"

\* An attempt refers to a crawl that has locked it, or judged it.
VerifierOK(a, row, w) ==
  /\ row.status \notin {"none", "queued", "deleted"}
  /\ a <= row.upto
  /\ w.at \notin {"claimed", "locking"}

\* A crawl that still holds an attempt.
HolderOK(a, row, w) ==
  /\ row.status \in {"running", "cancelled"}
  /\ w.at = "settling" => a \in w.batch

AttemptOK(a) ==
  /\ attempt[a].source # NoCrawl =>
       crawl[attempt[a].source].status = "completed"
  /\ attempt[a].verifier # NoCrawl =>
       /\ VerifierOK(a, crawl[attempt[a].verifier], worker[attempt[a].verifier])
       /\ attempt[a].source # attempt[a].verifier
       /\ IsActive(a) /\ attempt[a].locked =>
            HolderOK(a, crawl[attempt[a].verifier], worker[attempt[a].verifier])
  /\ attempt[a].workers = {} <=> attempt[a].status \in {"none", "deleted"}

\* What a completion judges still waits for it.
BatchOK(c) ==
  \A a \in worker[c].batch :
    IsActive(a) /\ attempt[a].locked /\ attempt[a].verifier = c

\* Attempts are numbered in turn, that of an open mark last.
Numbered(m) ==
  \A a \in Issue :
    (attempt[a].status # "none" \/ (mark.source # NoCrawl /\ mark.attempt = a))
      <=> a <= m

MarkOK ==
  \/ mark = NoMark
  \/ /\ mark.user \in User /\ mark.attempt \in Issue
     /\ mark.source # NoCrawl =>
          /\ crawl[mark.source].status = "completed"
          /\ attempt[mark.attempt].status = "none"
     /\ mark.source = NoCrawl /\ mark.added =>
          attempt[mark.attempt].status \notin {"none", "deleted"}

Rows == /\ \A c \in Crawl : CrawlOK(crawl[c], worker[c]) /\ BatchOK(c)
        /\ \A a \in Issue : AttemptOK(a)

Marks == MarkOK /\ \E m \in 0..MaxAttempt : Numbered(m)

IInv == TypeOK /\ Rows /\ Marks /\ FixedIsProven

-----------------------------------------------------------------------------
(* One crawl, or its goroutine, moves; attempts stay *)

\* No attempt refers to a crawl that has not locked any.
LEMMA Unreferenced ==
  ASSUME IInv, NEW c \in Crawl,
         \/ crawl[c].status \in {"none", "queued", "deleted"}
         \/ worker[c].at \in {"claimed", "locking"}
  PROVE  \A a \in Issue : attempt[a].verifier # c
BY DEF IInv, Rows, AttemptOK, VerifierOK, Crawl, NoCrawl

LEMMA CrawlMoves ==
  ASSUME IInv, NEW c \in Crawl, NEW row \in CrawlRow, NEW w \in Worker,
         crawl' = [crawl EXCEPT ![c] = row],
         worker' = [worker EXCEPT ![c] = w],
         UNCHANGED <<item, attempt, mark>>,
         CrawlOK(row, w),
         crawl[c].status = "completed" => row.status = "completed",
         \A a \in Issue : attempt[a].verifier = c =>
           /\ VerifierOK(a, row, w)
           /\ IsActive(a) /\ attempt[a].locked => HolderOK(a, row, w),
         \A a \in w.batch :
           IsActive(a) /\ attempt[a].locked /\ attempt[a].verifier = c
  PROVE  IInv'
<1>1. /\ crawl \in [Crawl -> CrawlRow] /\ worker \in [Crawl -> Worker]
      /\ attempt \in [Issue -> AttemptRow]
  BY DEF IInv, TypeOK
<1>2. /\ crawl' \in [Crawl -> CrawlRow] /\ worker' \in [Crawl -> Worker]
      /\ \A d \in Crawl : crawl'[d] = IF d = c THEN row ELSE crawl[d]
      /\ \A d \in Crawl : worker'[d] = IF d = c THEN w ELSE worker[d]
  BY <1>1
<1>3. TypeOK'
  BY <1>2 DEF IInv, TypeOK
<1>4. ASSUME NEW d \in Crawl
      PROVE  CrawlOK(crawl[d], worker[d])' /\ BatchOK(d)'
  BY <1>2 DEF IInv, Rows, BatchOK, IsActive
<1>5. ASSUME NEW a \in Issue
      PROVE  AttemptOK(a)'
  <2>1. AttemptOK(a) /\ attempt'[a] = attempt[a]
        /\ attempt[a].source \in Crawl \cup {NoCrawl}
        /\ attempt[a].verifier \in Crawl \cup {NoCrawl}
    BY <1>1 DEF IInv, Rows, AttemptRow
  <2>2. CASE attempt[a].verifier = c
    BY <1>2, <2>1, <2>2 DEF AttemptOK, IsActive
  <2>3. CASE attempt[a].verifier # c
    BY <1>2, <2>1, <2>3 DEF AttemptOK, IsActive
  <2> QED BY <2>2, <2>3
<1>6. MarkOK'
  <2>1. mark.source \in Crawl \cup {NoCrawl}
    BY DEF IInv, TypeOK, Mark
  <2> QED BY <1>2, <2>1 DEF IInv, Marks, MarkOK
<1>7. Marks' /\ FixedIsProven'
  BY <1>6 DEF IInv, Marks, Numbered, FixedIsProven
<1> QED BY <1>3, <1>4, <1>5, <1>7 DEF IInv, Rows

\* The row CreateCrawl inserts.
LEMMA QueuedRow ==
  ASSUME NEW source \in {"manual", "auto", "competitor"},
         NEW u \in Requester \cup {NoUser}, NEW p \in Crawl \cup {NoCrawl},
         NEW row,
         row = [NotCrawled EXCEPT !.status = "queued", !.source = source,
                                  !.by = u, !.parent = p]
  PROVE  row \in CrawlRow /\ row.status = "queued"
<1> DEFINE r1 == [NotCrawled EXCEPT !.status = "queued"]
           r2 == [r1 EXCEPT !.source = source]
           r3 == [r2 EXCEPT !.by = u]
<1>1. row = [r3 EXCEPT !.parent = p]
  BY Zenon
<1>2. r1 \in CrawlRow /\ r1.status = "queued"
  <2>1. 0 \in 0..MaxAttempt
    BY BoundsAssumption
  <2>2. NotCrawled \in CrawlRow
    BY <2>1 DEF NotCrawled, CrawlRow
  <2> QED BY <2>2 DEF CrawlRow
<1> HIDE DEF r1
<1>3. r2 \in CrawlRow /\ r2.status = "queued"
  BY <1>2 DEF CrawlRow
<1> HIDE DEF r2
<1>4. r3 \in CrawlRow /\ r3.status = "queued"
  BY <1>3 DEF CrawlRow
<1> HIDE DEF r3
<1> QED BY <1>1, <1>4 DEF CrawlRow

\* A new row is queued; nothing refers to it.
LEMMA Creates ==
  ASSUME IInv, NEW source \in {"manual", "auto"},
         NEW u \in Requester \cup {NoUser},
         CreateCrawl(crawl, source, u, NoCrawl),
         UNCHANGED <<worker, item, attempt, mark>>
  PROVE  IInv'
<1>1. PICK c \in Crawl :
        /\ crawl[c].status = "none"
        /\ crawl' = [crawl EXCEPT ![c] =
             [NotCrawled EXCEPT !.status = "queued", !.source = source,
                                !.by = u, !.parent = NoCrawl]]
  BY DEF CreateCrawl
<1> DEFINE row == [NotCrawled EXCEPT !.status = "queued", !.source = source,
                                     !.by = u, !.parent = NoCrawl]
<1>2. row \in CrawlRow /\ row.status = "queued"
  <2>1. NoCrawl \in Crawl \cup {NoCrawl}
        /\ source \in {"manual", "auto", "competitor"}
    OBVIOUS
  <2> QED BY <2>1, QueuedRow, Zenon
<1>3. crawl' = [crawl EXCEPT ![c] = row]
  BY <1>1
<1> HIDE DEF row
<1> DEFINE w == worker[c]
<1>4. w \in Worker /\ worker' = [worker EXCEPT ![c] = w]
  BY DEF IInv, TypeOK
<1>5. w.at = "none" /\ w.batch = {} /\ w.held = FALSE
  BY <1>1 DEF IInv, Rows, CrawlOK
<1> HIDE DEF w
<1>6. CrawlOK(row, w)
  BY <1>5 DEF CrawlOK
<1>7. \A a \in Issue : attempt[a].verifier # c
  BY <1>1, Unreferenced
<1> QED BY <1>1, <1>2, <1>3, <1>4, <1>5, <1>6, <1>7, CrawlMoves

\* Rows that start, and goroutines on their way.
LEMMA StartedRow ==
  ASSUME IInv, NEW c \in Crawl, Start(c)
  PROVE  \E row \in CrawlRow : /\ crawl' = [crawl EXCEPT ![c] = row]
                               /\ row.status = "running"
<1> DEFINE p   == [crawl[c] EXCEPT !.status = "running"]
           row == [p EXCEPT !.upto = Made]
<1>1. crawl[c] \in CrawlRow
  BY DEF IInv, TypeOK
<1>2. Made \in 0..MaxAttempt
  <2> DEFINE S == {a \in Issue : attempt[a].status # "none"
                                   \/ (mark.attempt = a /\ mark.source # NoCrawl)}
  <2>1. IsFiniteSet(Issue) /\ Cardinality(Issue) = MaxAttempt
    BY FS_Interval, BoundsAssumption DEF Issue
  <2>2. S \in SUBSET Issue
    OBVIOUS
  <2> HIDE DEF S
  <2>3. Cardinality(S) \in Nat /\ Cardinality(S) <= MaxAttempt
    BY <2>1, <2>2, FS_Subset, FS_CardinalityType
  <2>4. Made = Cardinality(S)
    BY DEF Made, S
  <2> QED BY <2>3, <2>4, BoundsAssumption
<1>3. crawl' = [crawl EXCEPT ![c] = row]
  BY Zenon DEF Start
<1>4. p \in CrawlRow /\ p.status = "running"
  BY <1>1 DEF CrawlRow
<1> HIDE DEF p
<1>5. row \in CrawlRow /\ row.status = "running"
  BY <1>2, <1>4 DEF CrawlRow
<1> HIDE DEF row
<1> QED BY <1>3, <1>5

Place == {"none", "claimed", "locking", "crawling", "finishing"}

LEMMA Goes ==
  ASSUME NEW c \in Crawl, NEW at \in Place, Go(c, at)
  PROVE  \E w \in Worker : /\ worker' = [worker EXCEPT ![c] = w]
                           /\ w.at = at /\ w.batch = {} /\ w.held = FALSE
<1> DEFINE w == [Away EXCEPT !.at = at]
<1>1. w \in Worker /\ w.at = at /\ w.batch = {} /\ w.held = FALSE
  BY DEF Away, Worker, Place
<1>2. worker' = [worker EXCEPT ![c] = w]
  BY DEF Go
<1> HIDE DEF w
<1> QED BY <1>1, <1>2

LEMMA Claims ==
  ASSUME IInv, ClaimNextQueuedCrawlManual \/ ClaimNextQueuedCrawlAuto
  PROVE  IInv'
<1>1. ASSUME NEW C \in SUBSET With({"queued"}), Claim(C)
      PROVE  IInv'
  <2>1. PICK c \in C : /\ Start(c) /\ Go(c, "claimed")
                       /\ UNCHANGED <<item, attempt, mark>>
    BY <1>1 DEF Claim
  <2>2. c \in Crawl /\ crawl[c].status = "queued"
    BY DEF With
  <2>3. PICK row \in CrawlRow : /\ crawl' = [crawl EXCEPT ![c] = row]
                                /\ row.status = "running"
    BY <2>1, <2>2, StartedRow
  <2>4. PICK w \in Worker : /\ worker' = [worker EXCEPT ![c] = w]
                            /\ w.at = "claimed" /\ w.batch = {} /\ w.held = FALSE
    BY <2>1, <2>2, Goes DEF Place
  <2>5. \A a \in Issue : attempt[a].verifier # c
    BY <2>2, Unreferenced
  <2>6. CrawlOK(row, w)
    BY <2>3, <2>4 DEF CrawlOK
  <2> QED BY <2>1, <2>2, <2>3, <2>4, <2>5, <2>6, CrawlMoves
<1>2. CASE ClaimNextQueuedCrawlManual
  BY <1>1, <1>2 DEF ClaimNextQueuedCrawlManual
<1>3. CASE ClaimNextQueuedCrawlAuto
  BY <1>1, <1>3 DEF ClaimNextQueuedCrawlAuto
<1> QED BY <1>2, <1>3

\* The row is started again, whatever has become of it: it has locked nothing.
LEMMA MarksRunning ==
  ASSUME IInv, NEW c \in Crawl, MarkCrawlRunning(c)
  PROVE  IInv'
<1>1. worker[c].at = "claimed" /\ UNCHANGED <<item, attempt, mark>>
  BY DEF MarkCrawlRunning
<1>2. \A a \in Issue : attempt[a].verifier # c
  BY <1>1, Unreferenced
<1>3. crawl[c].status \in {"running", "cancelled", "deleted"}
      /\ crawl[c] \in CrawlRow /\ crawl \in [Crawl -> CrawlRow]
  BY <1>1 DEF IInv, Rows, CrawlOK, TypeOK
<1>4. PICK at \in {"locking", "none"} :
        /\ Go(c, at)
        /\ Start(c) \/ UNCHANGED crawl
  BY DEF MarkCrawlRunning
<1>5. PICK row \in CrawlRow :
        /\ crawl' = [crawl EXCEPT ![c] = row]
        /\ row.status \in {"running", "cancelled", "deleted"}
  <2>1. CASE Start(c)
    BY <2>1, StartedRow
  <2>2. CASE UNCHANGED crawl
    BY <1>3, <2>2
  <2> QED BY <1>4, <2>1, <2>2
<1>6. PICK w \in Worker : /\ worker' = [worker EXCEPT ![c] = w]
                          /\ w.at = at /\ w.batch = {} /\ w.held = FALSE
  <2>1. at \in Place
    BY <1>4 DEF Place
  <2>2. Go(c, at)
    BY <1>4
  <2> QED BY <2>1, <2>2, Goes, ZenonT(60)
<1>7. CrawlOK(row, w)
  BY <1>5, <1>6 DEF CrawlOK
<1> QED BY <1>1, <1>2, <1>3, <1>5, <1>6, <1>7, CrawlMoves

\* A goroutine that goes on or ends while the row stays.
LEMMA GoroutineMoves ==
  ASSUME IInv, NEW c \in Crawl, CheckRunning(c) \/ CrawlerLeaves(c)
  PROVE  IInv'
<1>1. worker[c].at # "none" /\ UNCHANGED <<crawl, item, attempt, mark>>
  BY DEF CheckRunning, CrawlerLeaves
<1>2. crawl[c] \in CrawlRow /\ crawl' = [crawl EXCEPT ![c] = crawl[c]]
      /\ CrawlOK(crawl[c], worker[c])
  BY <1>1 DEF IInv, TypeOK, Rows
<1>3. PICK at \in {"none", "finishing"} :
        Go(c, at) /\ (at = "finishing" => worker[c].at = "crawling")
  BY DEF CheckRunning, CrawlerLeaves
<1>4. PICK w \in Worker : /\ worker' = [worker EXCEPT ![c] = w]
                          /\ w.at = at /\ w.batch = {} /\ w.held = FALSE
  <2>1. at \in Place
    BY <1>3 DEF Place
  <2>2. Go(c, at)
    BY <1>3
  <2> QED BY <2>1, <2>2, Goes, ZenonT(60)
<1>5. CrawlOK(crawl[c], w)
  BY <1>1, <1>2, <1>3, <1>4 DEF CrawlOK
<1>6. \A a \in Issue : attempt[a].verifier = c =>
        /\ VerifierOK(a, crawl[c], w)
        /\ IsActive(a) /\ attempt[a].locked => HolderOK(a, crawl[c], w)
  <2> SUFFICES ASSUME NEW a \in Issue, attempt[a].verifier = c
               PROVE  /\ VerifierOK(a, crawl[c], w)
                      /\ IsActive(a) /\ attempt[a].locked =>
                           HolderOK(a, crawl[c], w)
    OBVIOUS
  <2>1. AttemptOK(a) /\ c # NoCrawl
    BY DEF IInv, Rows, Crawl, NoCrawl
  <2> QED BY <1>4, <2>1 DEF AttemptOK, VerifierOK, HolderOK
<1> QED BY <1>1, <1>2, <1>4, <1>5, <1>6, CrawlMoves

\* A completion begins: its batch is what it finds locked for it.
LEMMA BeginsSettling ==
  ASSUME IInv, NEW c \in Crawl, BeginSettle(c)
  PROVE  IInv'
<1> DEFINE batch == ListIssueWorkAttemptsForVerification(c)
           w == [at |-> "settling", batch |-> batch,
                 others |-> IF Cardinality(batch) = 1 THEN Active \ batch
                            ELSE {},
                 held |-> Running(c)]
<1>1. worker[c].at = "finishing" /\ UNCHANGED <<crawl, item, attempt, mark>>
      /\ worker' = [worker EXCEPT ![c] = w]
  BY DEF BeginSettle
<1>2. crawl[c] \in CrawlRow /\ crawl' = [crawl EXCEPT ![c] = crawl[c]]
      /\ CrawlOK(crawl[c], worker[c])
  BY <1>1 DEF IInv, TypeOK, Rows
<1>3. \A a : a \in batch <=>
        /\ a \in Issue /\ IsActive(a) /\ attempt[a].locked
        /\ attempt[a].verifier = c /\ attempt[a].source # c
  BY DEF ListIssueWorkAttemptsForVerification, Active, IsActive
<1>4. w \in Worker /\ w.at = "settling" /\ w.batch = batch
      /\ w.held = Running(c)
  BY <1>3 DEF Worker, Active, Running
<1> HIDE DEF w, batch
<1>5. CrawlOK(crawl[c], w)
  BY <1>1, <1>2, <1>4 DEF CrawlOK, Running
<1>6. \A a \in Issue : attempt[a].verifier = c =>
        /\ VerifierOK(a, crawl[c], w)
        /\ IsActive(a) /\ attempt[a].locked => HolderOK(a, crawl[c], w)
  <2> SUFFICES ASSUME NEW a \in Issue, attempt[a].verifier = c
               PROVE  /\ VerifierOK(a, crawl[c], w)
                      /\ IsActive(a) /\ attempt[a].locked =>
                           HolderOK(a, crawl[c], w)
    OBVIOUS
  <2>1. AttemptOK(a) /\ c # NoCrawl
    BY DEF IInv, Rows, Crawl, NoCrawl
  <2> QED BY <1>3, <1>4, <2>1 DEF AttemptOK, VerifierOK, HolderOK
<1>7. \A a \in w.batch :
        IsActive(a) /\ attempt[a].locked /\ attempt[a].verifier = c
  BY <1>3, <1>4
<1> QED BY <1>1, <1>2, <1>4, <1>5, <1>6, <1>7, CrawlMoves

\* A request or a cancellation reaches the row only.
LEMMA Cancels ==
  ASSUME IInv, NEW c \in Crawl, CancelCrawl(c)
  PROVE  IInv'
<1> DEFINE row == [crawl[c] EXCEPT !.status = "cancelled"]
<1>1. /\ crawl[c].status \in {"queued", "running"} /\ ~worker[c].held
      /\ UNCHANGED <<worker, item, attempt, mark>>
  BY DEF CancelCrawl, With
<1> DEFINE w == worker[c]
<1>2. /\ crawl[c] \in CrawlRow /\ w \in Worker
      /\ worker' = [worker EXCEPT ![c] = w]
      /\ CrawlOK(crawl[c], w) /\ BatchOK(c)
  BY <1>1 DEF IInv, TypeOK, Rows
<1>3. row \in CrawlRow /\ row.status = "cancelled" /\ row.upto = crawl[c].upto
  BY <1>2 DEF CrawlRow, Ended
<1>4. crawl' = [crawl EXCEPT ![c] = row]
  BY Zenon DEF CancelCrawl
<1> HIDE DEF row
<1>5. CrawlOK(row, w)
  BY <1>1, <1>2, <1>3 DEF CrawlOK
<1>6. \A a \in Issue : attempt[a].verifier = c =>
        /\ VerifierOK(a, row, w)
        /\ IsActive(a) /\ attempt[a].locked => HolderOK(a, row, w)
  <2> SUFFICES ASSUME NEW a \in Issue, attempt[a].verifier = c
               PROVE  /\ VerifierOK(a, row, w)
                      /\ IsActive(a) /\ attempt[a].locked =>
                           HolderOK(a, row, w)
    OBVIOUS
  <2>1. AttemptOK(a) /\ c # NoCrawl
    BY DEF IInv, Rows, Crawl, NoCrawl
  <2> QED BY <1>3, <2>1 DEF AttemptOK, VerifierOK, HolderOK
<1>7. \A a \in w.batch :
        IsActive(a) /\ attempt[a].locked /\ attempt[a].verifier = c
  BY <1>2 DEF BatchOK
<1> HIDE DEF w
<1> QED BY <1>1, <1>2, <1>3, <1>4, <1>5, <1>6, <1>7, CrawlMoves

-----------------------------------------------------------------------------
(* Attempts are locked and released *)

\* An attempt whose lock alone has changed.
Relocked(a, b, v) ==
  /\ b.status = a.status /\ b.source = a.source /\ b.workers = a.workers
  /\ b.verifier = v

\* A step of one crawl that locks or releases attempts.
LEMMA LocksChange ==
  ASSUME IInv, NEW c \in Crawl, NEW row \in CrawlRow, NEW w \in Worker,
         crawl' = [crawl EXCEPT ![c] = row],
         worker' = [worker EXCEPT ![c] = w],
         UNCHANGED <<item, mark>>, w.at # "settling",
         CrawlOK(row, w),
         crawl[c].status = "completed" => row.status = "completed",
         attempt' \in [Issue -> AttemptRow],
         \A a \in Issue :
           \/ attempt'[a] = attempt[a]
           \/ /\ Relocked(attempt[a], attempt'[a], NoCrawl)
              /\ attempt[a].verifier = c
           \/ /\ Relocked(attempt[a], attempt'[a], c)
              /\ attempt[a].source # c /\ ~attempt[a].locked,
         \A a \in Issue : attempt'[a].verifier = c =>
           /\ VerifierOK(a, row, w)
           /\ IsActive(a) /\ attempt'[a].locked => HolderOK(a, row, w),
         \A d \in Crawl : d # c =>
           \A a \in worker[d].batch : attempt'[a] = attempt[a]
  PROVE  IInv'
<1>1. /\ crawl \in [Crawl -> CrawlRow] /\ worker \in [Crawl -> Worker]
      /\ attempt \in [Issue -> AttemptRow]
  BY DEF IInv, TypeOK
<1>2. /\ crawl' \in [Crawl -> CrawlRow] /\ worker' \in [Crawl -> Worker]
      /\ \A d \in Crawl : crawl'[d] = IF d = c THEN row ELSE crawl[d]
      /\ \A d \in Crawl : worker'[d] = IF d = c THEN w ELSE worker[d]
  BY <1>1
<1>3. TypeOK'
  BY <1>2 DEF IInv, TypeOK
<1>4. ASSUME NEW d \in Crawl
      PROVE  CrawlOK(crawl[d], worker[d])' /\ BatchOK(d)'
  <2>1. CASE d = c
    <3>1. worker'[d].batch = {}
      BY <1>2, <2>1 DEF CrawlOK
    <3> QED BY <1>2, <2>1, <3>1 DEF BatchOK
  <2>2. CASE d # c
    BY <1>2, <2>2 DEF IInv, Rows, BatchOK, IsActive
  <2> QED BY <2>1, <2>2
<1>5. ASSUME NEW a \in Issue
      PROVE  AttemptOK(a)'
  <2>1. AttemptOK(a)
        /\ attempt[a].source \in Crawl \cup {NoCrawl}
        /\ attempt[a].verifier \in Crawl \cup {NoCrawl}
        /\ c # NoCrawl
    BY <1>1 DEF IInv, Rows, AttemptRow, Crawl, NoCrawl
  <2>2. CASE attempt'[a] = attempt[a]
    <3>1. CASE attempt[a].verifier = c
      BY <1>2, <2>1, <2>2, <3>1 DEF AttemptOK, IsActive
    <3>2. CASE attempt[a].verifier # c
      BY <1>2, <2>1, <2>2, <3>2 DEF AttemptOK, IsActive
    <3> QED BY <3>1, <3>2
  <2>3. CASE /\ Relocked(attempt[a], attempt'[a], NoCrawl)
             /\ attempt[a].verifier = c
    BY <1>2, <2>1, <2>3 DEF AttemptOK, Relocked, IsActive
  <2>4. CASE /\ Relocked(attempt[a], attempt'[a], c)
             /\ attempt[a].source # c /\ ~attempt[a].locked
    BY <1>2, <2>1, <2>4 DEF AttemptOK, Relocked, IsActive
  <2> QED BY <2>2, <2>3, <2>4
<1>6. \A a \in Issue : attempt'[a].status = attempt[a].status
  BY DEF Relocked
<1>7. MarkOK'
  <2>1. mark.source \in Crawl \cup {NoCrawl}
    BY DEF IInv, TypeOK, Mark
  <2> QED BY <1>2, <1>6, <2>1 DEF IInv, Marks, MarkOK
<1>8. \A m \in 0..MaxAttempt : Numbered(m) => Numbered(m)'
  BY <1>6 DEF Numbered
<1>9. FixedIsProven'
  BY <1>6 DEF IInv, FixedIsProven
<1> QED BY <1>3, <1>4, <1>5, <1>7, <1>8, <1>9 DEF IInv, Rows, Marks

\* A crawl that is not completed is the source of nothing.
LEMMA NotASource ==
  ASSUME IInv, NEW c \in Crawl, crawl[c].status # "completed"
  PROVE  \A a \in Issue : attempt[a].source # c
BY DEF IInv, Rows, AttemptOK, Crawl, NoCrawl

\* Batches hold attempts, and only of a completion that is open.
LEMMA BatchesAreIssues ==
  ASSUME IInv
  PROVE  \A d \in Crawl : worker[d].batch \in SUBSET Issue
BY DEF IInv, TypeOK, Worker

LEMMA Locks ==
  ASSUME IInv, NEW c \in Crawl, LockIssueWorkAttemptsForCrawlStart(c)
  PROVE  IInv'
<1> DEFINE S == {a \in Free : crawl[c].status # "deleted" /\ a <= crawl[c].upto}
           lock(a) == [[attempt[a] EXCEPT !.locked = TRUE] EXCEPT !.verifier = c]
<1>1. /\ worker[c].at = "locking" /\ UNCHANGED <<crawl, item, mark>>
      /\ Go(c, "crawling")
  BY DEF LockIssueWorkAttemptsForCrawlStart
<1>2. attempt' = [a \in Issue |-> IF a \in S THEN lock(a) ELSE attempt[a]]
  <2>1. \A a \in Issue :
          [attempt[a] EXCEPT !.locked = TRUE, !.verifier = c] = lock(a)
    BY Zenon
  <2>2. attempt' = [a \in Issue |->
          IF a \in S THEN [attempt[a] EXCEPT !.locked = TRUE, !.verifier = c]
          ELSE attempt[a]]
    BY DEF LockIssueWorkAttemptsForCrawlStart
  <2> HIDE DEF S, lock
  <2> QED BY <2>1, <2>2
<1>3. ASSUME NEW a \in Issue
      PROVE  /\ lock(a) \in AttemptRow /\ lock(a).status = attempt[a].status
             /\ lock(a).source = attempt[a].source
             /\ lock(a).workers = attempt[a].workers /\ lock(a).verifier = c
  <2> DEFINE half == [attempt[a] EXCEPT !.locked = TRUE]
  <2>1. attempt[a] \in AttemptRow
    BY DEF IInv, TypeOK
  <2>2. half \in AttemptRow /\ half.status = attempt[a].status
        /\ half.source = attempt[a].source
        /\ half.workers = attempt[a].workers
    BY <2>1 DEF AttemptRow
  <2> HIDE DEF half
  <2>3. lock(a) = [half EXCEPT !.verifier = c]
    BY DEF half
  <2> HIDE DEF lock
  <2> QED BY <2>2, <2>3 DEF AttemptRow
<1>4. crawl[c] \in CrawlRow /\ crawl' = [crawl EXCEPT ![c] = crawl[c]]
      /\ CrawlOK(crawl[c], worker[c])
  BY <1>1 DEF IInv, TypeOK, Rows
<1>5. PICK w \in Worker : /\ worker' = [worker EXCEPT ![c] = w]
                          /\ w.at = "crawling" /\ w.batch = {} /\ w.held = FALSE
  BY <1>1, Goes DEF Place
<1>6. CrawlOK(crawl[c], w)
  BY <1>1, <1>4, <1>5 DEF CrawlOK
<1>7. crawl[c].status \in {"running", "cancelled", "deleted"}
  BY <1>1, <1>4 DEF CrawlOK
<1>8. \A a \in S : /\ a \in Issue /\ ~attempt[a].locked
                   /\ attempt[a].source # c
                   /\ crawl[c].status # "deleted" /\ a <= crawl[c].upto
  BY <1>7, NotASource DEF Free, Active
<1> HIDE DEF S, lock
<1>9. /\ attempt' \in [Issue -> AttemptRow]
      /\ \A a \in Issue : attempt'[a] = IF a \in S THEN lock(a) ELSE attempt[a]
  BY <1>2, <1>3 DEF IInv, TypeOK
<1>10. \A a \in Issue :
         \/ attempt'[a] = attempt[a]
         \/ /\ Relocked(attempt[a], attempt'[a], c)
            /\ attempt[a].source # c /\ ~attempt[a].locked
  BY <1>3, <1>8, <1>9 DEF Relocked
<1>11. \A a \in Issue : attempt[a].verifier # c
  BY <1>1, Unreferenced
<1>12. \A a \in Issue : attempt'[a].verifier = c =>
         /\ VerifierOK(a, crawl[c], w)
         /\ IsActive(a) /\ attempt'[a].locked => HolderOK(a, crawl[c], w)
  <2> SUFFICES ASSUME NEW a \in Issue, attempt'[a].verifier = c
               PROVE  VerifierOK(a, crawl[c], w) /\ HolderOK(a, crawl[c], w)
    OBVIOUS
  <2>1. a \in S
    BY <1>9, <1>11
  <2> QED BY <1>5, <1>7, <1>8, <2>1 DEF VerifierOK, HolderOK
<1>13. \A d \in Crawl : \A a \in worker[d].batch : attempt'[a] = attempt[a]
  <2>1. \A d \in Crawl : \A a \in worker[d].batch :
          a \in Issue /\ attempt[a].locked
    BY BatchesAreIssues DEF IInv, Rows, BatchOK
  <2> QED BY <1>8, <1>9, <2>1
<1>14. \A a \in Issue :
         \/ attempt'[a] = attempt[a]
         \/ /\ Relocked(attempt[a], attempt'[a], NoCrawl)
            /\ attempt[a].verifier = c
         \/ /\ Relocked(attempt[a], attempt'[a], c)
            /\ attempt[a].source # c /\ ~attempt[a].locked
  BY <1>10
<1>15. /\ attempt' \in [Issue -> AttemptRow] /\ w.at # "settling"
       /\ UNCHANGED <<item, mark>> /\ crawl[c] \in CrawlRow
       /\ crawl' = [crawl EXCEPT ![c] = crawl[c]]
       /\ worker' = [worker EXCEPT ![c] = w]
  BY <1>1, <1>4, <1>5, <1>9
<1> QED BY <1>6, <1>12, <1>13, <1>14, <1>15, LocksChange

\* A failing crawl hands its attempts back in the same transaction.
LEMMA Fails ==
  ASSUME IInv, NEW c \in Crawl, MarkCrawlFailed(c) \/ ReclaimStaleRunningCrawl(c)
  PROVE  IInv'
<1> DEFINE row  == IF Running(c) THEN [crawl[c] EXCEPT !.status = "failed"]
                   ELSE crawl[c]
           S    == {a \in Active : attempt[a].verifier = c}
           free(a) == [[attempt[a] EXCEPT !.locked = FALSE]
                          EXCEPT !.verifier = NoCrawl]
<1>1. /\ worker[c].at # "settling" /\ UNCHANGED <<item, mark>>
      /\ attempt' = ReleaseIssueWorkAttemptsForFailedCrawl({c})
      /\ crawl' = FailRunning(c)
  BY DEF MarkCrawlFailed, ReclaimStaleRunningCrawl
<1>2. attempt' = [a \in Issue |-> IF a \in S THEN free(a) ELSE attempt[a]]
  <2>1. \A a \in Issue :
          [attempt[a] EXCEPT !.locked = FALSE, !.verifier = NoCrawl] = free(a)
    BY Zenon
  <2>2. attempt' = [a \in Issue |->
          IF a \in S
            THEN [attempt[a] EXCEPT !.locked = FALSE, !.verifier = NoCrawl]
            ELSE attempt[a]]
    BY <1>1 DEF ReleaseIssueWorkAttemptsForFailedCrawl
  <2> HIDE DEF S, free
  <2> QED BY <2>1, <2>2
<1>3. ASSUME NEW a \in Issue
      PROVE  /\ free(a) \in AttemptRow /\ free(a).status = attempt[a].status
             /\ free(a).source = attempt[a].source
             /\ free(a).workers = attempt[a].workers
             /\ free(a).verifier = NoCrawl
  <2> DEFINE half == [attempt[a] EXCEPT !.locked = FALSE]
  <2>1. attempt[a] \in AttemptRow
    BY DEF IInv, TypeOK
  <2>2. half \in AttemptRow /\ half.status = attempt[a].status
        /\ half.source = attempt[a].source
        /\ half.workers = attempt[a].workers
    BY <2>1 DEF AttemptRow
  <2> HIDE DEF half
  <2>3. free(a) = [half EXCEPT !.verifier = NoCrawl]
    BY DEF half
  <2> HIDE DEF free
  <2> QED BY <2>2, <2>3 DEF AttemptRow
<1>4. crawl[c] \in CrawlRow /\ crawl \in [Crawl -> CrawlRow]
      /\ worker \in [Crawl -> Worker] /\ CrawlOK(crawl[c], worker[c])
  BY DEF IInv, TypeOK, Rows
<1>5. PICK w \in Worker : /\ worker' = [worker EXCEPT ![c] = w]
                          /\ w.at = "none" /\ w.batch = {} /\ w.held = FALSE
  <2>1. CASE MarkCrawlFailed(c)
    BY <2>1, Goes DEF MarkCrawlFailed, Place
  <2>2. CASE ReclaimStaleRunningCrawl(c)
    BY <1>4, <2>2 DEF ReclaimStaleRunningCrawl, CrawlOK
  <2> QED BY <2>1, <2>2
<1>6. /\ row \in CrawlRow /\ row.upto = crawl[c].upto
      /\ row.status = IF crawl[c].status = "running" THEN "failed"
                      ELSE crawl[c].status
  BY <1>4 DEF CrawlRow, Ended, Running
<1>7. crawl' = [crawl EXCEPT ![c] = row]
  <2>1. CASE Running(c)
    BY <1>1, <2>1, Zenon DEF FailRunning
  <2>2. CASE ~Running(c)
    BY <1>1, <1>4, <2>2 DEF FailRunning
  <2> QED BY <2>1, <2>2
<1>8. \A a \in Issue : a \in S <=> IsActive(a) /\ attempt[a].verifier = c
  BY DEF Active, IsActive
<1> HIDE DEF row, S, free
<1>9. CrawlOK(row, w) /\ w.at # "settling"
  BY <1>5 DEF CrawlOK
<1>10. /\ attempt' \in [Issue -> AttemptRow]
       /\ \A a \in Issue : attempt'[a] = IF a \in S THEN free(a) ELSE attempt[a]
  BY <1>2, <1>3 DEF IInv, TypeOK
<1>11. \A a \in Issue :
         \/ attempt'[a] = attempt[a]
         \/ /\ Relocked(attempt[a], attempt'[a], NoCrawl)
            /\ attempt[a].verifier = c
  BY <1>3, <1>8, <1>10 DEF Relocked
<1>12. \A a \in Issue : attempt'[a].verifier = c =>
         /\ VerifierOK(a, row, w)
         /\ IsActive(a) /\ attempt'[a].locked => HolderOK(a, row, w)
  <2> SUFFICES ASSUME NEW a \in Issue, attempt'[a].verifier = c
               PROVE  VerifierOK(a, row, w) /\ ~IsActive(a)
    OBVIOUS
  <2>1. c # NoCrawl
    BY DEF Crawl, NoCrawl
  <2>2. a \notin S /\ attempt[a].verifier = c
    BY <1>3, <1>10, <2>1
  <2>3. AttemptOK(a)
    BY DEF IInv, Rows
  <2> QED BY <1>5, <1>6, <1>8, <2>1, <2>2, <2>3 DEF AttemptOK, VerifierOK
<1>13. \A d \in Crawl : d # c =>
         \A a \in worker[d].batch : attempt'[a] = attempt[a]
  <2>1. \A d \in Crawl : \A a \in worker[d].batch :
          a \in Issue /\ attempt[a].verifier = d
    BY BatchesAreIssues DEF IInv, Rows, BatchOK
  <2> QED BY <1>8, <1>10, <2>1
<1>14. crawl[c].status = "completed" => row.status = "completed"
  BY <1>6
<1> QED BY <1>1, <1>5, <1>6, <1>7, <1>9, <1>10, <1>11, <1>12, <1>13, <1>14,
           LocksChange

-----------------------------------------------------------------------------
(* A completion *)

Verdict == {"not_verified", "still_open", "fixed"}

\* Every batch has a last attempt.
LEMMA Last ==
  ASSUME NEW B \in SUBSET Issue, B # {}
  PROVE  (CHOOSE a \in B : \A b \in B : b <= a) \in B
<1> DEFINE R == OpToRel(<, Nat)
           U == {MaxAttempt - m : m \in B}
<1>1. U \subseteq Nat /\ U # {}
  <2>1. \A m \in B : MaxAttempt - m \in Nat
    BY BoundsAssumption DEF Issue
  <2> QED BY <2>1
<1>2. PICK n \in U : \A k \in U : ~ (<<k, n>> \in R)
  <2> HIDE DEF U, R
  <2>1. IsWellFoundedOn(R, Nat)
    BY NatLessThanWellFounded DEF R
  <2> QED BY <1>1, <2>1, WFMin
<1>3. \A k \in U : ~ (k < n)
  BY <1>1, <1>2 DEF OpToRel
<1>4. \E a \in B : \A b \in B : b <= a
  <2>1. PICK a \in B : n = MaxAttempt - a
    OBVIOUS
  <2>2. ASSUME NEW b \in B
        PROVE  b <= a
    <3>1. MaxAttempt - b \in U /\ a \in Int /\ b \in Int /\ MaxAttempt \in Int
      BY BoundsAssumption DEF Issue
    <3>2. ~ (MaxAttempt - b < MaxAttempt - a)
      BY <1>3, <2>1, <3>1
    <3> HIDE DEF U
    <3> QED BY <3>1, <3>2
  <2> QED BY <2>2
<1> QED BY <1>4

\* UpdateIssueWorkAttemptVerification, on what is still as it was read.
LEMMA Judges ==
  ASSUME IInv, NEW c \in Crawl,
         NEW verdict \in [worker[c].batch -> Verdict],
         attempt' = UpdateIssueWorkAttemptVerification(c, verdict)
  PROVE  /\ attempt' \in [Issue -> AttemptRow]
         /\ \A a \in Issue :
              IF a \in worker[c].batch
                THEN /\ attempt'[a].status = verdict[a]
                     /\ attempt'[a].locked =>
                          verdict[a] \in {"still_open", "fixed"}
                     /\ attempt'[a].verifier = c
                     /\ attempt'[a].source = attempt[a].source
                     /\ attempt'[a].workers = attempt[a].workers
                ELSE attempt'[a] = attempt[a]
<1> DEFINE lock(a) == attempt[a].locked /\ verdict[a] # "not_verified"
           s(a)    == [attempt[a] EXCEPT !.status = verdict[a]]
           v(a)    == [s(a) EXCEPT !.verifier = c]
           b(a)    == [v(a) EXCEPT !.locked = lock(a)]
<1>1. attempt' = [a \in Issue |-> IF a \in worker[c].batch THEN b(a)
                                  ELSE attempt[a]]
  <2>1. \A a \in Issue :
          [attempt[a] EXCEPT !.status = verdict[a], !.verifier = c,
                             !.locked = @ /\ verdict[a] # "not_verified"] = b(a)
    BY Zenon
  <2>2. attempt' = [a \in Issue |->
          IF a \in worker[c].batch
            THEN [attempt[a] EXCEPT !.status = verdict[a], !.verifier = c,
                    !.locked = @ /\ verdict[a] # "not_verified"]
            ELSE attempt[a]]
    <3>1. DOMAIN verdict = worker[c].batch
      OBVIOUS
    <3> QED BY <3>1, Zenon DEF UpdateIssueWorkAttemptVerification
  <2> HIDE DEF b
  <2> QED BY <2>1, <2>2
<1>2. ASSUME NEW a \in worker[c].batch, a \in Issue
      PROVE  /\ b(a) \in AttemptRow /\ b(a).status = verdict[a]
             /\ b(a).locked = lock(a) /\ b(a).verifier = c
             /\ b(a).source = attempt[a].source
             /\ b(a).workers = attempt[a].workers
  <2>1. attempt[a] \in AttemptRow /\ verdict[a] \in Verdict
    BY <1>2 DEF IInv, TypeOK
  <2>2. s(a) \in AttemptRow /\ s(a).status = verdict[a]
        /\ s(a).source = attempt[a].source /\ s(a).workers = attempt[a].workers
    BY <2>1 DEF AttemptRow, Verdict
  <2> HIDE DEF s
  <2>3. v(a) \in AttemptRow /\ v(a).status = verdict[a] /\ v(a).verifier = c
        /\ v(a).source = attempt[a].source /\ v(a).workers = attempt[a].workers
    BY <2>2 DEF AttemptRow
  <2>4. lock(a) \in BOOLEAN
    OBVIOUS
  <2> HIDE DEF v, lock
  <2> QED BY <2>3, <2>4 DEF AttemptRow
<1>3. \A a \in worker[c].batch : verdict[a] \in Verdict
  OBVIOUS
<1>4. \A a \in worker[c].batch : lock(a) => verdict[a] # "not_verified"
  OBVIOUS
<1> HIDE DEF b, lock
<1>5. attempt \in [Issue -> AttemptRow]
  BY DEF IInv, TypeOK
<1> QED BY <1>1, <1>2, <1>3, <1>4, <1>5 DEF Verdict

\* The item follows the last verdict, so it is fixed by one that says so.
LEMMA ItemJudged ==
  ASSUME IInv, NEW c \in Crawl, worker[c].batch # {},
         NEW verdict \in [worker[c].batch -> Verdict],
         UpdateIssueWorkItemStatusAfterVerification(c, verdict)
  PROVE  /\ item' \in {"open", "awaiting_verification", "fixed"}
         /\ item' = "fixed" => \E a \in worker[c].batch : verdict[a] = "fixed"
<1> DEFINE B    == worker[c].batch
           last == CHOOSE a \in B : \A b \in B : b <= a
<1>1. B \in SUBSET Issue /\ DOMAIN verdict = B
  BY BatchesAreIssues
<1>2. last \in B
  BY <1>1, Last
<1>3. item' \in {"awaiting_verification", ItemStatus(verdict[last])}
  BY <1>1 DEF UpdateIssueWorkItemStatusAfterVerification
<1>4. verdict[last] \in Verdict
  BY <1>2
<1> HIDE DEF last
<1> QED BY <1>2, <1>3, <1>4 DEF ItemStatus, Verdict

\* The verdicts are written on the attempts the completion began with.
LEMMA Settles ==
  ASSUME IInv, NEW c \in Crawl, EndSettle(c)
  PROVE  IInv'
<1> DEFINE B == worker[c].batch
<1>1. PICK present \in BOOLEAN, observed \in SUBSET B :
        LET verdict == [a \in B |->
              classifyIssueWorkVerification(a \in observed, present)]
        IN /\ crawl' = IF worker[c].held THEN Complete(c, present /\ Home(c))
                       ELSE crawl
           /\ attempt' = UpdateIssueWorkAttemptVerification(c, verdict)
           /\ IF B = {} THEN UNCHANGED item
              ELSE /\ mark = NoMark
                   /\ UpdateIssueWorkItemStatusAfterVerification(c, verdict)
  BY DEF EndSettle
<1> DEFINE verdict == [a \in B |->
              classifyIssueWorkVerification(a \in observed, present)]
<1>2. verdict \in [B -> Verdict]
  BY DEF classifyIssueWorkVerification, Verdict
<1>3. /\ worker[c].at = "settling" /\ Go(c, "none") /\ UNCHANGED mark
  BY DEF EndSettle
<1>4. attempt' = UpdateIssueWorkAttemptVerification(c, verdict)
  BY <1>1
<1>5. \/ B = {} /\ UNCHANGED item
      \/ B # {} /\ UpdateIssueWorkItemStatusAfterVerification(c, verdict)
  BY <1>1
<1> HIDE DEF verdict
<1>6. /\ attempt' \in [Issue -> AttemptRow]
      /\ \A a \in Issue :
           IF a \in B
             THEN /\ attempt'[a].status = verdict[a]
                  /\ attempt'[a].locked => verdict[a] \in {"still_open", "fixed"}
                  /\ attempt'[a].verifier = c
                  /\ attempt'[a].source = attempt[a].source
                  /\ attempt'[a].workers = attempt[a].workers
             ELSE attempt'[a] = attempt[a]
  BY <1>2, <1>4, Judges
<1>7. crawl \in [Crawl -> CrawlRow] /\ crawl[c] \in CrawlRow
      /\ worker \in [Crawl -> Worker] /\ CrawlOK(crawl[c], worker[c])
      /\ attempt \in [Issue -> AttemptRow] /\ c # NoCrawl
  BY DEF IInv, TypeOK, Rows, Crawl, NoCrawl
<1>8. PICK row \in CrawlRow :
        /\ crawl' = [crawl EXCEPT ![c] = row] /\ row.upto = crawl[c].upto
        /\ row.status \in {"completed", crawl[c].status}
  <2> DEFINE issue == present /\ Home(c)
             half  == [crawl[c] EXCEPT !.status = "completed"]
             done  == [half EXCEPT !.issue = issue]
  <2>1. CASE worker[c].held
    <3>1. crawl' = [crawl EXCEPT ![c] = done]
      BY <1>1, <2>1, Zenon DEF Complete
    <3>2. issue \in BOOLEAN
      BY DEF Home
    <3>3. half \in CrawlRow /\ half.status = "completed"
          /\ half.upto = crawl[c].upto
      BY <1>7 DEF CrawlRow, Ended
    <3> HIDE DEF issue, half
    <3>4. done \in CrawlRow /\ done.status = "completed"
          /\ done.upto = crawl[c].upto
      BY <3>2, <3>3 DEF CrawlRow
    <3> HIDE DEF done
    <3> QED BY <3>1, <3>4
  <2>2. CASE ~worker[c].held
    BY <1>1, <1>7, <2>2
  <2> QED BY <2>1, <2>2
<1>9. PICK w \in Worker : /\ worker' = [worker EXCEPT ![c] = w]
                          /\ w.at = "none" /\ w.batch = {} /\ w.held = FALSE
  BY <1>3, Goes DEF Place
<1>10. /\ crawl' \in [Crawl -> CrawlRow] /\ worker' \in [Crawl -> Worker]
       /\ \A d \in Crawl : crawl'[d] = IF d = c THEN row ELSE crawl[d]
       /\ \A d \in Crawl : worker'[d] = IF d = c THEN w ELSE worker[d]
  BY <1>7, <1>8, <1>9
<1>11. /\ item' \in {"open", "awaiting_verification", "fixed"}
       /\ item' = "fixed" => item = "fixed" \/ \E a \in B : verdict[a] = "fixed"
  <2>1. CASE B = {} /\ UNCHANGED item
    BY <2>1 DEF IInv, TypeOK
  <2>2. CASE B # {} /\ UpdateIssueWorkItemStatusAfterVerification(c, verdict)
    BY <1>2, <2>2, ItemJudged
  <2> QED BY <1>5, <2>1, <2>2
<1>12. TypeOK'
  BY <1>3, <1>6, <1>10, <1>11 DEF IInv, TypeOK
<1>13. \A a \in B : /\ a \in Issue /\ IsActive(a) /\ attempt[a].locked
                    /\ attempt[a].verifier = c /\ verdict[a] \in Verdict
  BY <1>2, BatchesAreIssues DEF IInv, Rows, BatchOK
<1> HIDE DEF B
<1>14. ASSUME NEW d \in Crawl
       PROVE  CrawlOK(crawl[d], worker[d])' /\ BatchOK(d)'
  <2>1. CASE d = c
    BY <1>9, <1>10, <2>1 DEF CrawlOK, BatchOK
  <2>2. CASE d # c
    <3>1. CrawlOK(crawl[d], worker[d]) /\ BatchOK(d)
          /\ worker[d].batch \in SUBSET Issue
      BY BatchesAreIssues DEF IInv, Rows
    <3>2. \A a \in worker[d].batch : a \notin B /\ attempt'[a] = attempt[a]
      BY <1>6, <1>13, <2>2, <3>1 DEF BatchOK
    <3> QED BY <1>10, <2>2, <3>1, <3>2 DEF BatchOK, IsActive
  <2> QED BY <2>1, <2>2
<1>15. ASSUME NEW a \in Issue
       PROVE  AttemptOK(a)'
  <2>1. AttemptOK(a)
        /\ attempt[a].source \in Crawl \cup {NoCrawl}
        /\ attempt[a].verifier \in Crawl \cup {NoCrawl}
    BY <1>7 DEF IInv, Rows, AttemptRow
  <2>2. CASE a \in B
    <3>1. /\ VerifierOK(a, crawl[c], worker[c]) /\ attempt[a].source # c
          /\ attempt[a].workers # {}
      BY <1>7, <1>13, <2>1, <2>2 DEF AttemptOK, IsActive
    <3>2. VerifierOK(a, row, w)
      BY <1>8, <1>9, <3>1 DEF VerifierOK
    <3>3. ~ (IsActive(a)' /\ attempt'[a].locked)
      BY <1>6, <2>2 DEF IsActive
    <3>4. attempt'[a].status \notin {"none", "deleted"}
      BY <1>6, <1>13, <2>2 DEF Verdict
    <3> QED BY <1>6, <1>7, <1>8, <1>10, <2>1, <2>2, <3>1, <3>2, <3>3, <3>4
            DEF AttemptOK
  <2>3. CASE a \notin B
    <3>1. attempt'[a] = attempt[a]
      BY <1>6, <2>3
    <3>2. CASE attempt[a].verifier = c
      <4>1. VerifierOK(a, row, w) /\ ~ (IsActive(a) /\ attempt[a].locked)
        BY <1>3, <1>7, <1>8, <1>9, <2>1, <2>3, <3>2
           DEF AttemptOK, VerifierOK, HolderOK, B
      <4> QED BY <1>8, <1>10, <2>1, <3>1, <3>2, <4>1 DEF AttemptOK, IsActive
    <3>3. CASE attempt[a].verifier # c
      BY <1>8, <1>10, <2>1, <3>1, <3>3 DEF AttemptOK, IsActive
    <3> QED BY <3>2, <3>3
  <2> QED BY <2>2, <2>3
<1>16. \A a \in Issue :
         /\ attempt'[a].status = "none" <=> attempt[a].status = "none"
         /\ attempt'[a].status = "deleted" <=> attempt[a].status = "deleted"
         /\ attempt[a].status = "fixed" => attempt'[a].status = "fixed"
  BY <1>6, <1>13 DEF IsActive, Verdict
<1>17. MarkOK'
  <2>1. mark.source \in Crawl \cup {NoCrawl} /\ mark' = mark
    BY <1>3 DEF IInv, TypeOK, Mark
  <2> QED BY <1>8, <1>10, <1>16, <2>1 DEF IInv, Marks, MarkOK
<1>18. \A m \in 0..MaxAttempt : Numbered(m) => Numbered(m)'
  BY <1>3, <1>16 DEF Numbered
<1>19. FixedIsProven'
  BY <1>6, <1>11, <1>13, <1>16 DEF IInv, FixedIsProven
<1> QED BY <1>12, <1>14, <1>15, <1>17, <1>18, <1>19 DEF IInv, Rows, Marks

-----------------------------------------------------------------------------
(* Crawls are deleted *)

\* Both references of an attempt are set to NULL.
LEMMA Forgotten ==
  ASSUME IInv, NEW C \in SUBSET Crawl, attempt' = Forget(C)
  PROVE  /\ attempt' \in [Issue -> AttemptRow]
         /\ \A a \in Issue :
              /\ attempt'[a].status = attempt[a].status
              /\ attempt'[a].locked = attempt[a].locked
              /\ attempt'[a].workers = attempt[a].workers
              /\ attempt'[a].source = IF attempt[a].source \in C THEN NoCrawl
                                      ELSE attempt[a].source
              /\ attempt'[a].verifier = IF attempt[a].verifier \in C
                                          THEN NoCrawl ELSE attempt[a].verifier
<1> DEFINE s(a) == IF attempt[a].source \in C THEN NoCrawl ELSE attempt[a].source
           v(a) == IF attempt[a].verifier \in C THEN NoCrawl
                   ELSE attempt[a].verifier
           half(a) == [attempt[a] EXCEPT !.source = s(a)]
           b(a)    == [half(a) EXCEPT !.verifier = v(a)]
<1>1. attempt' = [a \in Issue |-> b(a)]
  <2>1. \A a \in Issue :
          [attempt[a] EXCEPT
             !.source   = IF @ \in C THEN NoCrawl ELSE @,
             !.verifier = IF @ \in C THEN NoCrawl ELSE @] = b(a)
    BY Zenon
  <2>2. attempt' = [a \in Issue |->
          [attempt[a] EXCEPT
             !.source   = IF @ \in C THEN NoCrawl ELSE @,
             !.verifier = IF @ \in C THEN NoCrawl ELSE @]]
    BY Zenon DEF Forget
  <2> HIDE DEF b
  <2> QED BY <2>1, <2>2
<1>2. ASSUME NEW a \in Issue
      PROVE  /\ b(a) \in AttemptRow /\ b(a).status = attempt[a].status
             /\ b(a).locked = attempt[a].locked
             /\ b(a).workers = attempt[a].workers
             /\ b(a).source = s(a) /\ b(a).verifier = v(a)
  <2>1. attempt[a] \in AttemptRow
    BY DEF IInv, TypeOK
  <2>2. s(a) \in Crawl \cup {NoCrawl} /\ v(a) \in Crawl \cup {NoCrawl}
    BY <2>1 DEF AttemptRow
  <2> HIDE DEF s, v
  <2>3. half(a) \in AttemptRow /\ half(a).status = attempt[a].status
        /\ half(a).locked = attempt[a].locked
        /\ half(a).workers = attempt[a].workers /\ half(a).source = s(a)
    BY <2>1, <2>2 DEF AttemptRow
  <2> HIDE DEF half
  <2> QED BY <2>2, <2>3 DEF AttemptRow
<1> HIDE DEF b
<1> QED BY <1>1, <1>2

\* The rows in C go, and a new one may be queued; what a completion or a mark
\* needs keeps its crawl.
LEMMA Deletes ==
  ASSUME IInv, NEW C \in SUBSET Crawl, ~Pinned(C),
         \A d \in C : ~worker[d].held,
         attempt' = Forget(C), UNCHANGED <<worker, item, mark>>,
         crawl' \in [Crawl -> CrawlRow],
         \A d \in C : crawl'[d].status = "deleted",
         \A d \in Crawl \ C :
           \/ crawl'[d] = crawl[d]
           \/ crawl[d].status = "none" /\ crawl'[d].status = "queued"
  PROVE  IInv'
<1>1. /\ attempt' \in [Issue -> AttemptRow]
      /\ \A a \in Issue :
           /\ attempt'[a].status = attempt[a].status
           /\ attempt'[a].locked = attempt[a].locked
           /\ attempt'[a].workers = attempt[a].workers
           /\ attempt'[a].source = IF attempt[a].source \in C THEN NoCrawl
                                   ELSE attempt[a].source
           /\ attempt'[a].verifier = IF attempt[a].verifier \in C
                                       THEN NoCrawl ELSE attempt[a].verifier
  BY Forgotten
<1>2. TypeOK'
  BY <1>1 DEF IInv, TypeOK
<1>3. mark.source \notin C /\ mark.source \in Crawl \cup {NoCrawl}
  BY DEF Pinned, IInv, TypeOK, Mark
<1>4. ASSUME NEW d \in Crawl
      PROVE  CrawlOK(crawl[d], worker[d])' /\ BatchOK(d)'
  <2>1. CrawlOK(crawl[d], worker[d]) /\ BatchOK(d)
        /\ worker[d].batch \in SUBSET Issue
    BY BatchesAreIssues DEF IInv, Rows
  <2>2. \A a \in worker[d].batch : attempt[a].verifier \notin C
    BY DEF Pinned
  <2>3. BatchOK(d)'
    BY <1>1, <2>1, <2>2 DEF BatchOK, IsActive
  <2>4. CASE d \in C
    BY <2>1, <2>3, <2>4 DEF CrawlOK
  <2>5. CASE d \notin C
    BY <2>1, <2>3, <2>5 DEF CrawlOK
  <2> QED BY <2>4, <2>5
<1>5. ASSUME NEW a \in Issue
      PROVE  AttemptOK(a)'
  <2>1. AttemptOK(a)
        /\ attempt[a].source \in Crawl \cup {NoCrawl}
        /\ attempt[a].verifier \in Crawl \cup {NoCrawl}
    BY DEF IInv, TypeOK, Rows, AttemptRow
  <2>2. ASSUME attempt'[a].source # NoCrawl
        PROVE  /\ attempt'[a].source = attempt[a].source
               /\ crawl'[attempt[a].source].status = "completed"
    BY <1>1, <2>1, <2>2 DEF AttemptOK
  <2>3. ASSUME attempt'[a].verifier # NoCrawl
        PROVE  /\ attempt'[a].verifier = attempt[a].verifier
               /\ crawl'[attempt[a].verifier] = crawl[attempt[a].verifier]
    BY <1>1, <2>1, <2>3 DEF AttemptOK, VerifierOK
  <2>4. attempt'[a].verifier # NoCrawl =>
          attempt'[a].source # attempt'[a].verifier
    BY <1>1, <2>1, <2>3 DEF AttemptOK
  <2> QED BY <1>1, <2>1, <2>2, <2>3, <2>4 DEF AttemptOK, IsActive
<1>6. MarkOK'
  BY <1>1, <1>3 DEF IInv, Marks, MarkOK
<1>7. \A m \in 0..MaxAttempt : Numbered(m) => Numbered(m)'
  BY <1>1 DEF Numbered
<1>8. FixedIsProven'
  BY <1>1 DEF IInv, FixedIsProven
<1> QED BY <1>2, <1>4, <1>5, <1>6, <1>7, <1>8 DEF IInv, Rows, Marks

LEMMA DeletedRow ==
  LET row == [NotCrawled EXCEPT !.status = "deleted"]
  IN  row \in CrawlRow /\ row.status = "deleted"
<1>1. 0 \in 0..MaxAttempt
  BY BoundsAssumption
<1>2. NotCrawled \in CrawlRow
  BY <1>1 DEF NotCrawled, CrawlRow
<1> QED BY <1>2 DEF CrawlRow

\* A crawl is deleted with its children, running ones included.
LEMMA DeletesCrawl ==
  ASSUME IInv, NEW c \in Crawl, DeleteCrawl(c)
  PROVE  IInv'
<1> DEFINE C   == {c} \cup Child(c)
           row == [NotCrawled EXCEPT !.status = "deleted"]
<1>1. /\ ~Pinned(C) /\ \A d \in C : ~worker[d].held
      /\ crawl' = Delete(C) /\ attempt' = Forget(C)
      /\ UNCHANGED <<worker, item, mark>> /\ crawl[c].status \in Ended
  BY DEF DeleteCrawl, With
<1>2. row \in CrawlRow /\ row.status = "deleted"
  BY DeletedRow
<1>3. crawl' = [d \in Crawl |-> IF d \in C THEN row ELSE crawl[d]]
  BY <1>1, Zenon DEF Delete
<1> HIDE DEF row
<1>4. C \in SUBSET Crawl /\ crawl \in [Crawl -> CrawlRow]
  BY DEF Child, IInv, TypeOK
<1> HIDE DEF C
<1>5. /\ crawl' \in [Crawl -> CrawlRow]
      /\ \A d \in C : crawl'[d].status = "deleted"
      /\ \A d \in Crawl \ C : crawl'[d] = crawl[d]
  BY <1>2, <1>3, <1>4
<1> QED BY <1>1, <1>4, <1>5, Deletes

\* Failed children make room for a new one.
LEMMA Enqueues ==
  ASSUME IInv, NEW u \in Requester, NEW p \in Crawl, EnqueueMissing(u, p)
  PROVE  IInv'
<1> DEFINE C   == Child(p)
           row == [NotCrawled EXCEPT !.status = "queued",
                                     !.source = "competitor",
                                     !.by = u, !.parent = p]
           old == [NotCrawled EXCEPT !.status = "deleted"]
<1>1. /\ C \subseteq With({"failed", "cancelled"}) /\ ~Pinned(C)
      /\ attempt' = Forget(C) /\ UNCHANGED <<worker, item, mark>>
      /\ CreateCrawl(Delete(C), "competitor", u, p)
  BY DEF EnqueueMissing
<1>2. PICK c \in Crawl : /\ crawl[c].status = "none"
                         /\ crawl' = [Delete(C) EXCEPT ![c] = row]
  BY <1>1 DEF CreateCrawl
<1>3. row \in CrawlRow /\ row.status = "queued"
  <2>1. /\ "competitor" \in {"manual", "auto", "competitor"}
        /\ u \in Requester \cup {NoUser} /\ p \in Crawl \cup {NoCrawl}
    OBVIOUS
  <2> QED BY <2>1, QueuedRow, Zenon
<1>4. old \in CrawlRow /\ old.status = "deleted"
  BY DeletedRow
<1>5. Delete(C) = [d \in Crawl |-> IF d \in C THEN old ELSE crawl[d]]
  BY Zenon DEF Delete
<1> HIDE DEF row, old
<1>6. C \in SUBSET Crawl /\ crawl \in [Crawl -> CrawlRow]
      /\ \A d \in C : crawl[d].status \in {"failed", "cancelled"}
  BY <1>1 DEF Child, With, IInv, TypeOK
<1> HIDE DEF C
<1>7. c \notin C
  BY <1>2, <1>6
<1>8. /\ crawl' \in [Crawl -> CrawlRow]
      /\ \A d \in C : crawl'[d].status = "deleted"
      /\ \A d \in Crawl \ C : crawl'[d] = IF d = c THEN row ELSE crawl[d]
  BY <1>2, <1>3, <1>4, <1>5, <1>6, <1>7
<1>9. \A d \in Crawl \ C :
        \/ crawl'[d] = crawl[d]
        \/ crawl[d].status = "none" /\ crawl'[d].status = "queued"
  BY <1>2, <1>3, <1>8
<1>10. \A d \in C : ~worker[d].held
  BY <1>6 DEF IInv, Rows, CrawlOK
<1> QED BY <1>1, <1>6, <1>8, <1>9, <1>10, Deletes

-----------------------------------------------------------------------------
(* Marking and withdrawing *)

\* A mark reserves the next number, which is free, or joins a free attempt.
LEMMA BeginsMark ==
  ASSUME IInv, NEW u \in User, BeginMark(u)
  PROVE  IInv'
<1>1. mark = NoMark /\ UNCHANGED <<crawl, worker, item, attempt>>
  BY DEF BeginMark
<1>2. PICK m \in 0..MaxAttempt : Numbered(m)
  BY DEF IInv, Marks
<1>3. \A a \in Issue : attempt[a].status # "none" <=> a <= m
  BY <1>1, <1>2 DEF Numbered, NoMark
<1>4. Made = m
  <2> DEFINE S == {a \in Issue : attempt[a].status # "none"
                                   \/ (mark.attempt = a /\ mark.source # NoCrawl)}
  <2>1. S = 1..m
    BY <1>1, <1>3, BoundsAssumption DEF Issue, NoMark
  <2>2. Cardinality(1..m) = m
    BY FS_Interval, BoundsAssumption
  <2>3. Made = Cardinality(S)
    BY DEF Made
  <2> HIDE DEF S
  <2> QED BY <2>1, <2>2, <2>3
<1>5. Rows' /\ FixedIsProven'
  BY <1>1 DEF IInv, Rows, CrawlOK, BatchOK, IsActive, AttemptOK, VerifierOK,
              HolderOK, FixedIsProven
<1>6. PICK c \in Workable :
        \/ \E a \in GetActiveIssueWorkAttemptForWorkItem :
             mark' = [user |-> u, attempt |-> a, source |-> NoCrawl,
                      added |-> FALSE]
        \/ /\ Free = {} /\ Made < MaxAttempt
           /\ mark' = [user |-> u, attempt |-> Made + 1, source |-> c,
                       added |-> FALSE]
  BY DEF BeginMark
<1>7. c \in Crawl /\ crawl[c].status = "completed"
  BY DEF Workable, With
<1>8. CASE \E a \in GetActiveIssueWorkAttemptForWorkItem :
             mark' = [user |-> u, attempt |-> a, source |-> NoCrawl,
                      added |-> FALSE]
  <2>1. PICK a \in Issue :
          mark' = [user |-> u, attempt |-> a, source |-> NoCrawl,
                   added |-> FALSE]
    BY <1>8 DEF GetActiveIssueWorkAttemptForWorkItem, Free, Active
  <2>2. TypeOK'
    BY <1>1, <2>1, BoundsAssumption DEF IInv, TypeOK, Mark, Issue
  <2>3. MarkOK'
    BY <2>1 DEF MarkOK
  <2>4. Numbered(m)'
    BY <1>1, <1>3, <2>1 DEF Numbered
  <2> QED BY <1>5, <2>2, <2>3, <2>4 DEF IInv, Marks
<1>9. CASE /\ Made < MaxAttempt
           /\ mark' = [user |-> u, attempt |-> Made + 1, source |-> c,
                       added |-> FALSE]
  <2>1. m + 1 \in Issue /\ m + 1 \in 0..MaxAttempt
        /\ mark' = [user |-> u, attempt |-> m + 1, source |-> c, added |-> FALSE]
    BY <1>4, <1>9, BoundsAssumption DEF Issue
  <2>2. TypeOK'
    BY <1>1, <1>7, <2>1 DEF IInv, TypeOK, Mark
  <2>3. attempt[m + 1].status = "none"
    BY <1>3, <2>1
  <2>4. MarkOK'
    BY <1>1, <1>7, <2>1, <2>3 DEF MarkOK
  <2>5. Numbered(m + 1)'
    BY <1>1, <1>3, <1>7, <2>1 DEF Numbered, Issue, Crawl, NoCrawl
  <2> QED BY <1>5, <2>1, <2>2, <2>4, <2>5 DEF IInv, Marks
<1> QED BY <1>6, <1>8, <1>9

\* The attempt that is joined exists when it is locked.
LEMMA AddsContributor ==
  ASSUME IInv, AddIssueWorkAttemptContributor
  PROVE  IInv'
<1> DEFINE new == [mark EXCEPT !.added = TRUE]
<1>1. mark # NoMark /\ UNCHANGED <<crawl, worker, item, attempt>>
      /\ mark' = new /\ (mark.source # NoCrawl \/ mark.attempt \in Free)
  BY DEF AddIssueWorkAttemptContributor
<1>2. mark \in Mark
  BY DEF IInv, TypeOK
<1>3. new \in Mark /\ new.user = mark.user /\ new.attempt = mark.attempt
      /\ new.source = mark.source
  BY <1>2 DEF Mark
<1> HIDE DEF new
<1>4. Rows' /\ FixedIsProven'
  BY <1>1 DEF IInv, Rows, CrawlOK, BatchOK, IsActive, AttemptOK, VerifierOK,
              HolderOK, FixedIsProven
<1>5. TypeOK'
  BY <1>1, <1>3 DEF IInv, TypeOK
<1>6. mark.attempt \in Free =>
        attempt[mark.attempt].status \notin {"none", "deleted"}
  BY DEF Free, Active
<1>7. MarkOK'
  BY <1>1, <1>3, <1>6 DEF IInv, Marks, MarkOK
<1>8. \A m \in 0..MaxAttempt : Numbered(m) => Numbered(m)'
  BY <1>1, <1>3 DEF Numbered
<1> QED BY <1>4, <1>5, <1>7, <1>8 DEF IInv, Marks

\* One attempt changes: what it refers to, and what is judged, stays.
LEMMA AttemptChanges ==
  ASSUME IInv, NEW x \in Issue, NEW b \in AttemptRow,
         attempt' = [attempt EXCEPT ![x] = b], UNCHANGED <<crawl, worker>>,
         b.source # NoCrawl => crawl[b.source].status = "completed",
         b.verifier # NoCrawl =>
           /\ b.verifier = attempt[x].verifier /\ b.source = attempt[x].source
           /\ b.status \in {"awaiting_verification", "not_verified"} /\ b.locked
                => IsActive(x) /\ attempt[x].locked,
         b.workers = {} <=> b.status \in {"none", "deleted"},
         IsActive(x) /\ attempt[x].locked =>
           /\ b.status = attempt[x].status /\ b.locked
           /\ b.verifier = attempt[x].verifier
  PROVE  /\ Rows' /\ attempt' \in [Issue -> AttemptRow]
         /\ \A a \in Issue : attempt'[a] = IF a = x THEN b ELSE attempt[a]
<1>1. /\ attempt' \in [Issue -> AttemptRow]
      /\ \A a \in Issue : attempt'[a] = IF a = x THEN b ELSE attempt[a]
  BY DEF IInv, TypeOK
<1>2. ASSUME NEW d \in Crawl
      PROVE  CrawlOK(crawl[d], worker[d])' /\ BatchOK(d)'
  <2>1. CrawlOK(crawl[d], worker[d]) /\ BatchOK(d)
        /\ worker[d].batch \in SUBSET Issue
    BY BatchesAreIssues DEF IInv, Rows
  <2> QED BY <1>1, <2>1 DEF BatchOK, IsActive, CrawlOK
<1>3. ASSUME NEW a \in Issue
      PROVE  AttemptOK(a)'
  <2>1. AttemptOK(a)
    BY DEF IInv, Rows
  <2>2. CASE a = x
    BY <1>1, <2>1, <2>2 DEF AttemptOK, IsActive, VerifierOK, HolderOK
  <2>3. CASE a # x
    BY <1>1, <2>1, <2>3 DEF AttemptOK, IsActive, VerifierOK, HolderOK
  <2> QED BY <2>2, <2>3
<1> QED BY <1>1, <1>2, <1>3 DEF Rows

\* With no mark open, attempts are numbered by themselves.
LEMMA MarkEnds ==
  ASSUME IInv, mark' = NoMark,
         \A a \in Issue :
           attempt'[a].status # "none" <=>
             \/ attempt[a].status # "none"
             \/ mark.source # NoCrawl /\ mark.attempt = a
  PROVE  Marks'
<1>1. PICK m \in 0..MaxAttempt : Numbered(m)
  BY DEF IInv, Marks
<1>2. Numbered(m)'
  BY <1>1 DEF Numbered, NoMark
<1> QED BY <1>2 DEF Marks, MarkOK

\* No mark is open.
LEMMA NoMarkTyped ==
  NoMark \in Mark
<1>1. 0 \in 0..MaxAttempt
  BY BoundsAssumption
<1> QED BY <1>1 DEF NoMark, Mark

\* With no mark open, what holds of the attempts is all there is to show.
LEMMA MarkDone ==
  ASSUME IInv, mark' = NoMark, UNCHANGED <<crawl, worker>>,
         attempt' \in [Issue -> AttemptRow],
         item' \in {"open", "awaiting_verification", "fixed"},
         item' = "fixed" =>
           /\ item = "fixed"
           /\ \A a \in Issue : attempt[a].status = "fixed"
                                => attempt'[a].status = "fixed"
  PROVE  TypeOK' /\ FixedIsProven'
<1>1. TypeOK'
  BY NoMarkTyped DEF IInv, TypeOK
<1>2. FixedIsProven'
  BY DEF IInv, FixedIsProven
<1> QED BY <1>1, <1>2

\* A new attempt is inserted, or a contributor joins.
LEMMA Commits ==
  ASSUME IInv, CommitMark
  PROVE  IInv'
<1> DEFINE x == mark.attempt
<1>1. /\ mark.added /\ item' = "awaiting_verification" /\ mark' = NoMark
      /\ UNCHANGED <<crawl, worker>>
  BY DEF CommitMark
<1>2. /\ mark.user \in User /\ x \in Issue
      /\ mark.source # NoCrawl =>
           /\ crawl[mark.source].status = "completed"
           /\ attempt[x].status = "none"
      /\ mark.source = NoCrawl => attempt[x].status \notin {"none", "deleted"}
      /\ mark.source \in Crawl \cup {NoCrawl}
  BY <1>1 DEF IInv, Marks, MarkOK, NoMark, TypeOK, Mark
<1>3. attempt[x] \in AttemptRow /\ AttemptOK(x)
  BY <1>2 DEF IInv, TypeOK, Rows
<1>4. CASE mark.source = NoCrawl
  <2> DEFINE b == [attempt[x] EXCEPT
                     !.workers = attempt[x].workers \cup {mark.user}]
  <2>1. attempt' = [attempt EXCEPT ![x] = b]
    BY <1>4, Zenon DEF CommitMark, JoinIssueWorkAttempt
  <2>2. b \in AttemptRow /\ b.status = attempt[x].status
        /\ b.locked = attempt[x].locked /\ b.source = attempt[x].source
        /\ b.verifier = attempt[x].verifier /\ b.workers # {}
    BY <1>2, <1>3 DEF AttemptRow
  <2> HIDE DEF b
  <2>3. /\ Rows' /\ attempt' \in [Issue -> AttemptRow]
        /\ \A a \in Issue : attempt'[a] = IF a = x THEN b ELSE attempt[a]
    BY <1>1, <1>2, <1>3, <1>4, <2>1, <2>2, AttemptChanges
       DEF AttemptOK, IsActive
  <2>4. Marks'
    BY <1>1, <1>4, <2>2, <2>3, MarkEnds
  <2>5. TypeOK' /\ FixedIsProven'
    BY <1>1, <2>3, MarkDone
  <2> QED BY <2>3, <2>4, <2>5 DEF IInv
<1>5. CASE mark.source # NoCrawl
  <2> DEFINE s == [NoAttempt EXCEPT !.status = "awaiting_verification"]
             f == [s EXCEPT !.source = mark.source]
             b == [f EXCEPT !.workers = {mark.user}]
  <2>1. attempt' = [attempt EXCEPT ![x] = b]
    BY <1>5, Zenon DEF CommitMark, CreateIssueWorkAttempt
  <2>2. NoAttempt \in AttemptRow /\ NoAttempt.locked = FALSE
        /\ NoAttempt.verifier = NoCrawl
    BY DEF NoAttempt, AttemptRow
  <2>3. s \in AttemptRow /\ s.status = "awaiting_verification"
        /\ s.locked = FALSE /\ s.verifier = NoCrawl
    BY <2>2 DEF AttemptRow
  <2> HIDE DEF s
  <2>4. f \in AttemptRow /\ f.status = "awaiting_verification"
        /\ f.locked = FALSE /\ f.verifier = NoCrawl /\ f.source = mark.source
    BY <1>2, <2>3 DEF AttemptRow
  <2> HIDE DEF f
  <2>5. b \in AttemptRow /\ b.status = "awaiting_verification"
        /\ b.locked = FALSE /\ b.verifier = NoCrawl /\ b.source = mark.source
        /\ b.workers # {}
    BY <1>2, <2>4 DEF AttemptRow
  <2> HIDE DEF b
  <2>6. ~IsActive(x)
    BY <1>2, <1>5 DEF IsActive
  <2>7. /\ Rows' /\ attempt' \in [Issue -> AttemptRow]
        /\ \A a \in Issue : attempt'[a] = IF a = x THEN b ELSE attempt[a]
    BY <1>1, <1>2, <1>5, <2>1, <2>5, <2>6, AttemptChanges
  <2>8. Marks'
    BY <1>1, <1>2, <1>5, <2>5, <2>7, MarkEnds
  <2>9. TypeOK' /\ FixedIsProven'
    BY <1>1, <2>7, MarkDone
  <2> QED BY <2>7, <2>8, <2>9 DEF IInv
<1> QED BY <1>4, <1>5

\* A number that was reserved is not used again.
LEMMA Aborts ==
  ASSUME IInv, AbortMark
  PROVE  IInv'
<1> DEFINE x == mark.attempt
<1>1. mark # NoMark /\ mark' = NoMark /\ UNCHANGED <<crawl, worker, item>>
  BY DEF AbortMark
<1>2. x \in Issue /\ (mark.source # NoCrawl => attempt[x].status = "none")
  BY <1>1 DEF IInv, Marks, MarkOK
<1>3. attempt[x] \in AttemptRow /\ AttemptOK(x)
      /\ attempt \in [Issue -> AttemptRow]
  BY <1>2 DEF IInv, TypeOK, Rows
<1>4. CASE mark.source = NoCrawl
  <2>1. UNCHANGED attempt
    BY <1>4 DEF AbortMark
  <2>2. Rows'
    BY <1>1, <2>1 DEF IInv, Rows, CrawlOK, BatchOK, IsActive, AttemptOK,
       VerifierOK, HolderOK
  <2>3. Marks'
    BY <1>1, <1>4, <2>1, MarkEnds
  <2>4. TypeOK' /\ FixedIsProven'
    BY <1>1, <1>3, <2>1, MarkDone DEF IInv, TypeOK
  <2> QED BY <2>2, <2>3, <2>4 DEF IInv
<1>5. CASE mark.source # NoCrawl
  <2> DEFINE b == [attempt[x] EXCEPT !.status = "deleted"]
  <2>1. attempt' = [attempt EXCEPT ![x] = b]
    BY <1>5, Zenon DEF AbortMark
  <2>2. b \in AttemptRow /\ b.status = "deleted"
        /\ b.source = attempt[x].source
        /\ b.verifier = attempt[x].verifier /\ b.workers = attempt[x].workers
    BY <1>3 DEF AttemptRow
  <2> HIDE DEF b
  <2>3. ~IsActive(x) /\ attempt[x].workers = {}
    BY <1>2, <1>3, <1>5 DEF IsActive, AttemptOK
  <2>4. /\ Rows' /\ attempt' \in [Issue -> AttemptRow]
        /\ \A a \in Issue : attempt'[a] = IF a = x THEN b ELSE attempt[a]
    BY <1>1, <1>2, <1>3, <2>1, <2>2, <2>3, AttemptChanges DEF AttemptOK
  <2>5. Marks'
    BY <1>1, <1>2, <1>5, <2>2, <2>4, MarkEnds
  <2>6. TypeOK' /\ FixedIsProven'
    <3>1. item \in {"open", "awaiting_verification", "fixed"}
      BY DEF IInv, TypeOK
    <3>2. \A a \in Issue : attempt[a].status = "fixed"
                           => attempt'[a].status = "fixed"
      BY <1>2, <1>5, <2>4
    <3> QED BY <1>1, <2>4, <3>1, <3>2, MarkDone
  <2> QED BY <2>4, <2>5, <2>6 DEF IInv
<1> QED BY <1>4, <1>5

\* Who withdraws last takes the attempt along.
LEMMA Removes ==
  ASSUME IInv, NEW u \in User, NEW x \in Issue, RemoveOwnContribution(u, x)
  PROVE  IInv'
<1>1. /\ x \in Free /\ u \in attempt[x].workers /\ UNCHANGED <<crawl, worker, mark>>
      /\ ~(mark.added /\ mark.attempt = x)
  BY DEF RemoveOwnContribution
<1>2. IsActive(x) /\ ~attempt[x].locked
  BY <1>1 DEF Free, Active, IsActive
<1>3. attempt[x] \in AttemptRow /\ AttemptOK(x)
  BY DEF IInv, TypeOK, Rows
<1>4. PICK b \in AttemptRow :
        /\ attempt' = [attempt EXCEPT ![x] = b]
        /\ b.status \notin {"none", "fixed"}
        /\ b.source # NoCrawl => b.source = attempt[x].source
        /\ b.verifier # NoCrawl => /\ b.verifier = attempt[x].verifier
                                   /\ b.source = attempt[x].source
                                   /\ ~b.locked
        /\ b.workers = {} <=> b.status \in {"none", "deleted"}
  <2>1. CASE attempt[x].workers = {u}
    <3> DEFINE b == [NoAttempt EXCEPT !.status = "deleted"]
    <3>1. attempt' = [attempt EXCEPT ![x] = b]
      BY <2>1 DEF RemoveOwnContribution
    <3>2. NoAttempt \in AttemptRow /\ NoAttempt.workers = {}
          /\ NoAttempt.verifier = NoCrawl /\ NoAttempt.source = NoCrawl
      BY DEF NoAttempt, AttemptRow
    <3>3. b \in AttemptRow /\ b.status = "deleted" /\ b.workers = {}
          /\ b.verifier = NoCrawl /\ b.source = NoCrawl
      BY <3>2 DEF AttemptRow
    <3> HIDE DEF b
    <3> QED BY <3>1, <3>3
  <2>2. CASE attempt[x].workers # {u}
    <3> DEFINE rest == attempt[x].workers \ {u}
               b == [attempt[x] EXCEPT !.workers = rest]
    <3>1. attempt' = [attempt EXCEPT ![x] = b]
      BY <2>2, Zenon DEF RemoveOwnContribution
    <3>2. rest \in SUBSET User /\ rest # {}
      BY <1>1, <1>3, <2>2 DEF AttemptRow
    <3> HIDE DEF rest
    <3>3. b \in AttemptRow /\ b.status = attempt[x].status /\ b.workers = rest
          /\ b.verifier = attempt[x].verifier /\ b.source = attempt[x].source
          /\ b.locked = attempt[x].locked
      BY <1>3, <3>2 DEF AttemptRow
    <3> HIDE DEF b
    <3> QED BY <1>2, <3>1, <3>2, <3>3 DEF IsActive
  <2> QED BY <2>1, <2>2
<1>5. /\ Rows' /\ attempt' \in [Issue -> AttemptRow]
      /\ \A a \in Issue : attempt'[a] = IF a = x THEN b ELSE attempt[a]
  BY <1>1, <1>2, <1>3, <1>4, AttemptChanges DEF AttemptOK
<1>6. item' \in {item, "open"}
  BY DEF RemoveOwnContribution
<1>7. TypeOK' /\ FixedIsProven'
  BY <1>1, <1>2, <1>5, <1>6 DEF IInv, TypeOK, FixedIsProven, IsActive
<1>8. MarkOK'
  BY <1>1, <1>2, <1>4, <1>5 DEF IInv, Marks, MarkOK, IsActive
<1>9. \A m \in 0..MaxAttempt : Numbered(m) => Numbered(m)'
  BY <1>1, <1>2, <1>4, <1>5 DEF Numbered, IsActive
<1> QED BY <1>5, <1>7, <1>8, <1>9 DEF IInv, Marks

-----------------------------------------------------------------------------
(* The invariant *)

LEMMA InitialInvariant ==
  Init => IInv
<1> SUFFICES ASSUME Init
             PROVE  IInv
  OBVIOUS
<1>0. 0 \in 0..MaxAttempt /\ 1 \in Crawl
  BY BoundsAssumption DEF Crawl
<1>1. PICK u \in Requester :
        crawl = [c \in Crawl |->
                   IF c = 1 THEN [NotCrawled EXCEPT !.status = "completed",
                                    !.by = u, !.issue = TRUE]
                   ELSE NotCrawled]
  BY DEF Init
<1> DEFINE r1 == [NotCrawled EXCEPT !.status = "completed"]
           r2 == [r1 EXCEPT !.by = u]
           r3 == [r2 EXCEPT !.issue = TRUE]
<1>2. crawl = [c \in Crawl |-> IF c = 1 THEN r3 ELSE NotCrawled]
  BY <1>1, Zenon
<1>3. NotCrawled \in CrawlRow /\ NotCrawled.status = "none"
  BY <1>0 DEF NotCrawled, CrawlRow
<1>4. r1 \in CrawlRow /\ r1.status = "completed"
  BY <1>3 DEF CrawlRow, Ended
<1> HIDE DEF r1
<1>5. r2 \in CrawlRow /\ r2.status = "completed"
  BY <1>4 DEF CrawlRow
<1> HIDE DEF r2
<1>6. r3 \in CrawlRow /\ r3.status = "completed"
  BY <1>5 DEF CrawlRow
<1> HIDE DEF r3
<1>7. crawl \in [Crawl -> CrawlRow]
  BY <1>2, <1>3, <1>6
<1>8. /\ \A c \in Crawl : worker[c] = Away
      /\ worker \in [Crawl -> Worker]
  BY DEF Init, Away, Worker
<1>9. /\ \A a \in Issue : attempt[a] = NoAttempt
      /\ attempt \in [Issue -> AttemptRow]
  BY DEF Init, NoAttempt, AttemptRow
<1>10. item = "open" /\ mark = NoMark
  BY DEF Init
<1>11. TypeOK
  BY <1>7, <1>8, <1>9, <1>10, NoMarkTyped DEF TypeOK
<1>12. Rows
  BY <1>8, <1>9
     DEF Rows, CrawlOK, BatchOK, AttemptOK, IsActive, Away, NoAttempt
<1>13. Numbered(0)
  BY <1>9, <1>10 DEF Numbered, Issue, NoAttempt, NoMark
<1> QED BY <1>0, <1>10, <1>11, <1>12, <1>13 DEF IInv, Marks, MarkOK, FixedIsProven

LEMMA StepInvariant ==
  IInv /\ [Next]_vars => IInv'
<1> SUFFICES ASSUME IInv, [Next]_vars
             PROVE  IInv'
  OBVIOUS
<1>1. CASE \E u \in Requester : RequestCrawl(u)
  <2>1. PICK u \in Requester : RequestCrawl(u)
    BY <1>1
  <2>2. "manual" \in {"manual", "auto"} /\ u \in Requester \cup {NoUser}
    OBVIOUS
  <2> QED BY <2>1, <2>2, Creates DEF RequestCrawl
<1>2. CASE SweepDueAutoCrawls
  <2>1. "auto" \in {"manual", "auto"} /\ NoUser \in Requester \cup {NoUser}
    OBVIOUS
  <2> QED BY <1>2, <2>1, Creates DEF SweepDueAutoCrawls
<1>3. CASE \/ \E u \in User : BeginMark(u)
           \/ \E u \in User, a \in Issue : RemoveOwnContribution(u, a)
           \/ AddIssueWorkAttemptContributor \/ CommitMark \/ AbortMark
  BY <1>3, BeginsMark, Removes, AddsContributor, Commits, Aborts
<1>4. CASE \E u \in Requester, p \in Crawl : EnqueueMissing(u, p)
  BY <1>4, Enqueues
<1>5. CASE ClaimNextQueuedCrawlManual \/ ClaimNextQueuedCrawlAuto
  BY <1>5, Claims
<1>6. ASSUME NEW c \in Crawl,
             \/ MarkCrawlRunning(c)
             \/ LockIssueWorkAttemptsForCrawlStart(c)
             \/ CheckRunning(c)
             \/ BeginSettle(c)
             \/ EndSettle(c)
             \/ MarkCrawlFailed(c)
             \/ CrawlerLeaves(c)
             \/ ReclaimStaleRunningCrawl(c)
             \/ CancelCrawl(c)
             \/ DeleteCrawl(c)
      PROVE  IInv'
  BY <1>6, MarksRunning, Locks, GoroutineMoves, BeginsSettling, Settles,
     Fails, Cancels, DeletesCrawl
<1>7. CASE UNCHANGED vars
  <2>1. UNCHANGED <<crawl, worker, item, attempt, mark>>
    BY <1>7 DEF vars
  <2>2. TypeOK' /\ Rows'
    BY <2>1 DEF IInv, TypeOK, Rows, CrawlOK, BatchOK, AttemptOK, VerifierOK,
                HolderOK, IsActive
  <2>3. Marks' /\ FixedIsProven'
    BY <2>1 DEF IInv, Marks, MarkOK, Numbered, FixedIsProven
  <2> QED BY <2>2, <2>3 DEF IInv
<1> QED BY <1>1, <1>2, <1>3, <1>4, <1>5, <1>6, <1>7 DEF Next

\* Every state satisfies the invariant, in whatever order users mark and
\* withdraw work while crawls are requested, swept, claimed, started,
\* completed, failed, reclaimed, cancelled and deleted.
THEOREM Invariance == Spec => []IInv
<1> QED BY InitialInvariant, StepInvariant, PTL DEF Spec

\* Every row of crawls, attempts and open transactions is of its type.
THEOREM TypeCorrect == Spec => []TypeOK
<1>1. IInv => TypeOK
  BY DEF IInv
<1> QED BY <1>1, Invariance, PTL

\* A locked attempt waits for a crawl that runs, or was cancelled or deleted:
\* MarkCrawlFailed, ReclaimStaleRunningCrawl and the completion release every
\* attempt they leave open, although a crawl locks its attempts only after it
\* has started.
THEOREM LocksCarried == Spec => []LocksAreCarried
<1>1. ASSUME IInv, NEW a \in Active, attempt[a].locked
      PROVE  \/ attempt[a].verifier = NoCrawl
             \/ Running(attempt[a].verifier)
             \/ crawl[attempt[a].verifier].status = "cancelled"
  BY <1>1 DEF IInv, Rows, AttemptOK, HolderOK, IsActive, Active, Running
<1>2. IInv => LocksAreCarried
  BY <1>1 DEF LocksAreCarried
<1> QED BY <1>2, Invariance, PTL

\* A crawl judges an attempt only if the work on it was there when the crawl
\* started, and was not about an issue the crawl found itself
\* (ListIssueWorkAttemptsForVerification and the lock at the start).
THEOREM VerdictsLater == Spec => []VerdictsAfterWork
<1>1. IInv => VerdictsAfterWork
  BY DEF IInv, Rows, AttemptOK, VerifierOK, VerdictsAfterWork
<1> QED BY <1>1, Invariance, PTL

\* An attempt has contributors exactly as long as it exists: nobody joins an
\* attempt that the last contributor's withdrawal deletes.
THEOREM WorkCredited == Spec => []WorkIsCredited
<1>1. IInv => WorkIsCredited
  BY DEF IInv, Rows, AttemptOK, WorkIsCredited
<1> QED BY <1>1, Invariance, PTL

\* The item is fixed only while an attempt at it has been found fixed.
THEOREM FixedProven == Spec => []FixedIsProven
<1>1. IInv => FixedIsProven
  BY DEF IInv
<1> QED BY <1>1, Invariance, PTL
=============================================================================
