-------------------------- MODULE LocalVisibility --------------------------
(***************************************************************************)
(* Runs that measure how a location ranks on the map, and the credits they *)
(* spend.                                                                  *)
(*                                                                         *)
(* A run is reserved for its worst cost in the allowances of the platform  *)
(* and of the organization, and its calls, its cells, are paid one by one. *)
(* A worker makes the calls; a sweep ends the runs whose job has failed.   *)
(* A call may be billed and its price never learnt, so what it reserved    *)
(* stays reserved.  The setup of a location starts a run too, as its last  *)
(* step.  Workers die between any two statements they do not share a       *)
(* transaction with.                                                       *)
(***************************************************************************)
EXTENDS Integers, FiniteSets, FiniteSetsExt

CONSTANTS
  Location,
  Guided,     \* the locations with a location_setup row
  Org,        \* organizations
  OrgOf,      \* the organization of each location
  N,          \* calls of a run: its queries times the nine points
  Answer,     \* what a call can give: its status and price, 0 for none told
  Grant,      \* bound: the allowances an administrator can set
  MaxRun,     \* bound: runs, numbered as created
  MaxJob      \* bound: jobs, numbered as created

Nowhere == "nowhere"                \* the location of a run not created yet

ASSUME MapsAssumption ==
  /\ Guided \subseteq Location /\ OrgOf \in [Location -> Org]
  /\ Nowhere \notin Location
  /\ N \in Nat \ {0} /\ MaxRun \in Nat \ {0} /\ MaxJob \in Nat \ {0}
  /\ Answer \subseteq {"failed", "ok"} \X Nat /\ Grant \subseteq Nat

VARIABLES
  platform,   \* the platform_maps_credit_budget row
  budget,     \* the organization_maps_credit_budgets rows
  run,        \* the local_visibility_runs rows, with cells and results
  job,        \* the ai_worker_jobs rows of the runs
  worker,     \* per job: the goroutine that executes its run
  setup       \* per location: the Maps step of its location_setup row

vars == <<platform, budget, run, job, worker, setup>>

-----------------------------------------------------------------------------
(* Rows and goroutines *)

MapsCreditsPerCall == 3

Run   == 1..MaxRun
NoRun == 0
Job   == 1..MaxJob
Cell  == 1..N                       \* in the order the worker calls them

Open  == {"queued", "running"}
Ended == {"completed", "partial", "failed"}

Budget == [remaining : Int, reserved : Nat, spent : Nat]

\* start: when started_at was set, relative to the end of the run.
\* call: the call_status of the result; pending when there is no result.
CellRow ==
  [ start : {"never", "in time", "late"},
    call  : {"pending", "failed", "ok"},
    known : BOOLEAN ]                            \* credit_known

RunRow ==
  [ status   : {"none", "deleted"} \cup Open \cup Ended,
    location : Location \cup {Nowhere},
    reserved : Nat,
    used     : Nat,
    cell     : [Cell -> CellRow] ]

JobRow ==
  [ status : {"none", "pending", "running", "failed", "completed", "deleted"},
    run    : Run \cup {NoRun} ]

\* next: the cell the loop is at.  failed: the execErr of the loop is set.
Worker ==
  [ at : {"none", "starting", "looping", "calling", "finishing", "failing",
          "succeeding"},
    next : 1..(N + 1), failed : BOOLEAN ]

Setup ==
  [ step : {"none", "pending", "running", "completed", "failed", "skipped",
            "deleted"},                          \* with the location itself
    run  : Run \cup {NoRun} ]

TypeOK ==
  /\ platform \in Budget
  /\ budget \in [Org -> Budget]
  /\ run \in [Run -> RunRow]
  /\ job \in [Job -> JobRow]
  /\ worker \in [Job -> Worker]
  /\ setup \in [Location -> Setup]

NewCell == [start |-> "never", call |-> "pending", known |-> FALSE]
Away    == [at |-> "none", next |-> 1, failed |-> FALSE]

NoRow ==
  [status |-> "none", location |-> Nowhere, reserved |-> 0, used |-> 0,
   cell |-> [c \in Cell |-> NewCell]]

Allowance(n) == [remaining |-> n, reserved |-> 0, spent |-> 0]

Init ==
  /\ platform \in {Allowance(n) : n \in Grant}
  /\ \E n \in Grant : budget = [o \in Org |-> Allowance(n)]
  /\ run = [r \in Run |-> NoRow]
  /\ job = [j \in Job |-> [status |-> "none", run |-> NoRun]]
  /\ worker = [j \in Job |-> Away]
  /\ setup = [l \in Location |->
                [step |-> IF l \in Guided THEN "pending" ELSE "none",
                 run |-> NoRun]]

-----------------------------------------------------------------------------
(* Statements *)

IsOpen(r) == run[r].status \in Open

OrgOfRun(r) == OrgOf[run[r].location]

ExpectedRunCredits == N * MapsCreditsPerCall

Affords(b, n) == b.remaining - b.reserved >= n

Reserve(b, n) == [b EXCEPT !.reserved = @ + n]

Settle(b, released, spent) ==
  [b EXCEPT !.reserved  = @ - released,
            !.remaining = @ - spent,
            !.spent     = @ + spent]

ReservePlatformMapsCredits(n) ==
  Affords(platform, n) /\ platform' = Reserve(platform, n)

ReserveOrganizationMapsCredits(o, n) ==
  Affords(budget[o], n) /\ budget' = [budget EXCEPT ![o] = Reserve(@, n)]

SettlePlatformMapsCredits(released, spent) ==
  platform' = Settle(platform, released, spent)

SettleOrganizationMapsCredits(o, released, spent) ==
  budget' = [budget EXCEPT ![o] = Settle(@, released, spent)]

\* One run in flight per location: the unique index on open runs.
CreateLocalVisibilityRun(l, r) ==
  /\ \A s \in Run : run[s].location = l => ~IsOpen(s)
  /\ run[r].status = "none" /\ \A s \in 1..(r - 1) : run[s].status # "none"
  /\ run' = [run EXCEPT ![r] =
               [status |-> "queued", location |-> l,
                reserved |-> ExpectedRunCredits, used |-> 0,
                cell |-> [c \in Cell |-> NewCell]]]

EnqueueLocalVisibilityJob(r) ==
  \E j \in Job :
    /\ job[j].status = "none" /\ \A i \in 1..(j - 1) : job[i].status # "none"
    /\ job' = [job EXCEPT ![j] = [status |-> "pending", run |-> r]]

InsertLocalVisibilityResult(row, c, call, price) ==
  [row EXCEPT !.cell[c].call = call, !.cell[c].known = price > 0]

SettleLocalRunCredits(row, released, spent) ==
  [row EXCEPT !.reserved = @ - released, !.used = @ + spent]

FinishLocalVisibilityRun(row, status) == [row EXCEPT !.status = status]

\* Mutant: a call whose result has not come counts as one not attempted.
Unanswered(row) == {c \in Cell : row.cell[c].call = "pending"}

Unstarted(row) == {c \in Cell : row.cell[c].start = "never"}

\* Money that may still be owed keeps a run from being completed.
SummarizeRunOutcome(row) ==
  LET ok == {c \in Cell : row.cell[c].call = "ok"}
  IN  CASE ok = Cell /\ row.reserved = 0 -> "completed"
        [] ok = {}                       -> "failed"
        [] OTHER                         -> "partial"

\* One transaction; it changes nothing when the run is no longer open.
FinishRun(r) ==
  LET released == Cardinality(Unstarted(run[r])) * MapsCreditsPerCall
  IN  IF IsOpen(r)
      THEN /\ SettlePlatformMapsCredits(released, 0)
           /\ SettleOrganizationMapsCredits(OrgOfRun(r), released, 0)
           /\ run' = [run EXCEPT ![r] =
                        FinishLocalVisibilityRun(
                          SettleLocalRunCredits(@, released, 0),
                          SummarizeRunOutcome(@))]
      ELSE UNCHANGED <<platform, budget, run>>

-----------------------------------------------------------------------------
(* Requests: a run, an allowance, the end of a location *)

\* The location is locked first; all of it is one transaction, rolled back
\* when either allowance refuses.
EnqueueRun(l) ==
  /\ setup[l].step # "deleted"
  /\ ReservePlatformMapsCredits(ExpectedRunCredits)
  /\ ReserveOrganizationMapsCredits(OrgOf[l], ExpectedRunCredits)
  /\ \E r \in Run : /\ CreateLocalVisibilityRun(l, r)
                    /\ EnqueueLocalVisibilityJob(r)
  /\ UNCHANGED <<worker, setup>>

\* The administrator names the remaining credits he saw: the update compares
\* them, and nothing else of the row.
UpdatePlatformMapsCreditBudget(n) ==
  /\ platform.remaining # n /\ platform' = [platform EXCEPT !.remaining = n]
  /\ UNCHANGED <<budget, run, job, worker, setup>>

UpdateOrganizationMapsCreditBudget(o, n) ==
  /\ budget[o].remaining # n
  /\ budget' = [budget EXCEPT ![o].remaining = n]
  /\ UNCHANGED <<platform, run, job, worker, setup>>

\* With its location or its project a run goes, its cells and jobs with it,
\* unless it is open or holds credits: the trigger of the table.  What it used
\* is kept here as history, since the allowances keep it.
DeleteLocation(l) ==
  LET gone == {r \in Run : run[r].location = l}
  IN  /\ setup[l].step # "deleted"
      /\ \A r \in gone : ~IsOpen(r) /\ run[r].reserved = 0
      /\ run' = [r \in Run |->
                  IF r \in gone
                  THEN [run[r] EXCEPT !.status = "deleted",
                                      !.cell = [c \in Cell |-> NewCell]]
                  ELSE run[r]]
      /\ job' = [j \in Job |-> IF job[j].run \in gone
                              THEN [job[j] EXCEPT !.status = "deleted"]
                              ELSE job[j]]
      /\ setup' = [setup EXCEPT ![l] = [step |-> "deleted", run |-> NoRun]]
      /\ UNCHANGED <<platform, budget, worker>>

-----------------------------------------------------------------------------
(* A worker and its run *)

GoTo(j, at) == worker' = [worker EXCEPT ![j] = [Away EXCEPT !.at = at]]

LeaveLoop(j, failed) ==
  worker' = [worker EXCEPT
               ![j] = [at |-> "finishing", next |-> 1, failed |-> failed]]

NextCell(j) ==
  worker' = [worker EXCEPT ![j].at = "looping", ![j].next = @ + 1]

ClaimNextPendingAIWorkerJob(j) ==
  /\ job[j].status = "pending"
  /\ \A i \in 1..(j - 1) : job[i].status # "pending"
  /\ job' = [job EXCEPT ![j].status = "running"]
  /\ GoTo(j, "starting")
  /\ UNCHANGED <<platform, budget, run, setup>>

StartLocalVisibilityRun(j) ==
  LET r == job[j].run
  IN  /\ worker[j].at = "starting"
      /\ run[r].status = "queued"
      /\ run' = [run EXCEPT ![r].status = "running"]
      /\ GoTo(j, "looping")
      /\ UNCHANGED <<platform, budget, job, setup>>

\* The run cannot be read, or is not queued any more.
FailToStart(j) ==
  /\ worker[j].at = "starting"
  /\ GoTo(j, "failing")
  /\ UNCHANGED <<platform, budget, run, job, setup>>

\* The statement compares the cell alone, never the status of its run.
StartLocalRunCell(j) ==
  LET r == job[j].run
      c == worker[j].next
  IN  /\ worker[j].at = "looping" /\ c \in Cell
      /\ IF /\ run[r].status # "deleted"
            /\ run[r].cell[c].start = "never"
         THEN /\ run' = [run EXCEPT ![r].cell[c].start =
                           IF IsOpen(r) THEN "in time" ELSE "late"]
              /\ worker' = [worker EXCEPT ![j].at = "calling"]
         ELSE NextCell(j) /\ UNCHANGED run
      /\ UNCHANGED <<platform, budget, job, setup>>

\* The end of the cells, a shutdown, or a statement that fails.
EndLoop(j) ==
  /\ worker[j].at = "looping"
  /\ \E failed \in BOOLEAN : LeaveLoop(j, failed)
  /\ UNCHANGED <<platform, budget, run, job, setup>>

\* Mutant: the transaction does not compare the status of the run.
RecordWhenever(j, call, price) ==
  LET r        == job[j].run
      released == IF price > 0 THEN MapsCreditsPerCall ELSE 0
  IN  /\ worker[j].at = "calling" /\ run[r].status # "deleted"
      /\ SettlePlatformMapsCredits(released, price)
      /\ SettleOrganizationMapsCredits(OrgOfRun(r), released, price)
      /\ run' = [run EXCEPT ![r] =
                   SettleLocalRunCredits(
                     InsertLocalVisibilityResult(@, worker[j].next, call, price),
                     released, price)]
      /\ NextCell(j)
      /\ UNCHANGED <<job, setup>>

\* The call has answered; the price it names is settled with its result, in
\* one transaction that only a running run accepts.
RecordCellOutcome(j, call, price) ==
  LET r        == job[j].run
      c        == worker[j].next
      released == IF price > 0 THEN MapsCreditsPerCall ELSE 0
  IN  /\ worker[j].at = "calling"
      /\ run[r].status = "running"
      /\ SettlePlatformMapsCredits(released, price)
      /\ SettleOrganizationMapsCredits(OrgOfRun(r), released, price)
      /\ run' = [run EXCEPT ![r] =
                   SettleLocalRunCredits(
                     InsertLocalVisibilityResult(@, c, call, price),
                     released, price)]
      /\ IF price \notin {0, MapsCreditsPerCall} THEN LeaveLoop(j, FALSE)
                                                 ELSE NextCell(j)
      /\ UNCHANGED <<job, setup>>

\* The run is not running any more, or the transaction fails: the call was
\* made and nothing is known of it.
LoseCellOutcome(j) ==
  /\ worker[j].at = "calling"
  /\ LeaveLoop(j, TRUE)
  /\ UNCHANGED <<platform, budget, run, job, setup>>

\* The run is read again to learn whether the job succeeds.
FinishAsWorker(j) ==
  LET r == job[j].run
  IN  /\ worker[j].at = "finishing"
      /\ FinishRun(r)
      /\ GoTo(j, IF ~worker[j].failed /\ run'[r].status = "completed"
                 THEN "succeeding" ELSE "failing")
      /\ UNCHANGED <<job, setup>>

FailToFinish(j) ==
  /\ worker[j].at = "finishing"
  /\ GoTo(j, "failing")
  /\ UNCHANGED <<platform, budget, run, job, setup>>

\* The job's row is written whatever its status has become; the step of the
\* setup follows if it still waits for this run.
FinalizeLocalRun(j) ==
  LET r     == job[j].run
      l     == run[r].location
      ended == IF worker[j].at = "succeeding" THEN "completed" ELSE "failed"
  IN  /\ worker[j].at \in {"succeeding", "failing"}
      /\ job' = [job EXCEPT ![j].status = IF @ = "deleted" THEN @ ELSE ended]
      /\ setup' = IF setup[l] = [step |-> "running", run |-> r]
                  THEN [setup EXCEPT ![l].step = ended] ELSE setup
      /\ worker' = [worker EXCEPT ![j] = Away]
      /\ UNCHANGED <<platform, budget, run>>

\* The process dies, or the last transaction fails and is only logged.
Crash(j) ==
  /\ worker[j].at # "none"
  /\ worker' = [worker EXCEPT ![j] = Away]
  /\ UNCHANGED <<platform, budget, run, job, setup>>

-----------------------------------------------------------------------------
(* The sweep of every worker process *)

\* A job that has run for too long, which does not tell whether it still runs.
ReclaimStaleRunningAIWorkerJobs(j) ==
  /\ job[j].status = "running"
  /\ job' = [job EXCEPT ![j].status = "failed"]
  /\ UNCHANGED <<platform, budget, run, worker, setup>>

\* Mutant: a run whose job failed before it started is not interrupted.
ListRunningInterrupted ==
  {r \in Run : /\ run[r].status = "running"
               /\ \E j \in Job : job[j].run = r /\ job[j].status = "failed"}

ListInterruptedLocalVisibilityRuns ==
  {r \in Run : /\ IsOpen(r)
               /\ \E j \in Job : job[j].run = r /\ job[j].status = "failed"}

FinishInterrupted(r) ==
  /\ r \in ListInterruptedLocalVisibilityRuns
  /\ FinishRun(r)
  /\ UNCHANGED <<job, worker, setup>>

JobsOf(r) == {j \in Job : job[j].run = r}

ReclaimSetup(l) ==
  /\ setup[l].step = "running"
  /\ \E j \in JobsOf(setup[l].run) :
       /\ \A i \in JobsOf(setup[l].run) : i <= j
       /\ job[j].status = "failed"
  /\ setup' = [setup EXCEPT ![l].step = "failed"]
  /\ UNCHANGED <<platform, budget, run, job, worker>>

-----------------------------------------------------------------------------
(* The Maps step of a location's setup *)

\* The run of an earlier attempt, NoRun when there was none.
Launched(l) == setup[l].run

Launchable(l) == setup[l].step = "pending"

ToStep(l, step) == setup' = [setup EXCEPT ![l].step = step]

LaunchAdopts(l) ==
  /\ Launchable(l) /\ Launched(l) # NoRun
  /\ run[Launched(l)].status \in {"completed", "partial"}
  /\ ToStep(l, "completed")
  /\ UNCHANGED <<platform, budget, run, job, worker>>

EnsureLocalRunJob(r) ==
  IF \E j \in JobsOf(r) : job[j].status \in {"pending", "running"}
  THEN UNCHANGED job
  ELSE EnqueueLocalVisibilityJob(r)

LaunchRejoins(l) ==
  /\ Launchable(l) /\ Launched(l) # NoRun /\ IsOpen(Launched(l))
  /\ EnsureLocalRunJob(Launched(l))
  /\ ToStep(l, "running")
  /\ UNCHANGED <<platform, budget, run, worker>>

\* A run must be started: there is none to adopt or rejoin.  One that somebody
\* else has started defers the step, which stays pending.
NeedsRun(l) ==
  /\ Launchable(l)
  /\ Launched(l) # NoRun => run[Launched(l)].status = "failed"
  /\ \A r \in Run : run[r].location = l => ~IsOpen(r)

\* No listing, no query, a cost above the one disclosed.
LaunchSkips(l) ==
  /\ NeedsRun(l)
  /\ ToStep(l, "skipped")
  /\ UNCHANGED <<platform, budget, run, job, worker>>

\* Mutant: the platform's credits are not given back.
LaunchRefusedAndKept(l) ==
  LET n == ExpectedRunCredits
  IN  /\ NeedsRun(l)
      /\ \/ ~Affords(platform, n) /\ UNCHANGED platform
         \/ /\ Affords(platform, n) /\ ~Affords(budget[OrgOf[l]], n)
            /\ platform' = Reserve(platform, n)
      /\ ToStep(l, "skipped")
      /\ UNCHANGED <<budget, run, job, worker>>

\* The transaction commits the skipped step, so what the platform granted
\* is given back when the organization refuses.
LaunchRefused(l) ==
  LET n == ExpectedRunCredits
  IN  /\ NeedsRun(l)
      /\ \/ ~Affords(platform, n) /\ UNCHANGED platform
         \/ /\ Affords(platform, n) /\ ~Affords(budget[OrgOf[l]], n)
            /\ platform' = Settle(Reserve(platform, n), n, 0)
      /\ ToStep(l, "skipped")
      /\ UNCHANGED <<budget, run, job, worker>>

LaunchRun(l) ==
  /\ NeedsRun(l)
  /\ ReservePlatformMapsCredits(ExpectedRunCredits)
  /\ ReserveOrganizationMapsCredits(OrgOf[l], ExpectedRunCredits)
  /\ \E r \in Run :
       /\ CreateLocalVisibilityRun(l, r)
       /\ EnqueueLocalVisibilityJob(r)
       /\ setup' = [setup EXCEPT ![l] = [step |-> "running", run |-> r]]
  /\ UNCHANGED worker

\* A person resumes the setup that failed.
Resume(l) ==
  /\ setup[l].step = "failed"
  /\ ToStep(l, "pending")
  /\ UNCHANGED <<platform, budget, run, job, worker>>

-----------------------------------------------------------------------------
Work(j) ==
  \/ StartLocalVisibilityRun(j) \/ FailToStart(j)
  \/ StartLocalRunCell(j) \/ EndLoop(j)
  \/ \E answer \in Answer : RecordCellOutcome(j, answer[1], answer[2])
  \/ LoseCellOutcome(j)
  \/ FinishAsWorker(j) \/ FailToFinish(j)
  \/ FinalizeLocalRun(j)

LaunchMapsVisibility(l) ==
  \/ LaunchAdopts(l) \/ LaunchRejoins(l) \/ LaunchSkips(l)
  \/ LaunchRefused(l) \/ LaunchRun(l)

Next ==
  \/ \E l \in Location :
       \/ EnqueueRun(l) \/ DeleteLocation(l)
       \/ LaunchMapsVisibility(l) \/ ReclaimSetup(l) \/ Resume(l)
  \/ \E n \in Grant : \/ UpdatePlatformMapsCreditBudget(n)
                      \/ \E o \in Org : UpdateOrganizationMapsCreditBudget(o, n)
  \/ \E j \in Job : \/ ClaimNextPendingAIWorkerJob(j)
                    \/ Work(j) \/ Crash(j)
                    \/ ReclaimStaleRunningAIWorkerJobs(j)
  \/ \E r \in Run : FinishInterrupted(r)

\* Workers poll for jobs, calls and statements time out, and the sweep of a
\* process that is up is a ticker.  Nobody need ask for anything.
Fairness ==
  /\ \A j \in Job : /\ WF_vars(ClaimNextPendingAIWorkerJob(j))
                    /\ WF_vars(Work(j))
                    /\ WF_vars(ReclaimStaleRunningAIWorkerJobs(j))
  /\ \A r \in Run : WF_vars(FinishInterrupted(r))

Spec == Init /\ [][Next]_vars /\ Fairness

-----------------------------------------------------------------------------
(* Properties *)

\* The calls whose price is not settled: all of them while the run is open,
\* those that were started once it has ended.
Unsettled(row) ==
  {c \in Cell : /\ ~row.cell[c].known
                /\ row.status \in Open \/ row.cell[c].start = "in time"}

\* A run holds the price of its unsettled calls, neither less nor more,
\* whoever ends it and whatever is lost (summarizeRunOutcome; "Unknown provider
\* charges keep their reservation").  A call started after the end of its run
\* holds nothing.
RunsHold ==
  \A r \in Run :
    run[r].status \in Open \cup Ended =>
      run[r].reserved = MapsCreditsPerCall * Cardinality(Unsettled(run[r]))

\* The allowances are the sums of the runs: what the platform has reserved and
\* spent, and each organization, is what their runs hold and have used,
\* whichever transactions were refused, failed or came twice (EnqueueRun,
\* launchMapsVisibilityTx, RecordCellOutcome, FinishRun).
BudgetsMatch ==
  LET Held(S)  == MapThenSumSet(LAMBDA r : run[r].reserved, S)
      Spent(S) == MapThenSumSet(LAMBDA r : run[r].used, S)
      Created  == {r \in Run : run[r].status # "none"}
  IN  /\ platform.reserved = Held(Created) /\ platform.spent = Spent(Created)
      /\ \A o \in Org :
           LET own == {r \in Created : OrgOfRun(r) = o}
           IN  /\ budget[o].reserved = Held(own)
               /\ budget[o].spent = Spent(own)

\* A run ends although its worker dies, its job fails before the run starts, or
\* its end is not written (reclaimStale), so its location can be measured again.
RunsEnd == \A r \in Run : IsOpen(r) ~> ~IsOpen(r)
=============================================================================
