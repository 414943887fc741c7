----------------------- MODULE LocalVisibility_proofs -----------------------
(***************************************************************************)
(* A run holds the price of its unsettled calls, for every number of       *)
(* calls, runs, jobs and locations and whatever the calls answer.          *)
(*                                                                         *)
(* The invariant says of each row what it holds, that only an ended run    *)
(* has a call started late, and that a call that is being made is not      *)
(* settled and is made by one worker only: the last is what keeps one      *)
(* reservation from being released twice.                                  *)
(*                                                                         *)
(* Budgets are the sums of what their runs hold and have used, for every   *)
(* number of runs: a sum over a finite set does not depend on the order in *)
(* which it is taken, and every transaction moves both sides of it.        *)
(***************************************************************************)
EXTENDS LocalVisibility, FiniteSetTheorems, TLAPS

\* As RunRow, without the sign of what is reserved.
Row ==
  [ status   : {"none", "deleted"} \cup Open \cup Ended,
    location : Location \cup {Nowhere},
    reserved : Int,
    used     : Nat,
    cell     : [Cell -> CellRow] ]

RowHolds(row) ==
  row.status \in Open \cup Ended =>
    row.reserved = MapsCreditsPerCall * Cardinality(Unsettled(row))

RowAgrees(row) ==
  \A c \in Cell : /\ row.cell[c].start = "never" => ~row.cell[c].known
                  /\ row.status \in Open => row.cell[c].start # "late"

RowOK(row) == row \in Row /\ RowHolds(row) /\ RowAgrees(row)

Rows == run \in [Run -> Row] /\ \A r \in Run : RowOK(run[r])

Typed == job \in [Job -> JobRow] /\ worker \in [Job -> Worker]

Steps == setup \in [Location -> Setup]

Calling(j) == worker[j].at = "calling"

CellOf(j) == run[job[j].run].cell[worker[j].next]

HasRun(j) ==
  /\ worker[j].at # "none" => job[j].status # "none"
  /\ job[j].status # "none" => /\ job[j].run \in Run
                               /\ run[job[j].run].status # "none"

CallsUnsettled(j) ==
  Calling(j) =>
    /\ worker[j].next \in Cell
    /\ \/ run[job[j].run].status = "deleted"
       \/ CellOf(j).start # "never" /\ ~CellOf(j).known

CallsAlone(i, j) ==
  Calling(i) /\ Calling(j) /\ i # j /\ job[i].run = job[j].run =>
    \/ run[job[j].run].status = "deleted"
    \/ worker[i].next # worker[j].next

Calls ==
  /\ \A j \in Job : HasRun(j) /\ CallsUnsettled(j)
  /\ \A i \in Job : \A j \in Job : CallsAlone(i, j)

IInv == Rows /\ Typed /\ Calls

-----------------------------------------------------------------------------
(* What a statement does to a row *)

\* Any set of calls is finite.
LEMMA CellsFinite ==
  ASSUME NEW S \in SUBSET Cell
  PROVE  IsFiniteSet(S) /\ Cardinality(S) \in Nat
<1>1. IsFiniteSet(Cell)
  BY FS_Interval, MapsAssumption DEF Cell
<1> QED BY <1>1, FS_Subset, FS_CardinalityType

\* CreateLocalVisibilityRun reserves the price of every call.
LEMMA CreatedRow ==
  ASSUME NEW l \in Location, NEW row,
         row = [status |-> "queued", location |-> l,
                reserved |-> ExpectedRunCredits, used |-> 0,
                cell |-> [c \in Cell |-> NewCell]]
  PROVE  RowOK(row)
<1>1. row \in Row
  BY MapsAssumption DEF Row, Open, CellRow, NewCell, ExpectedRunCredits,
                        MapsCreditsPerCall
<1>2. Unsettled(row) = Cell
  BY DEF Unsettled, Open, NewCell
<1>3. Cardinality(Cell) = N
  BY FS_Interval, MapsAssumption DEF Cell
<1>4. RowHolds(row)
  BY <1>2, <1>3, MapsAssumption DEF RowHolds, ExpectedRunCredits,
                                    MapsCreditsPerCall
<1>5. RowAgrees(row)
  BY DEF RowAgrees, NewCell
<1> QED BY <1>1, <1>4, <1>5 DEF RowOK

\* StartLocalVisibilityRun.
LEMMA StartedRow ==
  ASSUME NEW row, RowOK(row), row.status = "queued",
         NEW new, new = [row EXCEPT !.status = "running"]
  PROVE  RowOK(new)
<1>1. new \in Row
  BY DEF RowOK, Row, Open
<1>2. Unsettled(new) = Unsettled(row)
  BY DEF Unsettled, Open, RowOK, Row
<1>3. RowHolds(new) /\ RowAgrees(new)
  BY <1>2 DEF RowOK, RowHolds, RowAgrees, Open, Row
<1> QED BY <1>1, <1>3 DEF RowOK

\* StartLocalRunCell: a call of an open run is still unsettled, and one of an
\* ended run is not the run's any more.
LEMMA StartedCell ==
  ASSUME NEW row, RowOK(row), NEW c \in Cell, row.cell[c].start = "never",
         NEW cell \in [Cell -> CellRow],
         \A d \in Cell : d # c => cell[d] = row.cell[d],
         cell[c].known = row.cell[c].known,
         cell[c].start = IF row.status \in Open THEN "in time" ELSE "late",
         NEW new,
         new = [status |-> row.status, location |-> row.location,
                reserved |-> row.reserved, used |-> row.used, cell |-> cell]
  PROVE  RowOK(new)
<1>1. new \in Row
  BY DEF RowOK, Row
<1>2. Unsettled(new) = Unsettled(row)
  <2>1. \A d \in Cell : d \in Unsettled(new) <=> d \in Unsettled(row)
    <3> SUFFICES ASSUME NEW d \in Cell
                 PROVE  d \in Unsettled(new) <=> d \in Unsettled(row)
      OBVIOUS
    <3>1. CASE d = c
      BY <3>1 DEF Unsettled
    <3>2. CASE d # c
      BY <3>2 DEF Unsettled
    <3> QED BY <3>1, <3>2
  <2> QED BY <2>1 DEF Unsettled
<1>3. RowHolds(new)
  BY <1>2 DEF RowHolds, RowOK
<1>4. RowAgrees(new)
  <2>1. ASSUME NEW d \in Cell
        PROVE  /\ cell[d].start = "never" => ~cell[d].known
               /\ row.status \in Open => cell[d].start # "late"
    BY DEF RowOK, RowAgrees
  <2> QED BY <2>1 DEF RowAgrees
<1> QED BY <1>1, <1>3, <1>4 DEF RowOK

\* RecordCellOutcome: a price that is known settles the call.
LEMMA RecordedRow ==
  ASSUME NEW row, RowOK(row), row.status = "running", NEW c \in Cell,
         row.cell[c].start # "never", ~row.cell[c].known,
         NEW price \in Nat, NEW cell \in [Cell -> CellRow],
         \A d \in Cell : d # c => cell[d] = row.cell[d],
         cell[c].start = row.cell[c].start, cell[c].known = (price > 0),
         NEW released, released = IF price > 0 THEN MapsCreditsPerCall ELSE 0,
         NEW new,
         new = [status |-> row.status, location |-> row.location,
                reserved |-> row.reserved - released,
                used |-> row.used + price, cell |-> cell]
  PROVE  RowOK(new)
<1>1. row.status \in Open /\ row \in Row
  BY DEF Open, RowOK
<1>2. new \in Row
  <2>1. row.reserved - released \in Int /\ row.used + price \in Nat
    BY <1>1 DEF Row, MapsCreditsPerCall
  <2> QED BY <1>1, <2>1 DEF Row
<1>3. c \in Unsettled(row) /\ Unsettled(row) \in SUBSET Cell
  BY <1>1 DEF Unsettled
<1>4. row.reserved = MapsCreditsPerCall * Cardinality(Unsettled(row))
  BY <1>1 DEF RowOK, RowHolds
<1>5. IsFiniteSet(Unsettled(row)) /\ Cardinality(Unsettled(row)) \in Nat
  BY <1>3, CellsFinite
<1>6. ASSUME NEW d \in Cell, d # c
      PROVE  d \in Unsettled(new) <=> d \in Unsettled(row)
  BY <1>6 DEF Unsettled
<1>7. RowHolds(new)
  <2>1. CASE price > 0
    <3>1. c \notin Unsettled(new)
      BY <2>1 DEF Unsettled
    <3>2. Unsettled(new) = Unsettled(row) \ {c}
      BY <1>6, <3>1 DEF Unsettled
    <3>3. Cardinality(Unsettled(new)) = Cardinality(Unsettled(row)) - 1
      BY <1>3, <1>5, <3>2, FS_RemoveElement
    <3>4. new.reserved = row.reserved - 3
      BY <2>1 DEF MapsCreditsPerCall
    <3> QED BY <1>4, <1>5, <3>3, <3>4 DEF RowHolds, MapsCreditsPerCall
  <2>2. CASE ~(price > 0)
    <3>1. c \in Unsettled(new)
      BY <1>1, <2>2 DEF Unsettled
    <3>2. Unsettled(new) = Unsettled(row)
      BY <1>3, <1>6, <3>1 DEF Unsettled
    <3>3. new.reserved = row.reserved
      BY <1>1, <2>2 DEF Row
    <3> QED BY <1>4, <3>2, <3>3 DEF RowHolds
  <2> QED BY <2>1, <2>2
<1>8. RowAgrees(new)
  <2>1. ASSUME NEW d \in Cell
        PROVE  /\ cell[d].start = "never" => ~cell[d].known
               /\ row.status \in Open => cell[d].start # "late"
    BY DEF RowOK, RowAgrees
  <2> QED BY <2>1 DEF RowAgrees
<1> QED BY <1>2, <1>7, <1>8 DEF RowOK

\* SettleLocalRunCredits, field by field.
LEMMA SettledRow ==
  ASSUME NEW row \in Row, NEW released \in Int, NEW spent \in Int
  PROVE  SettleLocalRunCredits(row, released, spent)
         = [status |-> row.status, location |-> row.location,
            reserved |-> row.reserved - released, used |-> row.used + spent,
            cell |-> row.cell]
<1> DEFINE reserved == row.reserved - released
           used     == row.used + spent
           held     == [row EXCEPT !.reserved = reserved]
<1>1. SettleLocalRunCredits(row, released, spent)
      = [row EXCEPT !.reserved = reserved, !.used = used]
  BY DEF SettleLocalRunCredits
<1>2. reserved \in Int
  BY DEF Row
<1> HIDE DEF reserved, used
<1>3. [row EXCEPT !.reserved = reserved, !.used = used]
      = [held EXCEPT !.used = used]
  BY Zenon DEF held
<1>4. held = [status |-> row.status, location |-> row.location,
              reserved |-> reserved, used |-> row.used, cell |-> row.cell]
  BY DEF Row
<1>5. held \in Row
  BY <1>2, <1>4 DEF Row
<1> HIDE DEF held
<1>6. [held EXCEPT !.used = used]
      = [status |-> held.status, location |-> held.location,
         reserved |-> held.reserved, used |-> used, cell |-> held.cell]
  BY <1>5 DEF Row
<1> QED BY <1>1, <1>3, <1>4, <1>6 DEF reserved, used

\* FinishRun releases the calls that were not started.
LEMMA FinishedRow ==
  ASSUME NEW row, RowOK(row), row.status \in Open, NEW status \in Ended,
         NEW left, left = Cardinality(Unstarted(row)), NEW new,
         new = [status |-> status, location |-> row.location,
                reserved |-> row.reserved - left * MapsCreditsPerCall,
                used |-> row.used, cell |-> row.cell]
  PROVE  RowOK(new)
<1>1. row \in Row /\ RowAgrees(row)
  BY DEF RowOK
<1>2. Unstarted(row) \in SUBSET Cell /\ Unsettled(row) \in SUBSET Cell
  BY DEF Unstarted, Unsettled
<1>3. /\ IsFiniteSet(Unstarted(row)) /\ left \in Nat
      /\ IsFiniteSet(Unsettled(row)) /\ Cardinality(Unsettled(row)) \in Nat
  BY <1>2, CellsFinite
<1>4. new \in Row
  <2>1. row.reserved - left * MapsCreditsPerCall \in Int
    BY <1>1, <1>3 DEF Row, MapsCreditsPerCall
  <2> QED BY <1>1, <2>1 DEF Row
<1>5. status \notin Open
  BY DEF Ended, Open
<1>6. Unsettled(new) = Unsettled(row) \ Unstarted(row)
  <2>1. ASSUME NEW c \in Cell
        PROVE  c \in Unsettled(new) <=>
                 c \in Unsettled(row) /\ c \notin Unstarted(row)
    <3>1. row.cell[c].start \in {"never", "in time"}
      BY <1>1 DEF Row, CellRow, RowAgrees
    <3>2. c \in Unsettled(new) <=>
            ~row.cell[c].known /\ row.cell[c].start = "in time"
      BY <1>5 DEF Unsettled
    <3>3. c \in Unsettled(row) <=> ~row.cell[c].known
      BY DEF Unsettled
    <3>4. c \in Unstarted(row) <=> row.cell[c].start = "never"
      BY DEF Unstarted
    <3> QED BY <3>1, <3>2, <3>3, <3>4
  <2>2. Unsettled(new) \subseteq Cell
    BY DEF Unsettled
  <2> QED BY <1>2, <2>1, <2>2
<1>7. Unsettled(row) \cap Unstarted(row) = Unstarted(row)
  BY <1>1 DEF Unstarted, Unsettled, RowAgrees
<1>8. Cardinality(Unsettled(new)) = Cardinality(Unsettled(row)) - left
  BY <1>3, <1>6, <1>7, FS_Difference
<1>9. row.reserved = MapsCreditsPerCall * Cardinality(Unsettled(row))
  BY DEF RowOK, RowHolds
<1>10. RowHolds(new)
  BY <1>3, <1>8, <1>9 DEF RowHolds, MapsCreditsPerCall
<1>11. RowAgrees(new)
  BY <1>1, <1>5 DEF RowAgrees
<1> QED BY <1>4, <1>10, <1>11 DEF RowOK

-----------------------------------------------------------------------------
(* What a step does to the rows, the jobs and the calls *)

\* One row changes.
LEMMA OneRow ==
  ASSUME Rows, NEW r \in Run, NEW new, RowOK(new),
         run' = [run EXCEPT ![r] = new]
  PROVE  Rows' /\ \A q \in Run : run'[q] = IF q = r THEN new ELSE run[q]
<1>1. new \in Row
  BY DEF RowOK
<1>2. run' \in [Run -> Row] /\ \A q \in Run : run'[q] = IF q = r THEN new
                                                              ELSE run[q]
  BY <1>1 DEF Rows
<1>3. \A q \in Run : RowOK(run'[q])
  BY <1>2 DEF Rows
<1> QED BY <1>2, <1>3 DEF Rows

\* The invariant of the calls is kept when no call starts, those that go on are
\* still not settled, and a job that is added is one of a run that is there.
LEMMA CallsKept ==
  ASSUME Calls,
         \A j \in Job :
           \/ /\ job'[j].run = job[j].run
              /\ job'[j].status = "none" <=> job[j].status = "none"
           \/ /\ job[j].status = "none" /\ job'[j].run \in Run
              /\ run'[job'[j].run].status # "none",
         \A j \in Job : worker'[j].at # "none" => job[j].status # "none",
         \A j \in Job :
           worker'[j].at = "calling" =>
             /\ Calling(j) /\ worker'[j].next = worker[j].next
             /\ \/ run'[job[j].run].status = "deleted"
                \/ LET c == run'[job[j].run].cell[worker[j].next]
                   IN  c.start # "never" /\ ~c.known,
         \A r \in Run : /\ run[r].status # "none" => run'[r].status # "none"
                        /\ run[r].status = "deleted" =>
                             run'[r].status = "deleted"
  PROVE  Calls'
<1>1. ASSUME NEW j \in Job
      PROVE  HasRun(j)'
  <2>1. HasRun(j)
    BY DEF Calls
  <2> QED BY <2>1 DEF HasRun
<1>2. ASSUME NEW j \in Job, worker'[j].at = "calling"
      PROVE  job[j].status # "none" /\ job'[j].run = job[j].run
                                    /\ job[j].run \in Run
  <2>1. HasRun(j)
    BY DEF Calls
  <2>2. job[j].status # "none" /\ job[j].run \in Run
    BY <1>2, <2>1 DEF HasRun
  <2> QED BY <2>2
<1>3. ASSUME NEW j \in Job
      PROVE  CallsUnsettled(j)'
  <2> SUFFICES ASSUME worker'[j].at = "calling"
               PROVE  CallsUnsettled(j)'
    BY DEF CallsUnsettled, Calling
  <2>1. CallsUnsettled(j) /\ Calling(j)
    BY DEF Calls
  <2> QED BY <1>2, <2>1 DEF CallsUnsettled, Calling, CellOf
<1>4. ASSUME NEW i \in Job, NEW j \in Job
      PROVE  CallsAlone(i, j)'
  <2> SUFFICES ASSUME worker'[i].at = "calling", worker'[j].at = "calling",
                      i # j, job'[i].run = job'[j].run
               PROVE  \/ run'[job'[j].run].status = "deleted"
                      \/ worker'[i].next # worker'[j].next
    BY DEF CallsAlone, Calling
  <2>1. CallsAlone(i, j) /\ Calling(i) /\ Calling(j)
    BY DEF Calls
  <2>2. job'[i].run = job[i].run /\ job'[j].run = job[j].run
        /\ job[j].run \in Run
    BY <1>2
  <2> QED BY <2>1, <2>2 DEF CallsAlone
<1> QED BY <1>1, <1>3, <1>4 DEF Calls

\* A worker moves and jobs are written, but no row changes.
LEMMA WorkerMoves ==
  ASSUME IInv, NEW j \in Job, job[j].status # "none",
         NEW w \in Worker, w.at # "calling",
         worker' = [worker EXCEPT ![j] = w], UNCHANGED run,
         job' \in [Job -> JobRow],
         \A i \in Job : /\ job'[i].run = job[i].run
                        /\ job'[i].status = "none" <=> job[i].status = "none"
  PROVE  IInv'
<1>1. Rows' /\ Typed'
  BY DEF IInv, Rows, Typed
<1>2. \A i \in Job : worker'[i] = IF i = j THEN w ELSE worker[i]
  BY DEF IInv, Typed
<1>3. Calls /\ \A i \in Job : HasRun(i) /\ CallsUnsettled(i)
  BY DEF IInv, Calls
<1>4. \A i \in Job : worker'[i].at # "none" => job[i].status # "none"
  BY <1>2, <1>3 DEF HasRun
<1>5. ASSUME NEW i \in Job, worker'[i].at = "calling"
      PROVE  /\ Calling(i) /\ worker'[i].next = worker[i].next
             /\ \/ run'[job[i].run].status = "deleted"
                \/ LET c == run'[job[i].run].cell[worker[i].next]
                   IN  c.start # "never" /\ ~c.known
  <2>1. worker'[i] = worker[i]
    BY <1>2, <1>5
  <2>2. Calling(i) /\ CallsUnsettled(i)
    BY <1>3, <1>5, <2>1 DEF Calling
  <2> QED BY <2>1, <2>2 DEF CallsUnsettled, CellOf
<1>6. Calls'
  BY <1>3, <1>4, <1>5, CallsKept
<1> QED BY <1>1, <1>6 DEF IInv

\* Jobs are written, and nothing else; one may be added for a run.
LEMMA JobsMove ==
  ASSUME IInv, job' \in [Job -> JobRow], UNCHANGED <<run, worker>>,
         \A j \in Job :
           \/ /\ job'[j].run = job[j].run
              /\ job'[j].status = "none" <=> job[j].status = "none"
           \/ /\ job[j].status = "none" /\ job'[j].run \in Run
              /\ run[job'[j].run].status # "none"
  PROVE  IInv'
<1>1. Rows' /\ Typed'
  BY DEF IInv, Rows, Typed
<1>2. Calls /\ \A i \in Job : HasRun(i) /\ CallsUnsettled(i)
  BY DEF IInv, Calls
<1>3. \A i \in Job : worker'[i].at # "none" => job[i].status # "none"
  BY <1>2 DEF HasRun
<1>4. \A i \in Job :
        worker'[i].at = "calling" =>
          /\ Calling(i) /\ worker'[i].next = worker[i].next
          /\ \/ run'[job[i].run].status = "deleted"
             \/ LET c == run'[job[i].run].cell[worker[i].next]
                IN  c.start # "never" /\ ~c.known
  BY <1>2 DEF Calling, CallsUnsettled, CellOf
<1>5. Calls'
  BY <1>2, <1>3, <1>4, CallsKept
<1> QED BY <1>1, <1>5 DEF IInv

\* One row changes; the calls that go on are not settled by it.
LEMMA RowMoves ==
  ASSUME IInv, NEW r \in Run, run[r].status # "deleted",
         NEW new, RowOK(new), new.status # "none",
         run' = [run EXCEPT ![r] = new], UNCHANGED job,
         worker' \in [Job -> Worker],
         \A j \in Job : worker'[j].at # "none" => job[j].status # "none",
         \A j \in Job :
           worker'[j].at = "calling" =>
             /\ Calling(j) /\ worker'[j].next = worker[j].next
             /\ job[j].run = r =>
                  LET c == new.cell[worker[j].next]
                  IN  c.start # "never" /\ ~c.known
  PROVE  IInv'
<1>1. Rows' /\ \A q \in Run : run'[q] = IF q = r THEN new ELSE run[q]
  BY OneRow DEF IInv
<1>2. Typed'
  BY DEF IInv, Typed
<1>3. Calls /\ \A i \in Job : HasRun(i) /\ CallsUnsettled(i)
  BY DEF IInv, Calls
<1>4. ASSUME NEW j \in Job, worker'[j].at = "calling"
      PROVE  /\ Calling(j) /\ worker'[j].next = worker[j].next
             /\ \/ run'[job[j].run].status = "deleted"
                \/ LET c == run'[job[j].run].cell[worker[j].next]
                   IN  c.start # "never" /\ ~c.known
  <2>1. Calling(j) /\ worker'[j].next = worker[j].next
    BY <1>4
  <2>2. job[j].run \in Run
    BY <1>3, <2>1 DEF HasRun, Calling
  <2>3. CASE job[j].run = r
    BY <1>1, <1>4, <2>1, <2>3
  <2>4. CASE job[j].run # r
    <3>1. run'[job[j].run] = run[job[j].run]
      BY <1>1, <2>2, <2>4
    <3>2. CallsUnsettled(j)
      BY <1>3
    <3> QED BY <2>1, <3>1, <3>2 DEF CallsUnsettled, CellOf
  <2> QED BY <2>1, <2>3, <2>4
<1>5. \A q \in Run : /\ run[q].status # "none" => run'[q].status # "none"
                     /\ run[q].status = "deleted" =>
                          run'[q].status = "deleted"
  BY <1>1
<1>6. Calls'
  BY <1>3, <1>4, <1>5, CallsKept
<1> QED BY <1>1, <1>2, <1>6 DEF IInv

\* A run is created with its job.
LEMMA RunAdded ==
  ASSUME IInv, NEW l \in Location, NEW r \in Run,
         CreateLocalVisibilityRun(l, r), EnqueueLocalVisibilityJob(r),
         UNCHANGED worker
  PROVE  IInv'
<1> DEFINE new == [status |-> "queued", location |-> l,
                   reserved |-> ExpectedRunCredits, used |-> 0,
                   cell |-> [c \in Cell |-> NewCell]]
<1>1. run[r].status = "none" /\ run' = [run EXCEPT ![r] = new]
  BY DEF CreateLocalVisibilityRun
<1>2. RowOK(new)
  BY CreatedRow
<1>3. new.status = "queued"
  OBVIOUS
<1> HIDE DEF new
<1>4. Rows' /\ \A q \in Run : run'[q] = IF q = r THEN new ELSE run[q]
  BY <1>1, <1>2, OneRow DEF IInv
<1>5. PICK k \in Job : /\ job[k].status = "none"
                       /\ job' = [job EXCEPT ![k] =
                                    [status |-> "pending", run |-> r]]
  BY DEF EnqueueLocalVisibilityJob
<1>6. \A j \in Job : job'[j] = IF j = k THEN [status |-> "pending", run |-> r]
                                        ELSE job[j]
  BY <1>5 DEF IInv, Typed
<1>7. Typed'
  BY <1>5 DEF IInv, Typed, JobRow
<1>8. Calls /\ \A i \in Job : HasRun(i) /\ CallsUnsettled(i)
  BY DEF IInv, Calls
<1>9. \A j \in Job :
        \/ /\ job'[j].run = job[j].run
           /\ job'[j].status = "none" <=> job[j].status = "none"
        \/ /\ job[j].status = "none" /\ job'[j].run \in Run
           /\ run'[job'[j].run].status # "none"
  BY <1>3, <1>4, <1>5, <1>6
<1>10. \A j \in Job : worker'[j].at # "none" => job[j].status # "none"
  BY <1>8 DEF HasRun
<1>11. ASSUME NEW j \in Job, worker'[j].at = "calling"
       PROVE  /\ Calling(j) /\ worker'[j].next = worker[j].next
              /\ \/ run'[job[j].run].status = "deleted"
                 \/ LET c == run'[job[j].run].cell[worker[j].next]
                    IN  c.start # "never" /\ ~c.known
  <2>1. Calling(j)
    BY <1>11 DEF Calling
  <2>2. job[j].run \in Run /\ run[job[j].run].status # "none"
    BY <1>8, <2>1 DEF HasRun, Calling
  <2>3. run'[job[j].run] = run[job[j].run]
    BY <1>1, <1>4, <2>2
  <2>4. CallsUnsettled(j)
    BY <1>8
  <2> QED BY <2>1, <2>3, <2>4 DEF CallsUnsettled, CellOf
<1>12. \A q \in Run : /\ run[q].status # "none" => run'[q].status # "none"
                      /\ run[q].status = "deleted" =>
                           run'[q].status = "deleted"
  BY <1>1, <1>3, <1>4
<1>13. Calls'
  BY <1>8, <1>9, <1>10, <1>11, <1>12, CallsKept
<1> QED BY <1>4, <1>7, <1>13 DEF IInv

\* The run of a worker, and what its call is.
LEMMA WorkerHasRun ==
  ASSUME IInv, NEW j \in Job, worker[j].at # "none"
  PROVE  /\ job[j].status # "none" /\ job[j].run \in Run
         /\ run[job[j].run] \in Row /\ run[job[j].run].status # "none"
         /\ RowOK(run[job[j].run]) /\ worker[j] \in Worker
         /\ Calling(j) /\ run[job[j].run].status # "deleted" =>
              /\ worker[j].next \in Cell
              /\ CellOf(j).start # "never" /\ ~CellOf(j).known
<1>1. HasRun(j) /\ CallsUnsettled(j)
  BY DEF IInv, Calls
<1>2. job[j].status # "none" /\ job[j].run \in Run
      /\ run[job[j].run].status # "none"
  BY <1>1 DEF HasRun
<1>3. run[job[j].run] \in Row /\ RowOK(run[job[j].run])
  BY <1>2 DEF IInv, Rows
<1>4. worker[j] \in Worker
  BY DEF IInv, Typed
<1> QED BY <1>1, <1>2, <1>3, <1>4 DEF CallsUnsettled

-----------------------------------------------------------------------------
(* The actions *)

\* The loop starts at a call.
LEMMA FirstCell == 1 \in Cell
  BY MapsAssumption DEF Cell

\* A worker waits where it need not be calling.
LEMMA Places ==
  ASSUME NEW at \in {"starting", "looping", "finishing", "failing",
                     "succeeding"},
         NEW failed \in BOOLEAN, NEW n \in Cell \cup {N + 1}
  PROVE  /\ [Away EXCEPT !.at = at] \in Worker
         /\ [Away EXCEPT !.at = at].at = at
         /\ Away \in Worker /\ Away.at = "none"
         /\ [at |-> at, next |-> n, failed |-> failed] \in Worker
<1>1. 1 \in 1..(N + 1) /\ n \in 1..(N + 1)
  BY MapsAssumption DEF Cell
<1> QED BY <1>1 DEF Away, Worker

LEMMA Claims ==
  ASSUME IInv, NEW j \in Job, ClaimNextPendingAIWorkerJob(j)
  PROVE  IInv'
<1> DEFINE w == [Away EXCEPT !.at = "starting"]
<1>1. w \in Worker /\ w.at = "starting"
  BY Places, FirstCell
<1>2. worker' = [worker EXCEPT ![j] = w]
  BY DEF ClaimNextPendingAIWorkerJob, GoTo
<1> HIDE DEF w
<1>3. job[j].status = "pending" /\ job[j] \in JobRow
  BY DEF ClaimNextPendingAIWorkerJob, IInv, Typed
<1>4. job' \in [Job -> JobRow]
  BY DEF ClaimNextPendingAIWorkerJob, IInv, Typed, JobRow
<1>5. \A i \in Job : /\ job'[i].run = job[i].run
                     /\ job'[i].status = "none" <=> job[i].status = "none"
  BY <1>3 DEF ClaimNextPendingAIWorkerJob, IInv, Typed, JobRow
<1>6. UNCHANGED run
  BY DEF ClaimNextPendingAIWorkerJob
<1> QED BY <1>1, <1>2, <1>3, <1>4, <1>5, <1>6, WorkerMoves

\* The steps of a worker that change neither a row nor a job.
LEMMA MovesAlone ==
  ASSUME IInv, NEW j \in Job,
         \/ FailToStart(j) \/ EndLoop(j) \/ LoseCellOutcome(j)
         \/ FailToFinish(j) \/ Crash(j)
  PROVE  IInv'
<1>1. worker[j].at # "none"
  BY DEF FailToStart, EndLoop, LoseCellOutcome, FailToFinish, Crash
<1>2. UNCHANGED <<run, job>>
  BY DEF FailToStart, EndLoop, LoseCellOutcome, FailToFinish, Crash
<1>3. PICK w \in Worker : w.at # "calling" /\ worker' = [worker EXCEPT ![j] = w]
  <2>1. 1 \in Cell \cup {N + 1}
    BY FirstCell
  <2>2. CASE FailToStart(j) \/ FailToFinish(j)
    <3> DEFINE w == [Away EXCEPT !.at = "failing"]
    <3>1. w \in Worker /\ w.at = "failing"
      BY <2>1, Places
    <3>2. worker' = [worker EXCEPT ![j] = w]
      BY <2>2 DEF FailToStart, FailToFinish, GoTo
    <3> QED BY <3>1, <3>2
  <2>3. CASE EndLoop(j) \/ LoseCellOutcome(j)
    <3>1. PICK failed \in BOOLEAN :
            worker' = [worker EXCEPT ![j] = [at |-> "finishing", next |-> 1,
                                             failed |-> failed]]
      BY <2>3 DEF EndLoop, LoseCellOutcome, LeaveLoop
    <3>2. [at |-> "finishing", next |-> 1, failed |-> failed] \in Worker
      BY <2>1, Places
    <3> QED BY <3>1, <3>2
  <2>4. CASE Crash(j)
    <3>1. Away \in Worker /\ Away.at = "none"
      BY <2>1, Places
    <3> QED BY <2>4, <3>1 DEF Crash
  <2> QED BY <2>2, <2>3, <2>4
<1>4. job[j].status # "none"
  BY <1>1, WorkerHasRun
<1>5. job' \in [Job -> JobRow]
  BY <1>2 DEF IInv, Typed
<1> QED BY <1>2, <1>3, <1>4, <1>5, WorkerMoves

LEMMA Finalizes ==
  ASSUME IInv, NEW j \in Job, FinalizeLocalRun(j)
  PROVE  IInv'
<1>1. worker[j].at # "none"
  BY DEF FinalizeLocalRun
<1>2. job[j].status # "none" /\ job[j] \in JobRow
  BY <1>1, WorkerHasRun DEF IInv, Typed
<1>3. PICK status \in {"completed", "failed", "deleted"} :
        job' = [job EXCEPT ![j].status = status]
  BY DEF FinalizeLocalRun
<1>4. job' \in [Job -> JobRow]
  BY <1>3 DEF IInv, Typed, JobRow
<1>5. \A i \in Job : /\ job'[i].run = job[i].run
                     /\ job'[i].status = "none" <=> job[i].status = "none"
  BY <1>2, <1>3 DEF IInv, Typed, JobRow
<1>6. Away \in Worker /\ Away.at = "none"
  BY Places, FirstCell
<1>7. UNCHANGED run /\ worker' = [worker EXCEPT ![j] = Away]
  BY DEF FinalizeLocalRun
<1> QED BY <1>2, <1>4, <1>5, <1>6, <1>7, WorkerMoves

LEMMA Reclaims ==
  ASSUME IInv, NEW j \in Job, ReclaimStaleRunningAIWorkerJobs(j)
  PROVE  IInv'
<1>1. job' = [job EXCEPT ![j].status = "failed"] /\ job[j].status = "running"
      /\ UNCHANGED <<run, worker>>
  BY DEF ReclaimStaleRunningAIWorkerJobs
<1>2. job' \in [Job -> JobRow]
  BY <1>1 DEF IInv, Typed, JobRow
<1>3. \A i \in Job : /\ job'[i].run = job[i].run
                     /\ job'[i].status = "none" <=> job[i].status = "none"
  BY <1>1 DEF IInv, Typed, JobRow
<1> QED BY <1>1, <1>2, <1>3, JobsMove

LEMMA Starts ==
  ASSUME IInv, NEW j \in Job, StartLocalVisibilityRun(j)
  PROVE  IInv'
<1> DEFINE r   == job[j].run
           new == [run[r] EXCEPT !.status = "running"]
           w   == [Away EXCEPT !.at = "looping"]
<1>1. worker[j].at # "none" /\ run[r].status = "queued" /\ UNCHANGED job
      /\ worker' = [worker EXCEPT ![j] = w]
      /\ run' = [run EXCEPT ![r].status = "running"]
  BY DEF StartLocalVisibilityRun, GoTo
<1>2. r \in Run /\ run[r] \in Row /\ RowOK(run[r]) /\ job[j].status # "none"
  BY <1>1, WorkerHasRun
<1>3. run' = [run EXCEPT ![r] = new]
  BY <1>1, <1>2
<1>4. RowOK(new) /\ new.status = "running" /\ new.cell = run[r].cell
  BY <1>1, <1>2, StartedRow DEF Row
<1>5. w \in Worker /\ w.at = "looping"
  BY Places, FirstCell
<1> HIDE DEF new, w
<1>6. worker' \in [Job -> Worker]
      /\ \A i \in Job : worker'[i] = IF i = j THEN w ELSE worker[i]
  BY <1>1, <1>5 DEF IInv, Typed
<1>7. \A i \in Job : worker'[i].at # "none" => job[i].status # "none"
  BY <1>2, <1>6 DEF IInv, Calls, HasRun
<1>8. ASSUME NEW i \in Job, worker'[i].at = "calling"
      PROVE  /\ Calling(i) /\ worker'[i].next = worker[i].next
             /\ job[i].run = r => LET c == new.cell[worker[i].next]
                                  IN  c.start # "never" /\ ~c.known
  <2>1. Calling(i) /\ worker'[i].next = worker[i].next
    BY <1>5, <1>6, <1>8 DEF Calling
  <2>2. CASE job[i].run = r
    <3>1. CellOf(i).start # "never" /\ ~CellOf(i).known
      BY <1>1, <2>1, <2>2, WorkerHasRun DEF Calling
    <3> QED BY <1>4, <2>1, <2>2, <3>1 DEF CellOf
  <2> QED BY <2>1, <2>2
<1>9. run[r].status # "deleted" /\ new.status # "none"
  BY <1>1, <1>4
<1> HIDE DEF r
<1> QED BY ZenonT(60), <1>1, <1>2, <1>3, <1>4, <1>6, <1>7, <1>8, <1>9, RowMoves

\* FinishRun, for whoever calls it: the calls of the cells are the same.
LEMMA Finishes ==
  ASSUME IInv, NEW r \in Run, FinishRun(r), UNCHANGED job,
         worker' \in [Job -> Worker],
         \A i \in Job : worker'[i].at # "none" => job[i].status # "none",
         \A i \in Job : worker'[i].at = "calling" => worker'[i] = worker[i]
  PROVE  IInv'
<1>1. RowOK(run[r]) /\ run[r] \in Row
  BY DEF IInv, Rows
<1>2. \A i \in Job : worker'[i].at = "calling" =>
                       Calling(i) /\ worker'[i].next = worker[i].next
  BY DEF Calling
<1>3. CASE IsOpen(r)
  <2> DEFINE left   == Cardinality(Unstarted(run[r]))
             status == SummarizeRunOutcome(run[r])
             new    == [status |-> status, location |-> run[r].location,
                        reserved |-> run[r].reserved - left * MapsCreditsPerCall,
                        used |-> run[r].used, cell |-> run[r].cell]
  <2>1. run' = [run EXCEPT ![r] =
                  FinishLocalVisibilityRun(
                    SettleLocalRunCredits(
                      @, left * MapsCreditsPerCall, 0),
                    status)]
    BY <1>3 DEF FinishRun
  <2>2. status \in Ended
    BY DEF SummarizeRunOutcome, Ended
  <2> HIDE DEF status
  <2>3. ASSUME NEW n \in Int
        PROVE  FinishLocalVisibilityRun(
                 SettleLocalRunCredits(run[r], n, 0), status)
               = [status |-> status, location |-> run[r].location,
                  reserved |-> run[r].reserved - n, used |-> run[r].used,
                  cell |-> run[r].cell]
    <3>1. run[r].used + 0 = run[r].used
      BY <1>1 DEF Row
    <3>2. SettleLocalRunCredits(run[r], n, 0)
          = [status |-> run[r].status, location |-> run[r].location,
             reserved |-> run[r].reserved - n, used |-> run[r].used + 0,
             cell |-> run[r].cell]
      BY <1>1, SettledRow
    <3> QED BY <3>1, <3>2 DEF FinishLocalVisibilityRun
  <2>4. FinishLocalVisibilityRun(
          SettleLocalRunCredits(run[r], left * MapsCreditsPerCall, 0), status)
          = new
    <3>1. left \in Nat
      BY CellsFinite DEF Unstarted
    <3>2. left * MapsCreditsPerCall \in Int
      BY <3>1 DEF MapsCreditsPerCall
    <3> QED BY <2>3, <3>2
  <2> HIDE DEF left
  <2>5. RowOK(new)
    BY <1>1, <1>3, <2>2, FinishedRow DEF IsOpen, left
  <2>6. new.status # "none" /\ new.cell = run[r].cell
        /\ run[r].status # "deleted"
    BY <1>3, <2>2 DEF Ended, IsOpen, Open
  <2>7. run' = [run EXCEPT ![r] = new]
    BY <2>1, <2>4
  <2> HIDE DEF new
  <2>8. ASSUME NEW i \in Job, worker'[i].at = "calling"
        PROVE  /\ Calling(i) /\ worker'[i].next = worker[i].next
               /\ job[i].run = r => LET c == new.cell[worker[i].next]
                                    IN  c.start # "never" /\ ~c.known
    <3>1. Calling(i) /\ worker'[i].next = worker[i].next
      BY <1>2, <2>8
    <3>2. CASE job[i].run = r
      <4>1. CellOf(i).start # "never" /\ ~CellOf(i).known
        BY <2>6, <3>1, <3>2, WorkerHasRun DEF Calling
      <4> QED BY <2>6, <3>1, <3>2, <4>1 DEF CellOf
    <3> QED BY <3>1, <3>2
  <2> QED BY <2>5, <2>6, <2>7, <2>8, RowMoves
<1>4. CASE ~IsOpen(r)
  <2>1. UNCHANGED run
    BY <1>4 DEF FinishRun
  <2>2. Rows' /\ Typed'
    BY <2>1 DEF IInv, Rows, Typed
  <2>3. Calls /\ \A i \in Job : HasRun(i) /\ CallsUnsettled(i)
    BY DEF IInv, Calls
  <2>4. \A i \in Job :
          worker'[i].at = "calling" =>
            /\ Calling(i) /\ worker'[i].next = worker[i].next
            /\ \/ run'[job[i].run].status = "deleted"
               \/ LET c == run'[job[i].run].cell[worker[i].next]
                  IN  c.start # "never" /\ ~c.known
    BY <1>2, <2>1, <2>3 DEF CallsUnsettled, CellOf
  <2>5. Calls'
    BY <2>1, <2>3, <2>4, CallsKept
  <2> QED BY <2>2, <2>5 DEF IInv
<1> QED BY <1>3, <1>4

LEMMA WorkerFinishes ==
  ASSUME IInv, NEW j \in Job, FinishAsWorker(j)
  PROVE  IInv'
<1>1. PICK at \in {"succeeding", "failing"} :
        worker' = [worker EXCEPT ![j] = [Away EXCEPT !.at = at]]
  BY DEF FinishAsWorker, GoTo
<1> DEFINE w == [Away EXCEPT !.at = at]
<1>2. w \in Worker /\ w.at # "calling"
  BY Places, FirstCell
<1>3. worker' = [worker EXCEPT ![j] = w]
  BY <1>1
<1> HIDE DEF w
<1>4. job[j].run \in Run /\ job[j].status # "none"
  BY WorkerHasRun DEF FinishAsWorker
<1>5. worker' \in [Job -> Worker]
      /\ \A i \in Job : worker'[i] = IF i = j THEN w ELSE worker[i]
  BY <1>2, <1>3 DEF IInv, Typed
<1>6. \A i \in Job : worker'[i].at # "none" => job[i].status # "none"
  BY <1>4, <1>5 DEF IInv, Calls, HasRun
<1>7. \A i \in Job : worker'[i].at = "calling" => worker'[i] = worker[i]
  BY <1>2, <1>5
<1>8. FinishRun(job[j].run) /\ UNCHANGED job
  BY DEF FinishAsWorker
<1> QED BY <1>4, <1>5, <1>6, <1>7, <1>8, Finishes

LEMMA SweepFinishes ==
  ASSUME IInv, NEW r \in Run, FinishInterrupted(r)
  PROVE  IInv'
<1>1. FinishRun(r) /\ UNCHANGED <<job, worker>>
  BY DEF FinishInterrupted
<1>2. worker' \in [Job -> Worker]
      /\ \A i \in Job : worker'[i].at # "none" => job[i].status # "none"
  BY <1>1 DEF IInv, Typed, Calls, HasRun
<1> QED BY <1>1, <1>2, Finishes

\* The call is the only one of its cell: the cell was not started.
LEMMA StartsCell ==
  ASSUME IInv, NEW j \in Job, StartLocalRunCell(j)
  PROVE  IInv'
<1> DEFINE r == job[j].run
           c == worker[j].next
<1>1. worker[j].at = "looping" /\ c \in Cell /\ UNCHANGED job
  BY DEF StartLocalRunCell
<1>2. /\ r \in Run /\ run[r] \in Row /\ RowOK(run[r])
      /\ job[j].status # "none" /\ worker[j] \in Worker
      /\ run[r].status # "none"
  BY <1>1, WorkerHasRun
<1>3. CASE ~(run[r].status # "deleted" /\ run[r].cell[c].start = "never")
  <2> DEFINE w == [at |-> "looping", next |-> c + 1,
                   failed |-> worker[j].failed]
  <2>1. worker' = [worker EXCEPT ![j].at = "looping", ![j].next = @ + 1]
        /\ UNCHANGED run
    BY <1>3 DEF StartLocalRunCell, NextCell
  <2>2. w \in Worker /\ w.at = "looping"
    BY <1>1, <1>2, MapsAssumption DEF Worker, Cell
  <2>3. worker' \in [Job -> Worker]
        /\ \A i \in Job : worker'[i] = IF i = j THEN w ELSE worker[i]
    BY <1>2, <2>1, <2>2 DEF IInv, Typed, Worker
  <2> HIDE DEF w
  <2>4. worker' = [worker EXCEPT ![j] = w]
    BY <2>3 DEF IInv, Typed
  <2>5. job' \in [Job -> JobRow]
    BY <1>1 DEF IInv, Typed
  <2> QED BY <1>1, <1>2, <2>1, <2>2, <2>4, <2>5, WorkerMoves
<1>4. CASE run[r].status # "deleted" /\ run[r].cell[c].start = "never"
  <2> DEFINE start == IF run[r].status \in Open THEN "in time" ELSE "late"
             cell  == [run[r].cell EXCEPT ![c].start = start]
             new   == [status |-> run[r].status,
                       location |-> run[r].location,
                       reserved |-> run[r].reserved,
                       used |-> run[r].used, cell |-> cell]
  <2>1. run' = [run EXCEPT ![r].cell[c].start = start]
        /\ worker' = [worker EXCEPT ![j].at = "calling"]
    BY <1>4 DEF StartLocalRunCell, IsOpen
  <2>2. run[r].cell \in [Cell -> CellRow]
    BY <1>2 DEF Row
  <2>3. start \in {"in time", "late"}
    OBVIOUS
  <2> HIDE DEF start
  <2>4. cell \in [Cell -> CellRow]
        /\ (\A d \in Cell : d # c => cell[d] = run[r].cell[d])
        /\ cell[c].start = start /\ cell[c].known = run[r].cell[c].known
    BY <1>1, <2>2, <2>3 DEF CellRow
  <2>5. [run[r] EXCEPT !.cell = cell] = new
    <3> HIDE DEF cell
    <3> QED BY <1>2 DEF Row
  <2>6. run' = [run EXCEPT ![r] = [run[r] EXCEPT !.cell = cell]]
    BY <2>1
  <2>7. run' = [run EXCEPT ![r] = new]
    BY <2>5, <2>6
  <2> HIDE DEF cell
  <2>8. new.status = run[r].status /\ new.cell = cell
    OBVIOUS
  <2>9. RowOK(new)
    BY <1>1, <1>2, <1>4, <2>4, StartedCell DEF start
  <2> HIDE DEF new
  <2>10. Rows' /\ \A q \in Run : run'[q] = IF q = r THEN new ELSE run[q]
    BY <1>2, <2>7, <2>9, OneRow DEF IInv
  <2>11. /\ worker' \in [Job -> Worker]
         /\ \A i \in Job : i # j => worker'[i] = worker[i]
         /\ worker'[j].next = c /\ worker'[j].at = "calling"
    BY <1>2, <2>1 DEF IInv, Typed, Worker
  <2>12. \A i \in Job : HasRun(i) /\ CallsUnsettled(i)
    BY DEF IInv, Calls
  <2>13. ASSUME NEW i \in Job
         PROVE  HasRun(i)'
    BY <1>1, <1>2, <2>8, <2>10, <2>11, <2>12 DEF HasRun
  <2>14. ~run[r].cell[c].known
    BY <1>1, <1>2, <1>4 DEF RowOK, RowAgrees
  \* Of the calls that were being made, none is of this cell.
  <2>15. ASSUME NEW i \in Job, i # j, worker'[i].at = "calling"
         PROVE  /\ Calling(i) /\ worker'[i].next = worker[i].next
                /\ job[i].run \in Run /\ worker[i].next \in Cell
                /\ \/ run[job[i].run].status = "deleted"
                   \/ /\ CellOf(i).start # "never" /\ ~CellOf(i).known
                      /\ job[i].run = r => worker[i].next # c
    <3>1. Calling(i) /\ worker'[i].next = worker[i].next
      BY <2>11, <2>15 DEF Calling
    <3>2. job[i].run \in Run /\ worker[i].next \in Cell
      BY <2>12, <3>1 DEF HasRun, CallsUnsettled, Calling
    <3>3. \/ run[job[i].run].status = "deleted"
          \/ CellOf(i).start # "never" /\ ~CellOf(i).known
      BY <2>12, <3>1 DEF CallsUnsettled
    <3>4. job[i].run = r /\ CellOf(i).start # "never" => worker[i].next # c
      BY <1>4 DEF CellOf
    <3> QED BY <3>1, <3>2, <3>3, <3>4
  <2>16. ASSUME NEW i \in Job, worker'[i].at = "calling"
         PROVE  CallsUnsettled(i)'
    <3>1. CASE i = j
      <4>1. run'[r].cell[c].start # "never" /\ ~run'[r].cell[c].known
        BY <1>2, <2>3, <2>4, <2>8, <2>10, <2>14
      <4> QED BY <1>1, <2>11, <3>1, <4>1 DEF CallsUnsettled, CellOf
    <3>2. CASE i # j
      <4>1. CASE job[i].run = r
        <5>1. worker[i].next # c /\ CellOf(i).start # "never"
                                 /\ ~CellOf(i).known
          BY <1>4, <2>15, <2>16, <3>2, <4>1
        <5>2. run'[r].cell[worker[i].next] = CellOf(i)
          BY <1>2, <2>4, <2>8, <2>10, <2>15, <2>16, <3>2, <4>1, <5>1 DEF CellOf
        <5> QED BY <1>1, <2>15, <2>16, <3>2, <4>1, <5>1, <5>2
                DEF CallsUnsettled, CellOf
      <4>2. CASE job[i].run # r
        <5>1. run'[job[i].run] = run[job[i].run]
          BY <2>10, <2>15, <2>16, <3>2, <4>2
        <5> QED BY <1>1, <2>15, <2>16, <3>2, <5>1 DEF CallsUnsettled, CellOf
      <4> QED BY <4>1, <4>2
    <3> QED BY <3>1, <3>2
  <2>17. ASSUME NEW i \in Job, NEW k \in Job
         PROVE  CallsAlone(i, k)'
    <3> SUFFICES ASSUME worker'[i].at = "calling", worker'[k].at = "calling",
                        i # k, job[i].run = job[k].run,
                        run'[job[k].run].status # "deleted"
                 PROVE  worker'[i].next # worker'[k].next
      BY <1>1 DEF CallsAlone, Calling
    <3>1. CASE i # j /\ k # j
      <4>1. CallsAlone(i, k) /\ Calling(i) /\ Calling(k)
            /\ job[k].run \in Run /\ worker'[i].next = worker[i].next
            /\ worker'[k].next = worker[k].next
        BY <2>15, <3>1 DEF IInv, Calls
      <4>2. run[job[k].run].status # "deleted"
        BY <2>8, <2>10, <4>1
      <4> QED BY <4>1, <4>2 DEF CallsAlone
    <3>2. CASE i = j
      <4>1. job[k].run = r /\ worker'[k].next # c
        BY <1>4, <2>15, <3>2
      <4> QED BY <2>11, <3>2, <4>1
    <3>3. CASE k = j
      <4>1. job[i].run = r /\ worker'[i].next # c
        BY <1>4, <2>15, <3>3
      <4> QED BY <2>11, <3>3, <4>1
    <3> QED BY <3>1, <3>2, <3>3
  <2>18. Calls'
    BY <2>13, <2>16, <2>17 DEF Calls, CallsUnsettled, Calling
  <2>19. Typed'
    BY <1>1, <2>11 DEF IInv, Typed
  <2> QED BY <2>10, <2>18, <2>19 DEF IInv
<1> QED BY <1>3, <1>4

\* InsertLocalVisibilityResult, field by field.
LEMMA InsertedRow ==
  ASSUME NEW row \in Row, NEW c \in Cell, NEW call \in {"failed", "ok"},
         NEW price \in Nat
  PROVE  \E cell \in [Cell -> CellRow] :
           /\ \A d \in Cell : d # c => cell[d] = row.cell[d]
           /\ cell[c].start = row.cell[c].start
           /\ cell[c].known = (price > 0)
           /\ InsertLocalVisibilityResult(row, c, call, price)
              = [status |-> row.status, location |-> row.location,
                 reserved |-> row.reserved, used |-> row.used, cell |-> cell]
<1> DEFINE known == price > 0
           mid   == [row.cell EXCEPT ![c].call = call]
           cell  == [mid EXCEPT ![c].known = known]
           half  == [row EXCEPT !.cell[c].call = call]
<1>1. InsertLocalVisibilityResult(row, c, call, price)
      = [row EXCEPT !.cell[c].call = call, !.cell[c].known = known]
  BY DEF InsertLocalVisibilityResult
<1>2. known \in BOOLEAN
  OBVIOUS
<1> HIDE DEF known
<1>3. [row EXCEPT !.cell[c].call = call, !.cell[c].known = known]
      = [half EXCEPT !.cell[c].known = known]
  BY Zenon DEF half
<1>4. row.cell \in [Cell -> CellRow]
  BY DEF Row
<1>5. /\ mid \in [Cell -> CellRow]
      /\ \A d \in Cell : d # c => mid[d] = row.cell[d]
      /\ mid[c].start = row.cell[c].start
  BY <1>4 DEF CellRow
<1>6. half = [row EXCEPT !.cell = mid]
  OBVIOUS
<1> HIDE DEF mid, half
<1>7. half = [status |-> row.status, location |-> row.location,
              reserved |-> row.reserved, used |-> row.used, cell |-> mid]
  BY <1>6 DEF Row
<1>8. half \in Row /\ half.cell = mid
  BY <1>5, <1>7 DEF Row
<1>9. [half EXCEPT !.cell[c].known = known] = [half EXCEPT !.cell = cell]
  BY <1>8
<1>10. /\ cell \in [Cell -> CellRow]
       /\ \A d \in Cell : d # c => cell[d] = mid[d]
       /\ cell[c].start = mid[c].start /\ cell[c].known = known
  BY <1>2, <1>5 DEF CellRow
<1> HIDE DEF cell
<1>11. [half EXCEPT !.cell = cell]
       = [status |-> half.status, location |-> half.location,
          reserved |-> half.reserved, used |-> half.used, cell |-> cell]
  BY <1>8 DEF Row
<1>12. [half EXCEPT !.cell = cell]
       = [status |-> row.status, location |-> row.location,
          reserved |-> row.reserved, used |-> row.used, cell |-> cell]
  BY <1>7, <1>11
<1>13. InsertLocalVisibilityResult(row, c, call, price)
       = [status |-> row.status, location |-> row.location,
          reserved |-> row.reserved, used |-> row.used, cell |-> cell]
  BY <1>1, <1>3, <1>9, <1>12
<1>14. \A d \in Cell : d # c => cell[d] = row.cell[d]
  BY <1>5, <1>10
<1>15. cell[c].start = row.cell[c].start /\ cell[c].known = (price > 0)
  BY <1>5, <1>10 DEF known
<1> QED BY <1>10, <1>13, <1>14, <1>15

\* The call settles its own cell, which no other call is of.
LEMMA Records ==
  ASSUME IInv, NEW j \in Job, NEW call \in {"failed", "ok"}, NEW price \in Nat,
         RecordCellOutcome(j, call, price)
  PROVE  IInv'
<1> DEFINE r        == job[j].run
           c        == worker[j].next
           released == IF price > 0 THEN MapsCreditsPerCall ELSE 0
<1>1. /\ Calling(j) /\ run[r].status = "running" /\ UNCHANGED job
      /\ run' = [run EXCEPT ![r] =
                   SettleLocalRunCredits(
                     InsertLocalVisibilityResult(@, c, call, price),
                     released, price)]
  BY DEF RecordCellOutcome, Calling
<1>2. /\ r \in Run /\ run[r] \in Row /\ RowOK(run[r])
      /\ job[j].status # "none" /\ worker[j] \in Worker
      /\ c \in Cell /\ CellOf(j).start # "never" /\ ~CellOf(j).known
  BY <1>1, WorkerHasRun DEF Calling
<1>3. released \in Int
  BY DEF MapsCreditsPerCall
<1>4. PICK cell \in [Cell -> CellRow] :
        /\ \A d \in Cell : d # c => cell[d] = run[r].cell[d]
        /\ cell[c].start = run[r].cell[c].start
        /\ cell[c].known = (price > 0)
        /\ InsertLocalVisibilityResult(run[r], c, call, price)
           = [status |-> run[r].status, location |-> run[r].location,
              reserved |-> run[r].reserved, used |-> run[r].used,
              cell |-> cell]
  <2> HIDE DEF r, c
  <2> QED BY ZenonT(60), <1>2, InsertedRow
<1> DEFINE inserted == InsertLocalVisibilityResult(run[r], c, call, price)
           new == [status |-> run[r].status, location |-> run[r].location,
                   reserved |-> run[r].reserved - released,
                   used |-> run[r].used + price, cell |-> cell]
<1>5. inserted \in Row
  BY <1>2, <1>4 DEF Row
<1>6. SettleLocalRunCredits(inserted, released, price) = new
  <2>1. SettleLocalRunCredits(inserted, released, price)
        = [status |-> inserted.status, location |-> inserted.location,
           reserved |-> inserted.reserved - released,
           used |-> inserted.used + price, cell |-> inserted.cell]
    <3> HIDE DEF inserted, released
    <3> QED BY <1>3, <1>5, SettledRow
  <2> HIDE DEF released
  <2> QED BY <1>4, <2>1
<1>7. run' = [run EXCEPT ![r] = new]
  BY <1>1, <1>6
<1>8. RowOK(new)
  <2>1. run[r].cell[c].start # "never" /\ ~run[r].cell[c].known
    BY <1>2 DEF CellOf
  <2>2. released = IF price > 0 THEN MapsCreditsPerCall ELSE 0
    OBVIOUS
  <2> HIDE DEF released, r, c
  <2> QED BY <1>1, <1>2, <1>4, <2>1, <2>2, RecordedRow
<1>9. new.status = "running" /\ new.cell = cell
  BY <1>1
<1> HIDE DEF new, inserted, released
<1>10. PICK w \in Worker :
         w.at # "calling" /\ worker' = [worker EXCEPT ![j] = w]
  <2>1. 1 \in Cell \cup {N + 1}
    BY FirstCell
  <2>2. CASE price \notin {0, MapsCreditsPerCall}
    <3> DEFINE w == [at |-> "finishing", next |-> 1, failed |-> FALSE]
    <3>1. w \in Worker /\ w.at = "finishing"
      BY <2>1, Places
    <3>2. worker' = [worker EXCEPT ![j] = w]
      BY <2>2 DEF RecordCellOutcome, LeaveLoop
    <3> QED BY <3>1, <3>2
  <2>3. CASE price \in {0, MapsCreditsPerCall}
    <3> DEFINE w == [at |-> "looping", next |-> c + 1,
                     failed |-> worker[j].failed]
    <3>1. worker' = [worker EXCEPT ![j].at = "looping", ![j].next = @ + 1]
      BY <2>3 DEF RecordCellOutcome, NextCell
    <3>2. w \in Worker /\ w.at = "looping"
      BY <1>2, MapsAssumption DEF Worker, Cell
    <3>3. worker' \in [Job -> Worker]
          /\ \A i \in Job : worker'[i] = IF i = j THEN w ELSE worker[i]
      BY <1>2, <3>1, <3>2 DEF IInv, Typed, Worker
    <3> HIDE DEF w
    <3>4. worker' = [worker EXCEPT ![j] = w]
      BY <3>3 DEF IInv, Typed
    <3> QED BY <3>2, <3>4
  <2> QED BY <2>2, <2>3
<1>11. worker' \in [Job -> Worker]
       /\ \A i \in Job : worker'[i] = IF i = j THEN w ELSE worker[i]
  BY <1>10 DEF IInv, Typed
<1>12. \A i \in Job : worker'[i].at # "none" => job[i].status # "none"
  BY <1>2, <1>11 DEF IInv, Calls, HasRun
<1>13. ASSUME NEW i \in Job, worker'[i].at = "calling"
       PROVE  /\ Calling(i) /\ worker'[i].next = worker[i].next
              /\ job[i].run = r =>
                   LET k == new.cell[worker[i].next]
                   IN  k.start # "never" /\ ~k.known
  <2>1. i # j /\ Calling(i) /\ worker'[i].next = worker[i].next
    BY <1>10, <1>11, <1>13 DEF Calling
  <2>2. CASE job[i].run = r
    <3>1. worker[i].next \in Cell /\ CellOf(i).start # "never"
          /\ ~CellOf(i).known
      BY <1>1, <2>1, <2>2, WorkerHasRun DEF Calling
    <3>2. CallsAlone(i, j)
      BY DEF IInv, Calls
    <3>3. worker[i].next # c
      BY <1>1, <2>1, <2>2, <3>2 DEF CallsAlone
    <3>4. new.cell[worker[i].next] = CellOf(i)
      BY <1>4, <1>9, <2>2, <3>1, <3>3 DEF CellOf
    <3> QED BY <2>1, <3>1, <3>4
  <2> QED BY <2>1, <2>2
<1>14. run[r].status # "deleted" /\ new.status # "none"
  BY <1>1, <1>9
<1> HIDE DEF r
<1> QED BY ZenonT(60), <1>1, <1>2, <1>7, <1>8, <1>11, <1>12, <1>13, <1>14, RowMoves

\* A row that goes holds nothing any more.
LEMMA DeletedRow ==
  ASSUME NEW row \in Row
  PROVE  LET new == [row EXCEPT !.status = "deleted",
                                !.cell = [c \in Cell |-> NewCell]]
         IN  RowOK(new) /\ new.status = "deleted"
<1> DEFINE half == [row EXCEPT !.status = "deleted"]
           none == [c \in Cell |-> NewCell]
           new  == [row EXCEPT !.status = "deleted", !.cell = none]
<1>1. half = [status |-> "deleted", location |-> row.location,
              reserved |-> row.reserved, used |-> row.used, cell |-> row.cell]
  BY DEF Row
<1>2. half \in Row
  BY <1>1 DEF Row
<1>3. new = [half EXCEPT !.cell = none]
  BY Zenon
<1>4. none \in [Cell -> CellRow]
      /\ \A c \in Cell : none[c].start = "never" /\ ~none[c].known
  BY DEF NewCell, CellRow
<1> HIDE DEF half, none, new
<1>5. [half EXCEPT !.cell = none]
      = [status |-> half.status, location |-> half.location,
         reserved |-> half.reserved, used |-> half.used, cell |-> none]
  BY <1>2 DEF Row
<1>6. new \in Row /\ new.status = "deleted" /\ new.cell = none
  BY <1>1, <1>2, <1>3, <1>4, <1>5 DEF Row
<1>7. RowHolds(new) /\ RowAgrees(new)
  BY <1>4, <1>6 DEF RowHolds, RowAgrees, Open, Ended
<1> QED BY <1>6, <1>7 DEF RowOK, new, none

LEMMA Deletes ==
  ASSUME IInv, NEW l \in Location, DeleteLocation(l)
  PROVE  IInv'
<1> DEFINE gone   == {r \in Run : run[r].location = l}
           end(r) == [run[r] EXCEPT !.status = "deleted",
                                    !.cell = [c \in Cell |-> NewCell]]
<1>1. /\ run' = [r \in Run |-> IF r \in gone THEN end(r) ELSE run[r]]
      /\ job' = [j \in Job |-> IF job[j].run \in gone
                              THEN [job[j] EXCEPT !.status = "deleted"]
                              ELSE job[j]]
      /\ UNCHANGED worker
  BY DEF DeleteLocation
<1>2. \A r \in Run : RowOK(end(r)) /\ end(r).status = "deleted"
                     /\ end(r) \in Row
  BY DeletedRow DEF IInv, Rows, RowOK
<1>3. gone \subseteq Run
  OBVIOUS
<1> HIDE DEF gone, end
<1>4. run' \in [Run -> Row] /\ \A r \in Run : run'[r] = IF r \in gone
                                                      THEN end(r) ELSE run[r]
  BY <1>1, <1>2 DEF IInv, Rows
<1>5. Rows'
  BY <1>2, <1>4 DEF IInv, Rows
<1>6. /\ job' \in [Job -> JobRow]
      /\ \A j \in Job :
           /\ job'[j].run = job[j].run
           /\ job'[j].status = IF job[j].run \in gone THEN "deleted"
                                                      ELSE job[j].status
  BY <1>1 DEF IInv, Typed, JobRow
<1>7. Typed'
  BY <1>1, <1>6 DEF IInv, Typed
<1>8. Calls /\ \A i \in Job : HasRun(i) /\ CallsUnsettled(i)
  BY DEF IInv, Calls
<1>9. \A j \in Job :
        \/ /\ job'[j].run = job[j].run
           /\ job'[j].status = "none" <=> job[j].status = "none"
        \/ /\ job[j].status = "none" /\ job'[j].run \in Run
           /\ run'[job'[j].run].status # "none"
  BY <1>2, <1>3, <1>4, <1>6
<1>10. \A j \in Job : worker'[j].at # "none" => job[j].status # "none"
  BY <1>1, <1>8 DEF HasRun
<1>11. ASSUME NEW j \in Job, worker'[j].at = "calling"
       PROVE  /\ Calling(j) /\ worker'[j].next = worker[j].next
              /\ \/ run'[job[j].run].status = "deleted"
                 \/ LET c == run'[job[j].run].cell[worker[j].next]
                    IN  c.start # "never" /\ ~c.known
  <2>1. Calling(j) /\ worker'[j].next = worker[j].next
    BY <1>1, <1>11 DEF Calling
  <2>2. job[j].run \in Run
    BY <1>8, <2>1 DEF HasRun, Calling
  <2>3. CASE job[j].run \in gone
    BY <1>2, <1>4, <2>1, <2>2, <2>3
  <2>4. CASE job[j].run \notin gone
    <3>1. run'[job[j].run] = run[job[j].run] /\ CallsUnsettled(j)
      BY <1>4, <1>8, <2>2, <2>4
    <3> QED BY <2>1, <3>1 DEF CallsUnsettled, CellOf
  <2> QED BY <2>3, <2>4
<1>12. \A r \in Run : /\ run[r].status # "none" => run'[r].status # "none"
                      /\ run[r].status = "deleted" =>
                           run'[r].status = "deleted"
  BY <1>2, <1>4
<1>13. Calls'
  BY <1>8, <1>9, <1>10, <1>11, <1>12, CallsKept
<1> QED BY <1>5, <1>7, <1>13 DEF IInv

\* LaunchRejoins: the run of the step is one that is there, since it is open.
LEMMA Rejoins ==
  ASSUME IInv, Steps, NEW l \in Location, LaunchRejoins(l)
  PROVE  IInv'
<1> DEFINE r == Launched(l)
<1>1. IsOpen(r) /\ EnsureLocalRunJob(r) /\ UNCHANGED <<run, worker>>
      /\ r # NoRun
  BY DEF LaunchRejoins
<1>2. r \in Run /\ run[r].status # "none"
  BY <1>1 DEF IsOpen, Open, Launched, Steps, Setup
<1> HIDE DEF r
<1>3. /\ job' \in [Job -> JobRow]
      /\ \A j \in Job :
           \/ /\ job'[j].run = job[j].run
              /\ job'[j].status = "none" <=> job[j].status = "none"
           \/ /\ job[j].status = "none" /\ job'[j].run \in Run
              /\ run[job'[j].run].status # "none"
  <2>1. CASE UNCHANGED job
    BY <2>1 DEF IInv, Typed
  <2>2. CASE EnqueueLocalVisibilityJob(r)
    <3>1. PICK k \in Job : /\ job[k].status = "none"
                           /\ job' = [job EXCEPT ![k] =
                                        [status |-> "pending", run |-> r]]
      BY <2>2 DEF EnqueueLocalVisibilityJob
    <3>2. job' \in [Job -> JobRow]
          /\ \A j \in Job : job'[j] = IF j = k
                                      THEN [status |-> "pending", run |-> r]
                                      ELSE job[j]
      BY <1>2, <3>1 DEF IInv, Typed, JobRow
    <3> QED BY <1>2, <3>1, <3>2
  <2> QED BY <1>1, <2>1, <2>2 DEF EnsureLocalRunJob
<1> QED BY <1>1, <1>3, JobsMove

\* The steps of the setups, and the statements that touch no row of a run.
LEMMA StepsKept ==
  ASSUME IInv, Steps, [Next]_vars
  PROVE  Steps'
<1>1. CASE UNCHANGED setup
  BY <1>1 DEF Steps
<1>2. ASSUME NEW l \in Location, NEW s \in Setup,
             setup' = [setup EXCEPT ![l] = s]
      PROVE  Steps'
  BY <1>2 DEF Steps
<1>3. ASSUME NEW l \in Location,
             NEW step \in {"pending", "running", "completed", "failed",
                           "skipped"},
             ToStep(l, step)
      PROVE  Steps'
  BY <1>3 DEF Steps, ToStep, Setup
<1>4. ASSUME NEW l \in Location,
             EnqueueRun(l) \/ DeleteLocation(l) \/ LaunchMapsVisibility(l)
             \/ ReclaimSetup(l) \/ Resume(l)
      PROVE  Steps'
  <2>1. CASE EnqueueRun(l)
    BY <1>1, <2>1 DEF EnqueueRun
  <2>2. CASE DeleteLocation(l)
    <3>1. [step |-> "deleted", run |-> NoRun] \in Setup
      BY DEF Setup
    <3> QED BY <1>2, <2>2, <3>1 DEF DeleteLocation
  <2>3. CASE LaunchAdopts(l) \/ LaunchRejoins(l) \/ LaunchSkips(l)
             \/ LaunchRefused(l)
    BY <1>3, <2>3 DEF LaunchAdopts, LaunchRejoins, LaunchSkips, LaunchRefused
  <2>4. CASE LaunchRun(l)
    <3>1. PICK r \in Run :
            setup' = [setup EXCEPT ![l] = [step |-> "running", run |-> r]]
      BY <2>4 DEF LaunchRun
    <3>2. [step |-> "running", run |-> r] \in Setup
      BY DEF Setup
    <3> QED BY <1>2, <3>1, <3>2
  <2>5. CASE ReclaimSetup(l)
    BY <1>3, <2>5 DEF ReclaimSetup, ToStep
  <2>6. CASE Resume(l)
    BY <1>3, <2>6 DEF Resume
  <2> QED BY <1>4, <2>1, <2>2, <2>3, <2>4, <2>5, <2>6 DEF LaunchMapsVisibility
<1>5. ASSUME NEW n \in Grant,
             \/ UpdatePlatformMapsCreditBudget(n)
             \/ \E o \in Org : UpdateOrganizationMapsCreditBudget(o, n)
      PROVE  Steps'
  BY <1>1, <1>5 DEF UpdatePlatformMapsCreditBudget,
                    UpdateOrganizationMapsCreditBudget
<1>6. ASSUME NEW j \in Job,
             \/ ClaimNextPendingAIWorkerJob(j) \/ Work(j) \/ Crash(j)
             \/ ReclaimStaleRunningAIWorkerJobs(j)
      PROVE  Steps'
  <2>1. CASE FinalizeLocalRun(j)
    <3>1. CASE UNCHANGED setup
      BY <1>1, <3>1
    <3>2. CASE ~UNCHANGED setup
      <4> DEFINE l     == run[job[j].run].location
                 ended == IF worker[j].at = "succeeding" THEN "completed"
                                                         ELSE "failed"
      <4>1. setup' = [setup EXCEPT ![l].step = ended]
        BY <2>1, <3>2 DEF FinalizeLocalRun
      <4>2. ended \in {"completed", "failed"}
        OBVIOUS
      <4> HIDE DEF l, ended
      <4> QED BY <4>1, <4>2 DEF Steps, Setup
    <3> QED BY <3>1, <3>2
  <2>2. CASE ~FinalizeLocalRun(j)
    <3>1. UNCHANGED setup
      BY <1>6, <2>2 DEF ClaimNextPendingAIWorkerJob, Work, Crash,
           ReclaimStaleRunningAIWorkerJobs, StartLocalVisibilityRun,
           FailToStart, StartLocalRunCell, EndLoop, RecordCellOutcome,
           LoseCellOutcome, FinishAsWorker, FailToFinish
    <3> QED BY <1>1, <3>1
  <2> QED BY <2>1, <2>2
<1>7. ASSUME NEW r \in Run, FinishInterrupted(r)
      PROVE  Steps'
  BY <1>1, <1>7 DEF FinishInterrupted
<1>8. CASE UNCHANGED vars
  BY <1>1, <1>8 DEF vars
<1> QED BY <1>4, <1>5, <1>6, <1>7, <1>8 DEF Next

\* A step that leaves the runs, the jobs and the workers alone.
LEMMA OthersMove ==
  ASSUME IInv, UNCHANGED <<run, job, worker>>
  PROVE  IInv'
<1>1. Rows' /\ Typed'
  BY DEF IInv, Rows, Typed
<1>2. Calls'
  BY DEF IInv, Calls, HasRun, CallsUnsettled, CallsAlone, Calling, CellOf
<1> QED BY <1>1, <1>2 DEF IInv

-----------------------------------------------------------------------------
(* The theorem *)

LEMMA InitialInvariant == Init => IInv /\ Steps
<1> SUFFICES ASSUME Init
             PROVE  IInv /\ Steps
  OBVIOUS
<1>1. NoRow \in Row /\ RowHolds(NoRow) /\ RowAgrees(NoRow)
  BY DEF NoRow, Row, CellRow, NewCell, RowHolds, RowAgrees, Open, Ended
<1>2. Rows
  BY <1>1 DEF Init, Rows, RowOK
<1>3. Typed
  BY FirstCell, Places DEF Init, Typed, JobRow
<1>4. Calls
  <2>1. \A j \in Job : worker[j].at = "none" /\ job[j].status = "none"
    BY DEF Init, Away
  <2> QED BY <2>1 DEF Calls, HasRun, CallsUnsettled, CallsAlone, Calling
<1>5. Steps
  BY DEF Init, Steps, Setup
<1> QED BY <1>2, <1>3, <1>4, <1>5 DEF IInv

LEMMA StepInvariant ==
  ASSUME IInv, Steps, [Next]_vars
  PROVE  IInv'
<1>1. ASSUME NEW l \in Location,
             EnqueueRun(l) \/ DeleteLocation(l) \/ LaunchMapsVisibility(l)
             \/ ReclaimSetup(l) \/ Resume(l)
      PROVE  IInv'
  <2>1. CASE EnqueueRun(l)
    BY <2>1, RunAdded DEF EnqueueRun
  <2>2. CASE DeleteLocation(l)
    BY <2>2, Deletes
  <2>3. CASE LaunchRejoins(l)
    BY <2>3, Rejoins
  <2>4. CASE LaunchRun(l)
    BY <2>4, RunAdded DEF LaunchRun
  <2>5. CASE LaunchAdopts(l) \/ LaunchSkips(l) \/ LaunchRefused(l)
             \/ ReclaimSetup(l) \/ Resume(l)
    BY <2>5, OthersMove DEF LaunchAdopts, LaunchSkips, LaunchRefused,
                            ReclaimSetup, Resume
  <2> QED BY <1>1, <2>1, <2>2, <2>3, <2>4, <2>5 DEF LaunchMapsVisibility
<1>2. ASSUME NEW n \in Grant,
             \/ UpdatePlatformMapsCreditBudget(n)
             \/ \E o \in Org : UpdateOrganizationMapsCreditBudget(o, n)
      PROVE  IInv'
  BY <1>2, OthersMove DEF UpdatePlatformMapsCreditBudget,
                          UpdateOrganizationMapsCreditBudget
<1>3. ASSUME NEW j \in Job, Work(j)
      PROVE  IInv'
  <2>1. ASSUME NEW answer \in Answer,
               RecordCellOutcome(j, answer[1], answer[2])
        PROVE  IInv'
    <3>1. answer[1] \in {"failed", "ok"} /\ answer[2] \in Nat
      BY MapsAssumption
    <3> QED BY <2>1, <3>1, Records
  <2>2. CASE \/ FailToStart(j) \/ EndLoop(j) \/ LoseCellOutcome(j)
             \/ FailToFinish(j)
    BY <2>2, MovesAlone
  <2>3. CASE StartLocalVisibilityRun(j)
    BY <2>3, Starts
  <2>4. CASE StartLocalRunCell(j)
    BY <2>4, StartsCell
  <2>5. CASE FinishAsWorker(j)
    BY <2>5, WorkerFinishes
  <2>6. CASE FinalizeLocalRun(j)
    BY <2>6, Finalizes
  <2> QED BY <1>3, <2>1, <2>2, <2>3, <2>4, <2>5, <2>6 DEF Work
<1>4. ASSUME NEW j \in Job,
             ClaimNextPendingAIWorkerJob(j) \/ Crash(j)
             \/ ReclaimStaleRunningAIWorkerJobs(j)
      PROVE  IInv'
  BY <1>4, Claims, MovesAlone, Reclaims
<1>5. ASSUME NEW r \in Run, FinishInterrupted(r)
      PROVE  IInv'
  BY <1>5, SweepFinishes
<1>6. CASE UNCHANGED vars
  BY <1>6, OthersMove DEF vars
<1> QED BY <1>1, <1>2, <1>3, <1>4, <1>5, <1>6 DEF Next

\* Every state satisfies the invariant: what each row holds, and that a call
\* in progress is not settled and alone on its cell, whatever workers,
\* requests, sweeps and crashes do (internal/localvisibility).
THEOREM Invariance == Spec => [](IInv /\ Steps)
<1>1. Init => IInv /\ Steps
  BY InitialInvariant
<1>2. (IInv /\ Steps) /\ [Next]_vars => (IInv /\ Steps)'
  BY StepInvariant, StepsKept
<1> QED BY <1>1, <1>2, PTL DEF Spec

\* A run holds the price of its unsettled calls: FinishRun releases the calls
\* that were not started and no other, RecordCellOutcome the one whose price
\* it learns, once, although two workers may execute one run and the sweep may
\* end it under them.
THEOREM CreditsHeld == Spec => []RunsHold
<1>1. IInv => RunsHold
  BY DEF IInv, Rows, RowOK, RowHolds, RunsHold
<1> QED BY <1>1, Invariance, PTL

-----------------------------------------------------------------------------
(* Sums over finite sets *)

\* The sum of f over a finite set.
Sum(f, S) == MapThenSumSet(LAMBDA x : f[x], S)

\* h gives the sum of f over every part of S.
Adds(f, S, h) ==
  /\ h \in [SUBSET S -> Int]
  /\ h[{}] = 0
  /\ \A T \in SUBSET S : \A x \in T : h[T] = f[x] + h[T \ {x}]

\* Induction over the parts of a finite set: of those that are no members of
\* Good, one would have all its parts in Good.
LEMMA SetInduction ==
  ASSUME NEW S, IsFiniteSet(S), NEW Good \in SUBSET (SUBSET S), {} \in Good,
         \A T \in SUBSET S :
           T # {} /\ (\A x \in T : T \ {x} \in Good) => T \in Good
  PROVE  Good = SUBSET S
<1> DEFINE Bad == (SUBSET S) \ Good
<1> SUFFICES ASSUME Bad # {} PROVE FALSE
  OBVIOUS
<1>1. IsWellFoundedOn(StrictSubsetOrdering(S), SUBSET S)
  <2>1. IsWellFoundedOn(StrictSubsetOrdering(S), FiniteSubsetsOf(S))
    BY FS_StrictSubsetOrderingWellFounded
  <2>2. FiniteSubsetsOf(S) = SUBSET S
    BY FS_FiniteSubsetsOfFinite
  <2> QED BY <2>1, <2>2
<1>2. PICK T \in Bad : \A U \in Bad : <<U, T>> \notin StrictSubsetOrdering(S)
  <2>1. Bad \subseteq SUBSET S /\ Bad # {}
    OBVIOUS
  <2> DEFINE R     == StrictSubsetOrdering(S)
             Parts == SUBSET S
  <2>2. IsWellFoundedOn(R, Parts) /\ Bad \subseteq Parts
    BY <1>1, <2>1
  <2> HIDE DEF Bad, R, Parts
  <2>3. \E T \in Bad : \A U \in Bad : ~(<<U, T>> \in R)
    BY <2>1, <2>2, WFMin
  <2> QED BY <2>3 DEF R
<1>3. ASSUME NEW x \in T
      PROVE  T \ {x} \in Good
  <2>1. <<T \ {x}, T>> \in StrictSubsetOrdering(S)
    BY DEF StrictSubsetOrdering
  <2> QED BY <1>2, <2>1
<1> QED BY <1>3

\* Every finite set has a function that gives its sums: one for a set without
\* an element extends to the set.
LEMMA SumsExist ==
  ASSUME NEW S, IsFiniteSet(S), NEW f, \A x \in S : f[x] \in Int
  PROVE  \E h : Adds(f, S, h)
<1> DEFINE Good == {T \in SUBSET S : \E h : Adds(f, T, h)}
<1>1. {} \in Good
  <2> DEFINE h == [T \in SUBSET {} |-> 0]
  <2>1. Adds(f, {}, h)
    BY DEF Adds
  <2> QED BY <2>1
<1>2. ASSUME NEW T \in Good, NEW y \in S \ T
      PROVE  T \cup {y} \in Good
  <2>1. PICK h : Adds(f, T, h)
    OBVIOUS
  <2> DEFINE g == [U \in SUBSET (T \cup {y}) |->
                     IF y \in U THEN f[y] + h[U \ {y}] ELSE h[U]]
  <2>2. g \in [SUBSET (T \cup {y}) -> Int]
    <3>1. ASSUME NEW U \in SUBSET (T \cup {y})
          PROVE  (IF y \in U THEN f[y] + h[U \ {y}] ELSE h[U]) \in Int
      <4>1. U \ {y} \in SUBSET T /\ (y \notin U => U \in SUBSET T)
        OBVIOUS
      <4> QED BY <2>1, <4>1 DEF Adds
    <3> QED BY <3>1
  <2>3. g[{}] = 0
    BY <2>1 DEF Adds
  <2>4. ASSUME NEW U \in SUBSET (T \cup {y}), NEW x \in U
        PROVE  g[U] = f[x] + g[U \ {x}]
    <3>1. CASE x = y
      BY <3>1
    <3>2. CASE x # y /\ y \notin U
      <4>1. U \in SUBSET T /\ U \ {x} \in SUBSET (T \cup {y})
        BY <3>2
      <4>2. h[U] = f[x] + h[U \ {x}]
        BY <2>1, <4>1 DEF Adds
      <4> QED BY <3>2, <4>1, <4>2
    <3>3. CASE x # y /\ y \in U
      <4>1. U \ {y} \in SUBSET T /\ x \in U \ {y} /\ U \ {x} \in SUBSET (T \cup {y})
        BY <3>3
      <4>2. h[U \ {y}] = f[x] + h[(U \ {y}) \ {x}]
        BY <2>1, <4>1 DEF Adds
      <4>3. (U \ {y}) \ {x} = (U \ {x}) \ {y} /\ (U \ {x}) \ {y} \in SUBSET T
        BY <4>1
      <4>4. g[U] = f[y] + h[U \ {y}] /\ g[U \ {x}] = f[y] + h[(U \ {x}) \ {y}]
        BY <3>3, <4>1
      <4>5. h[(U \ {x}) \ {y}] \in Int /\ f[x] \in Int /\ f[y] \in Int
        BY <2>1, <4>3 DEF Adds
      <4> DEFINE r == h[(U \ {x}) \ {y}]
      <4>6. g[U] = f[y] + (f[x] + r) /\ g[U \ {x}] = f[y] + r
        BY <4>2, <4>3, <4>4
      <4>7. f[y] + (f[x] + r) = f[x] + (f[y] + r)
        <5> HIDE DEF r
        <5> QED BY <4>5 DEF r
      <4> HIDE DEF g, r
      <4> QED BY <4>6, <4>7
    <3> QED BY <3>1, <3>2, <3>3
  <2>5. Adds(f, T \cup {y}, g)
    <3> HIDE DEF g
    <3> QED BY <2>2, <2>3, <2>4 DEF Adds
  <2> QED BY <2>5
<1>3. Good = SUBSET S
  <2> HIDE DEF Good
  <2>1. Good \in SUBSET (SUBSET S)
    BY DEF Good
  <2>2. ASSUME NEW T \in SUBSET S, T # {}, \A x \in T : T \ {x} \in Good
        PROVE  T \in Good
    <3>1. PICK y \in T : TRUE
      BY <2>2
    <3>2. T \ {y} \in Good /\ y \in S \ (T \ {y}) /\ T = (T \ {y}) \cup {y}
      BY <2>2
    <3>3. (T \ {y}) \cup {y} \in Good
      BY <1>2, <3>2
    <3> QED BY <3>2, <3>3
  <2> QED BY <1>1, <2>1, <2>2, SetInduction
<1> QED BY <1>3

\* A sum takes an element out of the set and adds the rest (Folds.tla).
Taking(f, S, g) ==
  [T \in SUBSET S |-> IF T = {} THEN 0
                      ELSE f[CHOOSE x \in T : TRUE]
                           + g[T \ {CHOOSE x \in T : TRUE}]]

\* Whichever element it takes.
LEMMA SumIsTaken ==
  ASSUME NEW S, IsFiniteSet(S), NEW f, NEW h, Adds(f, S, h)
  PROVE  /\ h = Taking(f, S, h)
         /\ \A g : g = Taking(f, S, g) => g[S] = h[S]
<1>1. h = Taking(f, S, h)
  <2>1. ASSUME NEW T \in SUBSET S
        PROVE  h[T] = Taking(f, S, h)[T]
    <3>1. CASE T = {}
      BY <3>1 DEF Adds, Taking
    <3>2. CASE T # {}
      <4>1. (CHOOSE x \in T : TRUE) \in T
        BY <3>2
      <4> QED BY <3>2, <4>1 DEF Adds, Taking
    <3> QED BY <3>1, <3>2
  <2>2. h \in [SUBSET S -> Int]
    BY DEF Adds
  <2>3. DOMAIN h = SUBSET S /\ h = [T \in SUBSET S |-> h[T]]
    BY <2>2
  <2> QED BY <2>1, <2>3 DEF Taking
<1>2. ASSUME NEW g, g = Taking(f, S, g)
      PROVE  g[S] = h[S]
  <2> DEFINE Good == {T \in SUBSET S : g[T] = h[T]}
  <2>1. {} \in Good
    <3>1. g[{}] = 0 /\ h[{}] = 0
      BY <1>1, <1>2 DEF Taking
    <3> QED BY <3>1
  <2>2. ASSUME NEW T \in SUBSET S, T # {}, \A x \in T : T \ {x} \in Good
        PROVE  T \in Good
    <3> DEFINE c == CHOOSE x \in T : TRUE
    <3>1. c \in T
      BY <2>2
    <3>2. g[T \ {c}] = h[T \ {c}]
      BY <2>2, <3>1
    <3>3. g[T] = f[c] + g[T \ {c}] /\ h[T] = f[c] + h[T \ {c}]
      BY <1>1, <1>2, <2>2 DEF Taking
    <3> QED BY <3>2, <3>3
  <2>3. Good \in SUBSET (SUBSET S)
    OBVIOUS
  <2>4. Good = SUBSET S
    <3> HIDE DEF Good
    <3> QED BY <2>1, <2>2, <2>3, SetInduction
  <2> QED BY <2>4
<1> QED BY <1>1, <1>2

\* So its sum is that of any function that adds.
LEMMA SumIs ==
  ASSUME NEW S, IsFiniteSet(S), NEW f, NEW h, Adds(f, S, h)
  PROVE  Sum(f, S) = h[S]
<1> DEFINE iter == CHOOSE g : g = Taking(f, S, g)
<1>1. Sum(f, S) = iter[S]
  BY DEF Sum, MapThenSumSet, MapThenFoldSet, Taking
<1>2. h = Taking(f, S, h)
  BY SumIsTaken
<1>3. iter = Taking(f, S, iter)
  BY <1>2
<1> HIDE DEF iter
<1> QED BY <1>1, <1>3, SumIsTaken

\* What a sum is, without the order of its elements.
LEMMA SumsOfParts ==
  ASSUME NEW S, IsFiniteSet(S), NEW f, \A x \in S : f[x] \in Int
  PROVE  \A T \in SUBSET S :
           /\ Sum(f, T) \in Int
           /\ T = {} => Sum(f, T) = 0
           /\ \A x \in T : Sum(f, T) = f[x] + Sum(f, T \ {x})
<1>1. PICK h : Adds(f, S, h)
  BY SumsExist
<1>2. ASSUME NEW T \in SUBSET S
      PROVE  Sum(f, T) = h[T]
  <2> DEFINE g == [U \in SUBSET T |-> h[U]]
  <2>1. Adds(f, T, g)
    <3>1. ASSUME NEW U \in SUBSET T, NEW x \in U
          PROVE  g[U] = f[x] + g[U \ {x}]
      BY <1>1 DEF Adds
    <3>2. g \in [SUBSET T -> Int] /\ g[{}] = 0
      BY <1>1 DEF Adds
    <3> HIDE DEF g
    <3> QED BY <3>1, <3>2 DEF Adds
  <2>2. IsFiniteSet(T)
    BY FS_Subset
  <2>3. Sum(f, T) = g[T]
    <3> HIDE DEF g
    <3> QED BY <2>1, <2>2, SumIs
  <2> QED BY <2>3
<1>3. ASSUME NEW T \in SUBSET S
      PROVE  /\ h[T] \in Int
             /\ T = {} => h[T] = 0
             /\ \A x \in T : h[T] = f[x] + h[T \ {x}]
  BY <1>1 DEF Adds
<1>4. \A T \in SUBSET S : \A x \in T : T \ {x} \in SUBSET S
  OBVIOUS
<1> QED BY <1>2, <1>3, <1>4

\* A sum depends on its summands only.
LEMMA SumSame ==
  ASSUME NEW S, IsFiniteSet(S), NEW f, NEW g,
         \A x \in S : f[x] \in Int /\ g[x] = f[x]
  PROVE  Sum(g, S) = Sum(f, S)
<1> DEFINE Good == {T \in SUBSET S : Sum(g, T) = Sum(f, T)}
<1>1. \A T \in SUBSET S :
        /\ T = {} => Sum(f, T) = 0
        /\ \A x \in T : Sum(f, T) = f[x] + Sum(f, T \ {x})
  BY SumsOfParts
<1>2. \A T \in SUBSET S :
        /\ T = {} => Sum(g, T) = 0
        /\ \A x \in T : Sum(g, T) = g[x] + Sum(g, T \ {x})
  BY SumsOfParts
<1>3. {} \in Good
  BY <1>1, <1>2
<1>4. ASSUME NEW T \in SUBSET S, T # {}, \A x \in T : T \ {x} \in Good
      PROVE  T \in Good
  <2>1. PICK x \in T : TRUE
    BY <1>4
  <2>2. Sum(g, T \ {x}) = Sum(f, T \ {x})
    BY <1>4
  <2> QED BY <1>1, <1>2, <2>2
<1>5. Good \in SUBSET (SUBSET S)
  OBVIOUS
<1>6. Good = SUBSET S
  <2> HIDE DEF Good
  <2> QED BY <1>3, <1>4, <1>5, SetInduction
<1> QED BY <1>6

\* A sum of natural numbers is one.
LEMMA SumNat ==
  ASSUME NEW S, IsFiniteSet(S), NEW f, \A x \in S : f[x] \in Int
  PROVE  (\A x \in S : f[x] \in Nat) => Sum(f, S) \in Nat
<1> DEFINE Good == {T \in SUBSET S : Sum(f, T) \in Nat}
<1>1. \A T \in SUBSET S :
        /\ T = {} => Sum(f, T) = 0
        /\ \A x \in T : Sum(f, T) = f[x] + Sum(f, T \ {x})
  BY SumsOfParts
<1> SUFFICES ASSUME \A x \in S : f[x] \in Nat
             PROVE  Sum(f, S) \in Nat
  OBVIOUS
<1>2. {} \in Good
  BY <1>1
<1>3. ASSUME NEW T \in SUBSET S, T # {}, \A x \in T : T \ {x} \in Good
      PROVE  T \in Good
  <2>1. PICK x \in T : TRUE
    BY <1>3
  <2>2. Sum(f, T \ {x}) \in Nat /\ f[x] \in Nat
    BY <1>3
  <2>3. Sum(f, T) = f[x] + Sum(f, T \ {x})
    BY <1>1
  <2> QED BY <2>2, <2>3
<1>4. Good \in SUBSET (SUBSET S)
  OBVIOUS
<1>5. Good = SUBSET S
  <2> HIDE DEF Good
  <2> QED BY <1>2, <1>3, <1>4, SetInduction
<1> QED BY <1>5

\* One summand changes.
LEMMA SumMoves ==
  ASSUME NEW S, IsFiniteSet(S), NEW f, NEW g,
         \A x \in S : f[x] \in Int /\ g[x] \in Int,
         NEW y \in S, NEW d \in Int, g[y] = f[y] + d,
         \A x \in S : x # y => g[x] = f[x]
  PROVE  Sum(g, S) = Sum(f, S) + d
<1>1. S \ {y} \in SUBSET S /\ IsFiniteSet(S \ {y})
  BY FS_Subset
<1>2. Sum(g, S \ {y}) = Sum(f, S \ {y})
  <2>1. \A x \in S \ {y} : f[x] \in Int /\ g[x] = f[x]
    OBVIOUS
  <2> QED BY <1>1, <2>1, SumSame
<1>3. Sum(f, S) = f[y] + Sum(f, S \ {y}) /\ Sum(f, S \ {y}) \in Int
  BY <1>1, SumsOfParts
<1>4. Sum(g, S) = g[y] + Sum(g, S \ {y}) /\ Sum(g, S \ {y}) \in Int
  BY <1>1, SumsOfParts
<1> QED BY <1>2, <1>3, <1>4

\* One summand is new.
LEMMA SumGrows ==
  ASSUME NEW S, IsFiniteSet(S), NEW f, NEW g, NEW y \in S,
         \A x \in S : g[x] \in Int,
         \A x \in S : x # y => f[x] = g[x]
  PROVE  Sum(g, S) = Sum(f, S \ {y}) + g[y]
<1> DEFINE T == S \ {y}
<1>1. IsFiniteSet(T) /\ T \in SUBSET S
  BY FS_Subset
<1>2. Sum(g, S) = g[y] + Sum(g, T) /\ Sum(g, T) \in Int
  BY <1>1, SumsOfParts
<1>3. Sum(f, T) = Sum(g, T)
  <2>1. \A x \in T : g[x] \in Int /\ f[x] = g[x]
    OBVIOUS
  <2> HIDE DEF T
  <2> QED BY <1>1, <2>1, SumSame
<1>4. g[y] \in Int
  OBVIOUS
<1> QED BY <1>2, <1>3, <1>4

-----------------------------------------------------------------------------
(* The budgets *)

\* As Budget, without the signs.
Money == [remaining : Int, reserved : Int, spent : Int]

Created == {r \in Run : run[r].status # "none"}

Own(o) == {r \in Created : OrgOfRun(r) = o}

Reserved == [r \in Run |-> run[r].reserved]
Used     == [r \in Run |-> run[r].used]

\* b is what the runs of S hold and have used.
Owes(b, S, reserved, used) ==
  b.reserved = Sum(reserved, S) /\ b.spent = Sum(used, S)

Balanced ==
  /\ Owes(platform, Created, Reserved, Used)
  /\ \A o \in Org : Owes(budget[o], Own(o), Reserved, Used)

\* A run is of a location once it is created, and a row that is no run any
\* more, or not yet, holds nothing.
RowQuiet(row) ==
  /\ row.status \in {"none", "deleted"} => row.reserved = 0
  /\ row.status # "none" => row.location \in Location
  /\ row.status = "none" => row.location = Nowhere

Budgets ==
  /\ platform \in Money /\ budget \in [Org -> Money]
  /\ \A r \in Run : RowQuiet(run[r])
  /\ Balanced

\* There are finitely many runs.
LEMMA RunsFinite ==
  ASSUME NEW S \in SUBSET Run
  PROVE  IsFiniteSet(S)
<1>1. IsFiniteSet(Run)
  BY FS_Interval, MapsAssumption DEF Run
<1> QED BY <1>1, FS_Subset

\* The sums of the property are these.
LEMMA SumOfRuns ==
  ASSUME NEW S \in SUBSET Run, \A r \in Run : run[r] \in Row
  PROVE  /\ MapThenSumSet(LAMBDA r : run[r].reserved, S) = Sum(Reserved, S)
         /\ MapThenSumSet(LAMBDA r : run[r].used, S) = Sum(Used, S)
<1>1. IsFiniteSet(S)
  BY RunsFinite
<1>2. \A x \in S : Reserved[x] = run[x].reserved /\ Used[x] = run[x].used
  BY DEF Reserved, Used
<1>3. (\A x \in S : Reserved[x] \in Int) /\ \A x \in S : Used[x] \in Int
  BY <1>2 DEF Row
<1>4. PICK h : Adds(Reserved, S, h)
  BY <1>1, <1>3, SumsExist
<1>5. PICK k : Adds(Used, S, k)
  BY <1>1, <1>3, SumsExist
<1> DEFINE held(g) == [T \in SUBSET S |->
                         IF T = {} THEN 0
                         ELSE run[CHOOSE x \in T : TRUE].reserved
                              + g[T \ {CHOOSE x \in T : TRUE}]]
           spent(g) == [T \in SUBSET S |->
                         IF T = {} THEN 0
                         ELSE run[CHOOSE x \in T : TRUE].used
                              + g[T \ {CHOOSE x \in T : TRUE}]]
           iter1 == CHOOSE g : g = held(g)
           iter2 == CHOOSE g : g = spent(g)
<1>6. MapThenSumSet(LAMBDA r : run[r].reserved, S) = iter1[S]
  BY DEF MapThenSumSet, MapThenFoldSet
<1>7. MapThenSumSet(LAMBDA r : run[r].used, S) = iter2[S]
  BY DEF MapThenSumSet, MapThenFoldSet
<1>8. \A g : held(g) = Taking(Reserved, S, g)
  BY <1>2 DEF Taking
<1>9. \A g : spent(g) = Taking(Used, S, g)
  BY <1>2 DEF Taking
<1> HIDE DEF held, spent
<1>10. iter1 = Taking(Reserved, S, iter1)
  <2>1. h = held(h)
    BY <1>1, <1>4, <1>8, SumIsTaken
  <2> QED BY <1>8, <2>1
<1>11. iter2 = Taking(Used, S, iter2)
  <2>1. k = spent(k)
    BY <1>1, <1>5, <1>9, SumIsTaken
  <2> QED BY <1>9, <2>1
<1> HIDE DEF iter1, iter2
<1>12. iter1[S] = Sum(Reserved, S)
  BY <1>1, <1>4, <1>10, SumIsTaken, SumIs
<1>13. iter2[S] = Sum(Used, S)
  BY <1>1, <1>5, <1>11, SumIsTaken, SumIs
<1> QED BY <1>6, <1>7, <1>12, <1>13

\* A step that moves no credit of a run and takes none from the budgets.
LEMMA BudgetsKept ==
  ASSUME Rows, Rows', Balanced,
         platform'.reserved = platform.reserved,
         platform'.spent = platform.spent,
         \A o \in Org : /\ budget'[o].reserved = budget[o].reserved
                        /\ budget'[o].spent = budget[o].spent,
         \A r \in Run :
           /\ run'[r].reserved = run[r].reserved /\ run'[r].used = run[r].used
           /\ run'[r].location = run[r].location
           /\ run'[r].status = "none" <=> run[r].status = "none"
  PROVE  Balanced'
<1>1. Created' = Created
  BY DEF Created
<1>2. \A o \in Org : Own(o)' = Own(o)
  BY <1>1 DEF Own, OrgOfRun, Created
<1>3. Reserved' = Reserved /\ Used' = Used
  BY DEF Reserved, Used
<1> QED BY <1>1, <1>2, <1>3 DEF Balanced, Owes

\* SettlePlatformMapsCredits and its like, field by field.
LEMMA SettledBudget ==
  ASSUME NEW b \in Money, NEW released \in Int, NEW spent \in Int
  PROVE  /\ Settle(b, released, spent) \in Money
         /\ Settle(b, released, spent).reserved = b.reserved - released
         /\ Settle(b, released, spent).spent = b.spent + spent
<1> DEFINE c == [b EXCEPT !.reserved = b.reserved - released]
           d == [c EXCEPT !.remaining = b.remaining - spent]
           e == [d EXCEPT !.spent = b.spent + spent]
<1>1. Settle(b, released, spent) = e
  BY Zenon DEF Settle
<1>2. c \in Money /\ c.reserved = b.reserved - released
  BY DEF Money
<1>3. b.remaining - spent \in Int /\ b.spent + spent \in Int
  BY DEF Money
<1> HIDE DEF c
<1>4. d \in Money /\ d.reserved = c.reserved
  BY <1>2, <1>3 DEF Money
<1> HIDE DEF d
<1>5. e \in Money /\ e.reserved = d.reserved /\ e.spent = b.spent + spent
  BY <1>3, <1>4 DEF Money
<1> HIDE DEF e
<1> QED BY <1>1, <1>2, <1>4, <1>5

\* A run releases and spends in its own budgets what it releases and spends.
LEMMA RunPays ==
  ASSUME Budgets, Rows, Rows', NEW r \in Run, run[r].status # "none",
         NEW released \in Int, NEW spent \in Int,
         run'[r].status # "none", run'[r].location = run[r].location,
         run'[r].reserved = run[r].reserved - released,
         run'[r].used = run[r].used + spent,
         \A q \in Run : q # r => run'[q] = run[q],
         SettlePlatformMapsCredits(released, spent),
         SettleOrganizationMapsCredits(OrgOfRun(r), released, spent)
  PROVE  platform' \in Money /\ budget' \in [Org -> Money] /\ Balanced'
<1> DEFINE o == OrgOfRun(r)
<1>1. o \in Org
  BY MapsAssumption DEF Budgets, RowQuiet, OrgOfRun
<1>2. /\ platform' \in Money
      /\ platform'.reserved = platform.reserved - released
      /\ platform'.spent = platform.spent + spent
  BY SettledBudget DEF Budgets, SettlePlatformMapsCredits
<1>3. budget[o] \in Money
  BY <1>1 DEF Budgets
<1> DEFINE b == Settle(budget[o], released, spent)
<1>4. /\ b \in Money
      /\ b.reserved = budget[o].reserved - released
      /\ b.spent = budget[o].spent + spent
  BY <1>3, SettledBudget
<1>5. budget' = [budget EXCEPT ![o] = b]
  BY DEF SettleOrganizationMapsCredits
<1> HIDE DEF o, b
<1>6. /\ budget' \in [Org -> Money] /\ budget'[o] = b
      /\ \A p \in Org : p # o => budget'[p] = budget[p]
  BY <1>1, <1>4, <1>5 DEF Budgets
<1>7. Created' = Created /\ r \in Created
  BY DEF Created
<1>8. \A p \in Org : Own(p)' = Own(p)
  BY <1>7 DEF Own, OrgOfRun, Created
<1>9. \A x \in Run : Reserved[x] \in Int /\ Reserved'[x] \in Int
  BY DEF Reserved, Rows, Row
<1>10. \A x \in Run : Used[x] \in Int /\ Used'[x] \in Int
  BY DEF Used, Rows, Row
<1>11. /\ Reserved'[r] = Reserved[r] + (0 - released)
       /\ Used'[r] = Used[r] + spent
       /\ \A x \in Run : x # r => Reserved'[x] = Reserved[x] /\ Used'[x] = Used[x]
  BY <1>9 DEF Reserved, Used
<1>12. ASSUME NEW S \in SUBSET Run, r \in S
       PROVE  /\ Sum(Reserved', S) = Sum(Reserved, S) - released
              /\ Sum(Used', S) = Sum(Used, S) + spent
  <2>1. IsFiniteSet(S)
    BY RunsFinite
  <2>2. Sum(Reserved, S) \in Int
    BY <1>9, <2>1, SumsOfParts
  <2>3. Sum(Reserved', S) = Sum(Reserved, S) + (0 - released)
    <3>1. \A x \in S : Reserved[x] \in Int /\ Reserved'[x] \in Int
      BY <1>9
    <3>2. \A x \in S : r # x => Reserved'[x] = Reserved[x]
      BY <1>11
    <3> QED BY <1>11, <1>12, <2>1, <3>1, <3>2, SumMoves
  <2>4. Sum(Used', S) = Sum(Used, S) + spent
    <3>1. \A x \in S : Used[x] \in Int /\ Used'[x] \in Int
      BY <1>10
    <3>2. \A x \in S : r # x => Used'[x] = Used[x]
      BY <1>11
    <3> QED BY <1>11, <1>12, <2>1, <3>1, <3>2, SumMoves
  <2> QED BY <2>2, <2>3, <2>4
<1>13. ASSUME NEW S \in SUBSET Run, r \notin S
       PROVE  Sum(Reserved', S) = Sum(Reserved, S) /\ Sum(Used', S) = Sum(Used, S)
  <2>1. IsFiniteSet(S)
    BY RunsFinite
  <2>2. \A x \in S : Reserved[x] \in Int /\ Reserved'[x] = Reserved[x]
    BY <1>9, <1>11, <1>13
  <2>3. \A x \in S : Used[x] \in Int /\ Used'[x] = Used[x]
    BY <1>10, <1>11, <1>13
  <2> QED BY <2>1, <2>2, <2>3, SumSame
<1>14. Owes(platform, Created, Reserved, Used)'
  <2>1. Created \in SUBSET Run
    BY DEF Created
  <2> QED BY <1>2, <1>7, <1>12, <2>1 DEF Budgets, Balanced, Owes
<1>15. ASSUME NEW p \in Org
       PROVE  Owes(budget[p], Own(p), Reserved, Used)'
  <2>1. Own(p) \in SUBSET Run /\ (r \in Own(p) <=> p = o)
    BY <1>7 DEF Own, Created, o
  <2>2. Owes(budget[p], Own(p), Reserved, Used)
    BY DEF Budgets, Balanced
  <2>3. CASE p = o
    BY <1>4, <1>6, <1>8, <1>12, <2>1, <2>2, <2>3 DEF Owes
  <2>4. CASE p # o
    BY <1>6, <1>8, <1>13, <2>1, <2>2, <2>4 DEF Owes
  <2> QED BY <2>3, <2>4
<1> QED BY <1>2, <1>6, <1>14, <1>15 DEF Balanced

\* A new run takes its worst cost from its budgets, and is counted there.
LEMMA RunReserves ==
  ASSUME Budgets, Rows, Rows', NEW l \in Location, NEW r \in Run,
         CreateLocalVisibilityRun(l, r),
         ReservePlatformMapsCredits(ExpectedRunCredits),
         ReserveOrganizationMapsCredits(OrgOf[l], ExpectedRunCredits)
  PROVE  Budgets'
<1> DEFINE o == OrgOf[l]
           n == ExpectedRunCredits
           new == [status |-> "queued", location |-> l, reserved |-> n,
                   used |-> 0, cell |-> [c \in Cell |-> NewCell]]
<1>1. o \in Org
  BY MapsAssumption
<1>2. n \in Nat
  BY MapsAssumption DEF ExpectedRunCredits, MapsCreditsPerCall
<1>3. /\ run[r].status = "none"
      /\ run'[r] = new /\ \A q \in Run : q # r => run'[q] = run[q]
  BY DEF CreateLocalVisibilityRun, Rows
<1>4. /\ run'[r].status = "queued" /\ run'[r].location = l
      /\ run'[r].reserved = n /\ run'[r].used = 0
  BY <1>3
<1> HIDE DEF n, new
<1>5. /\ platform' \in Money /\ platform'.reserved = platform.reserved + n
      /\ platform'.spent = platform.spent
  <2>1. platform' = [platform EXCEPT !.reserved = platform.reserved + n]
    BY DEF ReservePlatformMapsCredits, Reserve, n
  <2> QED BY <1>2, <2>1 DEF Budgets, Money
<1> DEFINE b == [budget[o] EXCEPT !.reserved = budget[o].reserved + n]
<1>6. /\ b \in Money /\ b.reserved = budget[o].reserved + n
      /\ b.spent = budget[o].spent
  <2>1. budget[o] \in Money
    BY <1>1 DEF Budgets
  <2> QED BY <1>2, <2>1 DEF Money
<1>7. budget' = [budget EXCEPT ![o] = b]
  BY DEF ReserveOrganizationMapsCredits, Reserve, n
<1> HIDE DEF b, o
<1>8. /\ budget' \in [Org -> Money] /\ budget'[o] = b
      /\ \A p \in Org : p # o => budget'[p] = budget[p]
  BY <1>1, <1>6, <1>7 DEF Budgets
<1>9. Created' = Created \cup {r} /\ r \notin Created
  BY <1>3, <1>4 DEF Created
<1>10. \A p \in Org : /\ r \notin Own(p)
                      /\ Own(p)' = IF p = o THEN Own(p) \cup {r} ELSE Own(p)
  <2>1. \A q \in Created : q # r /\ OrgOfRun(q)' = OrgOfRun(q)
    BY <1>3, <1>9 DEF OrgOfRun, Created
  <2>2. OrgOfRun(r)' = o
    BY <1>4 DEF OrgOfRun, o
  <2> QED BY <1>9, <2>1, <2>2 DEF Own
<1>11. \A x \in Run : Reserved[x] \in Int /\ Reserved'[x] \in Int
  BY DEF Reserved, Rows, Row
<1>12. \A x \in Run : Used[x] \in Int /\ Used'[x] \in Int
  BY DEF Used, Rows, Row
<1>13. /\ Reserved'[r] = n /\ Used'[r] = 0
       /\ \A x \in Run : x # r => Reserved'[x] = Reserved[x] /\ Used'[x] = Used[x]
  BY <1>3, <1>4 DEF Reserved, Used
<1>14. ASSUME NEW S \in SUBSET Run, r \notin S
       PROVE  /\ Sum(Reserved', S \cup {r}) = Sum(Reserved, S) + n
              /\ Sum(Used', S \cup {r}) = Sum(Used, S)
              /\ Sum(Reserved', S) = Sum(Reserved, S)
              /\ Sum(Used', S) = Sum(Used, S)
  <2>1. IsFiniteSet(S)
    BY RunsFinite
  <2> DEFINE T == S \cup {r}
  <2>2. /\ T \in SUBSET Run /\ r \in T /\ T \ {r} = S
    BY <1>14
  <2> HIDE DEF T
  <2>3. /\ IsFiniteSet(T)
        /\ \A x \in T : Reserved'[x] \in Int
        /\ \A x \in T : x # r => Reserved[x] = Reserved'[x]
        /\ \A x \in T : Used'[x] \in Int
        /\ \A x \in T : x # r => Used[x] = Used'[x]
    BY <1>11, <1>12, <1>13, <2>2, RunsFinite
  <2>4. Sum(Reserved', T) = Sum(Reserved, T \ {r}) + Reserved'[r]
    BY <2>2, <2>3, SumGrows
  <2>5. Sum(Used', T) = Sum(Used, T \ {r}) + Used'[r]
    BY <2>2, <2>3, SumGrows
  <2>6. Sum(Used, S) \in Int
    BY <1>12, <2>1, SumsOfParts
  <2>7. \A x \in S : Reserved[x] \in Int /\ Reserved'[x] = Reserved[x]
    BY <1>11, <1>13, <1>14
  <2>8. \A x \in S : Used[x] \in Int /\ Used'[x] = Used[x]
    BY <1>12, <1>13, <1>14
  <2>9. Sum(Reserved', S) = Sum(Reserved, S) /\ Sum(Used', S) = Sum(Used, S)
    BY <2>1, <2>7, <2>8, SumSame
  <2>10. Sum(Reserved', T) = Sum(Reserved, S) + n
    BY <1>13, <2>2, <2>4
  <2>11. Sum(Used', T) = Sum(Used, S)
    BY <1>13, <2>2, <2>5, <2>6
  <2> QED BY <2>9, <2>10, <2>11 DEF T
<1>15. Owes(platform, Created, Reserved, Used)'
  <2>1. Created \in SUBSET Run
    BY DEF Created
  <2> QED BY <1>5, <1>9, <1>14, <2>1 DEF Budgets, Balanced, Owes
<1>16. ASSUME NEW p \in Org
       PROVE  Owes(budget[p], Own(p), Reserved, Used)'
  <2>1. Own(p) \in SUBSET Run /\ r \notin Own(p)
    BY <1>10 DEF Own, Created
  <2>2. Owes(budget[p], Own(p), Reserved, Used)
    BY DEF Budgets, Balanced
  <2>3. CASE p = o
    BY <1>6, <1>8, <1>10, <1>14, <2>1, <2>2, <2>3 DEF Owes
  <2>4. CASE p # o
    BY <1>8, <1>10, <1>14, <2>1, <2>2, <2>4 DEF Owes
  <2> QED BY <2>3, <2>4
<1>17. \A q \in Run : RowQuiet(run'[q])
  <2>1. RowQuiet(run'[r])
    BY <1>4 DEF RowQuiet
  <2> QED BY <1>3, <2>1 DEF Budgets
<1> QED BY <1>5, <1>8, <1>15, <1>16, <1>17 DEF Budgets, Balanced

\* FinishRun releases in the budgets what it takes off the row.
LEMMA RunFinishes ==
  ASSUME Budgets, Rows, Rows', NEW r \in Run, FinishRun(r)
  PROVE  Budgets'
<1>1. CASE ~IsOpen(r)
  <2>1. UNCHANGED <<platform, budget, run>>
    BY <1>1 DEF FinishRun
  <2>2. Balanced'
    BY <2>1, BudgetsKept DEF Budgets
  <2> QED BY <2>1, <2>2 DEF Budgets
<1>2. CASE IsOpen(r)
  <2> DEFINE released == Cardinality(Unstarted(run[r])) * MapsCreditsPerCall
             status   == SummarizeRunOutcome(run[r])
  <2>1. /\ SettlePlatformMapsCredits(released, 0)
        /\ SettleOrganizationMapsCredits(OrgOfRun(r), released, 0)
        /\ run' = [run EXCEPT ![r] =
                     FinishLocalVisibilityRun(
                       SettleLocalRunCredits(@, released, 0), status)]
    BY <1>2 DEF FinishRun
  <2>2. released \in Int
    <3>1. Cardinality(Unstarted(run[r])) \in Nat
      BY CellsFinite DEF Unstarted
    <3> QED BY <3>1 DEF MapsCreditsPerCall
  <2>3. status \in Ended
    BY DEF SummarizeRunOutcome, Ended
  <2> HIDE DEF released, status
  <2>4. run[r] \in Row
    BY DEF Rows
  <2>5. SettleLocalRunCredits(run[r], released, 0)
        = [status |-> run[r].status, location |-> run[r].location,
           reserved |-> run[r].reserved - released, used |-> run[r].used + 0,
           cell |-> run[r].cell]
    BY <2>2, <2>4, SettledRow
  <2>6. /\ run'[r] = [SettleLocalRunCredits(run[r], released, 0)
                       EXCEPT !.status = status]
        /\ \A q \in Run : q # r => run'[q] = run[q]
    BY <2>1 DEF FinishLocalVisibilityRun, Rows
  <2>7. /\ run'[r].status = status /\ run'[r].location = run[r].location
        /\ run'[r].reserved = run[r].reserved - released
        /\ run'[r].used = run[r].used + 0
    BY <2>5, <2>6
  <2>8. run[r].status # "none" /\ run'[r].status \notin {"none", "deleted"}
    BY <1>2, <2>3, <2>7 DEF IsOpen, Open, Ended
  <2>9. platform' \in Money /\ budget' \in [Org -> Money] /\ Balanced'
    <3>1. 0 \in Int
      OBVIOUS
    <3> QED BY <2>1, <2>2, <2>6, <2>7, <2>8, <3>1, RunPays
  <2>10. \A q \in Run : RowQuiet(run'[q])
    <3>1. RowQuiet(run'[r])
      BY <2>7, <2>8 DEF RowQuiet, Budgets
    <3> QED BY <2>6, <3>1 DEF Budgets
  <2> QED BY <2>9, <2>10 DEF Budgets
<1> QED BY <1>1, <1>2

\* RecordCellOutcome settles in the budgets what it settles on the row.
LEMMA OutcomePays ==
  ASSUME IInv, Budgets, Rows', NEW j \in Job, NEW call \in {"failed", "ok"},
         NEW price \in Nat, RecordCellOutcome(j, call, price)
  PROVE  Budgets'
<1> DEFINE r        == job[j].run
           c        == worker[j].next
           released == IF price > 0 THEN MapsCreditsPerCall ELSE 0
           inserted == InsertLocalVisibilityResult(run[r], c, call, price)
<1>1. /\ Calling(j) /\ run[r].status = "running"
      /\ run' = [run EXCEPT ![r] =
                   SettleLocalRunCredits(
                     InsertLocalVisibilityResult(@, c, call, price),
                     released, price)]
      /\ SettlePlatformMapsCredits(released, price)
      /\ SettleOrganizationMapsCredits(OrgOfRun(r), released, price)
  BY DEF RecordCellOutcome, Calling
<1>2. r \in Run /\ run[r] \in Row /\ c \in Cell
  BY <1>1, WorkerHasRun DEF Calling
<1>3. released \in Int
  BY DEF MapsCreditsPerCall
<1>4. PICK cell \in [Cell -> CellRow] :
        inserted = [status |-> run[r].status, location |-> run[r].location,
                    reserved |-> run[r].reserved, used |-> run[r].used,
                    cell |-> cell]
  <2> HIDE DEF r, c
  <2> QED BY ZenonT(60), <1>2, InsertedRow
<1>5. inserted \in Row
  BY <1>2, <1>4 DEF Row
<1>6. SettleLocalRunCredits(inserted, released, price)
      = [status |-> inserted.status, location |-> inserted.location,
         reserved |-> inserted.reserved - released,
         used |-> inserted.used + price, cell |-> inserted.cell]
  <2> HIDE DEF inserted, released
  <2> QED BY <1>3, <1>5, SettledRow
<1>7. /\ run'[r] = SettleLocalRunCredits(inserted, released, price)
      /\ \A q \in Run : q # r => run'[q] = run[q]
  BY <1>1, <1>2 DEF Rows, IInv
<1> HIDE DEF released
<1>8. /\ run'[r].status = "running" /\ run'[r].location = run[r].location
      /\ run'[r].reserved = run[r].reserved - released
      /\ run'[r].used = run[r].used + price
  <2> HIDE DEF inserted
  <2> QED BY <1>1, <1>4, <1>6, <1>7
<1> HIDE DEF inserted, r, c
<1>9. run[r].status # "none" /\ run'[r].status # "none" /\ price \in Int
  BY <1>1, <1>8
<1>10. platform' \in Money /\ budget' \in [Org -> Money] /\ Balanced'
  BY <1>1, <1>2, <1>3, <1>7, <1>8, <1>9, RunPays DEF IInv
<1>11. \A q \in Run : RowQuiet(run'[q])
  <2>1. RowQuiet(run'[r])
    BY <1>2, <1>8, <1>9 DEF RowQuiet, Budgets
  <2> QED BY <1>7, <2>1 DEF Budgets
<1> QED BY <1>10, <1>11 DEF Budgets

\* Statements that leave what runs hold, and what the budgets say of it.
LEMMA BudgetsUnmoved ==
  ASSUME Budgets, Rows, Rows',
         platform' \in Money /\ budget' \in [Org -> Money],
         platform'.reserved = platform.reserved,
         platform'.spent = platform.spent,
         \A o \in Org : /\ budget'[o].reserved = budget[o].reserved
                        /\ budget'[o].spent = budget[o].spent,
         \A r \in Run :
           /\ run'[r].reserved = run[r].reserved /\ run'[r].used = run[r].used
           /\ run'[r].location = run[r].location
           /\ run'[r].status = "none" <=> run[r].status = "none"
           /\ run'[r].status = "deleted" =>
                run[r].reserved = 0
  PROVE  Budgets'
<1>1. Balanced'
  <2>1. Balanced
    BY DEF Budgets
  <2> QED BY <2>1, BudgetsKept
<1>2. \A r \in Run : RowQuiet(run'[r])
  BY DEF Budgets, RowQuiet
<1> QED BY <1>1, <1>2 DEF Budgets

\* Requests for a run, and the end of a location.
LEMMA RequestsBalance ==
  ASSUME IInv, Rows', Budgets, NEW l \in Location,
         \/ EnqueueRun(l) \/ DeleteLocation(l) \/ LaunchMapsVisibility(l)
         \/ ReclaimSetup(l) \/ Resume(l)
  PROVE  Budgets'
<1>0. Rows
  BY DEF IInv
<1>1. CASE EnqueueRun(l)
  BY <1>0, <1>1, RunReserves DEF EnqueueRun
<1>2. CASE LaunchRun(l)
  BY <1>0, <1>2, RunReserves DEF LaunchRun
<1>3. CASE UNCHANGED <<platform, budget, run>>
  <2>1. Balanced'
    BY <1>0, <1>3, BudgetsKept DEF Budgets
  <2> QED BY <1>3, <2>1 DEF Budgets
<1>4. CASE DeleteLocation(l)
  <2> DEFINE none   == [c \in Cell |-> NewCell]
             end(q) == [run[q] EXCEPT !.status = "deleted", !.cell = none]
  <2>1. /\ UNCHANGED <<platform, budget>>
        /\ \A q \in Run : run[q].location = l => run[q].reserved = 0
        /\ \A q \in Run :
             run'[q] = IF run[q].location = l THEN end(q) ELSE run[q]
    BY <1>4 DEF DeleteLocation
  <2>2. ASSUME NEW q \in Run
        PROVE  /\ end(q).reserved = run[q].reserved
               /\ end(q).used = run[q].used
               /\ end(q).location = run[q].location
               /\ end(q).status = "deleted"
    <3>1. run[q] \in Row
      BY <1>0 DEF Rows
    <3> HIDE DEF none
    <3> QED BY <3>1 DEF Row
  <2> HIDE DEF end
  <2>3. \A q \in Run : run[q].location = l => run[q].status # "none"
    BY <1>0, MapsAssumption DEF Budgets, RowQuiet
  <2>4. \A q \in Run :
          /\ run'[q].reserved = run[q].reserved /\ run'[q].used = run[q].used
          /\ run'[q].location = run[q].location
          /\ run'[q].status = "none" <=> run[q].status = "none"
          /\ run'[q].status = "deleted" => run[q].reserved = 0
    BY <2>1, <2>2, <2>3 DEF Budgets, RowQuiet
  <2>5. platform' \in Money /\ budget' \in [Org -> Money]
    BY <2>1 DEF Budgets
  <2> QED BY <1>0, <2>1, <2>4, <2>5, BudgetsUnmoved
<1>5. CASE LaunchRefused(l)
  <2> DEFINE n == ExpectedRunCredits
             b == Reserve(platform, n)
  <2>1. UNCHANGED <<budget, run>>
        /\ (UNCHANGED platform \/ platform' = Settle(b, n, 0))
    BY <1>5 DEF LaunchRefused
  <2>2. n \in Nat /\ 0 \in Int
    BY MapsAssumption DEF ExpectedRunCredits, MapsCreditsPerCall
  <2> HIDE DEF n
  <2>3. b \in Money /\ b.reserved = platform.reserved + n
        /\ b.spent = platform.spent
    BY <2>2 DEF Budgets, Money, Reserve
  <2> HIDE DEF b
  <2>4. /\ Settle(b, n, 0) \in Money
        /\ Settle(b, n, 0).reserved = b.reserved - n
        /\ Settle(b, n, 0).spent = b.spent + 0
    BY <2>2, <2>3, SettledBudget
  <2>5. /\ platform' \in Money /\ platform'.reserved = platform.reserved
        /\ platform'.spent = platform.spent
    BY <2>1, <2>2, <2>3, <2>4 DEF Budgets, Money
  <2>6. Balanced'
    BY <1>0, <2>1, <2>5, BudgetsKept DEF Budgets
  <2> QED BY <2>1, <2>5, <2>6 DEF Budgets
<1> QED
  BY <1>1, <1>2, <1>3, <1>4, <1>5
     DEF LaunchMapsVisibility, LaunchAdopts, LaunchRejoins, LaunchSkips,
         ReclaimSetup, Resume

\* The administrator changes what remains, and nothing that was promised.
LEMMA AllowancesBalance ==
  ASSUME Rows, Rows', Budgets, NEW n \in Grant,
         \/ UpdatePlatformMapsCreditBudget(n)
         \/ \E o \in Org : UpdateOrganizationMapsCreditBudget(o, n)
  PROVE  Budgets'
<1>0. n \in Int
  BY MapsAssumption
<1>1. CASE UpdatePlatformMapsCreditBudget(n)
  <2>1. UNCHANGED <<budget, run>> /\ platform' = [platform EXCEPT !.remaining = n]
    BY <1>1 DEF UpdatePlatformMapsCreditBudget
  <2>2. /\ platform' \in Money /\ platform'.reserved = platform.reserved
        /\ platform'.spent = platform.spent
    BY <1>0, <2>1 DEF Budgets, Money
  <2>3. Balanced'
    BY <2>1, <2>2, BudgetsKept DEF Budgets
  <2> QED BY <2>1, <2>2, <2>3 DEF Budgets
<1>2. ASSUME NEW o \in Org, UpdateOrganizationMapsCreditBudget(o, n)
      PROVE  Budgets'
  <2>1. UNCHANGED <<platform, run>> /\ budget' = [budget EXCEPT ![o].remaining = n]
    BY <1>2 DEF UpdateOrganizationMapsCreditBudget
  <2>2. /\ budget' \in [Org -> Money]
        /\ \A p \in Org : /\ budget'[p].reserved = budget[p].reserved
                          /\ budget'[p].spent = budget[p].spent
    BY <1>0, <2>1 DEF Budgets, Money
  <2>3. Balanced'
    BY <2>1, <2>2, BudgetsKept DEF Budgets
  <2> QED BY <2>1, <2>2, <2>3 DEF Budgets
<1> QED BY <1>1, <1>2

\* What a worker does to its run.
LEMMA WorkBalances ==
  ASSUME IInv, Rows', Budgets, NEW j \in Job,
         \/ ClaimNextPendingAIWorkerJob(j) \/ Work(j) \/ Crash(j)
         \/ ReclaimStaleRunningAIWorkerJobs(j)
  PROVE  Budgets'
<1>0. Rows
  BY DEF IInv
<1>1. CASE UNCHANGED <<platform, budget, run>>
  <2>1. Balanced'
    BY <1>0, <1>1, BudgetsKept DEF Budgets
  <2> QED BY <1>1, <2>1 DEF Budgets
<1>2. CASE StartLocalVisibilityRun(j)
  <2> DEFINE r == job[j].run
  <2>1. /\ worker[j].at # "none" /\ run[r].status = "queued"
        /\ run' = [run EXCEPT ![r].status = "running"]
        /\ UNCHANGED <<platform, budget>>
    BY <1>2 DEF StartLocalVisibilityRun
  <2>2. r \in Run /\ run[r] \in Row
    BY <2>1, WorkerHasRun
  <2> HIDE DEF r
  <2>3. \A q \in Run :
          /\ run'[q].reserved = run[q].reserved /\ run'[q].used = run[q].used
          /\ run'[q].location = run[q].location
          /\ run'[q].status = "none" <=> run[q].status = "none"
          /\ run'[q].status = "deleted" => run[q].reserved = 0
    <3>1. /\ run'[r] = [run[r] EXCEPT !.status = "running"]
          /\ \A q \in Run : q # r => run'[q] = run[q]
      BY <1>0, <2>1, <2>2 DEF Rows
    <3>2. /\ run'[r].reserved = run[r].reserved /\ run'[r].used = run[r].used
          /\ run'[r].location = run[r].location /\ run'[r].status = "running"
      BY <2>2, <3>1 DEF Row
    <3> QED BY <2>1, <3>1, <3>2 DEF Budgets, RowQuiet
  <2>4. platform' \in Money /\ budget' \in [Org -> Money]
    BY <2>1 DEF Budgets
  <2> QED BY <1>0, <2>1, <2>3, <2>4, BudgetsUnmoved
<1>3. CASE StartLocalRunCell(j)
  <2> DEFINE r == job[j].run
             c == worker[j].next
             start == IF IsOpen(r) THEN "in time" ELSE "late"
  <2>1. /\ worker[j].at # "none" /\ UNCHANGED <<platform, budget>>
        /\ (UNCHANGED run \/ run' = [run EXCEPT ![r].cell[c].start = start])
    BY <1>3 DEF StartLocalRunCell
  <2>2. r \in Run /\ run[r] \in Row
    BY <2>1, WorkerHasRun
  <2> HIDE DEF r, start
  <2>3. CASE run' = [run EXCEPT ![r].cell[c].start = start]
    <3> DEFINE cell == [run[r].cell EXCEPT ![c].start = start]
    <3>1. /\ run'[r] = [run[r] EXCEPT !.cell = cell]
          /\ \A q \in Run : q # r => run'[q] = run[q]
      BY <1>0, <2>2, <2>3 DEF Rows
    <3> HIDE DEF cell
    <3>2. /\ run'[r].reserved = run[r].reserved /\ run'[r].used = run[r].used
          /\ run'[r].location = run[r].location
          /\ run'[r].status = run[r].status
      BY <2>2, <3>1 DEF Row
    <3>3. \A q \in Run :
            /\ run'[q].reserved = run[q].reserved /\ run'[q].used = run[q].used
            /\ run'[q].location = run[q].location
            /\ run'[q].status = "none" <=> run[q].status = "none"
            /\ run'[q].status = "deleted" => run[q].reserved = 0
      <4> TAKE q \in Run
      <4>1. RowQuiet(run[q])
        BY DEF Budgets
      <4>2. CASE q = r
        BY <3>2, <4>1, <4>2 DEF RowQuiet
      <4>3. CASE q # r
        BY <3>1, <4>1, <4>3 DEF RowQuiet
      <4> QED BY <4>2, <4>3
    <3>4. platform' \in Money /\ budget' \in [Org -> Money]
      BY <2>1 DEF Budgets
    <3> QED BY <1>0, <2>1, <3>3, <3>4, BudgetsUnmoved
  <2> QED BY <1>1, <2>1, <2>3
<1>4. ASSUME NEW answer \in Answer, RecordCellOutcome(j, answer[1], answer[2])
      PROVE  Budgets'
  <2>1. answer[1] \in {"failed", "ok"} /\ answer[2] \in Nat
    BY MapsAssumption
  <2> QED BY <1>4, <2>1, OutcomePays
<1>5. CASE FinishAsWorker(j)
  <2>1. worker[j].at # "none" /\ FinishRun(job[j].run)
    BY <1>5 DEF FinishAsWorker
  <2>2. job[j].run \in Run
    BY <2>1, WorkerHasRun
  <2> QED BY <1>0, <2>1, <2>2, RunFinishes
<1> QED
  BY <1>1, <1>2, <1>3, <1>4, <1>5
     DEF Work, ClaimNextPendingAIWorkerJob, Crash, FailToStart, EndLoop,
         LoseCellOutcome, FailToFinish, FinalizeLocalRun,
         ReclaimStaleRunningAIWorkerJobs

\* Every step moves the credits of runs and of both budgets together.
LEMMA StepBalances ==
  ASSUME IInv, IInv', Budgets, [Next]_vars
  PROVE  Budgets'
<1>0. Rows /\ Rows'
  BY DEF IInv
<1>1. ASSUME NEW r \in Run, FinishInterrupted(r)
      PROVE  Budgets'
  BY <1>0, <1>1, RunFinishes DEF FinishInterrupted
<1>2. CASE UNCHANGED vars
  <2>1. UNCHANGED <<platform, budget, run>>
    BY <1>2 DEF vars
  <2>2. Balanced'
    BY <1>0, <2>1, BudgetsKept DEF Budgets
  <2> QED BY <2>1, <2>2 DEF Budgets
<1> QED
  BY <1>0, <1>1, <1>2, RequestsBalance, AllowancesBalance, WorkBalances DEF Next

\* Without runs nothing is reserved or spent.
LEMMA InitialBudgets == Init => Budgets
<1> SUFFICES ASSUME Init
             PROVE  Budgets
  OBVIOUS
<1>1. ASSUME NEW n \in Grant
      PROVE  /\ Allowance(n) \in Money
             /\ Allowance(n).reserved = 0 /\ Allowance(n).spent = 0
  BY MapsAssumption DEF Allowance, Money
<1>2. /\ platform \in Money /\ platform.reserved = 0 /\ platform.spent = 0
  BY <1>1 DEF Init
<1>3. /\ budget \in [Org -> Money]
      /\ \A o \in Org : budget[o].reserved = 0 /\ budget[o].spent = 0
  BY <1>1 DEF Init
<1>4. \A r \in Run : /\ run[r].status = "none" /\ run[r].reserved = 0
                    /\ run[r].location = Nowhere
  BY DEF Init, NoRow
<1>5. Created = {} /\ \A o \in Org : Own(o) = {}
  BY <1>4 DEF Created, Own
<1>6. Sum(Reserved, {}) = 0 /\ Sum(Used, {}) = 0
  <2>1. IsFiniteSet({})
    BY FS_EmptySet
  <2>2. \A f : Sum(f, {}) = 0
    <3> TAKE f
    <3>1. \A x \in {} : f[x] \in Int
      OBVIOUS
    <3>2. {} \in SUBSET {}
      OBVIOUS
    <3> QED BY <2>1, <3>1, <3>2, SumsOfParts
  <2> QED BY <2>2
<1>7. Balanced
  BY <1>2, <1>3, <1>5, <1>6 DEF Balanced, Owes
<1> QED BY <1>2, <1>3, <1>4, <1>7 DEF Budgets, RowQuiet

\* Budgets and rows together say what BudgetsMatch says.
LEMMA BudgetsAreSums ==
  ASSUME Rows, Budgets
  PROVE  BudgetsMatch
<1>1. \A r \in Run : run[r] \in Row
  BY DEF Rows
<1>2. Created \in SUBSET Run /\ \A o \in Org : Own(o) \in SUBSET Run
  BY DEF Created, Own
<1>3. /\ MapThenSumSet(LAMBDA r : run[r].reserved, Created)
         = Sum(Reserved, Created)
      /\ MapThenSumSet(LAMBDA r : run[r].used, Created) = Sum(Used, Created)
  BY <1>1, <1>2, SumOfRuns
<1>4. ASSUME NEW o \in Org
      PROVE  /\ MapThenSumSet(LAMBDA r : run[r].reserved, Own(o))
                = Sum(Reserved, Own(o))
             /\ MapThenSumSet(LAMBDA r : run[r].used, Own(o))
                = Sum(Used, Own(o))
  BY <1>1, <1>2, SumOfRuns
<1> QED BY <1>3, <1>4 DEF BudgetsMatch, Budgets, Balanced, Owes, Created, Own

\* What is reserved or spent is never negative.
LEMMA BudgetsTyped ==
  ASSUME IInv, Steps, Budgets
  PROVE  TypeOK
<1>1. ASSUME NEW r \in Run
      PROVE  run[r] \in RunRow
  <2>1. run[r] \in Row /\ RowHolds(run[r]) /\ RowQuiet(run[r])
    BY DEF IInv, Rows, RowOK, Budgets
  <2>2. Cardinality(Unsettled(run[r])) \in Nat
    BY CellsFinite DEF Unsettled
  <2>3. run[r].reserved \in Nat
    BY <2>1, <2>2 DEF RowHolds, RowQuiet, Row, MapsCreditsPerCall
  <2> QED BY <2>1, <2>3 DEF Row, RunRow
<1>2. run \in [Run -> RunRow]
  BY <1>1 DEF IInv, Rows
<1>3. ASSUME NEW S \in SUBSET Run
      PROVE  Sum(Reserved, S) \in Nat /\ Sum(Used, S) \in Nat
  <2>1. IsFiniteSet(S)
    BY RunsFinite
  <2>2. /\ \A x \in S : Reserved[x] \in Int
        /\ \A x \in S : Used[x] \in Int
        /\ \A x \in S : Reserved[x] \in Nat
        /\ \A x \in S : Used[x] \in Nat
    BY <1>1 DEF Reserved, Used, RunRow
  <2> QED BY <2>1, <2>2, SumNat
<1>4. Created \in SUBSET Run /\ \A o \in Org : Own(o) \in SUBSET Run
  BY DEF Created, Own
<1>5. platform \in Budget
  BY <1>3, <1>4 DEF Budgets, Balanced, Owes, Money, Budget
<1>6. budget \in [Org -> Budget]
  <2>1. ASSUME NEW o \in Org
        PROVE  budget[o] \in Budget
    BY <1>3, <1>4 DEF Budgets, Balanced, Owes, Money, Budget
  <2> QED BY <2>1 DEF Budgets
<1> QED BY <1>2, <1>5, <1>6 DEF TypeOK, IInv, Typed, Steps

\* The invariant with both budgets.
THEOREM BudgetsInvariance == Spec => [](IInv /\ Steps /\ Budgets)
<1>1. Init => IInv /\ Steps /\ Budgets
  BY InitialInvariant, InitialBudgets
<1>2. (IInv /\ Steps /\ Budgets) /\ [Next]_vars
      => (IInv /\ Steps /\ Budgets)'
  BY StepInvariant, StepsKept, StepBalances
<1> QED BY <1>1, <1>2, PTL DEF Spec

\* Credits are conserved: what the platform and every organization have reserved
\* and spent is, at any time, what their runs hold and have used, whoever
\* reserves, records, finishes, reclaims or refuses (EnqueueRun,
\* launchMapsVisibilityTx, RecordCellOutcome, FinishRun).
THEOREM CreditsConserved == Spec => []BudgetsMatch
<1>1. IInv /\ Budgets => BudgetsMatch
  BY BudgetsAreSums DEF IInv
<1> QED BY <1>1, BudgetsInvariance, PTL

\* Rows keep their types, and no budget or run ever holds, or has spent, less
\* than nothing (the CHECKs of the credit tables).
THEOREM TypeCorrect == Spec => []TypeOK
<1>1. IInv /\ Steps /\ Budgets => TypeOK
  BY BudgetsTyped
<1> QED BY <1>1, BudgetsInvariance, PTL
=============================================================================
