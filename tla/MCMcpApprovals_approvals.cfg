\* One turn with two calls of one tool, whose connection may be replaced once.
CONSTANTS
  t1 = t1  t2 = t2
  write = write
  d1 = d1  d2 = d2
  NoSchema = NoSchema
  Turn = {t1}
  MaxCalls = 2
  Tool = {write}
  Schema = {d1, d2}
  MaxRevision = 1
SPECIFICATION Spec
INVARIANTS
  TypeOK
  RunsAsApproved
  RefusedNeverRuns
  CompletedRan
PROPERTIES
  EndedApprovalsStay
  TurnsEnd
\* Turns end and handlers may do nothing more.
CHECK_DEADLOCK FALSE
