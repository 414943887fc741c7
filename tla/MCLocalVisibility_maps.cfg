\* One location and its setup, two runs of two calls and two jobs; allowances
\* that one run exhausts, and that an administrator fills up again.
SPECIFICATION Spec
CONSTANTS
  l1 = l1
  o1 = o1
  Location = {l1}
  Guided = {l1}
  Org = {o1}
  OrgOf <- MCOrgOf
  N = 2
  Answer <- MCAnswer
  Grant = {6}
  MaxRun = 2
  MaxJob = 2
INVARIANTS
  TypeOK
  RunsHold
  BudgetsMatch
PROPERTIES
  RunsEnd
\* The location may have been deleted.
CHECK_DEADLOCK FALSE
