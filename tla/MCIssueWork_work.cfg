\* Two members, two attempts; two crawls follow the one that found the issue.
SPECIFICATION Spec
CONSTANTS
  u1 = u1
  u2 = u2
  User = {u1, u2}
  Requester = {u1}
  MaxCrawl = 3
  MaxAttempt = 2
INVARIANTS
  TypeOK
  LocksAreCarried
  VerdictsAfterWork
  WorkIsCredited
  FixedIsProven
\* Every crawl may have been deleted.
CHECK_DEADLOCK FALSE
