\* Two crawls of one member compete; jobs may outlast their stale age, so
\* live jobs are reclaimed and finish late.
CONSTANTS
  c1 = c1  c2 = c2
  j1 = j1  j2 = j2
  a1 = a1
  w1 = w1
  u1 = u1
  NoCrawl = NoCrawl
  NoJob = NoJob
  NoAudit = NoAudit
  Crawl = {c1, c2}
  Job = {j1, j2}
  Audit = {a1}
  Worker = {w1}
  User = {u1}
  RequesterOf <- OneRequester
SPECIFICATION FairSpec
INVARIANTS
  TypeOK
  StepIsCarried
  OneSetupJob
PROPERTIES
  NeverBackward
  SetupSettles
\* Everything may be done, and the audits of the month spent.
CHECK_DEADLOCK FALSE
