\* Two requests of one conversation, one slot, one tool round.
CONSTANTS
  t1 = t1  t2 = t2
  c1 = c1  c2 = c2
  p1 = p1
  u1 = u1
  s1 = s1  s2 = s2  s3 = s3
  w1 = w1  w2 = w2
  NoTurn = NoTurn
  NoWorker = NoWorker
  Turn = {t1, t2}
  Conversation = {c1, c2}
  Project = {p1}
  User = {u1}
  Slot = {s1}
  Worker = {w1, w2}
  ConversationOf <- OneConversation
  ProjectOf <- OneProject
  UserOf <- OneUser
  WorkerOf <- SingleSlot
  UserLimit = 1
  MonthlyLimit = 2
  MaxAttempts = 2
  MaxRounds = 1
SPECIFICATION FairSpec
INVARIANTS
  OneActiveTurn
PROPERTIES
  KeepsPromise
\* Every turn may have ended and the month's quota be spent.
CHECK_DEADLOCK FALSE
