SPECIFICATION Spec
CONSTANTS
  w1 = w1
  w2 = w2
  Worker = {w1, w2}
  MaxEvent = 3
  PageSize = 1
INVARIANTS
  TypeOK
  NeverTwice
  FinalDrain
  OpenWhileRunning
PROPERTIES
  StreamCloses
