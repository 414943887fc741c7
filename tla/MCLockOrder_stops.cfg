SPECIFICATION Spec
CONSTANTS
  x1 = x1
  x2 = x2
  x3 = x3
  Txn = {x1, x2, x3}
  Handler <- DecisionsAndStops
INVARIANT
  NoDeadlock
