---------------------------- MODULE MCLockOrder ----------------------------
(* LockOrder with three open transactions: every cycle of waiting among the  *)
(* locks of a conversation, a connection and a turn is closed by two or      *)
(* three of them.                                                            *)
EXTENDS LockOrder, TLC

CONSTANTS x1, x2, x3

AllOrdered == Ordered

DecisionsAndStops == {"approve", "reject", "cancel"}

Symmetry == Permutations({x1, x2, x3})
=============================================================================
