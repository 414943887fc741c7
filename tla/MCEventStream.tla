---------------------------- MODULE MCEventStream ----------------------------
(* EventStream on small sets: pages shorter than the events of the turn.     *)
EXTENDS EventStream

CONSTANTS w1, w2
=============================================================================
