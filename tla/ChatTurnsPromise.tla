-------------------------- MODULE ChatTurnsPromise --------------------------
(* ChatTurns keeps the promise of TurnPromise.                              *)
EXTENDS ChatTurns

\* What a request's row tells its user.
PhaseOf(r) ==
  CASE r.status = "absent" -> "none"
    [] r.status \in {"queued", "running"} -> "working"
    [] r.status = "waiting_for_user" -> "waiting"
    [] r.status = "deleted" -> "removed"
    [] r.status \in Terminal -> r.status

Promised == INSTANCE TurnPromise WITH
  phase   <- [t \in Turn |-> PhaseOf(turn[t])],
  stops   <- {t \in Turn : turn[t].cancel},
  charged <- used,
  retaken <- retaken

\* Rows, slots, leases, retries and the sweep, with their fairness, implement
\* the promise: every interleaving shows users a legal history of requests
\* (ai_turns.go, ai_turn_observers.go, ai_user_questions.go, worker.go).
KeepsPromise == Promised!Promise

=============================================================================
