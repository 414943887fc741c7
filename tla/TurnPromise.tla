---------------------------- MODULE TurnPromise ----------------------------
(***************************************************************************)
(* What the AI chat promises its users about their requests, without rows, *)
(* leases, attempts or workers: a request is charged once, a conversation  *)
(* works on one request at a time, a request is worked on or waits for its *)
(* user until it ends, and it ends once, "stopped" only if asked to, or if *)
(* it was taken up a second time while still being worked on.              *)
(***************************************************************************)
EXTENDS Naturals

CONSTANTS Turn, Conversation, ConversationOf, MonthlyLimit

VARIABLES
  phase,    \* per request: where it stands
  stops,    \* the requests somebody asked to stop
  charged,  \* messages charged this month
  retaken   \* history: the requests taken up again while being worked on

vars == <<phase, stops, charged, retaken>>

Ended == {"completed", "stopped", "failed"}
Open  == {"working", "waiting"}

Init ==
  /\ phase = [t \in Turn |-> "none"]
  /\ stops = {}
  /\ charged = 0
  /\ retaken = {}

\* Work that was interrupted for good.
Interrupted(turns) == {t \in turns : phase[t] = "working"}

Siblings(t) == {u \in Turn : ConversationOf[u] = ConversationOf[t]}

\* A request is accepted into a conversation with no other open request; it
\* may take the place of one whose work was interrupted.  A removed
\* conversation accepts none.
Accept(t) ==
  /\ phase[t] = "none"
  /\ charged < MonthlyLimit
  /\ \A u \in Siblings(t) : phase[u] \notin {"waiting", "removed"}
  /\ phase' = [u \in Turn |-> IF u = t THEN "working"
                              ELSE IF u \in Interrupted(Siblings(t)) THEN "failed"
                              ELSE phase[u]]
  /\ charged' = charged + 1
  /\ UNCHANGED <<stops, retaken>>

AskUser(t) ==
  /\ phase[t] = "working"
  /\ t \notin stops
  /\ phase' = [phase EXCEPT ![t] = "waiting"]
  /\ UNCHANGED <<stops, charged, retaken>>

Continue(t) ==
  /\ phase[t] = "waiting"
  /\ phase' = [phase EXCEPT ![t] = "working"]
  /\ UNCHANGED <<stops, charged, retaken>>

\* Asking to stop work is remembered; what is not being worked on may stop
\* at once.
RequestStop(t) ==
  /\ phase[t] \in Open
  /\ stops' = stops \cup {t}
  /\ \/ phase[t] = "working" /\ phase' = phase
     \/ phase' = [phase EXCEPT ![t] = "stopped"]
  /\ UNCHANGED <<charged, retaken>>

TakeUpAgain(t) ==
  /\ phase[t] = "working"
  /\ retaken' = retaken \cup {t}
  /\ UNCHANGED <<phase, stops, charged>>

End(t) ==
  /\ phase[t] = "working"
  /\ \E how \in Ended :
       /\ how = "stopped" => t \in stops \cup retaken
       /\ phase' = [phase EXCEPT ![t] = how]
  /\ UNCHANGED <<stops, charged, retaken>>

\* Several pieces of interrupted work may be given up together.
GiveUp(turns) ==
  /\ phase' = [t \in Turn |-> IF t \in Interrupted(turns) THEN "failed" ELSE phase[t]]
  /\ UNCHANGED <<stops, charged, retaken>>

\* Requests that wait for their users may be given up together.
Withdraw(turns) ==
  /\ phase' = [t \in Turn |-> IF t \in turns /\ phase[t] = "waiting" THEN "failed"
                                                                  ELSE phase[t]]
  /\ UNCHANGED <<stops, charged, retaken>>

\* A conversation is removed with all it was asked.
Remove(c) ==
  LET gone == {t \in Turn : ConversationOf[t] = c /\ phase[t] # "none"} IN
  /\ phase' = [t \in Turn |-> IF t \in gone THEN "removed" ELSE phase[t]]
  /\ stops' = stops \ gone
  /\ UNCHANGED <<charged, retaken>>

Next ==
  \/ \E t \in Turn :
       \/ Accept(t) \/ AskUser(t) \/ Continue(t) \/ RequestStop(t)
       \/ TakeUpAgain(t) \/ End(t)
  \/ \E c \in Conversation : Remove(c)
  \/ \E turns \in SUBSET Turn : GiveUp(turns) \/ Withdraw(turns)

\* The legal histories, whether or not anything ever happens in them.
Safety == Init /\ [][Next]_vars

\* Work does not go on for ever: it ends or waits for the user.
Promise ==
  /\ Safety
  /\ \A t \in Turn : WF_vars(AskUser(t) \/ End(t))

=============================================================================
