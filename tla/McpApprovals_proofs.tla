------------------------ MODULE McpApprovals_proofs ------------------------
(***************************************************************************)
(* What is dispatched to a remote server was allowed by its rule or by its *)
(* user, for any number of turns, calls, tools and replacements.           *)
(*                                                                         *)
(* The invariant has one part for each call, which relates its approval to *)
(* what was dispatched, and one for each turn, which says what its run     *)
(* knows of the call in hand at each place it can be.                      *)
(***************************************************************************)
EXTENDS McpApprovals, TLAPS

\* The approval a and the dispatch d of one call.
RowOK(a, d) ==
  /\ a.status \in {"approved", "executing", "completed", "failed"} => a.by
  /\ d.done => a.status \in {"none", "executing", "completed", "failed"}
  /\ a.status = "completed" => d.done
  /\ d.done /\ d.ruled # "allow" =>
       /\ d.ruled = "ask"
       /\ a.status \in {"executing", "completed", "failed"}
       /\ a.tool = d.tool /\ a.rev = d.rev /\ a.schema = d.schema

\* The approval is of the call the run has in hand.
Matches(r, a) ==
  a.tool = r.tool /\ a.rev = r.rev /\ a.schema = r.tools[r.tool]

Deciding   == {"waiting", "refreshing", "closing", "rechecking", "marking"}
Unexecuted == {"asking", "announcing", "guarding", "calling"} \cup Deciding
InHand     == Unexecuted \cup {"returned", "completing"}

\* What the run r knows of its call at each place.
PlaceOK(r, a, d) ==
  /\ r.at \in Unexecuted => ~d.done
  /\ r.at = "asking" => a.status = "none"
  /\ r.at \in Deciding => Matches(r, a)
  /\ r.at \in {"announcing", "guarding"} =>
       \/ a.status = "none" /\ r.proof = {}
       \/ a.status \in {"executing", "failed"} /\ Matches(r, a)
  /\ r.at = "calling" =>
       /\ r.ruled # "deny"
       /\ \/ a.status = "none" /\ r.ruled = "allow"
          \/ a.status \in {"executing", "failed"} /\ Matches(r, a)
  /\ r.at \in {"returned", "completing"} =>
       /\ r.outcome \in {"completed", "failed"}
       /\ r.outcome = "completed" => d.done

\* Calls after the one in hand have left no trace.
Ahead(t) ==
  \A n \in 1..MaxCalls :
    n > run[t].call => approval[<<t, n>>].status = "none" /\ ~ran[<<t, n>>].done

HandOK(t) ==
  run[t].at \in InHand =>
    /\ run[t].call \in 1..MaxCalls
    /\ PlaceOK(run[t], approval[Of(t)], ran[Of(t)])

Knows == \A t \in Turn : Ahead(t) /\ HandOK(t)
Rows  == \A k \in Call : RowOK(approval[k], ran[k])

IInv == TypeOK /\ Rows /\ Knows

\* What EndedApprovalsStay says of one step.
Stay ==
  \A k \in Call : approval[k].status \in Final => approval'[k] = approval[k]

-----------------------------------------------------------------------------
(* How a step may change what the invariant speaks of *)

\* A step of the run of t that touches the call it has in hand only.
LEMMA CallStep ==
  ASSUME IInv, TypeOK', NEW t \in Turn, NEW n \in 1..MaxCalls,
         run[t].call = n, run'[t].call = n,
         \A s \in Turn : s # t => run'[s] = run[s],
         \A k \in Call : k # <<t, n>> =>
           approval'[k] = approval[k] /\ ran'[k] = ran[k],
         RowOK(approval'[<<t, n>>], ran'[<<t, n>>]),
         run'[t].at \in InHand =>
           PlaceOK(run'[t], approval'[<<t, n>>], ran'[<<t, n>>]),
         approval[<<t, n>>].status \in Final =>
           approval'[<<t, n>>] = approval[<<t, n>>]
  PROVE  IInv' /\ Stay
<1>1. Rows'
  BY DEF IInv, Rows
<1>2. ASSUME NEW s \in Turn
      PROVE  Ahead(s)'
  <2>1. ASSUME NEW m \in 1..MaxCalls, m > run'[s].call
        PROVE  approval'[<<s, m>>].status = "none" /\ ~ran'[<<s, m>>].done
    <3>1. run'[s].call = run[s].call
      OBVIOUS
    <3>2. <<s, m>> # <<t, n>> /\ <<s, m>> \in Call
      BY <2>1, <3>1 DEF Call
    <3>3. approval[<<s, m>>].status = "none" /\ ~ran[<<s, m>>].done
      BY <2>1, <3>1 DEF IInv, Knows, Ahead
    <3> QED BY <3>2, <3>3
  <2> QED BY <2>1 DEF Ahead
<1>3. ASSUME NEW s \in Turn
      PROVE  HandOK(s)'
  <2>1. CASE s = t
    BY <2>1 DEF HandOK, Of
  <2>2. CASE s # t
    <3>1. run'[s] = run[s] /\ HandOK(s)
      BY <2>2 DEF IInv, Knows
    <3>2. CASE run[s].at \in InHand
      <4>1. run[s].call \in 1..MaxCalls
        BY <3>1, <3>2 DEF HandOK
      <4>2. <<s, run[s].call>> \in Call /\ <<s, run[s].call>> # <<t, n>>
        BY <2>2, <4>1 DEF Call
      <4> QED BY <3>1, <3>2, <4>1, <4>2 DEF HandOK, Of
    <3>3. CASE run[s].at \notin InHand
      BY <3>1, <3>3 DEF HandOK
    <3> QED BY <3>2, <3>3
  <2> QED BY <2>1, <2>2
<1>4. Stay
  BY DEF Stay
<1> QED BY <1>1, <1>2, <1>3, <1>4 DEF IInv, Knows

\* A step of the run of t that touches no call, and may begin one.
LEMMA RunStep ==
  ASSUME IInv, TypeOK', NEW t \in Turn, UNCHANGED <<approval, ran>>,
         run'[t].call >= run[t].call,
         \A s \in Turn : s # t => run'[s] = run[s],
         run'[t].at \in InHand =>
           /\ run'[t].call \in 1..MaxCalls
           /\ PlaceOK(run'[t], approval[<<t, run'[t].call>>],
                               ran[<<t, run'[t].call>>])
  PROVE  IInv' /\ Stay
<1>1. Rows' /\ Stay
  BY DEF IInv, Rows, Stay
<1>2. ASSUME NEW s \in Turn
      PROVE  Ahead(s)'
  <2>1. run[s].call \in Nat /\ run'[s].call \in Nat
    BY ValuesAssumption DEF IInv, TypeOK, Run
  <2>2. run'[s].call >= run[s].call
    BY <2>1
  <2> QED BY <2>1, <2>2 DEF IInv, Knows, Ahead
<1>3. ASSUME NEW s \in Turn
      PROVE  HandOK(s)'
  <2>1. CASE s = t
    BY <2>1 DEF HandOK, Of
  <2>2. CASE s # t
    BY <2>2 DEF HandOK, Of, IInv, Knows
  <2> QED BY <2>1, <2>2
<1> QED BY <1>1, <1>2, <1>3 DEF IInv, Knows

\* What users, managers, stops and the sweep may do to an approval.
Outside(a, b) ==
  \/ b = a
  \/ /\ \/ a.status = "pending" /\ b.status \in {"rejected", "invalidated"}
        \/ a.status = "pending" /\ b.status = "approved" /\ b.by
        \/ a.status = "executing" /\ b.status = "failed" /\ b.by = a.by
     /\ b.tool = a.tool /\ b.rev = a.rev /\ b.schema = a.schema

\* The invariant survives what the others do to approvals.
LEMMA OutsideStep ==
  ASSUME IInv, TypeOK', UNCHANGED <<run, ran>>,
         \A k \in Call : Outside(approval[k], approval'[k])
  PROVE  IInv' /\ Stay
<1>1. ASSUME NEW k \in Call
      PROVE  RowOK(approval[k], ran[k])'
  <2>1. RowOK(approval[k], ran[k]) /\ Outside(approval[k], approval'[k])
    BY DEF IInv, Rows
  <2> QED BY <2>1 DEF RowOK, Outside
<1>2. ASSUME NEW t \in Turn
      PROVE  Ahead(t)'
  <2>1. ASSUME NEW m \in 1..MaxCalls, m > run[t].call
        PROVE  approval'[<<t, m>>].status = "none" /\ ~ran[<<t, m>>].done
    <3>1. <<t, m>> \in Call
      BY DEF Call
    <3>2. approval[<<t, m>>].status = "none" /\ ~ran[<<t, m>>].done
      BY <2>1 DEF IInv, Knows, Ahead
    <3> QED BY <3>1, <3>2 DEF Outside
  <2> QED BY <2>1 DEF Ahead
<1>3. ASSUME NEW t \in Turn, run[t].at \in InHand
      PROVE  HandOK(t)'
  <2>1. run[t].call \in 1..MaxCalls /\ PlaceOK(run[t], approval[Of(t)], ran[Of(t)])
    BY <1>3 DEF IInv, Knows, HandOK
  <2>2. Of(t) \in Call /\ Of(t)' = Of(t)
    BY <2>1 DEF Of, Call
  <2>3. Outside(approval[Of(t)], approval'[Of(t)])
    BY <2>2
  <2>4. PlaceOK(run[t], approval'[Of(t)], ran[Of(t)])
    BY <2>1, <2>3 DEF PlaceOK, Outside, Matches
  <2> QED BY <2>1, <2>2, <2>4 DEF HandOK
<1>4. Stay
  BY DEF Stay, Outside, Final
<1> QED BY <1>1, <1>2, <1>3, <1>4 DEF IInv, Rows, Knows, HandOK

-----------------------------------------------------------------------------
(* Types *)

\* A step of one run is well typed.
LEMMA RunTyped ==
  ASSUME TypeOK, NEW t \in Turn, NEW q \in Run,
         run' = [run EXCEPT ![t] = q],
         conn' = conn, rule' = rule, turn' \in [Turn -> TurnRow],
         approval' \in [Call -> Approval],
         ran' \in [Call -> Dispatch \cup {NotRun}]
  PROVE  TypeOK' /\ run'[t] = q /\ \A s \in Turn : s # t => run'[s] = run[s]
BY DEF TypeOK

Place == {"new", "dialing", "round", "asking", "waiting", "refreshing",
          "closing", "rechecking", "marking", "announcing", "guarding",
          "calling", "returned", "completing", "ending", "gone"}

\* A run that goes elsewhere and keeps what it knows.
LEMMA Moved ==
  ASSUME NEW r \in Run, NEW at \in Place, NEW q, q = [r EXCEPT !.at = at]
  PROVE  /\ q \in Run /\ q.at = at /\ q.call = r.call /\ q.tool = r.tool
         /\ q.rev = r.rev /\ q.tools = r.tools /\ q.saw = r.saw
         /\ q.late = r.late /\ q.proof = r.proof
         /\ q.outcome = r.outcome /\ q.ruled = r.ruled
BY DEF Run, Place

LEMMA NewRunTyped ==
  ASSUME NEW n \in 0..MaxCalls
  PROVE  NewRun(n) \in Run /\ NewRun(n).at = "new" /\ NewRun(n).call = n
<1>1. AnyTool \in Tool
  BY ValuesAssumption DEF AnyTool
<1>2. Nothing \in ToolSet
  BY DEF Nothing, ToolSet
<1>3. 0 \in 0..MaxRevision
  BY ValuesAssumption
<1>4. NewRun(n) \in Run
  BY <1>1, <1>2, <1>3 DEF NewRun, Run, Permission
<1>5. NewRun(n).at = "new" /\ NewRun(n).call = n
  BY DEF NewRun
<1> QED BY <1>4, <1>5

\* A statement that changes statuses changes nothing else.
LEMMA Became ==
  ASSUME TypeOK, NEW K, NEW S,
         NEW s \in {"executing"} \cup Final
  PROVE  /\ Become(K, S, s) \in [Call -> Approval]
         /\ \A k \in Call :
              IF k \in K /\ approval[k].status \in S
                THEN /\ Become(K, S, s)[k].status = s
                     /\ Become(K, S, s)[k].by = approval[k].by
                     /\ Become(K, S, s)[k].tool = approval[k].tool
                     /\ Become(K, S, s)[k].rev = approval[k].rev
                     /\ Become(K, S, s)[k].schema = approval[k].schema
                ELSE Become(K, S, s)[k] = approval[k]
<1>1. ASSUME NEW k \in Call, NEW a, a = [approval[k] EXCEPT !.status = s]
      PROVE  /\ a \in Approval /\ a.status = s /\ a.by = approval[k].by
             /\ a.tool = approval[k].tool /\ a.rev = approval[k].rev
             /\ a.schema = approval[k].schema
  BY <1>1 DEF TypeOK, Approval
<1>2. \A k \in Call : approval[k] \in Approval
  BY DEF TypeOK
<1> QED BY <1>1, <1>2 DEF Become

-----------------------------------------------------------------------------
(* Steps of a run *)

\* Where a run has no call in hand there is nothing it has to know.
LEMMA LeavesCall ==
  ASSUME IInv, NEW t \in Turn, NEW q \in Run,
         run' = [run EXCEPT ![t] = q], q.at \notin InHand,
         q.call >= run[t].call,
         UNCHANGED <<conn, rule, approval, ran>>,
         turn' \in [Turn -> TurnRow]
  PROVE  IInv' /\ Stay
<1>1. TypeOK' /\ run'[t] = q /\ \A s \in Turn : s # t => run'[s] = run[s]
  BY RunTyped DEF IInv, TypeOK
<1> QED BY <1>1, RunStep

\* A step on with the call in hand.
LEMMA KeepsCall ==
  ASSUME IInv, NEW t \in Turn, NEW q \in Run, run[t].at \in InHand,
         run' = [run EXCEPT ![t] = q], q.call = run[t].call,
         PlaceOK(run[t], approval[Of(t)], ran[Of(t)]) =>
           PlaceOK(q, approval[Of(t)], ran[Of(t)]),
         UNCHANGED <<conn, rule, turn, approval, ran>>
  PROVE  IInv' /\ Stay
<1>1. TypeOK' /\ run'[t] = q /\ \A s \in Turn : s # t => run'[s] = run[s]
  BY RunTyped DEF IInv, TypeOK
<1>2. run[t].call \in 1..MaxCalls /\ PlaceOK(q, approval[Of(t)], ran[Of(t)])
  BY DEF IInv, Knows, HandOK
<1>3. run'[t].call >= run[t].call
  BY <1>1, <1>2
<1> QED BY <1>1, <1>2, <1>3, RunStep DEF Of

\* loadMCPConnections, setupMCP (worker.go).
LEMMA SetsUp ==
  ASSUME IInv, NEW t \in Turn, Load(t) \/ setupMCP(t)
  PROVE  IInv' /\ Stay
<1>1. run \in [Turn -> Run] /\ run[t] \in Run /\ run[t].call >= run[t].call
      /\ conn \in Connection /\ turn \in [Turn -> TurnRow]
  BY ValuesAssumption DEF IInv, TypeOK, Run
<1>2. CASE Load(t)
  <2> DEFINE at == IF conn.exists THEN "dialing" ELSE "round"
             p  == [run[t] EXCEPT !.at = at]
             q  == [p EXCEPT !.rev = conn.rev]
  <2>1. run' = [run EXCEPT ![t] = q] /\ UNCHANGED <<conn, rule, turn, approval, ran>>
    BY <1>2, Zenon DEF Load, OnlyRun
  <2>2. at \in Place /\ at \notin InHand
    BY DEF Place, InHand, Unexecuted, Deciding
  <2> HIDE DEF at
  <2>3. p \in Run /\ p.at = at /\ p.call = run[t].call
    BY <1>1, <2>2, Moved
  <2> HIDE DEF p
  <2>4. q \in Run /\ q.at = at /\ q.call = run[t].call
    BY <1>1, <2>3 DEF Run, Connection
  <2> HIDE DEF q
  <2> QED BY <1>1, <2>1, <2>2, <2>4, LeavesCall
<1>3. CASE setupMCP(t)
  <2>1. PICK tools \in ToolSet :
          run' = [run EXCEPT ![t].at = "round", ![t].tools = tools]
    BY <1>3 DEF setupMCP
  <2> DEFINE p == [run[t] EXCEPT !.at = "round"]
             q == [p EXCEPT !.tools = tools]
  <2>2. run' = [run EXCEPT ![t] = q]
    BY <2>1, Zenon
  <2>3. "round" \in Place /\ "round" \notin InHand
    BY DEF Place, InHand, Unexecuted, Deciding
  <2>4. p \in Run /\ p.at = "round" /\ p.call = run[t].call
    BY <1>1, <2>3, Moved
  <2> HIDE DEF p
  <2>5. q \in Run /\ q.at = "round" /\ q.call = run[t].call
    BY <1>1, <2>4 DEF Run
  <2> HIDE DEF q
  <2>6. UNCHANGED <<conn, rule, turn, approval, ran>>
    BY <1>3 DEF setupMCP, OnlyRun
  <2> QED BY <1>1, <2>2, <2>3, <2>5, <2>6, LeavesCall
<1> QED BY <1>2, <1>3

\* What is known of a run that has a call in hand.
LEMMA Facts ==
  ASSUME IInv, NEW t \in Turn
  PROVE  /\ run \in [Turn -> Run] /\ run[t] \in Run /\ run[t].call \in Nat
         /\ conn \in Connection /\ rule \in [Tool -> Permission]
         /\ turn \in [Turn -> TurnRow]
         /\ approval \in [Call -> Approval]
         /\ ran \in [Call -> Dispatch \cup {NotRun}]
         /\ run[t].at \in InHand =>
              /\ run[t].call \in 1..MaxCalls /\ Of(t) \in Call
              /\ PlaceOK(run[t], approval[Of(t)], ran[Of(t)])
              /\ RowOK(approval[Of(t)], ran[Of(t)])
<1>1. run \in [Turn -> Run] /\ run[t] \in Run /\ run[t].call \in Nat
  BY ValuesAssumption DEF IInv, TypeOK, Run
<1>2. run[t].at \in InHand =>
        /\ run[t].call \in 1..MaxCalls
        /\ PlaceOK(run[t], approval[Of(t)], ran[Of(t)])
  BY DEF IInv, Knows, HandOK
<1>3. run[t].call \in 1..MaxCalls => Of(t) \in Call
  BY DEF Of, Call
<1>4. Of(t) \in Call => RowOK(approval[Of(t)], ran[Of(t)])
  BY DEF IInv, Rows
<1> QED BY <1>1, <1>2, <1>3, <1>4 DEF IInv, TypeOK

\* A new call: nothing was asked or dispatched under its number.
LEMMA Begins ==
  ASSUME IInv, NEW t \in Turn, BeginCall(t)
  PROVE  IInv' /\ Stay
<1>1. PICK u \in Tool : \E at \in Gate(t, u) :
        run' = [run EXCEPT ![t].at = at, ![t].call = @ + 1, ![t].tool = u,
                           ![t].proof = {}]
  BY DEF BeginCall
<1>0. PICK at \in Gate(t, u) :
        run' = [run EXCEPT ![t].at = at, ![t].call = @ + 1, ![t].tool = u,
                           ![t].proof = {}]
  BY <1>1
<1>2. run \in [Turn -> Run] /\ run[t] \in Run /\ run[t].call \in Nat
      /\ turn \in [Turn -> TurnRow] /\ run[t].call < MaxCalls
      /\ UNCHANGED <<conn, rule, turn, approval, ran>>
  BY Facts DEF BeginCall, OnlyRun
<1> DEFINE n == run[t].call + 1
           a == [run[t] EXCEPT !.at = at]
           b == [a EXCEPT !.call = n]
           c == [b EXCEPT !.tool = u]
           q == [at |-> at, call |-> n, rev |-> run[t].rev,
                 tools |-> run[t].tools, tool |-> u, saw |-> run[t].saw,
                 late |-> run[t].late, proof |-> {},
                 outcome |-> run[t].outcome, ruled |-> run[t].ruled]
<1>3. n \in 1..MaxCalls /\ n \in 0..MaxCalls /\ n > run[t].call
  BY <1>2, ValuesAssumption
<1>4. at \in {"round", "announcing", "asking"}
  BY DEF Gate
<1>5. q \in Run
  BY <1>2, <1>3, <1>4 DEF Run
<1>6. q.at = at /\ q.call = n /\ q.proof = {}
  OBVIOUS
<1>7. run' = [run EXCEPT ![t] = q]
  <2>1. run' = [run EXCEPT ![t] = [run[t] EXCEPT !.at = at, !.call = @ + 1,
                                                 !.tool = u, !.proof = {}]]
    BY <1>0, Zenon
  <2>2. [run[t] EXCEPT !.at = at, !.call = @ + 1, !.tool = u, !.proof = {}]
        = [c EXCEPT !.proof = {}]
    BY Zenon
  <2>3. a = [at |-> at, call |-> run[t].call, rev |-> run[t].rev,
             tools |-> run[t].tools, tool |-> run[t].tool, saw |-> run[t].saw,
             late |-> run[t].late, proof |-> run[t].proof,
             outcome |-> run[t].outcome, ruled |-> run[t].ruled]
    BY <1>2 DEF Run
  <2> HIDE DEF n, a
  <2>4. b = [at |-> at, call |-> n, rev |-> run[t].rev,
             tools |-> run[t].tools, tool |-> run[t].tool, saw |-> run[t].saw,
             late |-> run[t].late, proof |-> run[t].proof,
             outcome |-> run[t].outcome, ruled |-> run[t].ruled]
    BY <2>3
  <2> HIDE DEF b
  <2>5. c = [at |-> at, call |-> n, rev |-> run[t].rev,
             tools |-> run[t].tools, tool |-> u, saw |-> run[t].saw,
             late |-> run[t].late, proof |-> run[t].proof,
             outcome |-> run[t].outcome, ruled |-> run[t].ruled]
    BY <2>4
  <2> HIDE DEF c
  <2>6. [c EXCEPT !.proof = {}] = q
    BY <2>5
  <2> QED BY <2>1, <2>2, <2>6
<1> HIDE DEF q, n
<1>8. TypeOK' /\ run'[t] = q /\ \A s \in Turn : s # t => run'[s] = run[s]
  BY <1>2, <1>5, <1>7, RunTyped DEF IInv, TypeOK
<1>9. approval[<<t, n>>].status = "none" /\ ~ran[<<t, n>>].done
  BY <1>3 DEF IInv, Knows, Ahead
<1>10. PlaceOK(q, approval[<<t, n>>], ran[<<t, n>>])
  BY <1>4, <1>6, <1>9 DEF PlaceOK, Unexecuted, Deciding
<1>11. run'[t].call >= run[t].call
  BY <1>2, <1>3, <1>6, <1>8
<1> QED BY <1>2, <1>3, <1>6, <1>8, <1>10, <1>11, RunStep

\* A question ends the run of the turn; the next begins anew.
LEMMA Parks ==
  ASSUME IInv, NEW t \in Turn, ParkAndResume(t)
  PROVE  IInv' /\ Stay
<1>1. run[t].call \in Nat /\ turn \in [Turn -> TurnRow]
      /\ run[t].call < MaxCalls
      /\ UNCHANGED <<conn, rule, turn, approval, ran>>
  BY Facts DEF ParkAndResume, OnlyRun
<1> DEFINE q == NewRun(run[t].call + 1)
<1>2. run[t].call + 1 \in 0..MaxCalls
  BY <1>1, ValuesAssumption
<1>3. q \in Run /\ q.at = "new" /\ q.call = run[t].call + 1
  BY <1>2, NewRunTyped
<1>4. run' = [run EXCEPT ![t] = q]
  BY DEF ParkAndResume
<1>5. "new" \notin InHand
  BY DEF InHand, Unexecuted, Deciding
<1> HIDE DEF q
<1>6. q.call >= run[t].call
  BY <1>1, <1>3
<1> QED BY <1>1, <1>3, <1>4, <1>5, <1>6, LeavesCall

\* A crash, an error that quits, or the end of the run.
LEMMA Quits ==
  ASSUME IInv, NEW t \in Turn, Quit(t), UNCHANGED <<conn, rule, approval, ran>>,
         turn' \in [Turn -> TurnRow]
  PROVE  IInv' /\ Stay
<1> DEFINE q == [NewRun(run[t].call) EXCEPT !.at = "gone"]
<1>1. run[t].call \in 0..MaxCalls /\ run[t].call \in Nat
  BY Facts DEF Run
<1>2. q \in Run /\ q.at = "gone" /\ q.call = run[t].call
  <2> DEFINE new == NewRun(run[t].call)
  <2>1. new \in Run /\ new.call = run[t].call
    BY <1>1, NewRunTyped
  <2> HIDE DEF new
  <2> QED BY <2>1, Moved DEF Place, new
<1>3. run' = [run EXCEPT ![t] = q]
  BY DEF Quit
<1>4. "gone" \notin InHand
  BY DEF InHand, Unexecuted, Deciding
<1> HIDE DEF q
<1>5. q.call >= run[t].call
  BY <1>1, <1>2
<1> QED BY <1>2, <1>3, <1>4, <1>5, LeavesCall

\* A step to a place where the run needs to know nothing.
LEMMA GoesOut ==
  ASSUME IInv, NEW t \in Turn, NEW at \in {"round", "ending"}, Goto(t, at),
         UNCHANGED <<conn, rule, turn, approval, ran>>
  PROVE  IInv' /\ Stay
<1> DEFINE q == [run[t] EXCEPT !.at = at]
<1>1. run[t] \in Run /\ run[t].call \in Nat /\ turn' \in [Turn -> TurnRow]
  BY Facts
<1>2. q \in Run /\ q.at = at /\ q.call = run[t].call
  BY <1>1, Moved DEF Place
<1>3. run' = [run EXCEPT ![t] = q] /\ at \notin InHand
  BY Zenon DEF Goto, InHand, Unexecuted, Deciding
<1> HIDE DEF q
<1>4. q.call >= run[t].call
  BY <1>1, <1>2
<1> QED BY <1>1, <1>2, <1>3, <1>4, LeavesCall

\* Errors, the end of a turn and crashes.
LEMMA LeavesRound ==
  ASSUME IInv, NEW t \in Turn, LeaveRound(t) \/ Finalize(t) \/ Crash(t)
  PROVE  IInv' /\ Stay
<1>1. turn \in [Turn -> TurnRow]
  BY Facts
<1>2. CASE LeaveRound(t)
  BY <1>1, <1>2, GoesOut, Quits DEF LeaveRound, OnlyRun
<1>3. CASE Finalize(t)
  <2>1. turn' \in [Turn -> TurnRow]
    <3>1. CASE Owns(t)
      <4> DEFINE half == [turn[t] EXCEPT !.status = "ended"]
                 row  == [half EXCEPT !.lease = FALSE]
      <4>1. turn' = [turn EXCEPT ![t] = row]
        BY <1>3, <3>1, Zenon DEF Finalize
      <4>2. half \in TurnRow
        BY <1>1 DEF TurnRow
      <4> HIDE DEF half
      <4>3. row \in TurnRow
        BY <4>2 DEF TurnRow
      <4> HIDE DEF row
      <4> QED BY <1>1, <4>1, <4>3
    <3>2. CASE ~Owns(t)
      BY <1>1, <1>3, <3>2 DEF Finalize
    <3> QED BY <3>1, <3>2
  <2> QED BY <1>3, <2>1, Quits DEF Finalize
<1>4. CASE Crash(t)
  BY <1>1, <1>4, Quits DEF Crash, OnlyRun
<1> QED BY <1>2, <1>3, <1>4

\* A step of the run that changes what is stored of its call.
LEMMA ChangesCall ==
  ASSUME IInv, NEW t \in Turn, NEW q \in Run, run[t].at \in InHand,
         run' = [run EXCEPT ![t] = q], q.call = run[t].call,
         approval' \in [Call -> Approval],
         ran' \in [Call -> Dispatch \cup {NotRun}],
         \A k \in Call : k # Of(t) =>
           approval'[k] = approval[k] /\ ran'[k] = ran[k],
         RowOK(approval'[Of(t)], ran'[Of(t)]),
         q.at \in InHand => PlaceOK(q, approval'[Of(t)], ran'[Of(t)]),
         approval[Of(t)].status \in Final => approval'[Of(t)] = approval[Of(t)],
         UNCHANGED <<conn, rule, turn>>
  PROVE  IInv' /\ Stay
<1>1. TypeOK' /\ run'[t] = q /\ \A s \in Turn : s # t => run'[s] = run[s]
  BY RunTyped DEF IInv, TypeOK
<1>2. run[t].call \in 1..MaxCalls
  BY Facts
<1> QED BY <1>1, <1>2, CallStep DEF Of

\* The insert (mcp_approval.go, requestMCPApproval): the call has left no
\* trace, so its row does not replace one.
LEMMA Requests ==
  ASSUME IInv, NEW t \in Turn, requestMCPApproval(t)
  PROVE  IInv' /\ Stay
<1> DEFINE a == [status |-> "pending", by |-> FALSE, tool |-> run[t].tool,
                 rev |-> run[t].rev, schema |-> run[t].tools[run[t].tool]]
           p == [run[t] EXCEPT !.at = "waiting"]
           q == [p EXCEPT !.late = FALSE]
<1>1. run[t].at = "asking" /\ approval' = [approval EXCEPT ![Of(t)] = a]
      /\ UNCHANGED <<conn, rule, turn, ran>>
  BY DEF requestMCPApproval, CreateMCPApproval, liveMCPToolDigest
<1>2. run' = [run EXCEPT ![t] = q]
  BY Zenon DEF requestMCPApproval
<1>3. run[t].at \in InHand
  BY <1>1 DEF InHand, Unexecuted
<1>4. /\ run[t] \in Run /\ Of(t) \in Call
      /\ PlaceOK(run[t], approval[Of(t)], ran[Of(t)])
      /\ approval \in [Call -> Approval]
      /\ ran \in [Call -> Dispatch \cup {NotRun}]
  BY <1>3, Facts
<1>5. p \in Run /\ p.at = "waiting" /\ p.call = run[t].call
      /\ p.tool = run[t].tool /\ p.rev = run[t].rev /\ p.tools = run[t].tools
  BY <1>4, Moved DEF Place
<1> HIDE DEF p
<1>6. q \in Run /\ q.at = "waiting" /\ q.call = run[t].call
      /\ q.tool = run[t].tool /\ q.rev = run[t].rev /\ q.tools = run[t].tools
  BY <1>5 DEF Run
<1> HIDE DEF q
<1>7. a \in Approval
  BY <1>4 DEF Run, Approval, ToolSet
<1>8. approval[Of(t)].status = "none" /\ ~ran[Of(t)].done
  BY <1>1, <1>4 DEF PlaceOK, Unexecuted
<1>9. a.status = "pending" /\ a.tool = q.tool /\ a.rev = q.rev
      /\ a.schema = q.tools[q.tool]
  BY <1>6
<1> HIDE DEF a
<1>10. approval' \in [Call -> Approval] /\ approval'[Of(t)] = a
       /\ \A k \in Call : k # Of(t) => approval'[k] = approval[k]
  BY <1>1, <1>4, <1>7
<1>11. RowOK(a, ran[Of(t)]) /\ PlaceOK(q, a, ran[Of(t)])
  BY <1>6, <1>8, <1>9 DEF RowOK, PlaceOK, Matches, Unexecuted, Deciding
<1>12. approval[Of(t)].status \notin Final
  BY <1>8 DEF Final
<1>13. /\ ran' \in [Call -> Dispatch \cup {NotRun}]
       /\ \A k \in Call : ran'[k] = ran[k] /\ ran'[Of(t)] = ran[Of(t)]
  BY <1>1, <1>4
<1> QED BY <1>1, <1>2, <1>3, <1>6, <1>10, <1>11, <1>12, <1>13, ChangesCall

\* The poll of the decision (mcp_approval.go, waitForApprovalDecision).
LEMMA Polls ==
  ASSUME IInv, NEW t \in Turn,
         ReadDecision(t) \/ ApprovalWaitRunsOut(t) \/ Poll(t)
  PROVE  IInv' /\ Stay
<1>1. run[t] \in Run /\ run[t].call \in Nat /\ turn \in [Turn -> TurnRow]
      /\ UNCHANGED <<conn, rule, turn, approval, ran>>
  BY Facts DEF ReadDecision, ApprovalWaitRunsOut, Poll, OnlyRun
<1>2. run[t].at \in Deciding /\ run[t].at \in InHand
  BY DEF ReadDecision, ApprovalWaitRunsOut, Poll, InHand, Unexecuted, Deciding
<1>3. CASE ReadDecision(t)
  <2> DEFINE saw == IF approval[Of(t)].status \in {"pending", "approved"}
                      THEN approval[Of(t)].status ELSE "refused"
             p == [run[t] EXCEPT !.at = "refreshing"]
             q == [p EXCEPT !.saw = saw]
  <2>1. run' = [run EXCEPT ![t] = q]
    BY <1>3, Zenon DEF ReadDecision
  <2>2. saw \in {"pending", "approved", "refused"}
    OBVIOUS
  <2> HIDE DEF saw
  <2>3. p \in Run /\ p.at = "refreshing" /\ p.call = run[t].call
        /\ p.tool = run[t].tool /\ p.rev = run[t].rev /\ p.tools = run[t].tools
    BY <1>1, Moved DEF Place
  <2> HIDE DEF p
  <2>4. q \in Run /\ q.at = "refreshing" /\ q.call = run[t].call
        /\ q.tool = run[t].tool /\ q.rev = run[t].rev /\ q.tools = run[t].tools
    BY <2>2, <2>3 DEF Run
  <2> HIDE DEF q
  <2>5. PlaceOK(run[t], approval[Of(t)], ran[Of(t)]) =>
          PlaceOK(q, approval[Of(t)], ran[Of(t)])
    BY <1>2, <2>4 DEF PlaceOK, Matches, Unexecuted, Deciding
  <2> QED BY <1>1, <1>2, <2>1, <2>4, <2>5, KeepsCall
<1>4. CASE ApprovalWaitRunsOut(t)
  <2> DEFINE q == [run[t] EXCEPT !.late = TRUE]
  <2>1. run' = [run EXCEPT ![t] = q]
    BY <1>4, Zenon DEF ApprovalWaitRunsOut
  <2>2. q \in Run /\ q.at = run[t].at /\ q.call = run[t].call
        /\ q.tool = run[t].tool /\ q.rev = run[t].rev /\ q.tools = run[t].tools
    BY <1>1 DEF Run
  <2> HIDE DEF q
  <2>3. PlaceOK(run[t], approval[Of(t)], ran[Of(t)]) =>
          PlaceOK(q, approval[Of(t)], ran[Of(t)])
    BY <1>2, <2>2 DEF PlaceOK, Matches, Unexecuted, Deciding
  <2> QED BY <1>1, <1>2, <2>1, <2>2, <2>3, KeepsCall
<1>5. CASE Poll(t)
  <2> DEFINE p == [run[t] EXCEPT !.at = AfterPoll(t)]
             q == [p EXCEPT !.saw = "none"]
  <2>1. run' = [run EXCEPT ![t] = q]
    BY <1>5, Zenon DEF Poll
  <2>2. AfterPoll(t) \in {"ending", "rechecking", "closing", "waiting", "round"}
    BY DEF AfterPoll
  <2>3. p \in Run /\ p.at = AfterPoll(t) /\ p.call = run[t].call
        /\ p.tool = run[t].tool /\ p.rev = run[t].rev /\ p.tools = run[t].tools
    BY <1>1, <2>2, Moved DEF Place
  <2> HIDE DEF p
  <2>4. q \in Run /\ q.at = AfterPoll(t) /\ q.call = run[t].call
        /\ q.tool = run[t].tool /\ q.rev = run[t].rev /\ q.tools = run[t].tools
    BY <2>3 DEF Run
  <2> HIDE DEF q
  <2>5. PlaceOK(run[t], approval[Of(t)], ran[Of(t)]) =>
          PlaceOK(q, approval[Of(t)], ran[Of(t)])
    BY <1>2, <2>2, <2>4 DEF PlaceOK, Matches, Unexecuted, Deciding
  <2> QED BY <1>1, <1>2, <2>1, <2>4, <2>5, KeepsCall
<1> QED BY <1>3, <1>4, <1>5

\* A step after which the approval has a new status, or stays.
LEMMA SetsStatus ==
  ASSUME IInv, NEW t \in Turn, run[t].at \in InHand,
         NEW at \in {"round", "ending", "announcing"},
         NEW q \in Run, run' = [run EXCEPT ![t] = q], q.at = at,
         q.call = run[t].call, q.tool = run[t].tool, q.rev = run[t].rev,
         q.tools = run[t].tools,
         NEW S, NEW s \in {"executing"} \cup Final,
         S \cap Final = {}, "none" \notin S,
         approval' \in {Become({Of(t)}, S, s), approval},
         s = "completed" => ran[Of(t)].done,
         s \in {"rejected", "invalidated"} => ~ran[Of(t)].done,
         s \in {"executing", "completed", "failed"} =>
           S \subseteq {"approved", "executing"},
         at = "announcing" => /\ approval'[Of(t)].status = "executing"
                              /\ run[t].at = "marking",
         UNCHANGED <<conn, rule, turn, ran>>
  PROVE  IInv' /\ Stay
<1> DEFINE a == approval[Of(t)]
           b == approval'[Of(t)]
           d == ran[Of(t)]
<1>1. /\ Of(t) \in Call /\ PlaceOK(run[t], a, d) /\ RowOK(a, d)
      /\ approval \in [Call -> Approval]
      /\ ran \in [Call -> Dispatch \cup {NotRun}]
  BY Facts
<1>2. /\ approval' \in [Call -> Approval]
      /\ \A k \in Call : k # Of(t) => approval'[k] = approval[k]
      /\ \/ b = a
         \/ /\ a.status \in S /\ b.status = s /\ b.by = a.by /\ b.tool = a.tool
            /\ b.rev = a.rev /\ b.schema = a.schema
  <2>1. CASE approval' = approval
    BY <1>1, <2>1
  <2>2. CASE approval' = Become({Of(t)}, S, s)
    <3> DEFINE new == Become({Of(t)}, S, s)
    <3>1. /\ new \in [Call -> Approval]
          /\ \A k \in Call :
               IF k \in {Of(t)} /\ approval[k].status \in S
                 THEN /\ new[k].status = s
                      /\ new[k].by = approval[k].by
                      /\ new[k].tool = approval[k].tool
                      /\ new[k].rev = approval[k].rev
                      /\ new[k].schema = approval[k].schema
                 ELSE new[k] = approval[k]
      BY Became DEF IInv
    <3>2. approval' = new
      BY <2>2
    <3> HIDE DEF new
    <3> QED BY <1>1, <3>1, <3>2
  <2> QED BY <2>1, <2>2
<1>3. a.status \in Final => b = a
  BY <1>2
<1>4. RowOK(b, d)
  BY <1>1, <1>2 DEF RowOK, Final
<1>5. at \in InHand => PlaceOK(q, b, d)
  <2>1. CASE at = "announcing"
    <3>1. ~d.done /\ Matches(run[t], a)
      BY <1>1, <2>1 DEF PlaceOK, Unexecuted, Deciding
    <3>2. Matches(q, b)
      BY <1>2, <3>1 DEF Matches
    <3> QED BY <2>1, <3>1, <3>2 DEF PlaceOK, Deciding
  <2>2. CASE at # "announcing"
    BY <2>2 DEF InHand, Unexecuted, Deciding
  <2> QED BY <2>1, <2>2
<1>6. /\ ran' \in [Call -> Dispatch \cup {NotRun}]
      /\ \A k \in Call : ran'[k] = ran[k]
      /\ ran'[Of(t)] = ran[Of(t)]
  BY <1>1
<1> HIDE DEF a, b, d
<1> QED BY <1>2, <1>3, <1>4, <1>5, <1>6, ChangesCall DEF a, b, d

\* closeApproval, at the end of the wait and after the second check
\* (mcp_approval.go, worker.go).
LEMMA Closes ==
  ASSUME IInv, NEW t \in Turn, GiveUpWaiting(t) \/ Recheck(t)
  PROVE  IInv' /\ Stay
<1>1. run[t].at \in {"closing", "rechecking"} /\ UNCHANGED <<conn, rule, turn, ran>>
  BY DEF GiveUpWaiting, Recheck
<1>2. run[t].at \in InHand /\ run[t] \in Run
      /\ PlaceOK(run[t], approval[Of(t)], ran[Of(t)])
  BY <1>1, Facts DEF InHand, Unexecuted, Deciding
<1>3. ~ran[Of(t)].done
  BY <1>1, <1>2 DEF PlaceOK, Unexecuted, Deciding
<1>4. ASSUME NEW at \in {"round", "ending"}, NEW s \in {"rejected", "invalidated"},
             Goto(t, at), approval' \in {closeApproval(Of(t), s), approval}
      PROVE  IInv' /\ Stay
  <2> DEFINE q == [run[t] EXCEPT !.at = at]
             S == {"pending", "approved"}
  <2>1. q \in Run /\ q.at = at /\ q.call = run[t].call
        /\ q.tool = run[t].tool /\ q.rev = run[t].rev /\ q.tools = run[t].tools
    BY <1>2, Moved DEF Place
  <2>2. run' = [run EXCEPT ![t] = q]
    BY <1>4, Zenon DEF Goto
  <2> HIDE DEF q
  <2>3. s \in {"executing"} \cup Final /\ S \cap Final = {} /\ "none" \notin S
        /\ s \notin {"executing", "completed", "failed"} /\ at # "announcing"
    BY DEF Final
  <2>4. approval' \in {Become({Of(t)}, S, s), approval}
    BY <1>4 DEF closeApproval
  <2> HIDE DEF S
  <2>5. /\ s = "completed" => ran[Of(t)].done
        /\ s \in {"rejected", "invalidated"} => ~ran[Of(t)].done
        /\ s \in {"executing", "completed", "failed"} =>
             S \subseteq {"approved", "executing"}
        /\ at = "announcing" => /\ approval'[Of(t)].status = "executing"
                                /\ run[t].at = "marking"
    BY <1>3, <2>3
  <2>6. at \in {"round", "ending", "announcing"}
    OBVIOUS
  <2> QED BY <1>1, <1>2, <2>1, <2>2, <2>3, <2>4, <2>5, <2>6, SetsStatus
<1>5. CASE GiveUpWaiting(t)
  BY <1>4, <1>5 DEF GiveUpWaiting
<1>6. CASE Recheck(t)
  <2>1. PICK same \in BOOLEAN :
          IF approvedCallUnchanged(t, run[t].tool, same)
            THEN Goto(t, "marking") /\ UNCHANGED approval
            ELSE /\ approval' \in {closeApproval(Of(t), "invalidated"), approval}
                 /\ Goto(t, "ending")
    BY <1>6 DEF Recheck
  <2>2. CASE Goto(t, "marking") /\ UNCHANGED approval
    <3> DEFINE q == [run[t] EXCEPT !.at = "marking"]
    <3>1. q \in Run /\ q.at = "marking" /\ q.call = run[t].call
          /\ q.tool = run[t].tool /\ q.rev = run[t].rev /\ q.tools = run[t].tools
      BY <1>2, Moved DEF Place
    <3>2. run' = [run EXCEPT ![t] = q]
      BY <2>2, Zenon DEF Goto
    <3> HIDE DEF q
    <3>3. PlaceOK(q, approval[Of(t)], ran[Of(t)])
      BY <1>1, <1>2, <3>1 DEF PlaceOK, Matches, Unexecuted, Deciding
    <3>4. UNCHANGED <<conn, rule, turn, approval, ran>>
      BY <1>1, <2>2
    <3> QED BY <1>2, <3>1, <3>2, <3>3, <3>4, KeepsCall
  <2> QED BY <1>4, <2>1, <2>2
<1> QED BY <1>5, <1>6

\* MarkMCPApprovalExecuting: the run goes on only when the row was approved
\* until now, and the row is of its call.
LEMMA Marks ==
  ASSUME IInv, NEW t \in Turn, MarkExecuting(t)
  PROVE  IInv' /\ Stay
<1> DEFINE S == {"approved"}
<1>1. run[t].at = "marking" /\ UNCHANGED <<conn, rule, turn, ran>>
      /\ approval' = Become({Of(t)}, S, "executing")
  BY DEF MarkExecuting, MarkMCPApprovalExecuting
<1>2. run[t].at \in InHand /\ run[t] \in Run /\ Of(t) \in Call
      /\ PlaceOK(run[t], approval[Of(t)], ran[Of(t)])
  BY <1>1, Facts DEF InHand, Unexecuted, Deciding
<1>3. ASSUME NEW at \in {"ending", "announcing"}, NEW q \in Run,
             run' = [run EXCEPT ![t] = q], q.at = at,
             q.call = run[t].call, q.tool = run[t].tool, q.rev = run[t].rev,
             q.tools = run[t].tools,
             at = "announcing" => approval[Of(t)].status = "approved"
      PROVE  IInv' /\ Stay
  <2> DEFINE new == Become({Of(t)}, S, "executing")
  <2>1. "executing" \in {"executing"} \cup Final /\ S \cap Final = {}
        /\ "none" \notin S /\ S \subseteq {"approved", "executing"}
    BY DEF Final
  <2>2. \A k \in Call :
          k \in {Of(t)} /\ approval[k].status \in S =>
            new[k].status = "executing"
    BY <2>1, Became DEF IInv
  <2>3. approval' = new
    BY <1>1
  <2> HIDE DEF new
  <2>4. at = "announcing" =>
          approval'[Of(t)].status = "executing" /\ run[t].at = "marking"
    BY <1>1, <1>2, <1>3, <2>2, <2>3
  <2>5. approval' \in {Become({Of(t)}, S, "executing"), approval}
    BY <1>1
  <2> HIDE DEF S
  <2>6. at \in {"round", "ending", "announcing"}
    OBVIOUS
  <2>7. /\ "executing" = "completed" => ran[Of(t)].done
        /\ "executing" \in {"rejected", "invalidated"} => ~ran[Of(t)].done
    OBVIOUS
  <2> QED BY <1>1, <1>2, <1>3, <2>1, <2>4, <2>5, <2>6, <2>7, SetsStatus
<1>4. CASE approval[Of(t)].status = "approved"
  <2> DEFINE p == [run[t] EXCEPT !.at = "announcing"]
             q == [p EXCEPT !.proof = run[t].proof \cup {run[t].tool}]
  <2>1. run' = [run EXCEPT ![t] = q]
    BY <1>4, Zenon DEF MarkExecuting
  <2>2. p \in Run /\ p.at = "announcing" /\ p.call = run[t].call
        /\ p.tool = run[t].tool /\ p.rev = run[t].rev /\ p.tools = run[t].tools
    BY <1>2, Moved DEF Place
  <2>3. run[t].proof \cup {run[t].tool} \in SUBSET Tool
    BY <1>2 DEF Run
  <2> HIDE DEF p
  <2>4. q \in Run /\ q.at = "announcing" /\ q.call = run[t].call
        /\ q.tool = run[t].tool /\ q.rev = run[t].rev /\ q.tools = run[t].tools
    BY <2>2, <2>3 DEF Run
  <2> HIDE DEF q
  <2> QED BY <1>3, <1>4, <2>1, <2>4
<1>5. CASE approval[Of(t)].status # "approved"
  <2> DEFINE q == [run[t] EXCEPT !.at = "ending"]
  <2>1. q \in Run /\ q.at = "ending" /\ q.call = run[t].call
        /\ q.tool = run[t].tool /\ q.rev = run[t].rev /\ q.tools = run[t].tools
    BY <1>2, Moved DEF Place
  <2>2. run' = [run EXCEPT ![t] = q]
    BY <1>5, Zenon DEF MarkExecuting, Goto
  <2> HIDE DEF q
  <2> QED BY <1>3, <2>1, <2>2
<1> QED BY <1>4, <1>5

\* The event that announces the call, if the lease holds (worker.go).
LEMMA Announces ==
  ASSUME IInv, NEW t \in Turn, Announce(t)
  PROVE  IInv' /\ Stay
<1>1. run[t].at = "announcing" /\ UNCHANGED <<conn, rule, turn, approval, ran>>
  BY DEF Announce, OnlyRun
<1>2. run[t].at \in InHand /\ run[t] \in Run /\ run[t].call \in Nat
      /\ turn \in [Turn -> TurnRow]
      /\ PlaceOK(run[t], approval[Of(t)], ran[Of(t)])
  BY <1>1, Facts DEF InHand, Unexecuted
<1>3. CASE Goto(t, "ending")
  BY <1>1, <1>3, GoesOut
<1>4. CASE Goto(t, "guarding")
  <2> DEFINE q == [run[t] EXCEPT !.at = "guarding"]
  <2>1. q \in Run /\ q.at = "guarding" /\ q.call = run[t].call
        /\ q.tool = run[t].tool /\ q.rev = run[t].rev /\ q.tools = run[t].tools
        /\ q.proof = run[t].proof
    BY <1>2, Moved DEF Place
  <2>2. run' = [run EXCEPT ![t] = q]
    BY <1>4, Zenon DEF Goto
  <2> HIDE DEF q
  <2>3. PlaceOK(q, approval[Of(t)], ran[Of(t)])
    BY <1>1, <1>2, <2>1 DEF PlaceOK, Matches, Unexecuted, Deciding
  <2> QED BY <1>1, <1>2, <2>1, <2>2, <2>3, KeepsCall
<1> QED BY <1>3, <1>4 DEF Announce

\* A run whose call did not reach the server, or has come back from it.
Back(r, outcome) ==
  [[[r EXCEPT !.at = "returned"] EXCEPT !.outcome = outcome]
     EXCEPT !.ruled = "ask"]

LEMMA ReturnedRun ==
  ASSUME NEW r \in Run, NEW outcome \in {"completed", "failed"}
  PROVE  /\ Back(r, outcome) \in Run /\ Back(r, outcome).at = "returned"
         /\ Back(r, outcome).call = r.call
         /\ Back(r, outcome).outcome = outcome
<1> DEFINE p == [r EXCEPT !.at = "returned"]
           o == [p EXCEPT !.outcome = outcome]
<1>1. p \in Run /\ p.at = "returned" /\ p.call = r.call
  BY Moved DEF Place
<1> HIDE DEF p
<1>2. o \in Run /\ o.at = "returned" /\ o.call = r.call /\ o.outcome = outcome
  BY <1>1 DEF Run
<1>3. Back(r, outcome) = [o EXCEPT !.ruled = "ask"]
  BY DEF Back, p
<1> HIDE DEF o
<1> QED BY <1>2, <1>3 DEF Run, Permission

\* mcpCallGuard: without a proof only a rule of "allow" lets the call through.
LEMMA Guards ==
  ASSUME IInv, NEW t \in Turn, CheckGuard(t)
  PROVE  IInv' /\ Stay
<1>1. run[t].at = "guarding" /\ UNCHANGED <<conn, rule, turn, approval, ran>>
  BY DEF CheckGuard, OnlyRun
<1>2. run[t].at \in InHand /\ run[t] \in Run /\ rule \in [Tool -> Permission]
      /\ PlaceOK(run[t], approval[Of(t)], ran[Of(t)])
  BY <1>1, Facts DEF InHand, Unexecuted
<1>3. CASE mcpCallGuard(t, run[t].tool)
  <2> DEFINE ruled == rule[run[t].tool]
             p     == [run[t] EXCEPT !.at = "calling"]
             q     == [p EXCEPT !.ruled = ruled]
  <2>1. run' = [run EXCEPT ![t] = q]
    BY <1>3, Zenon DEF CheckGuard
  <2>2. ruled \in Permission
    BY <1>2 DEF Run
  <2>3. ruled = "allow" \/ (ruled = "ask" /\ run[t].proof # {})
    BY <1>3 DEF mcpCallGuard
  <2> HIDE DEF ruled
  <2>4. p \in Run /\ p.at = "calling" /\ p.call = run[t].call
        /\ p.tool = run[t].tool /\ p.rev = run[t].rev /\ p.tools = run[t].tools
    BY <1>2, Moved DEF Place
  <2> HIDE DEF p
  <2>5. q \in Run /\ q.at = "calling" /\ q.call = run[t].call
        /\ q.tool = run[t].tool /\ q.rev = run[t].rev /\ q.tools = run[t].tools
        /\ q.ruled = ruled
    BY <2>2, <2>4 DEF Run
  <2> HIDE DEF q
  <2>6. PlaceOK(q, approval[Of(t)], ran[Of(t)])
    BY <1>1, <1>2, <2>3, <2>5 DEF PlaceOK, Matches, Unexecuted, Deciding
  <2> QED BY <1>1, <1>2, <2>1, <2>5, <2>6, KeepsCall
<1>4. CASE ~mcpCallGuard(t, run[t].tool)
  <2> DEFINE q == Back(run[t], "failed")
  <2>1. run' = [run EXCEPT ![t] = q]
    BY <1>4, Zenon DEF CheckGuard, Returned, BlockedOutcome, Back
  <2>2. q \in Run /\ q.at = "returned" /\ q.call = run[t].call
        /\ q.outcome = "failed"
    BY <1>2, ReturnedRun
  <2> HIDE DEF q
  <2>3. PlaceOK(q, approval[Of(t)], ran[Of(t)])
    BY <2>2 DEF PlaceOK, Unexecuted, Deciding
  <2> QED BY <1>1, <1>2, <2>1, <2>2, <2>3, KeepsCall
<1> QED BY <1>3, <1>4

\* The remote call: what it says of itself is what the approval says.
LEMMA CallsRemote ==
  ASSUME IInv, NEW t \in Turn, RemoteCall(t)
  PROVE  IInv' /\ Stay
<1>1. run[t].at = "calling" /\ UNCHANGED <<conn, rule, turn, approval>>
  BY DEF RemoteCall
<1> DEFINE d == [done |-> TRUE, tool |-> run[t].tool, rev |-> run[t].rev,
                 schema |-> run[t].tools[run[t].tool], ruled |-> run[t].ruled]
<1>2. run[t].at \in InHand /\ run[t] \in Run /\ Of(t) \in Call
      /\ PlaceOK(run[t], approval[Of(t)], ran[Of(t)])
      /\ RowOK(approval[Of(t)], ran[Of(t)])
      /\ approval \in [Call -> Approval]
      /\ ran \in [Call -> Dispatch \cup {NotRun}]
  BY <1>1, Facts DEF InHand, Unexecuted
<1>3. PICK done \in BOOLEAN, outcome \in {"completed", "failed"} :
        /\ outcome = "completed" => done
        /\ Returned(t, outcome)
        /\ ran' = IF done THEN [ran EXCEPT ![Of(t)] = d] ELSE ran
  BY DEF RemoteCall, liveMCPToolDigest
<1>4. d \in Dispatch
  BY <1>2 DEF Run, ToolSet, Dispatch
<1>5. d.done /\ d.tool = run[t].tool /\ d.rev = run[t].rev
      /\ d.schema = run[t].tools[run[t].tool] /\ d.ruled = run[t].ruled
  OBVIOUS
<1> HIDE DEF d
<1>6. /\ ran' \in [Call -> Dispatch \cup {NotRun}]
      /\ \A k \in Call : k # Of(t) => ran'[k] = ran[k]
      /\ ran'[Of(t)] = IF done THEN d ELSE ran[Of(t)]
  BY <1>2, <1>3, <1>4
<1> DEFINE q == Back(run[t], outcome)
<1>7. run' = [run EXCEPT ![t] = q]
  BY <1>3, Zenon DEF Returned, Back
<1>8. q \in Run /\ q.at = "returned" /\ q.call = run[t].call
      /\ q.outcome = outcome
  BY <1>2, ReturnedRun
<1> HIDE DEF q
<1>9. run[t].ruled \in {"allow", "ask"}
  BY <1>1, <1>2 DEF PlaceOK, Run, Permission
<1>10. RowOK(approval[Of(t)], ran'[Of(t)])
  <2>1. CASE done
    BY <1>1, <1>2, <1>5, <1>6, <1>9, <2>1 DEF RowOK, PlaceOK, Matches
  <2>2. CASE ~done
    BY <1>2, <1>6, <2>2
  <2> QED BY <2>1, <2>2
<1>11. PlaceOK(q, approval[Of(t)], ran'[Of(t)])
  BY <1>3, <1>5, <1>6, <1>8 DEF PlaceOK, Unexecuted, Deciding
<1>12. approval' \in [Call -> Approval] /\ approval'[Of(t)] = approval[Of(t)]
       /\ \A k \in Call : approval'[k] = approval[k]
  BY <1>1, <1>2
<1> QED BY <1>1, <1>2, <1>6, <1>7, <1>8, <1>10, <1>11, <1>12, ChangesCall

\* The result of the call, kept if the lease holds (worker.go).
LEMMA Records ==
  ASSUME IInv, NEW t \in Turn, RecordResult(t)
  PROVE  IInv' /\ Stay
<1> DEFINE at == IF ~Owns(t) THEN "ending"
                 ELSE IF approval[Of(t)].status = "none" THEN "round"
                 ELSE "completing"
           p == [run[t] EXCEPT !.at = at]
           q == [p EXCEPT !.proof = run[t].proof \ {run[t].tool}]
<1>1. run[t].at = "returned" /\ UNCHANGED <<conn, rule, turn, approval, ran>>
  BY DEF RecordResult, OnlyRun
<1>2. run[t].at \in InHand /\ run[t] \in Run
      /\ PlaceOK(run[t], approval[Of(t)], ran[Of(t)])
  BY <1>1, Facts DEF InHand
<1>3. run' = [run EXCEPT ![t] = q]
  BY Zenon DEF RecordResult
<1>4. at \in {"ending", "round", "completing"}
  OBVIOUS
<1> HIDE DEF at
<1>5. p \in Run /\ p.at = at /\ p.call = run[t].call
      /\ p.outcome = run[t].outcome
  BY <1>2, <1>4, Moved DEF Place
<1> HIDE DEF p
<1>6. q \in Run /\ q.at = at /\ q.call = run[t].call
      /\ q.outcome = run[t].outcome
  BY <1>2, <1>5 DEF Run
<1> HIDE DEF q
<1>7. PlaceOK(q, approval[Of(t)], ran[Of(t)])
  BY <1>1, <1>2, <1>4, <1>6 DEF PlaceOK, Unexecuted, Deciding
<1> QED BY <1>1, <1>2, <1>3, <1>6, <1>7, KeepsCall

\* CompleteMCPApproval: only a row that is still being executed.
LEMMA Completes ==
  ASSUME IInv, NEW t \in Turn, CompleteApproval(t)
  PROVE  IInv' /\ Stay
<1> DEFINE S == {"executing"}
           s == run[t].outcome
           q == [run[t] EXCEPT !.at = "round"]
<1>1. run[t].at = "completing" /\ UNCHANGED <<conn, rule, turn, ran>>
      /\ approval' = Become({Of(t)}, S, s)
  BY DEF CompleteApproval, CompleteMCPApproval
<1>2. run[t].at \in InHand /\ run[t] \in Run
      /\ PlaceOK(run[t], approval[Of(t)], ran[Of(t)])
  BY <1>1, Facts DEF InHand
<1>3. s \in {"completed", "failed"} /\ (s = "completed" => ran[Of(t)].done)
  BY <1>1, <1>2 DEF PlaceOK
<1>4. q \in Run /\ q.at = "round" /\ q.call = run[t].call
      /\ q.tool = run[t].tool /\ q.rev = run[t].rev /\ q.tools = run[t].tools
  BY <1>2, Moved DEF Place
<1>5. run' = [run EXCEPT ![t] = q]
  BY Zenon DEF CompleteApproval, Goto
<1> HIDE DEF q, s
<1>6. s \in {"executing"} \cup Final /\ S \cap Final = {} /\ "none" \notin S
      /\ S \subseteq {"approved", "executing"}
      /\ s \notin {"rejected", "invalidated"}
  BY <1>3 DEF Final
<1> HIDE DEF S
<1>7. approval' \in {Become({Of(t)}, S, s), approval}
  BY <1>1
<1> QED BY <1>1, <1>2, <1>3, <1>4, <1>5, <1>6, <1>7, SetsStatus

\* Every step of a run.
LEMMA RunSteps ==
  ASSUME IInv, NEW t \in Turn, Step(t) \/ ApprovalWaitRunsOut(t) \/ Crash(t)
  PROVE  IInv' /\ Stay
BY SetsUp, Begins, Parks, Requests, Polls, Closes, Marks, Announces, Guards,
   CallsRemote, Records, Completes, LeavesRound DEF Step

-----------------------------------------------------------------------------
(* Steps of the others *)

\* The statements that end pending approvals, or executing ones.
LEMMA BecomesOutside ==
  ASSUME IInv, NEW K, NEW S, NEW s,
         \/ S = {"pending"} /\ s = "invalidated"
         \/ S = {"executing"} /\ s = "failed",
         approval' = Become(K, S, s)
  PROVE  /\ approval' \in [Call -> Approval]
         /\ \A k \in Call : Outside(approval[k], approval'[k])
<1> DEFINE new == Become(K, S, s)
<1>1. s \in {"executing"} \cup Final
  BY DEF Final
<1>2. /\ new \in [Call -> Approval]
      /\ \A k \in Call :
           IF k \in K /\ approval[k].status \in S
             THEN /\ new[k].status = s
                  /\ new[k].by = approval[k].by
                  /\ new[k].tool = approval[k].tool
                  /\ new[k].rev = approval[k].rev
                  /\ new[k].schema = approval[k].schema
             ELSE new[k] = approval[k]
  BY <1>1, Became DEF IInv
<1>3. approval' = new
  OBVIOUS
<1> HIDE DEF new
<1> QED BY <1>2, <1>3 DEF Outside

\* The handlers (app/mcp_approvals.go, app/mcp_connections.go, stop).
LEMMA HandlersStep ==
  ASSUME IInv, Handler
  PROVE  IInv' /\ Stay
<1>1. /\ conn \in Connection /\ rule \in [Tool -> Permission]
      /\ turn \in [Turn -> TurnRow] /\ run \in [Turn -> Run]
      /\ approval \in [Call -> Approval]
      /\ ran \in [Call -> Dispatch \cup {NotRun}]
  BY DEF IInv, TypeOK
<1>2. ASSUME NEW t \in Turn, Cancel(t)
      PROVE  IInv' /\ Stay
  <2>1. /\ approval' \in [Call -> Approval]
        /\ \A k \in Call : Outside(approval[k], approval'[k])
    BY <1>2, BecomesOutside DEF Cancel, InvalidatePendingMCPApprovalsForTurn
  <2>2. [turn[t] EXCEPT !.cancel = TRUE] \in TurnRow
    BY <1>1 DEF TurnRow
  <2>3. turn' = [turn EXCEPT ![t] = [turn[t] EXCEPT !.cancel = TRUE]]
        /\ UNCHANGED <<conn, rule, run, ran>>
    BY <1>2, Zenon DEF Cancel
  <2>4. turn' \in [Turn -> TurnRow]
    BY <1>1, <2>2, <2>3
  <2>5. TypeOK'
    BY <1>1, <2>1, <2>3, <2>4 DEF TypeOK
  <2> QED BY <2>1, <2>3, <2>5, OutsideStep
<1>3. ASSUME NEW k \in Call, NEW decision \in {"approved", "rejected"},
             NEW always \in BOOLEAN, Decide(k, decision, always)
      PROVE  IInv' /\ Stay
  <2> DEFINE p == [approval[k] EXCEPT !.status = decision]
             a == [p EXCEPT !.by = TRUE]
  <2>1. approval' = [approval EXCEPT ![k] = a]
    BY <1>3, Zenon DEF Decide, DecideMCPApproval
  <2>2. approval[k] \in Approval /\ approval[k].status = "pending"
    BY <1>1, <1>3 DEF Decide, MayDecide
  <2>3. p \in Approval /\ p.status = decision /\ p.tool = approval[k].tool
        /\ p.rev = approval[k].rev /\ p.schema = approval[k].schema
    BY <2>2 DEF Approval, Final
  <2> HIDE DEF p
  <2>4. a \in Approval /\ a.status = decision /\ a.by
        /\ a.tool = approval[k].tool
        /\ a.rev = approval[k].rev /\ a.schema = approval[k].schema
    BY <2>3 DEF Approval
  <2> HIDE DEF a
  <2>5. /\ approval' \in [Call -> Approval]
        /\ \A c \in Call : Outside(approval[c], approval'[c])
    BY <1>1, <2>1, <2>2, <2>4 DEF Outside
  <2>6. rule' \in [Tool -> Permission]
    BY <1>1, <1>3 DEF Decide, UpsertMCPToolPermissions, Permission
  <2>7. UNCHANGED <<conn, turn, run, ran>>
    BY <1>3 DEF Decide
  <2>8. TypeOK'
    BY <1>1, <2>5, <2>6, <2>7 DEF TypeOK
  <2> QED BY <2>5, <2>7, <2>8, OutsideStep
<1>4. ASSUME NEW U \in SUBSET Tool, NEW batch \in [U -> Permission],
             PutPermissions(batch)
      PROVE  IInv' /\ Stay
  <2>1. /\ approval' \in [Call -> Approval]
        /\ \A k \in Call : Outside(approval[k], approval'[k])
    BY <1>4, BecomesOutside
       DEF PutPermissions, InvalidatePendingMCPApprovalsForConnectionTools
  <2>2. rule' \in [Tool -> Permission] /\ UNCHANGED <<conn, turn, run, ran>>
    BY <1>1, <1>4 DEF PutPermissions, UpsertMCPToolPermissions
  <2>3. TypeOK'
    BY <1>1, <2>1, <2>2 DEF TypeOK
  <2> QED BY <2>1, <2>2, <2>3, OutsideStep
<1>5. ASSUME NEW tools \in ToolSet,
             CheckConnection(tools) \/ ReplaceConnection(tools)
      PROVE  IInv' /\ Stay
  <2> DEFINE p == [conn EXCEPT !.tools = tools]
             q == [p EXCEPT !.rev = conn.rev + 1]
  <2>1. p \in Connection /\ p.rev = conn.rev /\ conn.rev \in 0..MaxRevision
    BY <1>1 DEF Connection
  <2>2. CASE CheckConnection(tools)
    <3>1. conn' = p /\ UNCHANGED <<rule, turn, run, approval, ran>>
      BY <2>2 DEF CheckConnection, UpdateProjectMCPConnectionChecked
    <3> HIDE DEF p
    <3>2. TypeOK'
      BY <1>1, <2>1, <3>1 DEF TypeOK
    <3>3. \A k \in Call : Outside(approval[k], approval'[k])
      BY <3>1 DEF Outside
    <3> QED BY <3>1, <3>2, <3>3, OutsideStep
  <2>3. CASE ReplaceConnection(tools)
    <3>1. conn' = q
      BY <2>3, Zenon DEF ReplaceConnection, ReplaceProjectMCPConnection
    <3>2. conn.rev < MaxRevision /\ UNCHANGED <<rule, turn, run, ran>>
      BY <2>3 DEF ReplaceConnection
    <3>3. conn.rev + 1 \in 0..MaxRevision
      BY <2>1, <3>2, ValuesAssumption
    <3> HIDE DEF p
    <3>4. q \in Connection
      BY <2>1, <3>3 DEF Connection
    <3> HIDE DEF q
    <3>5. /\ approval' \in [Call -> Approval]
          /\ \A k \in Call : Outside(approval[k], approval'[k])
      BY <2>3, BecomesOutside
         DEF ReplaceConnection, InvalidatePendingMCPApprovalsForConnection
    <3>6. TypeOK'
      BY <1>1, <3>1, <3>2, <3>4, <3>5 DEF TypeOK
    <3> QED BY <3>2, <3>5, <3>6, OutsideStep
  <2> QED BY <1>5, <2>2, <2>3
<1>6. CASE DeleteConnection
  <2>1. conn' \in Connection
    BY <1>6, ValuesAssumption
       DEF DeleteConnection, DeleteProjectMCPConnection, Connection, Nothing,
           ToolSet
  <2>2. rule' \in [Tool -> Permission] /\ UNCHANGED <<turn, run, ran>>
    BY <1>6 DEF DeleteConnection, Permission
  <2>3. /\ approval' \in [Call -> Approval]
        /\ \A k \in Call : Outside(approval[k], approval'[k])
    BY <1>6, BecomesOutside
       DEF DeleteConnection, InvalidatePendingMCPApprovalsForConnection
  <2>4. TypeOK'
    BY <1>1, <2>1, <2>2, <2>3 DEF TypeOK
  <2> QED BY <2>2, <2>3, <2>4, OutsideStep
<1> QED BY <1>2, <1>3, <1>4, <1>5, <1>6 DEF Handler

\* A lease that lapses, and the sweep of the turn it has left.
LEMMA SweepsStep ==
  ASSUME IInv, NEW t \in Turn, LeaseLapses(t) \/ Sweep(t)
  PROVE  IInv' /\ Stay
<1>1. /\ turn \in [Turn -> TurnRow] /\ approval \in [Call -> Approval]
  BY DEF IInv, TypeOK
<1>2. CASE LeaseLapses(t)
  <2>1. [turn[t] EXCEPT !.lease = FALSE] \in TurnRow
    BY <1>1 DEF TurnRow
  <2>2. turn' = [turn EXCEPT ![t] = [turn[t] EXCEPT !.lease = FALSE]]
        /\ UNCHANGED <<conn, rule, run, approval, ran>>
    BY <1>2, Zenon DEF LeaseLapses
  <2>3. turn' \in [Turn -> TurnRow]
    BY <1>1, <2>1, <2>2
  <2>4. TypeOK'
    BY <2>2, <2>3 DEF IInv, TypeOK
  <2>5. \A k \in Call : Outside(approval[k], approval'[k])
    BY <2>2 DEF Outside
  <2> QED BY <2>2, <2>4, <2>5, OutsideStep
<1>3. CASE Sweep(t)
  <2>1. [turn[t] EXCEPT !.status = "ended"] \in TurnRow
    BY <1>1 DEF TurnRow
  <2>2. turn' = [turn EXCEPT ![t] = [turn[t] EXCEPT !.status = "ended"]]
        /\ UNCHANGED <<conn, rule, run, ran>>
    BY <1>3, Zenon DEF Sweep
  <2>3. turn' \in [Turn -> TurnRow]
    BY <1>1, <2>1, <2>2
  <2>4. /\ approval' \in [Call -> Approval]
        /\ \A k \in Call : Outside(approval[k], approval'[k])
    BY <1>3, BecomesOutside DEF Sweep, FailExecutingMCPApprovalsForTurn
  <2>5. TypeOK'
    BY <2>2, <2>3, <2>4 DEF IInv, TypeOK
  <2> QED BY <2>2, <2>4, <2>5, OutsideStep
<1> QED BY <1>2, <1>3

-----------------------------------------------------------------------------
(* Theorems *)

LEMMA InitialInvariant == Init => IInv
<1> SUFFICES ASSUME Init PROVE IInv
  OBVIOUS
<1>1. AnyTool \in Tool /\ Nothing \in ToolSet /\ 0 \in 0..MaxRevision
  BY ValuesAssumption DEF AnyTool, Nothing, ToolSet
<1>2. NewRun(0) \in Run /\ NewRun(0).at = "new" /\ NewRun(0).call = 0
  BY NewRunTyped, ValuesAssumption
<1>3. NoApproval \in Approval /\ NoApproval.status = "none"
  BY <1>1 DEF NoApproval, Approval
<1>4. ~NotRun.done
  BY DEF NotRun
<1>5. conn \in Connection /\ rule \in [Tool -> Permission]
      /\ turn \in [Turn -> TurnRow]
  BY <1>1 DEF Init, Connection, Permission, TurnRow
<1>6. /\ run = [t \in Turn |-> NewRun(0)]
      /\ approval = [k \in Call |-> NoApproval]
      /\ ran = [k \in Call |-> NotRun]
  BY DEF Init
<1>7. TypeOK
  BY <1>2, <1>3, <1>5, <1>6 DEF TypeOK
<1>8. ASSUME NEW k \in Call
      PROVE  RowOK(approval[k], ran[k])
  BY <1>3, <1>4, <1>6 DEF RowOK
<1>9. ASSUME NEW t \in Turn
      PROVE  Ahead(t) /\ HandOK(t)
  <2>1. Ahead(t)
    BY <1>3, <1>4, <1>6 DEF Ahead, Call
  <2>2. HandOK(t)
    BY <1>2, <1>6 DEF HandOK, InHand, Unexecuted, Deciding
  <2> QED BY <2>1, <2>2
<1> QED BY <1>7, <1>8, <1>9 DEF IInv, Rows, Knows

LEMMA StepInvariant ==
  ASSUME IInv, [Next]_vars
  PROVE  IInv' /\ Stay
<1>1. ASSUME NEW t \in Turn,
             Step(t) \/ ApprovalWaitRunsOut(t) \/ Crash(t) \/ LeaseLapses(t)
             \/ Sweep(t)
      PROVE  IInv' /\ Stay
  BY <1>1, RunSteps, SweepsStep
<1>2. CASE Handler
  BY <1>2, HandlersStep
<1>3. CASE UNCHANGED vars
  <2>1. TypeOK' /\ UNCHANGED <<run, ran>> /\ approval' = approval
    BY <1>3 DEF vars, IInv, TypeOK
  <2>2. \A k \in Call : Outside(approval[k], approval'[k])
    BY <2>1 DEF Outside
  <2> QED BY <2>1, <2>2, OutsideStep
<1> QED BY <1>1, <1>2, <1>3 DEF Next

\* Every state satisfies the invariant: what is stored of a call agrees with
\* what was dispatched, and a run knows at each place what its next statement
\* takes as granted (worker.go, mcp_approval.go, app/mcp_approvals.go).
THEOREM Invariance == Spec => []IInv
<1>1. IInv /\ [Next]_vars => IInv'
  BY StepInvariant
<1> QED BY <1>1, InitialInvariant, PTL DEF Spec

\* Every row and goroutine has the shape TypeOK gives it.
THEOREM TypeCorrect == Spec => []TypeOK
<1>1. IInv => TypeOK
  BY DEF IInv
<1> QED BY <1>1, Invariance, PTL

\* A remote call runs by its rule or as its user approved it, whatever
\* decisions, edits of the policy and replacements of the connection come in
\* between (mcpCallGuard).
THEOREM ApprovedRuns == Spec => []RunsAsApproved
<1>1. IInv => RunsAsApproved
  BY DEF IInv, Rows, RowOK, RunsAsApproved
<1> QED BY <1>1, Invariance, PTL

\* A call that is undecided, refused or called off was never dispatched.
THEOREM RefusedStays == Spec => []RefusedNeverRuns
<1>1. IInv => RefusedNeverRuns
  BY DEF IInv, Rows, RowOK, RefusedNeverRuns
<1> QED BY <1>1, Invariance, PTL

\* What is shown as completed was carried out (CompleteMCPApproval).
THEOREM CompletedIsDone == Spec => []CompletedRan
<1>1. IInv => CompletedRan
  BY DEF IInv, Rows, RowOK, CompletedRan
<1> QED BY <1>1, Invariance, PTL

\* Whoever ends an approval first has ended it: the statements of workers,
\* users, managers, stops and sweeps compare its status, and the insert of a
\* call never meets a row.
THEOREM EndsOnce == Spec => EndedApprovalsStay
<1>1. IInv /\ [Next]_vars =>
        [\A k \in Call :
           approval[k].status \in Final => approval'[k] = approval[k]]_vars
  BY StepInvariant DEF Stay
<1> QED BY <1>1, Invariance, PTL DEF Spec, EndedApprovalsStay
=============================================================================
