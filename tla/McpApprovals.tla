---------------------------- MODULE McpApprovals ----------------------------
(***************************************************************************)
(* Calls of remote MCP tools under the policy a project saved for one of   *)
(* its connections: "allow" runs a call, "deny" refuses it, "ask" holds it *)
(* until the user has decided.                                             *)
(*                                                                         *)
(* A worker's run of a turn dials a session, gates each call, asks, waits  *)
(* in place, checks again and dispatches, one action for each statement or *)
(* remote call.  Between any two of them users decide approvals, managers  *)
(* edit the policy, check, replace or remove the connection, turns are     *)
(* stopped, processes crash, leases lapse and the sweep fails their turns. *)
(* The output mark precedes the first call, so no turn seen here is        *)
(* retried; ChatTurns has the rest of its life.                            *)
(***************************************************************************)
EXTENDS Naturals, FiniteSets

CONSTANTS
  Turn,                  \* running turns of one project
  MaxCalls,              \* bound: tool calls of a turn
  Tool,                  \* exact remote names of the connection's tools
  Schema, NoSchema,      \* digests of input schemas; the tool is not there
  MaxRevision            \* bound: replacements of the connection

ASSUME ValuesAssumption ==
  /\ MaxCalls \in Nat /\ MaxRevision \in Nat
  /\ NoSchema \notin Schema
  /\ Tool # {}

VARIABLES
  conn,      \* the project_mcp_connections row
  rule,      \* per tool: its saved permission; a missing row means ask
  turn,      \* per turn: what its row says of its run
  run,       \* per turn: the goroutine that runs it
  approval,  \* per call: its ai_mcp_approvals row
  ran        \* per call: what was dispatched to the remote server (history)

vars == <<conn, rule, turn, run, approval, ran>>

-----------------------------------------------------------------------------
(* Rows and goroutines *)

Call       == Turn \X (1..MaxCalls)
Permission == {"ask", "allow", "deny"}
ToolSet    == [Tool -> Schema \cup {NoSchema}]
Final      == {"rejected", "invalidated", "completed", "failed"}

Connection == [exists : BOOLEAN, rev : 0..MaxRevision, tools : ToolSet]

TurnRow == [status : {"running", "ended"}, lease : BOOLEAN, cancel : BOOLEAN]

\* by: decided_by is set, which only the decision of the user does.
Approval ==
  [ status : {"none", "pending", "approved", "executing"} \cup Final,
    by     : BOOLEAN,
    tool   : Tool,
    rev    : 0..MaxRevision,
    schema : Schema \cup {NoSchema} ]

Run ==
  [ at      : {"new", "dialing", "round", "asking", "waiting", "refreshing",
               "closing", "rechecking", "marking", "announcing", "guarding",
               "calling", "returned", "completing", "ending", "gone"},
    call    : 0..MaxCalls,             \* number of the call in hand
    rev     : 0..MaxRevision,          \* the handle's revision
    tools   : ToolSet,                 \* what the live session serves
    tool    : Tool,                    \* the tool of the call in hand
    saw     : {"none", "pending", "approved", "refused"},
    late    : BOOLEAN,                 \* the approval wait has run out
    proof   : SUBSET Tool,             \* mcpHandleSet.approved
    outcome : {"none", "completed", "failed"},
    ruled   : Permission ]             \* history: the rule the guard saw

NotRun   == [done |-> FALSE]
Dispatch ==
  [done : {TRUE}, tool : Tool, rev : 0..MaxRevision,
   schema : Schema \cup {NoSchema}, ruled : Permission]

TypeOK ==
  /\ conn \in Connection
  /\ rule \in [Tool -> Permission]
  /\ turn \in [Turn -> TurnRow]
  /\ run \in [Turn -> Run]
  /\ approval \in [Call -> Approval]
  /\ ran \in [Call -> Dispatch \cup {NotRun}]

Nothing == [u \in Tool |-> NoSchema]
AnyTool == CHOOSE u \in Tool : TRUE

NoApproval ==
  [status |-> "none", by |-> FALSE, tool |-> AnyTool, rev |-> 0,
   schema |-> NoSchema]

NewRun(n) ==
  [at |-> "new", call |-> n, rev |-> 0, tools |-> Nothing, tool |-> AnyTool,
   saw |-> "none", late |-> FALSE, proof |-> {}, outcome |-> "none",
   ruled |-> "ask"]

\* A connection is created with the tools its discovery found.
Init ==
  /\ conn \in [exists : {TRUE}, rev : {0}, tools : ToolSet]
  /\ rule = [u \in Tool |-> "ask"]
  /\ turn = [t \in Turn |->
               [status |-> "running", lease |-> TRUE, cancel |-> FALSE]]
  /\ run = [t \in Turn |-> NewRun(0)]
  /\ approval = [k \in Call |-> NoApproval]
  /\ ran = [k \in Call |-> NotRun]

-----------------------------------------------------------------------------
(* Statements on approval rows: each gives the approvals it leaves *)

Of(t) == <<t, run[t].call>>

\* The approvals of K whose status is in S get the status s.
Become(K, S, s) ==
  [k \in Call |-> IF k \in K /\ approval[k].status \in S
                    THEN [approval[k] EXCEPT !.status = s]
                    ELSE approval[k]]

CreateMCPApproval(k, u, rev, schema) ==
  [approval EXCEPT ![k] =
     [status |-> "pending", by |-> FALSE, tool |-> u, rev |-> rev,
      schema |-> schema]]

DecideMCPApproval(k, decision) ==
  [approval EXCEPT ![k].status = decision, ![k].by = TRUE]

\* Mutant: completion does not compare the status.
CompleteAnyway(k, outcome) == Become({k}, {"executing"} \cup Final, outcome)

MarkMCPApprovalExecuting(k) == Become({k}, {"approved"}, "executing")
CompleteMCPApproval(k, outcome) == Become({k}, {"executing"}, outcome)

closeApproval(k, s) == Become({k}, {"pending", "approved"}, s)

InvalidatePendingMCPApprovalsForTurn(t) ==
  Become({t} \X (1..MaxCalls), {"pending"}, "invalidated")

InvalidatePendingMCPApprovalsForConnection ==
  Become(Call, {"pending"}, "invalidated")

InvalidatePendingMCPApprovalsForConnectionTools(U) ==
  Become({k \in Call : approval[k].tool \in U}, {"pending"}, "invalidated")

FailExecutingMCPApprovalsForTurn(t) ==
  Become({t} \X (1..MaxCalls), {"executing"}, "failed")

-----------------------------------------------------------------------------
(* Statements on the connection and its rules *)

UpsertMCPToolPermissions(batch) ==
  [u \in Tool |-> IF u \in DOMAIN batch THEN batch[u] ELSE rule[u]]

UpdateProjectMCPConnectionChecked(tools) == [conn EXCEPT !.tools = tools]

ReplaceProjectMCPConnection(tools) ==
  [conn EXCEPT !.tools = tools, !.rev = @ + 1]

DeleteProjectMCPConnection == [exists |-> FALSE, rev |-> 0, tools |-> Nothing]

-----------------------------------------------------------------------------
(* What a worker checks *)

\* The guard of every write of the worker on its turn.
Owns(t) == turn[t].status = "running" /\ turn[t].lease

liveMCPToolDigest(t, u) == run[t].tools[u]

\* The saved row still has the revision rev and lists the tool.
GetMCPConnectionForCall(rev, u) ==
  conn.exists /\ conn.rev = rev /\ conn.tools[u] # NoSchema

verifyMCPCallCurrent(t, u) == GetMCPConnectionForCall(run[t].rev, u)

\* The session still is what the connection was last found to be.
UpToDate(t, u) ==
  verifyMCPCallCurrent(t, u) /\ liveMCPToolDigest(t, u) = conn.tools[u]

\* Mutant: the guard trusts the decision taken at the gate.
GuardWithoutRule(t, u) == UpToDate(t, u) /\ rule[u] # "deny"

mcpCallGuard(t, u) ==
  /\ UpToDate(t, u)
  /\ \/ rule[u] = "allow"
     \/ rule[u] = "ask" /\ u \in run[t].proof

\* What the safety read of PrepareMCPApproval shows again may have changed or
\* be out of reach by now: same tells whether it is what the user was shown.
approvedCallUnchanged(t, u, same) ==
  /\ UpToDate(t, u)
  /\ rule[u] # "deny"
  /\ conn.tools[u] = approval[Of(t)].schema
  /\ same

-----------------------------------------------------------------------------
(* The run of a turn *)

Goto(t, at)     == run' = [run EXCEPT ![t].at = at]
Quit(t)         ==
  run' = [run EXCEPT ![t] = [NewRun(@.call) EXCEPT !.at = "gone"]]
OnlyRun         == UNCHANGED <<conn, rule, turn, approval, ran>>

\* loadMCPConnections reads the row before it reads the permissions.
Load(t) ==
  /\ run[t].at = "new"
  /\ run' = [run EXCEPT ![t].at = IF conn.exists THEN "dialing" ELSE "round",
                        ![t].rev = conn.rev]
  /\ OnlyRun

\* setupMCP: the server answers the dial as it likes; denied tools are left
\* out, any other may be (disabled, over a bound, refused by the registry).
setupMCP(t) ==
  /\ run[t].at = "dialing"
  /\ \E tools \in ToolSet :
       /\ \A u \in Tool : rule[u] = "deny" => tools[u] = NoSchema
       /\ run' = [run EXCEPT ![t].at = "round", ![t].tools = tools]
  /\ OnlyRun

\* The gate may refuse any call (membership, arguments) and must refuse one
\* that is denied or whose tool has moved.
Gate(t, u) ==
  {"round"} \cup
  IF UpToDate(t, u) /\ rule[u] # "deny"
    THEN {IF rule[u] = "allow" THEN "announcing" ELSE "asking"} ELSE {}

\* A call begins with the lease refreshed, no stop seen and the proof of the
\* call before dropped (clearApproved).
BeginCall(t) ==
  /\ run[t].at = "round" /\ run[t].call < MaxCalls
  /\ Owns(t) /\ ~turn[t].cancel
  /\ \E u \in Tool : \E at \in Gate(t, u) :
       /\ run[t].tools[u] # NoSchema
       /\ run' = [run EXCEPT ![t].at = at, ![t].call = @ + 1, ![t].tool = u,
                             ![t].proof = {}]
  /\ OnlyRun

\* A question parks the turn; its answer has it claimed and set up again.
ParkAndResume(t) ==
  /\ run[t].at = "round" /\ run[t].call < MaxCalls
  /\ Owns(t) /\ ~turn[t].cancel
  /\ run' = [run EXCEPT ![t] = NewRun(@.call + 1)]
  /\ OnlyRun

\* The insert looks neither at the lease nor at a stop.
requestMCPApproval(t) ==
  /\ run[t].at = "asking"
  /\ approval' = CreateMCPApproval(Of(t), run[t].tool, run[t].rev,
                                   liveMCPToolDigest(t, run[t].tool))
  /\ run' = [run EXCEPT ![t].at = "waiting", ![t].late = FALSE]
  /\ UNCHANGED <<conn, rule, turn, ran>>

\* waitForApprovalDecision: the status is read, then the lease refreshed.
ReadDecision(t) ==
  /\ run[t].at = "waiting"
  /\ run' = [run EXCEPT
       ![t].at = "refreshing",
       ![t].saw = IF approval[Of(t)].status \in {"pending", "approved"}
                    THEN approval[Of(t)].status ELSE "refused"]
  /\ OnlyRun

ApprovalWaitRunsOut(t) ==
  /\ run[t].at \in {"waiting", "refreshing"} /\ ~run[t].late
  /\ run' = [run EXCEPT ![t].late = TRUE]
  /\ OnlyRun

\* Mutant: a wait has no end of its own.
AfterPollForEver(t) ==
  CASE ~Owns(t) \/ turn[t].cancel  -> "ending"
    [] run[t].saw = "approved"     -> "rechecking"
    [] run[t].saw = "pending"      -> "waiting"
    [] OTHER                       -> "round"

\* What a poll does next.
AfterPoll(t) ==
  CASE ~Owns(t) \/ turn[t].cancel  -> "ending"
    [] run[t].saw = "approved"     -> "rechecking"
    [] run[t].saw = "pending"      -> IF run[t].late THEN "closing" ELSE "waiting"
    [] OTHER                       -> "round"

Poll(t) ==
  /\ run[t].at = "refreshing"
  /\ run' = [run EXCEPT ![t].at = AfterPoll(t), ![t].saw = "none"]
  /\ OnlyRun

\* Nobody answered: the call is denied even when the update fails.
GiveUpWaiting(t) ==
  /\ run[t].at = "closing"
  /\ approval' \in {closeApproval(Of(t), "rejected"), approval}
  /\ Goto(t, "round")
  /\ UNCHANGED <<conn, rule, turn, ran>>

Recheck(t) ==
  /\ run[t].at = "rechecking"
  /\ \E same \in BOOLEAN :
       IF approvedCallUnchanged(t, run[t].tool, same)
         THEN Goto(t, "marking") /\ UNCHANGED approval
         ELSE /\ approval' \in {closeApproval(Of(t), "invalidated"), approval}
              /\ Goto(t, "ending")
  /\ UNCHANGED <<conn, rule, turn, ran>>

MarkExecuting(t) ==
  /\ run[t].at = "marking"
  /\ approval' = MarkMCPApprovalExecuting(Of(t))
  /\ IF approval[Of(t)].status = "approved"
       THEN run' = [run EXCEPT ![t].at = "announcing",
                               ![t].proof = @ \cup {run[t].tool}]
       ELSE Goto(t, "ending")
  /\ UNCHANGED <<conn, rule, turn, ran>>

\* The row of the call, then its event, which the lease guards.
Announce(t) ==
  /\ run[t].at = "announcing"
  /\ Goto(t, IF Owns(t) THEN "guarding" ELSE "ending")
  /\ OnlyRun

Returned(t, outcome) ==
  run' = [run EXCEPT ![t].at = "returned", ![t].outcome = outcome,
                     ![t].ruled = "ask"]

\* Mutant: a blocked call has a status of its own.
BlockedAsSuch == "blocked"

\* Mutant: the text of the error is a result like any other.
BlockedAsResult == "completed"

\* mcpTool.Execute: a call the guard blocks returns the text of an error,
\* which normalizeToolCallResult makes a failure.
BlockedOutcome == "failed"

CheckGuard(t) ==
  /\ run[t].at = "guarding"
  /\ IF mcpCallGuard(t, run[t].tool)
       THEN run' = [run EXCEPT ![t].at = "calling",
                               ![t].ruled = rule[run[t].tool]]
       ELSE Returned(t, BlockedOutcome)
  /\ OnlyRun

\* A failed call may or may not have been carried out.
RemoteCall(t) ==
  /\ run[t].at = "calling"
  /\ \E done \in BOOLEAN, outcome \in {"completed", "failed"} :
       /\ outcome = "completed" => done
       /\ Returned(t, outcome)
       /\ ran' = IF done
                   THEN [ran EXCEPT ![Of(t)] =
                           [done |-> TRUE, tool |-> run[t].tool,
                            rev |-> run[t].rev,
                            schema |-> liveMCPToolDigest(t, run[t].tool),
                            ruled |-> run[t].ruled]]
                   ELSE ran
  /\ UNCHANGED <<conn, rule, turn, approval>>

\* The proof is dropped; the result's event is guarded by the lease.
RecordResult(t) ==
  /\ run[t].at = "returned"
  /\ run' = [run EXCEPT
       ![t].at = IF ~Owns(t) THEN "ending"
                 ELSE IF approval[Of(t)].status = "none" THEN "round"
                 ELSE "completing",
       ![t].proof = @ \ {run[t].tool}]
  /\ OnlyRun

CompleteApproval(t) ==
  /\ run[t].at = "completing"
  /\ approval' = CompleteMCPApproval(Of(t), run[t].outcome)
  /\ Goto(t, "round")
  /\ UNCHANGED <<conn, rule, turn, ran>>

\* Errors of the database, a stop seen or the turn's time running out end the
\* round; some of them leave the turn to the sweep.
LeaveRound(t) ==
  /\ run[t].at \notin {"guarding", "calling", "ending", "gone"}
  /\ Goto(t, "ending") \/ Quit(t)
  /\ OnlyRun

\* finalize: the answer of the model, a stop or a failure, if still the owner.
Finalize(t) ==
  /\ run[t].at \in {"round", "ending"}
  /\ turn' = IF Owns(t)
               THEN [turn EXCEPT ![t].status = "ended", ![t].lease = FALSE]
               ELSE turn
  /\ Quit(t)
  /\ UNCHANGED <<conn, rule, approval, ran>>

Crash(t) == run[t].at # "gone" /\ Quit(t) /\ OnlyRun

-----------------------------------------------------------------------------
(* The sweep, and the handlers: a transaction each *)

LeaseLapses(t) ==
  /\ Owns(t)
  /\ turn' = [turn EXCEPT ![t].lease = FALSE]
  /\ UNCHANGED <<conn, rule, run, approval, ran>>

\* recover, or the sweep of a submission: output has started, so it fails.
Sweep(t) ==
  /\ turn[t].status = "running" /\ ~turn[t].lease
  /\ turn' = [turn EXCEPT ![t].status = "ended"]
  /\ approval' = FailExecutingMCPApprovalsForTurn(t)
  /\ UNCHANGED <<conn, rule, run, ran>>

Cancel(t) ==
  /\ turn[t].status = "running"
  /\ turn' = [turn EXCEPT ![t].cancel = TRUE]
  /\ approval' = InvalidatePendingMCPApprovalsForTurn(t)
  /\ UNCHANGED <<conn, rule, run, ran>>

\* checkMCPApprovalCurrent: the saved row still is what the card was made of.
checkMCPApprovalCurrent(k) ==
  /\ conn.exists
  /\ conn.rev = approval[k].rev
  /\ conn.tools[approval[k].tool] = approval[k].schema

\* Mutant: a decision is taken whatever the approval has become.
MayDecideAgain(k, decision, always) ==
  /\ approval[k].status \notin {"none", "executing"}
  /\ turn[k[1]].status = "running"
  /\ always => decision = "approved"

\* What a pending approval needs for the decision; always is always_allow,
\* which takes a manager and lifts a deny.
MayDecide(k, decision, always) ==
  /\ approval[k].status = "pending"
  /\ turn[k[1]].status = "running"
  /\ decision = "approved" =>
       /\ checkMCPApprovalCurrent(k)
       /\ rule[approval[k].tool] # "deny" \/ always
  /\ always => decision = "approved"

\* A repeated decision changes nothing and is left out.
Decide(k, decision, always) ==
  /\ MayDecide(k, decision, always)
  /\ approval' = DecideMCPApproval(k, decision)
  /\ rule' = IF always
               THEN UpsertMCPToolPermissions([u \in {approval[k].tool} |-> "allow"])
               ELSE rule
  /\ UNCHANGED <<conn, turn, run, ran>>

\* A batch of rules for tools the connection lists.
PutPermissions(batch) ==
  /\ conn.exists
  /\ \A u \in DOMAIN batch : conn.tools[u] # NoSchema
  /\ approval' = InvalidatePendingMCPApprovalsForConnectionTools(
                   {u \in DOMAIN batch : batch[u] = "deny"})
  /\ rule' = UpsertMCPToolPermissions(batch)
  /\ UNCHANGED <<conn, turn, run, ran>>

\* Check and replace read the row, ask the server, then compare the revision;
\* what the server answers is open, so the comparison is all that is left.
CheckConnection(tools) ==
  /\ conn.exists
  /\ conn' = UpdateProjectMCPConnectionChecked(tools)
  /\ UNCHANGED <<rule, turn, run, approval, ran>>

ReplaceConnection(tools) ==
  /\ conn.exists /\ conn.rev < MaxRevision
  /\ conn' = ReplaceProjectMCPConnection(tools)
  /\ approval' = InvalidatePendingMCPApprovalsForConnection
  /\ UNCHANGED <<rule, turn, run, ran>>

\* The rules go with the row.
DeleteConnection ==
  /\ conn.exists
  /\ conn' = DeleteProjectMCPConnection
  /\ approval' = InvalidatePendingMCPApprovalsForConnection
  /\ rule' = [u \in Tool |-> "ask"]
  /\ UNCHANGED <<turn, run, ran>>

-----------------------------------------------------------------------------
(* Specification *)

Step(t) ==
  \/ Load(t) \/ setupMCP(t) \/ BeginCall(t) \/ ParkAndResume(t)
  \/ requestMCPApproval(t) \/ ReadDecision(t) \/ Poll(t) \/ GiveUpWaiting(t)
  \/ Recheck(t) \/ MarkExecuting(t) \/ Announce(t) \/ CheckGuard(t)
  \/ RemoteCall(t) \/ RecordResult(t) \/ CompleteApproval(t)
  \/ LeaveRound(t) \/ Finalize(t)

Handler ==
  \/ \E t \in Turn : Cancel(t)
  \/ \E k \in Call, decision \in {"approved", "rejected"}, always \in BOOLEAN :
       Decide(k, decision, always)
  \/ \E U \in SUBSET Tool \ {{}} : \E batch \in [U -> Permission] :
       PutPermissions(batch)
  \/ \E tools \in ToolSet :
       CheckConnection(tools) \/ ReplaceConnection(tools)
  \/ DeleteConnection

Next ==
  \/ \E t \in Turn :
       Step(t) \/ ApprovalWaitRunsOut(t) \/ Crash(t) \/ LeaseLapses(t) \/ Sweep(t)
  \/ Handler

\* A goroutine goes on, its wait has a deadline, the lease of a turn that
\* nobody runs lapses and the sweep comes by.
Fairness ==
  \A t \in Turn :
    /\ WF_vars(Step(t)) /\ WF_vars(ApprovalWaitRunsOut(t)) /\ WF_vars(Sweep(t))
    /\ WF_vars(run[t].at = "gone" /\ LeaseLapses(t))

Spec == Init /\ [][Next]_vars /\ Fairness

-----------------------------------------------------------------------------
(* Properties *)

\* A remote call dispatched while the rule was not "allow" has its user's
\* approval, of this very call, tool, revision and schema (worker.go:866-987,
\* mcpCallGuard): no proof of another call, no decision made for what the
\* connection was before, no rule edited in between.
RunsAsApproved ==
  \A k \in Call :
    ran[k].done /\ ran[k].ruled # "allow" =>
      /\ ran[k].ruled = "ask"
      /\ approval[k].status \in {"executing", "completed", "failed"}
      /\ approval[k].by
      /\ approval[k].tool = ran[k].tool
      /\ approval[k].rev = ran[k].rev
      /\ approval[k].schema = ran[k].schema

\* A call whose approval is open, was rejected, was invalidated by a stop or a
\* change of its connection, or timed out was never dispatched.
RefusedNeverRuns ==
  \A k \in Call :
    approval[k].status \in {"pending", "approved", "rejected", "invalidated"} =>
      ~ran[k].done

\* An approval shown as completed was carried out by the remote server.
CompletedRan ==
  \A k \in Call : approval[k].status = "completed" => ran[k].done

\* Users, managers, stops, timeouts, sweeps and the worker race for the same
\* row: what ends it is final.
EndedApprovalsStay ==
  [][\A k \in Call :
       approval[k].status \in Final => approval'[k] = approval[k]]_vars

\* No wait holds a turn for good: every turn ends, whoever crashes or forgets
\* to decide.
TurnsEnd == \A t \in Turn : <>(turn[t].status = "ended")

=============================================================================
