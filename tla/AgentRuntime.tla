---------------------------- MODULE AgentRuntime ----------------------------
(***************************************************************************)
(* The agent runtime: turns and forced job runs work side by side on the    *)
(* sessions of one durable store.  A turn numbers its records once, when it *)
(* starts, and appends them one by one between calls of the provider and of *)
(* the tools; any of these may fail, and the process may crash and start    *)
(* again.  Responses are then delivered by whoever dispatches them.         *)
(***************************************************************************)
EXTENDS RuntimeStore

CONSTANTS
  Turns,          \* the turns that may be run
  Loads,          \* bounds of a behaviour: its turns, what their provider may answer,
                  \*   dispatchers and cancellers, faults and crashes
  JobOf(_),       \* the job a turn is a forced run of, or Without
  Origin(_),      \* the channel a turn comes from
  Definitions(_), \* the definitions that may be stored for a job
  ExecutorOf(_),  \* the executor a tool is registered with, or Without
  ContextOf(_),   \* the session and channel its executor was built with
  MaxIterations,  \* max_tool_iterations
  Senders,        \* concurrent dispatchers and cancellers of deliveries
  Attempts        \* bound: attempts to deliver after which nobody starts another

VARIABLES
  load,      \* the bounds of this behaviour
  turn,      \* the state of every turn
  earlier,   \* per turn, the turns of its session that had ended when it started
  executed,  \* calls a tool was run for
  sender,    \* the state of every dispatcher
  attempted, \* per delivery, what the channel answered to each attempt
  faults,
  crashes

vars == <<storeVars, turn, earlier, executed, sender, attempted, faults, crashes, load>>

Idle == [st |-> "idle", session |-> <<>>, seq |-> 0, left |-> 0, calls |-> <<>>,
         audit |-> 0, decision |-> Without, result |-> Without]
NoDelivery == [st |-> "idle", of |-> Without, op |-> Without, copy |-> queued(<<>>)]

Init ==
  /\ load \in Loads
  /\ table = <<>> /\ audits = <<>>
  /\ definitions = <<>> /\ runs = <<>> /\ deliveries = <<>>
  /\ turn = [t \in Turns |-> Idle]
  /\ earlier = [t \in Turns |-> {}]
  /\ executed = {}
  /\ sender = [s \in Senders |-> NoDelivery]
  /\ attempted = <<>>
  /\ faults = 0 /\ crashes = 0

NoFault == UNCHANGED faults
Fault == faults < load.faults /\ faults' = faults + 1
Steps(t, new) == turn' = [turn EXCEPT ![t] = new]
Ended == {t \in Turns : turn[t].st \in {"ok", "err", "dead"}}

TurnStep == UNCHANGED <<definitions, deliveries, earlier, sender, attempted, crashes, load>>

-----------------------------------------------------------------------------
(* Job definitions are stored by whoever configures the runtime. *)
PutDefinition ==
  /\ \E job \in {JobOf(t) : t \in load.turns} \ ({Without} \cup DOMAIN definitions) :
       \E d \in Definitions(job) : put_job_definition(job, d)
  /\ UNCHANGED <<table, audits, runs, deliveries, turn, earlier, executed, sender, attempted, faults, crashes, load>>

(* A job that is not defined or disabled is not run.  Without a session of  *)
(* its own definition a run gets one of its own.                            *)
ForceRunJob(t) ==
  LET job == JobOf(t)
      runnable == job \in DOMAIN definitions /\ definitions[job].enabled
      session == IF definitions[job].session = <<>> THEN <<job, t>> ELSE definitions[job].session
  IN  /\ turn[t].st = "idle" /\ t \in load.turns /\ job # Without
      /\ IF ~runnable THEN Steps(t, [Idle EXCEPT !.st = "err"]) /\ UNCHANGED <<runs, faults>>
         ELSE \/ /\ put_job_run(t, [session |-> session, status |-> "Queued",
                                    started |-> next_sequence(session), completed |-> 0])
                 /\ Steps(t, [Idle EXCEPT !.st = "queued", !.session = session]) /\ NoFault
              \/ Steps(t, [Idle EXCEPT !.st = "err"]) /\ UNCHANGED runs /\ Fault
      /\ UNCHANGED <<table, audits, executed>> /\ TurnStep

StartRun(t) ==
  /\ turn[t].st = "queued"
  /\ \/ put_job_run(t, [runs[t] EXCEPT !.status = "Running"])
        /\ Steps(t, [turn[t] EXCEPT !.st = "number"]) /\ NoFault
     \/ Steps(t, [turn[t] EXCEPT !.st = "err"]) /\ UNCHANGED runs /\ Fault
  /\ UNCHANGED <<table, audits, executed>> /\ TurnStep

(* A message of a channel continues the session of its origin. *)
RunChannelTurn(t) ==
  /\ turn[t].st = "idle" /\ t \in load.turns /\ JobOf(t) = Without
  /\ Steps(t, [Idle EXCEPT !.st = "number", !.session = session_id(Origin(t))])
  /\ UNCHANGED <<table, audits, runs, executed, faults>> /\ TurnStep

-----------------------------------------------------------------------------
(* How run_turn ends: for a job the run is concluded next. *)
Returns(t, result) ==
  Steps(t, [turn[t] EXCEPT !.st = IF JobOf(t) # Without THEN "conclude" ELSE result,
                           !.result = result, !.calls = <<>>])

\* Mutant: running out of iterations is taken for an answer.
LimitIsSuccess(t) == Returns(t, "ok")

IterationLimit(t) == Returns(t, "err")

(* run_turn numbers its records from what its session holds when it starts. *)
Number(t) ==
  /\ turn[t].st = "number"
  /\ \/ /\ Steps(t, [turn[t] EXCEPT !.st = "user", !.seq = next_sequence(turn[t].session)])
        /\ earlier' = [earlier EXCEPT ![t] = {u \in Ended : turn[u].session = turn[t].session}]
        /\ NoFault
     \/ Returns(t, "err") /\ Fault /\ UNCHANGED earlier
  /\ UNCHANGED <<storeVars, executed, sender, attempted, crashes, load>>

(* A record is appended and the turn goes on; an error ends the turn. *)
Appends(t, kind, call, new) ==
  /\ \/ /\ append([session |-> turn[t].session, turn |-> t, kind |-> kind, call |-> call, seq |-> turn[t].seq])
        /\ Steps(t, [new EXCEPT !.seq = @ + 1]) /\ NoFault
     \/ Returns(t, "err") /\ UNCHANGED table /\ Fault
  /\ UNCHANGED <<audits, runs, executed>> /\ TurnStep

UserMessage(t) ==
  /\ turn[t].st = "user"
  /\ Appends(t, "UserMessage", Without, [turn[t] EXCEPT !.st = "provider", !.left = MaxIterations])

(* Tool arguments that cannot be parsed make the whole response an error. *)
try_from(r) == \A i \in DOMAIN r.calls : r.calls[i].parses

(* The provider is asked until it answers with a text, even if it also      *)
(* names tools, or the iterations are used up.                              *)
Complete(t) ==
  /\ turn[t].st = "provider"
  /\ IF turn[t].left = 0 THEN IterationLimit(t) /\ NoFault
     ELSE \/ \E r \in load.responses[t] :
               /\ NoFault
               /\ IF ~try_from(r) THEN Returns(t, "err")
                  ELSE Steps(t, [turn[t] EXCEPT !.left = @ - 1, !.calls = IF r.text THEN <<>> ELSE r.calls,
                                   !.st = IF r.text THEN "final" ELSE IF r.calls = <<>> THEN "provider" ELSE "call"])
          \/ Returns(t, "err") /\ Fault
  /\ UNCHANGED <<table, audits, runs, executed>> /\ TurnStep

FinalText(t) ==
  /\ turn[t].st = "final"
  /\ \/ /\ append([session |-> turn[t].session, turn |-> t, kind |-> "AssistantMessage",
                   call |-> Without, seq |-> turn[t].seq])
        /\ Returns(t, "ok") /\ NoFault
     \/ Returns(t, "err") /\ UNCHANGED table /\ Fault
  /\ UNCHANGED <<audits, runs, executed>> /\ TurnStep

RecordCall(t) ==
  /\ turn[t].st = "call"
  /\ Appends(t, "AssistantToolCall", Head(turn[t].calls).id, [turn[t] EXCEPT !.st = "authorize"])

-----------------------------------------------------------------------------
(* The tool call at hand; every outcome, an error too, is a result.         *)
Call(t) == Head(turn[t].calls)
Tool(t) == Call(t).tool
GetsResult(t) == Steps(t, [turn[t] EXCEPT !.st = "result", !.audit = 0, !.decision = Without])

\* Mutant: a tool runs although its audit could not be stored.
AuditFailureIgnored(t) == Steps(t, [turn[t] EXCEPT !.st = "execute"])

AuditFails(t) == GetsResult(t)

(* A tool that is not registered is an error; a secured one runs only when  *)
(* the rules allow it; an audited one only after its audit is stored under  *)
(* the number that was free when the audits were listed.                    *)
Proceeds(t, decision) ==
  IF decision = "Allow" THEN Steps(t, [turn[t] EXCEPT !.st = "execute"]) ELSE GetsResult(t)

Authorize(t) ==
  LET executor == ExecutorOf(Tool(t))
      decision == decision_for(Tool(t), ContextOf(Tool(t)))
  IN  /\ turn[t].st = "authorize"
      /\ \/ executor = Without /\ GetsResult(t) /\ NoFault
         \/ executor = "plain" /\ Proceeds(t, "Allow") /\ NoFault
         \/ executor = "secure" /\ Proceeds(t, decision) /\ NoFault
         \/ /\ executor = "audited"
            /\ \/ Steps(t, [turn[t] EXCEPT !.st = "audit", !.audit = NextAudit, !.decision = decision]) /\ NoFault
               \/ GetsResult(t) /\ Fault
      /\ UNCHANGED <<table, audits, runs, executed>> /\ TurnStep

Audit(t) ==
  /\ turn[t].st = "audit"
  /\ \/ /\ append_authorization_audit([seq |-> turn[t].audit, turn |-> t, call |-> Call(t).id,
                                        decision |-> turn[t].decision])
        /\ Proceeds(t, turn[t].decision) /\ NoFault
     \/ AuditFails(t) /\ UNCHANGED audits /\ Fault
  /\ UNCHANGED <<table, runs, executed>> /\ TurnStep

ExecuteTool(t) ==
  /\ turn[t].st = "execute"
  /\ executed' = executed \cup {[turn |-> t, call |-> Call(t).id, tool |-> Tool(t)]}
  /\ GetsResult(t)
  /\ UNCHANGED <<table, audits, runs, faults>> /\ TurnStep

RecordResult(t) ==
  /\ turn[t].st = "result"
  /\ Appends(t, "ToolResult", Call(t).id,
             [turn[t] EXCEPT !.calls = Tail(@), !.st = IF Len(turn[t].calls) = 1 THEN "provider" ELSE "call"])

-----------------------------------------------------------------------------
(* The run is concluded with the number of records its session holds now;   *)
(* if the store fails, it is left as Running.                               *)
ConcludeRun(t) ==
  /\ turn[t].st = "conclude"
  /\ \/ /\ put_job_run(t, [runs[t] EXCEPT !.completed = Len(records(turn[t].session)),
                             !.status = IF turn[t].result = "ok" THEN "Succeeded" ELSE "Failed"])
        /\ Steps(t, [turn[t] EXCEPT !.st = turn[t].result]) /\ NoFault
     \/ Steps(t, [turn[t] EXCEPT !.st = "err"]) /\ UNCHANGED runs /\ Fault
  /\ UNCHANGED <<table, audits, executed>> /\ TurnStep

(* The caller queues the response of a turn for its channel. *)
EnqueueResponse(t) ==
  /\ turn[t].st = "ok" /\ t \notin DOMAIN deliveries /\ load.senders # {}
  /\ put_outbound_delivery(t, queued(turn[t].session))
  /\ attempted' = Insert(attempted, t, <<>>)
  /\ UNCHANGED <<table, audits, definitions, runs, turn, earlier, executed, sender, faults, crashes, load>>

-----------------------------------------------------------------------------
SenderStep == UNCHANGED <<table, audits, definitions, runs, turn, earlier, executed, crashes, load>>
Sends(s, new) == sender' = [sender EXCEPT ![s] = new]

(* A delivery is read, whatever its status, to be dispatched or cancelled. *)
ReadDelivery(s) ==
  /\ sender[s].st = "idle" /\ s \in load.senders
  /\ \E t \in DOMAIN deliveries, op \in {"dispatch", "cancel"} :
       /\ Len(attempted[t]) < Attempts
       /\ Sends(s, [st |-> "read", of |-> t, op |-> op, copy |-> deliveries[t]])
  /\ UNCHANGED <<deliveries, attempted, faults>> /\ SenderStep

(* The channel takes the copy or refuses it. *)
Deliver(s) ==
  /\ sender[s].st = "read" /\ sender[s].op = "dispatch"
  /\ \E accepted \in BOOLEAN :
       /\ Sends(s, [sender[s] EXCEPT !.st = "put",
                      !.copy = IF accepted THEN mark_sent(@) ELSE record_failure(@)])
       /\ attempted' = [attempted EXCEPT ![sender[s].of] = Append(@, accepted)]
  /\ UNCHANGED <<deliveries, faults>> /\ SenderStep

Cancel(s) ==
  /\ sender[s].st = "read" /\ sender[s].op = "cancel"
  /\ Sends(s, [sender[s] EXCEPT !.st = "put", !.copy = mark_cancelled(@)])
  /\ UNCHANGED <<deliveries, attempted, faults>> /\ SenderStep

(* The copy replaces what is stored by then. *)
PutDelivery(s) ==
  /\ sender[s].st = "put"
  /\ Sends(s, NoDelivery)
  /\ \/ put_outbound_delivery(sender[s].of, sender[s].copy) /\ NoFault
     \/ UNCHANGED deliveries /\ Fault
  /\ UNCHANGED attempted /\ SenderStep

-----------------------------------------------------------------------------
(* A crash ends what was under way; what is stored stays. *)
Crash ==
  /\ crashes < load.crashes /\ crashes' = crashes + 1
  /\ turn' = [t \in Turns |-> IF turn[t].st = "idle" \/ t \in Ended THEN turn[t]
                             ELSE [Idle EXCEPT !.st = "dead", !.session = turn[t].session]]
  /\ sender' = [s \in Senders |-> NoDelivery]
  /\ UNCHANGED <<storeVars, earlier, executed, attempted, faults, load>>

Next ==
  \/ PutDefinition \/ Crash
  \/ \E t \in Turns :
       \/ ForceRunJob(t) \/ StartRun(t) \/ RunChannelTurn(t) \/ Number(t) \/ UserMessage(t)
       \/ Complete(t) \/ FinalText(t) \/ RecordCall(t) \/ Authorize(t) \/ Audit(t)
       \/ ExecuteTool(t) \/ RecordResult(t) \/ ConcludeRun(t) \/ EnqueueResponse(t)
  \/ \E s \in Senders : ReadDelivery(s) \/ Deliver(s) \/ Cancel(s) \/ PutDelivery(s)

Spec == Init /\ [][Next]_vars

-----------------------------------------------------------------------------
Position(trace, t) == {n \in DOMAIN trace : trace[n].turn = t}

(* Turns of one session may overlap and number their records alike, and     *)
(* fail or crash half way; still the trace of the session shows a turn      *)
(* entirely after every turn that had ended when it started, and the        *)
(* records of a turn in the order it appended them.  next_sequence and      *)
(* records are behind it.                                                   *)
TurnsInOrder ==
  \A t \in Turns : turn[t].session # <<>> =>
    LET trace == records(turn[t].session)
        shown == Position(trace, t)
        appended == Position(table, t)
    IN  /\ \A u \in earlier[t] : \A i \in Position(trace, u), j \in shown : i < j
        /\ {trace[n] : n \in shown} = {table[k] : k \in appended}
        /\ \A m, n \in shown, k, l \in appended :
             trace[m] = table[k] /\ trace[n] = table[l] => (m < n <=> k < l)

(* A concluded run tells what its trace shows: it succeeded exactly if its  *)
(* response is among the trace's, and all its records lie between the       *)
(* sequences it started and completed at, whatever other turns added to     *)
(* the session meanwhile.                                                   *)
RunMatchesTrace ==
  \A t \in DOMAIN runs : runs[t].status \in {"Succeeded", "Failed"} =>
    LET replay == replay_job_run(t)
        mine == Position(replay.trace.records, t)
    IN  /\ replay.run.status = "Succeeded" <=> mine \cap replay.trace.outbound # {}
        /\ \A i \in mine : replay.trace.records[i].seq \in replay.run.started..replay.run.completed

(* No audited tool runs for a call whose permission is not in the audit     *)
(* table, whatever fails on the way.                                        *)
ExecutedIsAudited ==
  \A e \in executed : ExecutorOf(e.tool) = "audited" =>
    \E i \in 1..Len(audits) :
      audits[i].turn = e.turn /\ audits[i].call = e.call /\ audits[i].decision = "Allow"

(* Dispatchers and cancellers of one delivery overwrite each other, but     *)
(* never with a lie: a delivery marked Sent was taken by the channel, one   *)
(* marked Failed was attempted as often as the stricter limit allows.       *)
DeliveryStatusTruthful ==
  \A t \in DOMAIN deliveries :
    LET d == deliveries[t]
        taken == \E i \in DOMAIN attempted[t] : attempted[t][i]
    IN  /\ d.status = "Sent" => taken
        /\ d.status = "Failed" => \/ Len(attempted[t]) >= RecordAttempts
                                  \/ Len(attempted[t]) >= MaxAttempts
=============================================================================
