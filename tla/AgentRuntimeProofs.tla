------------------------- MODULE AgentRuntimeProofs -------------------------
(***************************************************************************)
(* That traces, audits and deliveries tell the truth, for any turns, calls, *)
(* rules, limits, senders, faults and crashes.  The inductive invariants    *)
(* say what is known between two transactions: a turn about to run an       *)
(* audited tool has its permission on disk; the copy of a delivery that a   *)
(* dispatcher or a canceller is holding is as true as the one stored; no    *)
(* record is numbered above the number of records of its session, and the   *)
(* records of a turn are numbered upwards from above those of every turn    *)
(* that had ended before.  What a session, a call or an answer looks like   *)
(* does not matter, so records are described by their fields, and nothing   *)
(* is assumed of the values.                                                *)
(***************************************************************************)
EXTENDS AgentRuntime, FiniteSetTheorems, SequenceTheorems, TLAPS

-----------------------------------------------------------------------------
(* Records, by their fields, and sequences                                  *)

TurnFields == {"st", "session", "seq", "left", "calls", "audit", "decision", "result"}
IsTurn(x) == x = [f \in TurnFields |-> x[f]] /\ x.result \in {Without, "ok", "err"}

IsSequence(q) == q \in Seq({q[i] : i \in DOMAIN q})

\* Appending to a sequence keeps what is in it and adds the new element.
LEMMA AppendKeeps ==
  ASSUME NEW q, NEW a, IsSequence(q)
  PROVE  /\ IsSequence(Append(q, a))
         /\ Len(q) \in Nat /\ Len(Append(q, a)) = Len(q) + 1
         /\ \A i \in 1..Len(q) : Append(q, a)[i] = q[i]
         /\ Append(q, a)[Len(q) + 1] = a
<1> DEFINE S == {q[i] : i \in DOMAIN q}
           T == S \cup {a}
           r == Append(q, a)
<1>1. q \in Seq(S)
  BY DEF IsSequence
<1>2. q \in Seq(T)
  BY <1>1, SeqMonotonic
<1> HIDE DEF S
<1>3. /\ r \in Seq(T) /\ Len(q) \in Nat /\ Len(r) = Len(q) + 1
      /\ \A i \in 1..Len(q) : r[i] = q[i]
      /\ r[Len(q) + 1] = a
      /\ DOMAIN r = 1..Len(r)
  BY <1>2
<1>4. r \in Seq({r[i] : i \in DOMAIN r})
  BY <1>3
<1> QED
  BY <1>3, <1>4 DEF IsSequence

-----------------------------------------------------------------------------
(* Audits                                                                   *)

Permitted(t, c) ==
  \E i \in 1..Len(audits) :
    audits[i].turn = t /\ audits[i].call = c /\ audits[i].decision = "Allow"

TurnsTyped == turn = [t \in Turns |-> turn[t]] /\ \A t \in Turns : IsTurn(turn[t])

\* An audited tool is about to run only if the permission of its call is stored.
HasPermission(t) ==
  turn[t].st = "execute" /\ ExecutorOf(Tool(t)) = "audited" => Permitted(t, Call(t).id)

AuditInv ==
  /\ TurnsTyped
  /\ IsSequence(audits)
  /\ \A t \in Turns : HasPermission(t)
  /\ ExecutedIsAudited

\* A step of turn t that does not get to the execution of a tool and leaves the
\* audits alone keeps everything that is known of audits.
LEMMA Harmless ==
  ASSUME AuditInv, NEW t \in Turns, NEW new, Steps(t, new), IsTurn(new), new.st # "execute",
         UNCHANGED <<audits, executed>>
  PROVE  AuditInv'
<1>1. turn' = [turn EXCEPT ![t] = new]
  BY DEF Steps
<1>2. TurnsTyped' /\ turn'[t] = new /\ \A u \in Turns \ {t} : turn'[u] = turn[u]
  BY <1>1 DEF AuditInv, TurnsTyped
<1>3. \A u \in Turns : HasPermission(u)'
  BY <1>2 DEF AuditInv, HasPermission, Permitted, Tool, Call
<1>4. ExecutedIsAudited'
  BY DEF AuditInv, ExecutedIsAudited
<1> QED
  BY <1>2, <1>3, <1>4 DEF AuditInv

\* run_turn returns: the turn has ended or its run is to be concluded.
LEMMA ReturnsHarmless ==
  ASSUME AuditInv, NEW t \in Turns, NEW result \in {"ok", "err"}, Returns(t, result),
         UNCHANGED <<audits, executed>>
  PROVE  AuditInv'
<1> DEFINE st == IF JobOf(t) # Without THEN "conclude" ELSE result
           new == [turn[t] EXCEPT !.st = st, !.result = result, !.calls = <<>>]
<1>1. Steps(t, new)
  BY DEF Returns
<1>2. IsTurn(new) /\ new.st = st
  BY DEF AuditInv, TurnsTyped, IsTurn, TurnFields
<1>3. st # "execute"
  OBVIOUS
<1> QED
  BY <1>1, <1>2, <1>3, Harmless

\* A tool call that is refused or has failed gets a result, and no tool runs.
LEMMA ResultHarmless ==
  ASSUME AuditInv, NEW t \in Turns, GetsResult(t), UNCHANGED <<audits, executed>>
  PROVE  AuditInv'
<1> DEFINE new == [turn[t] EXCEPT !.st = "result", !.audit = 0, !.decision = Without]
<1>1. IsTurn(new) /\ new.st = "result"
  BY DEF AuditInv, TurnsTyped, IsTurn, TurnFields
<1> QED
  BY <1>1, Harmless DEF GetsResult

\* At the start no turn has begun, nothing is audited and nothing executed.
LEMMA InitAudit == Init => AuditInv
<1> SUFFICES ASSUME Init PROVE AuditInv
  OBVIOUS
<1>1. turn = [t \in Turns |-> Idle] /\ audits = <<>> /\ executed = {}
  BY DEF Init
<1>2. IsTurn(Idle) /\ Idle.st = "idle"
  BY DEF IsTurn, TurnFields, Idle
<1>3. TurnsTyped /\ \A t \in Turns : HasPermission(t)
  BY <1>1, <1>2 DEF TurnsTyped, HasPermission
<1>4. IsSequence(audits)
  BY <1>1 DEF IsSequence
<1> QED
  BY <1>1, <1>3, <1>4 DEF AuditInv, ExecutedIsAudited

\* Every step of a turn up to the point where it calls a tool.
LEMMA TurnKeepsAudits ==
  ASSUME AuditInv, NEW t \in Turns,
         \/ ForceRunJob(t) \/ StartRun(t) \/ RunChannelTurn(t) \/ Number(t) \/ UserMessage(t)
         \/ Complete(t) \/ FinalText(t) \/ RecordCall(t) \/ RecordResult(t) \/ ConcludeRun(t)
  PROVE  AuditInv'
<1> DEFINE st(a) == [turn[t] EXCEPT !.st = a]
<1>a. IsTurn(turn[t]) /\ IsTurn(Idle)
  BY DEF AuditInv, TurnsTyped, IsTurn, TurnFields, Idle
<1>d. ASSUME NEW kind, NEW call, NEW new, IsTurn(new), new.st # "execute", Appends(t, kind, call, new)
      PROVE  AuditInv'
  <2>1. UNCHANGED <<audits, executed>>
    BY <1>d DEF Appends
  <2>2. Steps(t, [new EXCEPT !.seq = new.seq + 1]) \/ Returns(t, "err")
    BY <1>d DEF Appends
  <2>3. IsTurn([new EXCEPT !.seq = new.seq + 1]) /\ [new EXCEPT !.seq = new.seq + 1].st = new.st
    BY <1>d DEF IsTurn, TurnFields
  <2>4. CASE Steps(t, [new EXCEPT !.seq = new.seq + 1])
    BY <1>d, <2>1, <2>3, <2>4, Harmless
  <2> QED
    BY <2>1, <2>2, <2>4, ReturnsHarmless
<1>1. CASE ForceRunJob(t)
  <2>1. UNCHANGED <<audits, executed>>
    BY <1>1 DEF ForceRunJob
  <2>2. PICK s : Steps(t, [Idle EXCEPT !.st = "err"]) \/ Steps(t, [Idle EXCEPT !.st = "queued", !.session = s])
    BY <1>1 DEF ForceRunJob
  <2> DEFINE new == [Idle EXCEPT !.st = "queued", !.session = s]
             bad == [Idle EXCEPT !.st = "err"]
  <2>3. IsTurn(new) /\ new.st = "queued" /\ IsTurn(bad) /\ bad.st = "err"
    BY <1>a DEF IsTurn, TurnFields
  <2>4. Steps(t, bad) \/ Steps(t, new)
    BY <2>2
  <2> HIDE DEF new, bad
  <2> QED
    BY <2>1, <2>3, <2>4, Harmless
<1>2. CASE StartRun(t)
  <2>1. UNCHANGED <<audits, executed>> /\ (Steps(t, st("number")) \/ Steps(t, st("err")))
    BY <1>2 DEF StartRun
  <2>2. IsTurn(st("number")) /\ st("number").st = "number" /\ IsTurn(st("err")) /\ st("err").st = "err"
    BY <1>a DEF IsTurn, TurnFields
  <2> HIDE DEF st
  <2> QED
    BY <2>1, <2>2, Harmless
<1>3. CASE RunChannelTurn(t)
  <2>1. UNCHANGED <<audits, executed>>
    BY <1>3 DEF RunChannelTurn
  <2>2. PICK s : Steps(t, [Idle EXCEPT !.st = "number", !.session = s])
    BY <1>3 DEF RunChannelTurn
  <2> DEFINE new == [Idle EXCEPT !.st = "number", !.session = s]
  <2>3. IsTurn(new) /\ new.st = "number"
    BY <1>a DEF IsTurn, TurnFields
  <2>4. Steps(t, new)
    BY <2>2
  <2> HIDE DEF new
  <2> QED
    BY <2>1, <2>3, <2>4, Harmless
<1>4. CASE Number(t)
  <2>1. UNCHANGED <<audits, executed>>
    BY <1>4 DEF Number, storeVars
  <2>2. PICK n : Steps(t, [turn[t] EXCEPT !.st = "user", !.seq = n]) \/ Returns(t, "err")
    BY <1>4 DEF Number
  <2> DEFINE new == [turn[t] EXCEPT !.st = "user", !.seq = n]
  <2>3. IsTurn(new) /\ new.st = "user"
    BY <1>a DEF IsTurn, TurnFields
  <2>4. Steps(t, new) \/ Returns(t, "err")
    BY <2>2
  <2> HIDE DEF new
  <2> QED
    BY <2>1, <2>3, <2>4, Harmless, ReturnsHarmless
<1>5. CASE UserMessage(t)
  <2> DEFINE new == [turn[t] EXCEPT !.st = "provider", !.left = MaxIterations]
  <2>1. Appends(t, "UserMessage", Without, new)
    BY <1>5 DEF UserMessage
  <2>2. IsTurn(new) /\ new.st = "provider"
    BY <1>a DEF IsTurn, TurnFields
  <2> QED
    BY <1>d, <2>1, <2>2
<1>6. CASE Complete(t)
  <2>1. UNCHANGED <<audits, executed>>
    BY <1>6 DEF Complete
  <2>2. CASE Returns(t, "err")
    BY <2>1, <2>2, ReturnsHarmless
  <2>3. CASE \E r \in load.responses[t] :
               Steps(t, [turn[t] EXCEPT !.left = @ - 1, !.calls = IF r.text THEN <<>> ELSE r.calls,
                 !.st = IF r.text THEN "final" ELSE IF r.calls = <<>> THEN "provider" ELSE "call"])
    <3> PICK r \in load.responses[t] :
               Steps(t, [turn[t] EXCEPT !.left = @ - 1, !.calls = IF r.text THEN <<>> ELSE r.calls,
                 !.st = IF r.text THEN "final" ELSE IF r.calls = <<>> THEN "provider" ELSE "call"])
      BY <2>3
    <3> DEFINE s == IF r.text THEN "final" ELSE IF r.calls = <<>> THEN "provider" ELSE "call"
               c == IF r.text THEN <<>> ELSE r.calls
               l == turn[t].left - 1
               new == [turn[t] EXCEPT !.left = l, !.calls = c, !.st = s]
    <3>1. Steps(t, new)
      OBVIOUS
    <3>2. s # "execute"
      OBVIOUS
    <3> HIDE DEF s, c, l
    <3>3. IsTurn(new) /\ new.st = s
      BY <1>a DEF IsTurn, TurnFields
    <3> QED
      BY <2>1, <3>1, <3>2, <3>3, Harmless
  <2> QED
    BY <1>6, <2>2, <2>3 DEF Complete, IterationLimit
<1>7. CASE FinalText(t)
  <2>1. UNCHANGED <<audits, executed>> /\ (Returns(t, "ok") \/ Returns(t, "err"))
    BY <1>7 DEF FinalText
  <2> QED
    BY <2>1, ReturnsHarmless
<1>8. CASE RecordCall(t)
  <2>1. Appends(t, "AssistantToolCall", Head(turn[t].calls).id, st("authorize"))
    BY <1>8 DEF RecordCall
  <2>2. IsTurn(st("authorize")) /\ st("authorize").st = "authorize"
    BY <1>a DEF IsTurn, TurnFields
  <2> QED
    BY <1>d, <2>1, <2>2
<1>9. CASE RecordResult(t)
  <2> DEFINE s == IF Len(turn[t].calls) = 1 THEN "provider" ELSE "call"
             new == [turn[t] EXCEPT !.calls = Tail(turn[t].calls), !.st = s]
  <2>1. Appends(t, "ToolResult", Call(t).id, new)
    BY <1>9 DEF RecordResult
  <2>2. IsTurn(new) /\ new.st = s
    BY <1>a DEF IsTurn, TurnFields
  <2>3. s # "execute"
    OBVIOUS
  <2>4. new.st # "execute"
    BY <2>2, <2>3
  <2> HIDE DEF new
  <2> QED
    BY <1>d, <2>1, <2>2, <2>4
<1>10. CASE ConcludeRun(t)
  <2>1. UNCHANGED <<audits, executed>> /\ turn[t].st = "conclude"
    BY <1>10 DEF ConcludeRun
  <2>2. Steps(t, st(turn[t].result)) \/ Steps(t, st("err"))
    BY <1>10 DEF ConcludeRun
  <2>3. PICK r \in {Without, "ok", "err"} : r = turn[t].result
    BY <1>a DEF IsTurn
  <2>4. IsTurn(st(r)) /\ st(r).st = r /\ IsTurn(st("err")) /\ st("err").st = "err"
    BY <1>a DEF IsTurn, TurnFields
  <2> HIDE DEF st
  <2> QED
    BY <2>1, <2>2, <2>3, <2>4, Harmless DEF Without
<1> QED
  BY <1>1, <1>2, <1>3, <1>4, <1>5, <1>6, <1>7, <1>8, <1>9, <1>10

\* The steps of a tool call: the permission is stored before the tool runs.
LEMMA ToolKeepsAudits ==
  ASSUME AuditInv, NEW t \in Turns, Authorize(t) \/ Audit(t) \/ ExecuteTool(t)
  PROVE  AuditInv'
<1> DEFINE run == [turn[t] EXCEPT !.st = "execute"]
<1>a. IsTurn(run) /\ run.st = "execute" /\ run.calls = turn[t].calls
  BY DEF AuditInv, TurnsTyped, IsTurn, TurnFields
<1> HIDE DEF run
<1>b. ASSUME Steps(t, run)
      PROVE  /\ TurnsTyped' /\ turn'[t] = run
             /\ \A u \in Turns \ {t} : turn'[u] = turn[u]
             /\ Call(t)' = Call(t) /\ Tool(t)' = Tool(t)
  <2>1. /\ TurnsTyped' /\ turn'[t] = run
        /\ \A u \in Turns \ {t} : turn'[u] = turn[u]
    BY <1>a, <1>b DEF Steps, AuditInv, TurnsTyped
  <2> QED
    BY <1>a, <2>1 DEF Call, Tool
<1>1. CASE Authorize(t)
  <2>1. UNCHANGED <<audits, executed>>
    BY <1>1 DEF Authorize
  <2>2. CASE GetsResult(t)
    BY <2>1, <2>2, ResultHarmless
  <2>3. CASE Steps(t, run) /\ ExecutorOf(Tool(t)) # "audited"
    <3>1. \A u \in Turns : HasPermission(u)'
      BY <1>b, <2>1, <2>3 DEF AuditInv, HasPermission, Permitted, Call, Tool
    <3>2. ExecutedIsAudited'
      BY <2>1 DEF AuditInv, ExecutedIsAudited
    <3> QED
      BY <1>b, <2>1, <2>3, <3>1, <3>2 DEF AuditInv
  <2>4. CASE \E n, d : Steps(t, [turn[t] EXCEPT !.st = "audit", !.audit = n, !.decision = d])
    <3> PICK n, d : Steps(t, [turn[t] EXCEPT !.st = "audit", !.audit = n, !.decision = d])
      BY <2>4
    <3> DEFINE new == [turn[t] EXCEPT !.st = "audit", !.audit = n, !.decision = d]
    <3>1. IsTurn(new) /\ new.st = "audit"
      BY DEF AuditInv, TurnsTyped, IsTurn, TurnFields
    <3>2. Steps(t, new)
      OBVIOUS
    <3> HIDE DEF new
    <3> QED
      BY <2>1, <3>1, <3>2, Harmless
  <2> QED
    BY <1>1, <2>2, <2>3, <2>4 DEF Authorize, Proceeds, run, Without
<1>2. CASE Audit(t)
  <2>1. executed' = executed
    BY <1>2 DEF Audit
  <2>2. CASE UNCHANGED audits /\ GetsResult(t)
    BY <2>1, <2>2, ResultHarmless
  <2>3. CASE append_authorization_audit([seq |-> turn[t].audit, turn |-> t, call |-> Call(t).id,
                                         decision |-> turn[t].decision])
             /\ Proceeds(t, turn[t].decision)
    <3> DEFINE a == [seq |-> turn[t].audit, turn |-> t, call |-> Call(t).id, decision |-> turn[t].decision]
    <3>0. a.turn = t /\ a.call = Call(t).id /\ a.decision = turn[t].decision
      OBVIOUS
    <3>1. audits' = Append(audits, a)
      BY <2>3 DEF append_authorization_audit
    <3> HIDE DEF a
    <3>2. /\ IsSequence(audits') /\ Len(audits) \in Nat /\ Len(audits') = Len(audits) + 1
          /\ \A i \in 1..Len(audits) : audits'[i] = audits[i]
          /\ audits'[Len(audits) + 1] = a
      BY <3>1, AppendKeeps DEF AuditInv
    <3>3. \A u, c : Permitted(u, c) => Permitted(u, c)'
      BY <3>2 DEF Permitted
    <3>4. ExecutedIsAudited'
      <4>1. \A e \in executed : ExecutorOf(e.tool) = "audited" => Permitted(e.turn, e.call)
        BY DEF AuditInv, ExecutedIsAudited, Permitted
      <4>2. ASSUME NEW e \in executed', ExecutorOf(e.tool) = "audited"
            PROVE  Permitted(e.turn, e.call)'
        <5> PICK u, c : u = e.turn /\ c = e.call
          OBVIOUS
        <5>1. Permitted(u, c)
          BY <2>1, <4>1, <4>2
        <5> QED BY <3>3, <5>1
      <4> QED BY <4>2 DEF ExecutedIsAudited, Permitted
    <3>5. CASE turn[t].decision = "Allow"
      <4>1. Steps(t, run)
        BY <2>3, <3>5 DEF Proceeds, run
      <4>2. Permitted(t, Call(t).id)'
        <5>1. Len(audits) + 1 \in 1..Len(audits') /\ audits'[Len(audits) + 1] = a
          BY <3>2
        <5>2. (Call(t).id)' = Call(t).id
          BY <1>b, <4>1
        <5> QED
          BY <3>0, <3>5, <5>1, <5>2 DEF Permitted
      <4>3. \A u \in Turns : HasPermission(u)'
        <5> TAKE u \in Turns
        <5>1. CASE u = t
          BY <4>2, <5>1 DEF HasPermission
        <5>2. CASE u # t
          BY <1>b, <3>3, <4>1, <5>2 DEF AuditInv, HasPermission, Call, Tool
        <5> QED
          BY <5>1, <5>2
      <4> QED
        BY <1>b, <3>2, <3>4, <4>1, <4>3 DEF AuditInv
    <3>6. CASE turn[t].decision # "Allow"
      <4> DEFINE new == [turn[t] EXCEPT !.st = "result", !.audit = 0, !.decision = Without]
      <4>1. IsTurn(new) /\ new.st = "result"
        BY DEF AuditInv, TurnsTyped, IsTurn, TurnFields
      <4>2. Steps(t, new)
        BY <2>3, <3>6 DEF Proceeds, GetsResult
      <4> HIDE DEF new
      <4>3. /\ TurnsTyped' /\ turn'[t] = new
            /\ \A u \in Turns \ {t} : turn'[u] = turn[u]
        BY <4>1, <4>2 DEF Steps, AuditInv, TurnsTyped
      <4>4. \A u \in Turns : HasPermission(u)'
        BY <3>3, <4>1, <4>3 DEF AuditInv, HasPermission, Call, Tool
      <4> QED
        BY <3>2, <3>4, <4>3, <4>4 DEF AuditInv
    <3> QED
      BY <3>5, <3>6
  <2> QED
    BY <1>2, <2>2, <2>3 DEF Audit, AuditFails
<1>3. CASE ExecuteTool(t)
  <2> DEFINE e == [turn |-> t, call |-> Call(t).id, tool |-> Tool(t)]
             new == [turn[t] EXCEPT !.st = "result", !.audit = 0, !.decision = Without]
  <2>1. audits' = audits /\ executed' = executed \cup {e} /\ Steps(t, new) /\ turn[t].st = "execute"
    BY <1>3 DEF ExecuteTool, GetsResult
  <2>2. IsTurn(new) /\ new.st = "result"
    BY DEF AuditInv, TurnsTyped, IsTurn, TurnFields
  <2>3. e.turn = t /\ e.call = Call(t).id /\ e.tool = Tool(t)
    OBVIOUS
  <2> HIDE DEF new, e
  <2>4. /\ TurnsTyped' /\ turn'[t] = new
        /\ \A u \in Turns \ {t} : turn'[u] = turn[u]
    BY <2>1, <2>2 DEF Steps, AuditInv, TurnsTyped
  <2>5. \A u \in Turns : HasPermission(u)'
    BY <2>1, <2>2, <2>4 DEF AuditInv, HasPermission, Permitted, Call, Tool
  <2>6. ExecutorOf(e.tool) = "audited" => Permitted(e.turn, e.call)
    BY <2>1, <2>3 DEF AuditInv, HasPermission
  <2>7. ExecutedIsAudited'
    BY <2>1, <2>6 DEF AuditInv, ExecutedIsAudited, Permitted
  <2> QED
    BY <2>1, <2>4, <2>5, <2>7 DEF AuditInv
<1> QED
  BY <1>1, <1>2, <1>3

\* A crash ends turns, it never starts a tool.
LEMMA CrashKeepsAudits ==
  ASSUME AuditInv, Crash
  PROVE  AuditInv'
<1> DEFINE new(t) == [Idle EXCEPT !.st = "dead", !.session = turn[t].session]
<1>1. UNCHANGED <<audits, executed>>
  BY DEF Crash, storeVars
<1>2. turn' = [t \in Turns |-> IF turn[t].st = "idle" \/ t \in Ended THEN turn[t] ELSE new(t)]
  BY DEF Crash
<1>3. ASSUME NEW t \in Turns
      PROVE  IsTurn(new(t)) /\ new(t).st = "dead"
  <2>1. IsTurn(Idle)
    BY DEF IsTurn, TurnFields, Idle
  <2> QED
    BY <2>1 DEF IsTurn, TurnFields
<1> HIDE DEF new
<1>4. TurnsTyped' /\ \A t \in Turns : turn'[t] = turn[t] \/ turn'[t] = new(t)
  BY <1>2, <1>3 DEF AuditInv, TurnsTyped
<1>5. \A t \in Turns : HasPermission(t)'
  BY <1>1, <1>3, <1>4 DEF AuditInv, HasPermission, Permitted, Call, Tool
<1>6. ExecutedIsAudited'
  BY <1>1 DEF AuditInv, ExecutedIsAudited
<1> QED
  BY <1>1, <1>4, <1>5, <1>6 DEF AuditInv

\* What is known of turns and audits depends on these variables only.
LEMMA AuditFrame ==
  ASSUME AuditInv, UNCHANGED <<turn, audits, executed>>
  PROVE  AuditInv'
BY DEF AuditInv, TurnsTyped, HasPermission, Permitted, Call, Tool, ExecutedIsAudited

\* Every step of the runtime keeps what is known of audits.
LEMMA AuditStep == AuditInv /\ [Next]_vars => AuditInv'
<1> SUFFICES ASSUME AuditInv, [Next]_vars PROVE AuditInv'
  OBVIOUS
<1>1. CASE PutDefinition
  BY <1>1, AuditFrame DEF PutDefinition
<1>2. CASE Crash
  BY <1>2, CrashKeepsAudits
<1>3. ASSUME NEW t \in Turns,
             \/ ForceRunJob(t) \/ StartRun(t) \/ RunChannelTurn(t) \/ Number(t) \/ UserMessage(t)
             \/ Complete(t) \/ FinalText(t) \/ RecordCall(t) \/ RecordResult(t) \/ ConcludeRun(t)
      PROVE  AuditInv'
  BY <1>3, TurnKeepsAudits
<1>4. ASSUME NEW t \in Turns, Authorize(t) \/ Audit(t) \/ ExecuteTool(t)
      PROVE  AuditInv'
  BY <1>4, ToolKeepsAudits
<1>5. ASSUME NEW t \in Turns, EnqueueResponse(t)
      PROVE  AuditInv'
  BY <1>5, AuditFrame DEF EnqueueResponse
<1>6. ASSUME NEW s \in Senders, ReadDelivery(s) \/ Deliver(s) \/ Cancel(s) \/ PutDelivery(s)
      PROVE  AuditInv'
  BY <1>6, AuditFrame DEF ReadDelivery, Deliver, Cancel, PutDelivery, SenderStep
<1>7. CASE UNCHANGED vars
  BY <1>7, AuditFrame DEF vars, storeVars
<1> QED
  BY <1>1, <1>2, <1>3, <1>4, <1>5, <1>6, <1>7 DEF Next

\* Whatever fails or crashes, however many turns run side by side: no audited tool
\* has run for a call whose permission is not in the audit table
\* (AuditedSecureToolExecutor::execute appends the audit before it calls the tool).
THEOREM ToolsAreAudited == Spec => []ExecutedIsAudited
<1>1. AuditInv => ExecutedIsAudited
  BY DEF AuditInv
<1> QED
  BY <1>1, InitAudit, AuditStep, PTL DEF Spec

-----------------------------------------------------------------------------
(* Deliveries                                                               *)

DeliveryFields == {"session", "status", "attempts"}
IsDelivery(d) == d = [f \in DeliveryFields |-> d[f]] /\ d.attempts \in Nat

\* What a delivery claims is borne out by what the channel answered.
Truthful(d, answers) ==
  /\ IsDelivery(d) /\ answers \in Seq(BOOLEAN)
  /\ d.attempts <= Len(answers)
  /\ d.status = "Sent" => \E i \in DOMAIN answers : answers[i]
  /\ d.status = "Failed" => Len(answers) >= RecordAttempts \/ Len(answers) >= MaxAttempts

SenderFields == {"st", "of", "op", "copy"}
IsSender(x) == x = [f \in SenderFields |-> x[f]]

\* The copy that a dispatcher or canceller will write back is as true as the
\* delivery stored, though it may be older.
CopyTruthful(s) ==
  sender[s].st # "idle" => /\ sender[s].of \in DOMAIN deliveries
                           /\ Truthful(sender[s].copy, attempted[sender[s].of])

DeliveryInv ==
  /\ DOMAIN attempted = DOMAIN deliveries
  /\ attempted = [t \in DOMAIN attempted |-> attempted[t]]
  /\ \A t \in DOMAIN deliveries : Truthful(deliveries[t], attempted[t])
  /\ sender = [s \in Senders |-> sender[s]]
  /\ \A s \in Senders : IsSender(sender[s]) /\ CopyTruthful(s)

\* One more answer of the channel makes no claim false.
LEMMA AnswersAdd ==
  ASSUME NEW d, NEW answers, Truthful(d, answers), NEW a \in BOOLEAN
  PROVE  Truthful(d, Append(answers, a))
<1> DEFINE more == Append(answers, a)
<1>1. answers \in Seq(BOOLEAN)
  BY DEF Truthful
<1>2. /\ more \in Seq(BOOLEAN) /\ Len(answers) \in Nat /\ Len(more) = Len(answers) + 1
      /\ \A i \in DOMAIN answers : i \in DOMAIN more /\ more[i] = answers[i]
  BY <1>1
<1> HIDE DEF more
<1> QED
  BY <1>2, LimitAssumption DEF Truthful, IsDelivery

\* The delivery that a dispatcher makes of its copy tells what the channel answered.
LEMMA SentIsTrue ==
  ASSUME NEW d, NEW answers, Truthful(d, answers)
  PROVE  Truthful(mark_sent(d), Append(answers, TRUE))
<1> DEFINE more == Append(answers, TRUE)
           new == mark_sent(d)
<1> SUFFICES Truthful(new, more)
  OBVIOUS
<1>1. answers \in Seq(BOOLEAN)
  BY DEF Truthful
<1>2. /\ more \in Seq(BOOLEAN) /\ Len(answers) \in Nat /\ Len(more) = Len(answers) + 1
      /\ Len(more) \in DOMAIN more /\ more[Len(more)] = TRUE
  BY <1>1
<1>3. IsDelivery(d) /\ d.attempts \in Nat /\ d.attempts <= Len(answers)
  BY DEF Truthful, IsDelivery
<1>4. new = [f \in DeliveryFields |-> new[f]] /\ new.status = "Sent" /\ new.attempts = d.attempts + 1
  BY <1>3 DEF IsDelivery, DeliveryFields, mark_sent
<1> HIDE DEF more, new
<1>5. IsDelivery(new)
  BY <1>3, <1>4 DEF IsDelivery
<1>6. new.attempts <= Len(more) /\ new.status # "Failed"
  BY <1>2, <1>3, <1>4
<1>7. \E i \in DOMAIN more : more[i]
  BY <1>2
<1> QED
  BY <1>2, <1>5, <1>6, <1>7 DEF Truthful

\* A refused delivery is given up only when the answers reach one of the limits.
LEMMA FailureIsTrue ==
  ASSUME NEW d, NEW answers, Truthful(d, answers)
  PROVE  Truthful(record_failure(d), Append(answers, FALSE))
<1> DEFINE more == Append(answers, FALSE)
           st == IF d.attempts + 1 >= RecordAttempts \/ d.attempts + 1 >= MaxAttempts
                 THEN "Failed" ELSE "RetryScheduled"
           new == record_failure(d)
<1> SUFFICES Truthful(new, more)
  OBVIOUS
<1>1. answers \in Seq(BOOLEAN)
  BY DEF Truthful
<1>2. more \in Seq(BOOLEAN) /\ Len(answers) \in Nat /\ Len(more) = Len(answers) + 1
  BY <1>1
<1>3. new = [d EXCEPT !.attempts = d.attempts + 1, !.status = st]
  BY DEF record_failure
<1>4. st # "Sent" /\ (st = "Failed" => d.attempts + 1 >= RecordAttempts \/ d.attempts + 1 >= MaxAttempts)
  OBVIOUS
<1> HIDE DEF more, new, st
<1>5. IsDelivery(d) /\ d.attempts \in Nat /\ d.attempts <= Len(answers)
  BY DEF Truthful, IsDelivery
<1>6. new = [f \in DeliveryFields |-> new[f]] /\ new.status = st /\ new.attempts = d.attempts + 1
  BY <1>3, <1>5 DEF IsDelivery, DeliveryFields
<1>7. IsDelivery(new)
  BY <1>5, <1>6 DEF IsDelivery
<1>8. new.attempts <= Len(more) /\ new.status # "Sent"
  BY <1>2, <1>4, <1>5, <1>6
<1>9. new.status = "Failed" => Len(more) >= RecordAttempts \/ Len(more) >= MaxAttempts
  BY <1>2, <1>4, <1>5, <1>6, LimitAssumption
<1> QED
  BY <1>2, <1>7, <1>8, <1>9 DEF Truthful

\* Cancelling claims nothing.
LEMMA CancelIsTrue ==
  ASSUME NEW d, NEW answers, Truthful(d, answers)
  PROVE  Truthful(mark_cancelled(d), answers)
<1> DEFINE new == mark_cancelled(d)
<1> SUFFICES Truthful(new, answers)
  OBVIOUS
<1>1. IsDelivery(d)
  BY DEF Truthful
<1>2. IsDelivery(new) /\ new.status = "Cancelled" /\ new.attempts = d.attempts
  BY <1>1 DEF IsDelivery, DeliveryFields, mark_cancelled
<1> HIDE DEF new
<1>3. new.attempts <= Len(answers)
  BY <1>2 DEF Truthful
<1>4. new.status # "Sent" /\ new.status # "Failed"
  BY <1>2
<1> QED
  BY <1>2, <1>3, <1>4 DEF Truthful

\* At the start there are no deliveries and nobody holds a copy.
LEMMA InitDelivery == Init => DeliveryInv
<1> SUFFICES ASSUME Init PROVE DeliveryInv
  OBVIOUS
<1>1. deliveries = <<>> /\ attempted = <<>> /\ sender = [s \in Senders |-> NoDelivery]
  BY DEF Init
<1>2. DOMAIN attempted = {} /\ DOMAIN deliveries = {} /\ attempted = [t \in {} |-> attempted[t]]
  BY <1>1
<1>3. IsSender(NoDelivery) /\ NoDelivery.st = "idle"
  BY DEF IsSender, SenderFields, NoDelivery
<1> QED
  BY <1>1, <1>2, <1>3 DEF DeliveryInv, CopyTruthful

\* What is known of deliveries depends on these variables only.
LEMMA DeliveryFrame ==
  ASSUME DeliveryInv, UNCHANGED <<deliveries, attempted, sender>>
  PROVE  DeliveryInv'
BY DEF DeliveryInv, CopyTruthful

\* A response is queued with no attempt made and no claim.
LEMMA EnqueueKeeps ==
  ASSUME DeliveryInv, NEW t \in Turns, EnqueueResponse(t)
  PROVE  DeliveryInv'
<1> DEFINE d == queued(turn[t].session)
<1>1. /\ t \notin DOMAIN deliveries /\ sender' = sender
      /\ deliveries' = Insert(deliveries, t, d) /\ attempted' = Insert(attempted, t, <<>>)
  BY DEF EnqueueResponse, put_outbound_delivery
<1>2. Truthful(d, <<>>)
  <2>1. IsDelivery(d) /\ d.status = "Queued" /\ d.attempts = 0
    BY DEF queued, IsDelivery, DeliveryFields
  <2>2. <<>> \in Seq(BOOLEAN) /\ Len(<<>>) = 0
    OBVIOUS
  <2> HIDE DEF d
  <2>3. d.attempts <= Len(<<>>) /\ d.status # "Sent" /\ d.status # "Failed"
    BY <2>1, <2>2
  <2> QED
    BY <2>1, <2>2, <2>3 DEF Truthful
<1> HIDE DEF d
<1>3. /\ DOMAIN deliveries' = DOMAIN deliveries \cup {t} /\ deliveries'[t] = d
      /\ \A u \in DOMAIN deliveries : deliveries'[u] = deliveries[u]
  BY <1>1 DEF Insert
<1>4. /\ DOMAIN attempted' = DOMAIN attempted \cup {t} /\ attempted'[t] = <<>>
      /\ \A u \in DOMAIN deliveries : attempted'[u] = attempted[u]
      /\ attempted' = [u \in DOMAIN attempted' |-> attempted'[u]]
  BY <1>1 DEF DeliveryInv, Insert
<1>5. \A u \in DOMAIN deliveries' : Truthful(deliveries'[u], attempted'[u])
  BY <1>2, <1>3, <1>4 DEF DeliveryInv
<1>6. \A s \in Senders : CopyTruthful(s)'
  BY <1>1, <1>3, <1>4 DEF DeliveryInv, CopyTruthful
<1> QED
  BY <1>1, <1>3, <1>4, <1>5, <1>6 DEF DeliveryInv

\* A step of one sender changes its own record only.
LEMMA SenderMakes ==
  ASSUME DeliveryInv, NEW s \in Senders, NEW new, Sends(s, new), IsSender(new)
  PROVE  /\ sender' = [u \in Senders |-> sender'[u]]
         /\ sender'[s] = new /\ \A u \in Senders \ {s} : sender'[u] = sender[u]
         /\ \A u \in Senders : IsSender(sender'[u])
BY DEF DeliveryInv, Sends

\* A copy of what is stored is as true as what is stored.
LEMMA ReadKeeps ==
  ASSUME DeliveryInv, NEW s \in Senders, ReadDelivery(s)
  PROVE  DeliveryInv'
<1>1. UNCHANGED <<deliveries, attempted>>
  BY DEF ReadDelivery
<1>2. PICK t \in DOMAIN deliveries, op \in {"dispatch", "cancel"} :
        Sends(s, [st |-> "read", of |-> t, op |-> op, copy |-> deliveries[t]])
  BY DEF ReadDelivery
<1> DEFINE new == [st |-> "read", of |-> t, op |-> op, copy |-> deliveries[t]]
<1>3. IsSender(new) /\ new.of = t /\ new.copy = deliveries[t] /\ Sends(s, new)
  BY <1>2 DEF IsSender, SenderFields
<1> HIDE DEF new
<1>4. \A u \in Senders : CopyTruthful(u)'
  BY <1>1, <1>3, SenderMakes DEF DeliveryInv, CopyTruthful
<1> QED
  BY <1>1, <1>3, <1>4, SenderMakes DEF DeliveryInv

\* The channel answers: the copy of this sender tells the answer, and what the others
\* hold and what is stored stays true.
LEMMA DeliverKeeps ==
  ASSUME DeliveryInv, NEW s \in Senders, Deliver(s)
  PROVE  DeliveryInv'
<1>1. deliveries' = deliveries /\ sender[s].st = "read"
  BY DEF Deliver
<1>2. PICK a \in BOOLEAN :
        /\ Sends(s, [sender[s] EXCEPT !.st = "put",
                       !.copy = IF a THEN mark_sent(@) ELSE record_failure(@)])
        /\ attempted' = [attempted EXCEPT ![sender[s].of] = Append(@, a)]
  BY DEF Deliver
<1> DEFINE t == sender[s].of
           old == sender[s].copy
           copy == IF a THEN mark_sent(old) ELSE record_failure(old)
           new == [sender[s] EXCEPT !.st = "put", !.copy = copy]
<1>3. t \in DOMAIN deliveries /\ Truthful(old, attempted[t])
  BY <1>1 DEF DeliveryInv, CopyTruthful
<1>4. Truthful(copy, Append(attempted[t], a))
  <2>1. CASE a = TRUE
    BY <1>3, <2>1, SentIsTrue
  <2>2. CASE a = FALSE
    BY <1>3, <2>2, FailureIsTrue
  <2> QED
    BY <2>1, <2>2
<1>5. Sends(s, new)
  BY <1>2
<1> HIDE DEF copy
<1>6. IsSender(new) /\ new.of = t /\ new.copy = copy
  BY DEF DeliveryInv, IsSender, SenderFields
<1>7. attempted' = [attempted EXCEPT ![t] = Append(attempted[t], a)]
  BY <1>2
<1> HIDE DEF t, old, new
<1>8. /\ DOMAIN attempted' = DOMAIN attempted /\ attempted' = [u \in DOMAIN attempted' |-> attempted'[u]]
      /\ attempted'[t] = Append(attempted[t], a)
      /\ \A u \in DOMAIN deliveries \ {t} : attempted'[u] = attempted[u]
  BY <1>3, <1>7 DEF DeliveryInv
<1>9. \A d, u : u \in DOMAIN deliveries /\ Truthful(d, attempted[u]) => Truthful(d, attempted'[u])
  <2> SUFFICES ASSUME NEW d, NEW u \in DOMAIN deliveries, Truthful(d, attempted[u])
               PROVE  Truthful(d, attempted'[u])
    OBVIOUS
  <2>1. CASE u = t
    <3>1. Truthful(d, Append(attempted[u], a))
      BY AnswersAdd
    <3> QED BY <1>8, <2>1, <3>1
  <2>2. CASE u # t
    BY <1>8, <2>2
  <2> QED BY <2>1, <2>2
<1>10. \A u \in DOMAIN deliveries' : Truthful(deliveries'[u], attempted'[u])
  BY <1>1, <1>9 DEF DeliveryInv
<1>11. \A u \in Senders : CopyTruthful(u)'
  <2> TAKE u \in Senders
  <2>1. CASE u = s
    <3>1. sender'[u] = new
      BY <1>5, <1>6, <2>1, SenderMakes
    <3>2. new.of \in DOMAIN deliveries' /\ Truthful(new.copy, attempted'[new.of])
      BY <1>1, <1>3, <1>4, <1>6, <1>8
    <3> QED
      BY <3>1, <3>2 DEF CopyTruthful
  <2>2. CASE u # s
    BY <1>1, <1>5, <1>6, <1>9, <2>2, SenderMakes DEF DeliveryInv, CopyTruthful
  <2> QED
    BY <2>1, <2>2
<1> QED
  BY <1>1, <1>5, <1>6, <1>8, <1>10, <1>11, SenderMakes DEF DeliveryInv

\* A canceller marks its copy.
LEMMA CancelKeeps ==
  ASSUME DeliveryInv, NEW s \in Senders, Cancel(s)
  PROVE  DeliveryInv'
<1> DEFINE old == sender[s].copy
           new == [sender[s] EXCEPT !.st = "put", !.copy = mark_cancelled(old)]
<1>1. UNCHANGED <<deliveries, attempted>> /\ sender[s].st = "read" /\ Sends(s, new)
  BY DEF Cancel
<1>2. sender[s].of \in DOMAIN deliveries /\ Truthful(mark_cancelled(old), attempted[sender[s].of])
  BY <1>1, CancelIsTrue DEF DeliveryInv, CopyTruthful
<1>3. IsSender(new) /\ new.of = sender[s].of /\ new.copy = mark_cancelled(old)
  BY DEF DeliveryInv, IsSender, SenderFields
<1> HIDE DEF new, old
<1>4. \A u \in Senders : CopyTruthful(u)'
  BY <1>1, <1>2, <1>3, SenderMakes DEF DeliveryInv, CopyTruthful
<1> QED
  BY <1>1, <1>3, <1>4, SenderMakes DEF DeliveryInv

\* A copy replaces what is stored, or could not be stored; both are true.
LEMMA PutKeeps ==
  ASSUME DeliveryInv, NEW s \in Senders, PutDelivery(s)
  PROVE  DeliveryInv'
<1>1. attempted' = attempted /\ sender[s].st = "put" /\ Sends(s, NoDelivery)
  BY DEF PutDelivery
<1>2. IsSender(NoDelivery) /\ NoDelivery.st = "idle"
  BY DEF IsSender, SenderFields, NoDelivery
<1>3. /\ sender[s].of \in DOMAIN deliveries
      /\ Truthful(sender[s].copy, attempted[sender[s].of])
  BY <1>1 DEF DeliveryInv, CopyTruthful
<1>4. deliveries' = deliveries \/ deliveries' = Insert(deliveries, sender[s].of, sender[s].copy)
  BY DEF PutDelivery, put_outbound_delivery
<1>5. /\ DOMAIN deliveries' = DOMAIN deliveries
      /\ \A u \in DOMAIN deliveries : \/ deliveries'[u] = deliveries[u]
                                      \/ u = sender[s].of /\ deliveries'[u] = sender[s].copy
  BY <1>3, <1>4 DEF Insert
<1>6. \A u \in DOMAIN deliveries' : Truthful(deliveries'[u], attempted'[u])
  BY <1>1, <1>3, <1>5 DEF DeliveryInv
<1>7. \A u \in Senders : CopyTruthful(u)'
  BY <1>1, <1>2, <1>5, SenderMakes DEF DeliveryInv, CopyTruthful
<1> QED
  BY <1>1, <1>2, <1>5, <1>6, <1>7, SenderMakes DEF DeliveryInv

\* Every step of the runtime keeps what is known of deliveries.
LEMMA DeliveryStep == DeliveryInv /\ [Next]_vars => DeliveryInv'
<1> SUFFICES ASSUME DeliveryInv, [Next]_vars PROVE DeliveryInv'
  OBVIOUS
<1>1. CASE PutDefinition
  BY <1>1, DeliveryFrame DEF PutDefinition
<1>2. CASE Crash
  <2>1. UNCHANGED <<deliveries, attempted>> /\ sender' = [s \in Senders |-> NoDelivery]
    BY <1>2 DEF Crash, storeVars
  <2>2. IsSender(NoDelivery) /\ NoDelivery.st = "idle"
    BY DEF IsSender, SenderFields, NoDelivery
  <2> QED
    BY <2>1, <2>2 DEF DeliveryInv, CopyTruthful
<1>3. ASSUME NEW t \in Turns,
             \/ ForceRunJob(t) \/ StartRun(t) \/ RunChannelTurn(t) \/ UserMessage(t)
             \/ Complete(t) \/ FinalText(t) \/ RecordCall(t) \/ RecordResult(t) \/ ConcludeRun(t)
             \/ Authorize(t) \/ Audit(t) \/ ExecuteTool(t)
      PROVE  DeliveryInv'
  <2>1. TurnStep
    BY <1>3 DEF ForceRunJob, StartRun, RunChannelTurn, UserMessage, Complete, FinalText, RecordCall,
                RecordResult, ConcludeRun, Authorize, Audit, ExecuteTool, Appends
  <2> QED
    BY <2>1, DeliveryFrame DEF TurnStep
<1>4. ASSUME NEW t \in Turns, Number(t)
      PROVE  DeliveryInv'
  BY <1>4, DeliveryFrame DEF Number, storeVars
<1>5. ASSUME NEW t \in Turns, EnqueueResponse(t)
      PROVE  DeliveryInv'
  BY <1>5, EnqueueKeeps
<1>6. ASSUME NEW s \in Senders, ReadDelivery(s) \/ Deliver(s) \/ Cancel(s) \/ PutDelivery(s)
      PROVE  DeliveryInv'
  BY <1>6, ReadKeeps, DeliverKeeps, CancelKeeps, PutKeeps
<1>7. CASE UNCHANGED vars
  BY <1>7, DeliveryFrame DEF vars, storeVars
<1> QED
  BY <1>1, <1>2, <1>3, <1>4, <1>5, <1>6, <1>7 DEF Next

\* However many dispatchers and cancellers overwrite each other's copies of a
\* delivery, fail to store them or crash: Sent was taken by the channel, and
\* Failed was attempted as often as the stricter limit allows
\* (dispatch_one, mark_sent, mark_cancelled, record_failure).
THEOREM DeliveriesTellTheTruth == Spec => []DeliveryStatusTruthful
<1>1. DeliveryInv => DeliveryStatusTruthful
  BY DEF DeliveryInv, Truthful, DeliveryStatusTruthful
<1> QED
  BY <1>1, InitDelivery, DeliveryStep, PTL DEF Spec
-----------------------------------------------------------------------------
(* The traces of sessions                                                   *)

Mine(t) == {i \in 1..Len(table) : table[i].turn = t}
Count(session) == Cardinality(Keys(session))

\* A turn has not numbered its records yet, is appending them, or is over.
Before == {"idle", "queued", "number"}
Appending == {"user", "provider", "final", "call", "authorize", "audit", "execute", "result"}
Over == {"ok", "err", "dead"}

\* A record belongs to the session of its turn, whose records are at least as
\* many as it says.
RecordOK(i) ==
  /\ table[i].turn \in Turns /\ table[i].seq \in Nat
  /\ table[i].session = turn[table[i].turn].session
  /\ table[i].seq <= Count(table[i].session)

\* The records of a turn are numbered upwards, from a number that its session
\* has not got to when it starts.
NumbersOK(t) ==
  /\ turn[t].st \in Before => Mine(t) = {} /\ earlier[t] = {}
  /\ turn[t].st \in Appending =>
       /\ turn[t].seq \in Nat /\ turn[t].seq <= Count(turn[t].session) + 1
       /\ \A i \in Mine(t) : table[i].seq < turn[t].seq
  /\ \A i, j \in Mine(t) : i < j => table[i].seq < table[j].seq

\* The turns that had ended before are over, and all their numbers lower.
EarlierOK(t) ==
  \A u \in earlier[t] :
    /\ u \in Turns /\ turn[u].st \in Over /\ turn[u].session = turn[t].session
    /\ \A i \in Mine(u) : /\ turn[t].st \in Appending => table[i].seq < turn[t].seq
                          /\ \A j \in Mine(t) : table[i].seq < table[j].seq

\* A turn appends its response at the end of it, and it is known to have done
\* so until the run is concluded.
Responded(t) == \E i \in Mine(t) : table[i].kind = "AssistantMessage"
ResponseOK(t) ==
  /\ turn[t].st \in Appending => ~Responded(t)
  /\ turn[t].st = "conclude" => /\ turn[t].result \in {"ok", "err"}
                                /\ Responded(t) <=> turn[t].result = "ok"

\* A run starts no later than the numbers of its turn; a concluded one is over,
\* and its turn appends no more.
RunFields == {"session", "status", "started", "completed"}
RunOK(t) ==
  LET run == runs[t]
  IN  /\ run = [f \in RunFields |-> run[f]] /\ run.started \in Nat
      /\ turn[t].st # "idle" /\ run.session = turn[t].session
      /\ turn[t].st \in Before => run.started <= Count(run.session) + 1
      /\ turn[t].st \in Appending => run.started <= turn[t].seq
      /\ \A i \in Mine(t) : run.started <= table[i].seq
      /\ run.status \in {"Succeeded", "Failed"} =>
           /\ turn[t].st \in Over
           /\ Responded(t) <=> run.status = "Succeeded"
           /\ \A i \in Mine(t) : table[i].seq <= run.completed
           /\ run.completed \in Nat

HasRun(t) ==
  \/ turn[t].st \in {"queued", "conclude"}
  \/ turn[t].st \in Appending \cup {"number"} /\ JobOf(t) # Without

TurnTraced(t) ==
  /\ turn[t].st \in Before \cup Appending \cup {"conclude"} \cup Over
  /\ NumbersOK(t) /\ EarlierOK(t) /\ ResponseOK(t)
  /\ HasRun(t) => t \in DOMAIN runs
  /\ t \in DOMAIN runs => RunOK(t)

TraceInv ==
  /\ IsSequence(table) /\ \A i \in 1..Len(table) : RecordOK(i)
  /\ earlier = [t \in Turns |-> earlier[t]] /\ DOMAIN runs \subseteq Turns
  /\ \A t \in Turns : TurnTraced(t)

\* The numbers of the records order the keys of the table.
LEMMA BeforeOrders ==
  ASSUME TraceInv, NEW i \in 1..Len(table), NEW j \in 1..Len(table)
  PROVE  /\ i # j => before(i, j) \/ before(j, i)
         /\ ~before(i, i) /\ ~(before(i, j) /\ before(j, i))
         /\ \A k \in 1..Len(table) : before(i, j) /\ before(j, k) => before(i, k)
<1>1. \A k \in 1..Len(table) : table[k].seq \in Nat /\ k \in Int
  BY DEF TraceInv, RecordOK
<1> QED BY <1>1 DEF before

Rank(keys, i) == Cardinality({j \in keys : before(j, i)})

\* The keys are finitely many.
LEMMA KeysFinite ==
  ASSUME TraceInv, NEW keys \in SUBSET (1..Len(table))
  PROVE  IsFiniteSet(keys) /\ Cardinality(keys) \in Nat /\ Len(table) \in Nat
<1>1. Len(table) \in Nat
  BY DEF TraceInv, IsSequence
<1>2. IsFiniteSet(1..Len(table))
  BY <1>1, FS_Interval
<1> QED BY <1>1, <1>2, FS_Subset, FS_CardinalityType

\* A key has fewer before it than there are, and fewer than any after it.
LEMMA RankGrows ==
  ASSUME TraceInv, NEW keys \in SUBSET (1..Len(table)), NEW i \in keys
  PROVE  /\ Rank(keys, i) \in Nat /\ Rank(keys, i) < Cardinality(keys)
         /\ \A j \in keys : before(i, j) => Rank(keys, i) < Rank(keys, j)
<1> DEFINE below(k) == {j \in keys : before(j, k)}
<1>1. IsFiniteSet(keys) /\ Cardinality(keys) \in Nat
  BY KeysFinite
<1>2. ASSUME NEW S \in SUBSET keys, NEW k \in S, below(i) \subseteq S \ {k}
      PROVE  Cardinality(below(i)) < Cardinality(S) /\ Cardinality(below(i)) \in Nat
  <2>1. IsFiniteSet(S) /\ Cardinality(S) \in Nat
    BY <1>1, FS_Subset, FS_CardinalityType
  <2>2. IsFiniteSet(S \ {k}) /\ Cardinality(S \ {k}) = Cardinality(S) - 1
    BY <2>1, FS_RemoveElement
  <2>3. Cardinality(below(i)) <= Cardinality(S \ {k}) /\ Cardinality(below(i)) \in Nat
    BY <1>2, <2>2, FS_Subset, FS_CardinalityType
  <2> QED BY <2>1, <2>2, <2>3
<1>3. below(i) \subseteq keys \ {i}
  BY BeforeOrders
<1>4. Cardinality(below(i)) < Cardinality(keys) /\ Cardinality(below(i)) \in Nat
  BY <1>2, <1>3
<1>5. ASSUME NEW j \in keys, before(i, j)
      PROVE  Cardinality(below(i)) < Cardinality(below(j))
  <2>1. i \in below(j) /\ below(i) \subseteq below(j) \ {i}
    BY <1>5, BeforeOrders
  <2> HIDE DEF below
  <2>2. below(j) \in SUBSET keys
    BY DEF below
  <2> QED BY <1>2, <2>1, <2>2
<1> QED BY <1>4, <1>5 DEF Rank

\* Every key of a set is listed at one place, and every place lists a key.
LEMMA ListedOnce ==
  ASSUME TraceInv, NEW keys \in SUBSET (1..Len(table))
  PROVE  /\ \A n \in 1..Cardinality(keys) : At(keys, n) \in keys /\ Rank(keys, At(keys, n)) = n - 1
         /\ \A i \in keys : Rank(keys, i) + 1 \in 1..Cardinality(keys) /\ At(keys, Rank(keys, i) + 1) = i
<1>1. IsFiniteSet(keys) /\ Cardinality(keys) \in Nat
  BY KeysFinite
<1>2. \A i \in keys : Rank(keys, i) \in Nat /\ Rank(keys, i) < Cardinality(keys)
  BY RankGrows
<1>3. \A i, j \in keys : Rank(keys, i) = Rank(keys, j) => i = j
  <2> SUFFICES ASSUME NEW i \in keys, NEW j \in keys, Rank(keys, i) = Rank(keys, j), i # j
               PROVE  FALSE
    OBVIOUS
  <2>1. before(i, j) \/ before(j, i)
    BY BeforeOrders
  <2>2. Rank(keys, i) < Rank(keys, j) \/ Rank(keys, j) < Rank(keys, i)
    BY <2>1, RankGrows
  <2> QED BY <1>2, <2>2
<1> DEFINE f == [i \in keys |-> Rank(keys, i) + 1]
           T == 1..Cardinality(keys)
<1>4. f \in [keys -> T]
  BY <1>1, <1>2
<1>5. f \in Injection(keys, T)
  BY <1>2, <1>3, <1>4 DEF Injection, IsInjective
<1>6. IsFiniteSet(T) /\ Cardinality(T) = Cardinality(keys)
  BY <1>1, FS_Interval
<1>7. f \in Surjection(keys, T)
  <2> HIDE DEF f, T
  <2> QED BY <1>5, <1>6, FS_Injection
<1>8. \A n \in T : \E i \in keys : f[i] = n
  <2> HIDE DEF f, T
  <2> QED BY <1>7 DEF Surjection
<1>9. \A n \in T : \E i \in keys : Rank(keys, i) = n - 1
  BY <1>1, <1>2, <1>8
<1>10. \A n \in T : At(keys, n) \in keys /\ Rank(keys, At(keys, n)) = n - 1
  BY <1>9 DEF At, Rank
<1>11. ASSUME NEW i \in keys
       PROVE  Rank(keys, i) + 1 \in T /\ At(keys, Rank(keys, i) + 1) = i
  <2>1. Rank(keys, i) + 1 \in T
    BY <1>1, <1>2
  <2>2. At(keys, Rank(keys, i) + 1) \in keys /\ Rank(keys, At(keys, Rank(keys, i) + 1)) = Rank(keys, i)
    BY <1>2, <1>10, <2>1
  <2> QED BY <1>3, <2>1, <2>2
<1> QED BY <1>10, <1>11

\* The list is in the order of the keys.
LEMMA ListedInOrder ==
  ASSUME TraceInv, NEW keys \in SUBSET (1..Len(table)),
         NEW m \in 1..Cardinality(keys), NEW n \in 1..Cardinality(keys)
  PROVE  m < n <=> before(At(keys, m), At(keys, n))
<1> DEFINE i == At(keys, m)
           j == At(keys, n)
<1>1. i \in keys /\ j \in keys /\ Rank(keys, i) = m - 1 /\ Rank(keys, j) = n - 1
  BY ListedOnce
<1>2. Cardinality(keys) \in Nat
  BY KeysFinite
<1> HIDE DEF i, j
<1>3. before(i, j) => Rank(keys, i) < Rank(keys, j)
  BY <1>1, RankGrows
<1>4. before(j, i) => Rank(keys, j) < Rank(keys, i)
  BY <1>1, RankGrows
<1>5. i # j => before(i, j) \/ before(j, i)
  BY <1>1, BeforeOrders
<1>6. m < n <=> before(i, j)
  BY <1>1, <1>2, <1>3, <1>4, <1>5
<1> QED BY <1>6 DEF i, j

\* The trace of a session shows the records of its turns, and of no others.
LEMMA TraceShows ==
  ASSUME TraceInv, NEW s, NEW u \in Turns
  PROVE  /\ DOMAIN records(s) = 1..Count(s)
         /\ \A n \in 1..Count(s) : records(s)[n] = table[At(Keys(s), n)]
         /\ \A n \in Position(records(s), u) : At(Keys(s), n) \in Mine(u)
         /\ turn[u].session = s => \A k \in Mine(u) : \E n \in Position(records(s), u) : At(Keys(s), n) = k
<1> DEFINE K == Keys(s)
<1>1. K \in SUBSET (1..Len(table))
  BY DEF Keys
<1>2. DOMAIN records(s) = 1..Count(s) /\ \A n \in 1..Count(s) : records(s)[n] = table[At(K, n)]
  BY DEF records, Count
<1>3. ASSUME NEW n \in Position(records(s), u)
      PROVE  At(K, n) \in Mine(u)
  <2>1. n \in 1..Cardinality(K) /\ records(s)[n] = table[At(K, n)] /\ records(s)[n].turn = u
    BY <1>2 DEF Position, Count
  <2>2. At(K, n) \in K
    BY <1>1, <2>1, ListedOnce
  <2> QED BY <1>1, <2>1, <2>2 DEF Mine
<1>4. ASSUME turn[u].session = s, NEW k \in Mine(u)
      PROVE  \E n \in Position(records(s), u) : At(K, n) = k
  <2>1. k \in 1..Len(table) /\ table[k].turn = u /\ table[k].session = s
    BY <1>4 DEF Mine, TraceInv, RecordOK
  <2>2. k \in K
    BY <2>1 DEF Keys
  <2> DEFINE n == Rank(K, k) + 1
  <2>3. n \in 1..Cardinality(K) /\ At(K, n) = k
    BY <1>1, <2>2, ListedOnce
  <2> HIDE DEF n
  <2>4. n \in Position(records(s), u)
    BY <1>2, <2>1, <2>3 DEF Position, Count
  <2> QED BY <2>3, <2>4
<1> QED BY <1>2, <1>3, <1>4

\* What is shown comes in the order of its numbers.
LEMMA ShownInOrder ==
  ASSUME TraceInv, NEW s, NEW m \in 1..Count(s), NEW n \in 1..Count(s)
  PROVE  /\ At(Keys(s), m) \in 1..Len(table) /\ At(Keys(s), n) \in 1..Len(table)
         /\ m < n <=> before(At(Keys(s), m), At(Keys(s), n))
         /\ table[At(Keys(s), m)].seq < table[At(Keys(s), n)].seq => m < n
<1> DEFINE K == Keys(s)
<1>1. K \in SUBSET (1..Len(table))
  BY DEF Keys
<1>2. m \in 1..Cardinality(K) /\ n \in 1..Cardinality(K)
  BY DEF Count
<1> HIDE DEF K
<1>3. At(K, m) \in K /\ At(K, n) \in K
  BY <1>1, <1>2, ListedOnce
<1>4. m < n <=> before(At(K, m), At(K, n))
  BY <1>1, <1>2, ListedInOrder
<1> QED BY <1>1, <1>3, <1>4 DEF K, before

\* The trace of a session shows turns that did not overlap one after the other,
\* and each as it was appended.
LEMMA TraceOrders == ASSUME TraceInv PROVE TurnsInOrder
<1> SUFFICES ASSUME NEW t \in Turns, NEW s, s = turn[t].session
             PROVE  /\ \A u \in earlier[t] : \A i \in Position(records(s), u), j \in Position(records(s), t) : i < j
                    /\ {records(s)[n] : n \in Position(records(s), t)} = {table[k] : k \in Position(table, t)}
                    /\ \A m, n \in Position(records(s), t), k, l \in Position(table, t) :
                         records(s)[m] = table[k] /\ records(s)[n] = table[l] => (m < n <=> k < l)
  BY DEF TurnsInOrder
<1> DEFINE trace == records(s)
           at(n) == At(Keys(s), n)
<1>0. TurnTraced(t)
  BY DEF TraceInv
<1>1. \A u \in Turns : \A n \in Position(trace, u) :
        n \in 1..Count(s) /\ trace[n] = table[at(n)] /\ at(n) \in Mine(u)
  <2> SUFFICES ASSUME NEW u \in Turns, NEW n \in Position(trace, u)
               PROVE  n \in 1..Count(s) /\ trace[n] = table[at(n)] /\ at(n) \in Mine(u)
    OBVIOUS
  <2>1. n \in DOMAIN trace
    BY DEF Position
  <2>2. n \in 1..Count(s)
    BY <2>1, TraceShows
  <2> QED BY <2>2, TraceShows
<1>2. \A k \in Mine(t) : \E n \in Position(trace, t) : at(n) = k
  BY TraceShows
<1>3. Position(table, t) = Mine(t)
  <2>1. DOMAIN table = 1..Len(table)
    BY DEF TraceInv, IsSequence
  <2> QED BY <2>1 DEF Position, Mine
<1>4. \A i, j \in Mine(t) : /\ i \in Int /\ j \in Int
                            /\ i < j => table[i].seq < table[j].seq
                            /\ table[i].seq \in Nat /\ table[j].seq \in Nat
  BY <1>0 DEF TurnTraced, NumbersOK, Mine, TraceInv, RecordOK
<1>5. ASSUME NEW u \in earlier[t], NEW i \in Position(trace, u), NEW j \in Position(trace, t)
      PROVE  i < j
  <2>1. u \in Turns /\ \A k \in Mine(u) : \A l \in Mine(t) : table[k].seq < table[l].seq
    BY <1>0 DEF TurnTraced, EarlierOK
  <2>2. table[at(i)].seq < table[at(j)].seq /\ i \in 1..Count(s) /\ j \in 1..Count(s)
    BY <1>1, <2>1
  <2> QED BY <2>2, ShownInOrder
<1>6. {trace[n] : n \in Position(trace, t)} = {table[k] : k \in Mine(t)}
  <2>1. ASSUME NEW n \in Position(trace, t)
        PROVE  trace[n] \in {table[k] : k \in Mine(t)}
    BY <1>1
  <2>2. ASSUME NEW k \in Mine(t)
        PROVE  table[k] \in {trace[n] : n \in Position(trace, t)}
    <3>1. PICK n \in Position(trace, t) : at(n) = k
      BY <1>2
    <3>2. trace[n] = table[k]
      BY <1>1, <3>1
    <3> QED BY <3>2
  <2> QED BY <2>1, <2>2
<1>7. ASSUME NEW m \in Position(trace, t), NEW n \in Position(trace, t), NEW k \in Mine(t), NEW l \in Mine(t),
             trace[m] = table[k], trace[n] = table[l]
      PROVE  m < n <=> k < l
  <2>1. /\ m \in 1..Count(s) /\ table[at(m)] = table[k] /\ at(m) \in Mine(t)
        /\ n \in 1..Count(s) /\ table[at(n)] = table[l] /\ at(n) \in Mine(t)
    BY <1>1, <1>7
  <2>2. \A i, j \in Mine(t) : table[i] = table[j] => i = j
    BY <1>4
  <2>3. at(m) = k /\ at(n) = l
    BY <2>1, <2>2
  <2>4. m < n <=> before(k, l)
    BY <2>1, <2>3, ShownInOrder
  <2> QED BY <1>4, <2>4 DEF before
<1>8. \A m, n \in Position(trace, t), k, l \in Position(table, t) :
        trace[m] = table[k] /\ trace[n] = table[l] => (m < n <=> k < l)
  BY <1>3, <1>7
<1> QED BY <1>3, <1>5, <1>6, <1>8

\* A concluded run agrees with the trace of its session.
LEMMA TraceTells == ASSUME TraceInv PROVE RunMatchesTrace
<1> SUFFICES ASSUME NEW t \in DOMAIN runs, runs[t].status \in {"Succeeded", "Failed"}
             PROVE  LET replay == replay_job_run(t)
                        mine == Position(replay.trace.records, t)
                    IN  /\ replay.run.status = "Succeeded" <=> mine \cap replay.trace.outbound # {}
                        /\ \A i \in mine : replay.trace.records[i].seq \in replay.run.started..replay.run.completed
  BY DEF RunMatchesTrace
<1> PICK s : s = runs[t].session
  OBVIOUS
<1> DEFINE trace == records(s)
           outbound == {n \in DOMAIN trace : trace[n].kind = "AssistantMessage"}
<1>0. t \in Turns /\ TurnTraced(t) /\ RunOK(t)
  BY DEF TraceInv, TurnTraced
<1>1. s = turn[t].session /\ (Responded(t) <=> runs[t].status = "Succeeded")
      /\ runs[t].started \in Nat /\ runs[t].completed \in Nat
      /\ \A i \in Mine(t) : runs[t].started <= table[i].seq /\ table[i].seq <= runs[t].completed
  BY <1>0 DEF RunOK
<1>2. \A n \in Position(trace, t) : n \in 1..Count(s) /\ trace[n] = table[At(Keys(s), n)] /\ At(Keys(s), n) \in Mine(t)
  <2> SUFFICES ASSUME NEW n \in Position(trace, t)
               PROVE  n \in 1..Count(s) /\ trace[n] = table[At(Keys(s), n)] /\ At(Keys(s), n) \in Mine(t)
    OBVIOUS
  <2>1. n \in DOMAIN trace
    BY DEF Position
  <2>2. n \in 1..Count(s)
    BY <1>0, <2>1, TraceShows
  <2> QED BY <1>0, <2>2, TraceShows
<1>3. \A k \in Mine(t) : \E n \in Position(trace, t) : At(Keys(s), n) = k
  BY <1>0, <1>1, TraceShows
<1>4. Responded(t) <=> Position(trace, t) \cap outbound # {}
  <2>1. ASSUME NEW n \in Position(trace, t) \cap outbound
        PROVE  Responded(t)
    BY <1>2, <2>1 DEF Responded
  <2>2. ASSUME NEW k \in Mine(t), table[k].kind = "AssistantMessage"
        PROVE  Position(trace, t) \cap outbound # {}
    <3>1. PICK n \in Position(trace, t) : At(Keys(s), n) = k
      BY <1>3
    <3>2. trace[n].kind = "AssistantMessage" /\ n \in DOMAIN trace
      BY <1>2, <2>2, <3>1 DEF Position
    <3> QED BY <3>2
  <2> QED BY <2>1, <2>2 DEF Responded
<1>5. \A i \in Position(trace, t) : trace[i].seq \in runs[t].started..runs[t].completed
  <2>1. \A i \in Mine(t) : table[i].seq \in Nat
    BY DEF Mine, TraceInv, RecordOK
  <2> QED BY <1>1, <1>2, <2>1
<1>6. replay_job_run(t) = [run |-> runs[t], trace |-> [records |-> trace, outbound |-> outbound]]
  BY DEF replay_job_run, replay_session_trace, build_trace
<1> HIDE DEF trace, outbound
<1> QED BY <1>1, <1>4, <1>5, <1>6

\* A table that stays as it is shows what it did.
LEMMA SameTable ==
  ASSUME table' = table
  PROVE  /\ \A u : Mine(u)' = Mine(u) /\ Responded(u)' = Responded(u)
         /\ \A s : Count(s)' = Count(s)
  BY DEF Mine, Responded, Count, Keys

\* The places of a turn have the same names in every state.
LEMMA SameNames == Before' = Before /\ Appending' = Appending /\ Over' = Over
  BY DEF Before, Appending, Over

\* What one step of turn t leaves alone.
OnlyOf(t) ==
  /\ \A u \in Turns \ {t} :
       /\ turn'[u] = turn[u] /\ earlier'[u] = earlier[u]
       /\ u \in DOMAIN runs' <=> u \in DOMAIN runs
       /\ u \in DOMAIN runs => runs'[u] = runs[u]
  /\ earlier' = [u \in Turns |-> earlier'[u]] /\ DOMAIN runs' \subseteq Turns

\* A step of one turn that appends nothing is of no concern to the others.
LEMMA OthersKept ==
  ASSUME TraceInv, NEW t \in Turns, OnlyOf(t), table' = table, turn[t].st \notin Over,
         turn'[t].session = turn[t].session \/ Mine(t) = {}, TurnTraced(t)'
  PROVE  TraceInv'
<1>1. \A u : Mine(u)' = Mine(u) /\ Responded(u)' = Responded(u)
  BY SameTable
<1>2. \A s : Count(s)' = Count(s)
  BY SameTable
<1>3. ASSUME NEW u \in Turns \ {t}
      PROVE  TurnTraced(u)'
  <2>0. TurnTraced(u) /\ turn'[u] = turn[u] /\ earlier'[u] = earlier[u]
    BY DEF TraceInv, OnlyOf
  <2>1. NumbersOK(u)' /\ ResponseOK(u)' /\ HasRun(u)' = HasRun(u)
    BY <1>1, <1>2, <2>0 DEF TurnTraced, NumbersOK, ResponseOK, HasRun
  <2>2. EarlierOK(u)'
    <3>1. \A v \in earlier[u] : v \in Turns /\ v # t /\ turn'[v] = turn[v]
      BY <2>0 DEF TurnTraced, EarlierOK, OnlyOf
    <3> QED BY <1>1, <2>0, <3>1 DEF TurnTraced, EarlierOK
  <2>3. u \in DOMAIN runs' => u \in DOMAIN runs /\ RunOK(u)'
    BY <1>1, <1>2, <2>0 DEF TurnTraced, RunOK, OnlyOf
  <2> QED BY <2>0, <2>1, <2>2, <2>3 DEF TurnTraced, OnlyOf
<1>4. ASSUME NEW i \in 1..Len(table)
      PROVE  RecordOK(i)'
  <2>1. RecordOK(i)
    BY DEF TraceInv
  <2>2. CASE table[i].turn = t
    BY <1>2, <2>1, <2>2 DEF RecordOK, Mine
  <2>3. CASE table[i].turn # t
    BY <1>2, <2>1, <2>3 DEF RecordOK, OnlyOf
  <2> QED BY <2>2, <2>3
<1> QED BY <1>3, <1>4 DEF TraceInv, OnlyOf

\* What a record that is appended changes.
LEMMA Appended ==
  ASSUME TraceInv, NEW t \in Turns, NEW r, table' = Append(table, r), r.turn = t, r.session = turn[t].session
  PROVE  /\ IsSequence(table') /\ Len(table) \in Nat /\ Len(table') = Len(table) + 1
         /\ \A i \in 1..Len(table) : table'[i] = table[i]
         /\ table'[Len(table) + 1] = r
         /\ Mine(t)' = Mine(t) \cup {Len(table) + 1}
         /\ \A u : u # t => Mine(u)' = Mine(u)
         /\ \A s : Count(s) \in Nat /\ Count(s)' = IF s = turn[t].session THEN Count(s) + 1 ELSE Count(s)
<1>1. /\ IsSequence(table') /\ Len(table) \in Nat /\ Len(table') = Len(table) + 1
      /\ \A i \in 1..Len(table) : table'[i] = table[i]
      /\ table'[Len(table) + 1] = r
  BY AppendKeeps DEF TraceInv
<1>2. 1..Len(table') = (1..Len(table)) \cup {Len(table) + 1} /\ Len(table) + 1 \notin 1..Len(table)
  BY <1>1
<1>3. Mine(t)' = Mine(t) \cup {Len(table) + 1} /\ \A u : u # t => Mine(u)' = Mine(u)
  BY <1>1, <1>2 DEF Mine
<1>4. ASSUME NEW s
      PROVE  Count(s) \in Nat /\ Count(s)' = IF s = turn[t].session THEN Count(s) + 1 ELSE Count(s)
  <2>1. Keys(s) \in SUBSET (1..Len(table))
    BY DEF Keys
  <2>2. IsFiniteSet(Keys(s)) /\ Cardinality(Keys(s)) \in Nat
    BY <2>1, KeysFinite
  <2>3. CASE s = turn[t].session
    <3>1. Keys(s)' = Keys(s) \cup {Len(table) + 1} /\ Len(table) + 1 \notin Keys(s)
      BY <1>1, <1>2, <2>3 DEF Keys
    <3>2. Cardinality(Keys(s)') = Cardinality(Keys(s)) + 1
      BY <2>2, <3>1, FS_AddElement
    <3> QED BY <2>2, <2>3, <3>2 DEF Count
  <2>4. CASE s # turn[t].session
    <3>1. Keys(s)' = Keys(s)
      BY <1>1, <1>2, <2>4 DEF Keys
    <3> QED BY <2>2, <2>4, <3>1 DEF Count
  <2> QED BY <2>3, <2>4
<1> QED BY <1>1, <1>3, <1>4

\* A record that a turn appends is of no concern to the others.
LEMMA OthersKeptOnAppend ==
  ASSUME TraceInv, NEW t \in Turns, OnlyOf(t), turn[t].st \in Appending, turn'[t].session = turn[t].session,
         NEW r, table' = Append(table, r), r.turn = t, r.session = turn[t].session, r.seq = turn[t].seq,
         TurnTraced(t)'
  PROVE  TraceInv'
<1>1. /\ IsSequence(table') /\ Len(table) \in Nat /\ Len(table') = Len(table) + 1
      /\ \A i \in 1..Len(table) : table'[i] = table[i]
      /\ table'[Len(table) + 1] = r
      /\ \A u : u # t => Mine(u)' = Mine(u)
      /\ \A s : Count(s) \in Nat /\ Count(s)' \in Nat /\ Count(s) <= Count(s)'
      /\ Count(turn[t].session)' = Count(turn[t].session) + 1
  BY Appended
<1>2. \A u : \A i \in Mine(u) : table'[i] = table[i] /\ table[i].seq \in Nat
  BY <1>1 DEF Mine, TraceInv, RecordOK
<1>3. ASSUME NEW u \in Turns \ {t}
      PROVE  TurnTraced(u)'
  <2>0. /\ TurnTraced(u) /\ turn'[u] = turn[u] /\ earlier'[u] = earlier[u] /\ Mine(u)' = Mine(u)
        /\ \A i \in Mine(u) : table'[i] = table[i]
    BY <1>1, <1>2 DEF TraceInv, OnlyOf
  <2>1. Responded(u)' = Responded(u) /\ HasRun(u)' = HasRun(u)
    BY <2>0 DEF Responded, HasRun
  <2> PICK s : s = turn[u].session
    OBVIOUS
  <2>a. Count(s) \in Nat /\ Count(s)' \in Nat /\ Count(s) <= Count(s)' /\ turn'[u].session = s
    BY <1>1, <2>0
  <2>2. NumbersOK(u)' /\ ResponseOK(u)'
    <3>a. NumbersOK(u)
      BY <2>0 DEF TurnTraced
    <3>b. turn'[u].st \in Before' => Mine(u)' = {} /\ earlier'[u] = {}
      BY <2>0, <3>a DEF NumbersOK, Before
    <3>c. turn'[u].st \in Appending' => turn'[u].seq \in Nat /\ turn'[u].seq <= Count(turn[u].session)' + 1
      BY <2>0, <2>a, <3>a DEF NumbersOK, Appending
    <3>d. turn'[u].st \in Appending' => \A i \in Mine(u)' : table'[i].seq < turn'[u].seq
      BY <2>0, <3>a DEF NumbersOK, Appending
    <3>e. \A i, j \in Mine(u)' : i < j => table'[i].seq < table'[j].seq
      BY <2>0, <3>a DEF NumbersOK
    <3>1. NumbersOK(u)'
      BY <3>b, <3>c, <3>d, <3>e DEF NumbersOK
    <3> QED BY <2>0, <2>1, <3>1 DEF TurnTraced, ResponseOK
  <2>3. EarlierOK(u)'
    <3>1. \A v \in earlier[u] : v \in Turns /\ v # t /\ turn'[v] = turn[v] /\ Mine(v)' = Mine(v)
      BY <1>1, <2>0 DEF TurnTraced, EarlierOK, OnlyOf, Over, Appending
    <3>2. \A v \in earlier[u] : \A i \in Mine(v) : table'[i] = table[i]
      BY <1>2
    <3>3. EarlierOK(u)
      BY <2>0 DEF TurnTraced
    <3> QED
      <4> SUFFICES ASSUME NEW v \in earlier'[u]
                   PROVE  /\ v \in Turns /\ turn'[v].st \in Over' /\ turn'[v].session = turn'[u].session
                          /\ \A i \in Mine(v)' :
                               /\ turn'[u].st \in Appending' => table'[i].seq < turn'[u].seq
                               /\ \A j \in Mine(u)' : table'[i].seq < table'[j].seq
        BY DEF EarlierOK
      <4>1. /\ v \in earlier[u] /\ turn'[v] = turn[v] /\ Mine(v)' = Mine(v) /\ v \in Turns
            /\ \A i \in Mine(v) : table'[i] = table[i]
        BY <2>0, <3>1, <3>2
      <4>2. /\ turn[v].st \in Over /\ turn[v].session = turn[u].session
            /\ \A i \in Mine(v) : /\ turn[u].st \in Appending => table[i].seq < turn[u].seq
                                  /\ \A j \in Mine(u) : table[i].seq < table[j].seq
        BY <3>3, <4>1 DEF EarlierOK
      <4> QED BY <2>0, <4>1, <4>2, SameNames
  <2>4. u \in DOMAIN runs' => u \in DOMAIN runs /\ runs'[u] = runs[u] /\ RunOK(u)
    BY <2>0 DEF TurnTraced, OnlyOf
  <2>5. u \in DOMAIN runs' => RunOK(u)'
    <3>1. u \in DOMAIN runs' => runs'[u].session = s /\ runs'[u].started \in Nat
      BY <2>4 DEF RunOK
    <3> SUFFICES ASSUME u \in DOMAIN runs' PROVE RunOK(u)'
      OBVIOUS
    <3>2. RunOK(u) /\ runs'[u] = runs[u]
      BY <2>4
    <3>3. turn'[u].st \in Before' => runs'[u].started <= Count(runs[u].session)' + 1
      BY <2>0, <2>a, <3>1, <3>2 DEF RunOK, Before
    <3>4. /\ turn'[u].st \in Appending' => runs'[u].started <= turn'[u].seq
          /\ \A i \in Mine(u)' : runs'[u].started <= table'[i].seq
      BY <2>0, <3>2 DEF RunOK, Appending
    <3>5. runs'[u].status \in {"Succeeded", "Failed"} =>
            /\ turn'[u].st \in Over'
            /\ Responded(u)' <=> runs'[u].status = "Succeeded"
            /\ \A i \in Mine(u)' : table'[i].seq <= runs'[u].completed
            /\ runs'[u].completed \in Nat
      BY <2>0, <2>1, <3>2 DEF RunOK, Over
    <3>6. runs'[u] = [f \in RunFields' |-> runs'[u][f]] /\ turn'[u].st # "idle"
      BY <2>0, <3>2 DEF RunOK, RunFields
    <3> QED BY <2>a, <3>1, <3>3, <3>4, <3>5, <3>6 DEF RunOK
  <2> QED BY <2>0, <2>1, <2>2, <2>3, <2>4, <2>5 DEF TurnTraced, OnlyOf
<1>4. ASSUME NEW i \in 1..Len(table)
      PROVE  RecordOK(i)'
  <2>1. RecordOK(i) /\ table'[i] = table[i] /\ turn'[table[i].turn].session = turn[table[i].turn].session
    BY <1>1 DEF TraceInv, RecordOK, OnlyOf
  <2> QED BY <1>1, <2>1 DEF RecordOK
<1> PICK new : new = Len(table) + 1
  OBVIOUS
<1>5. RecordOK(new)'
  <2>1. turn[t].seq \in Nat /\ turn[t].seq <= Count(turn[t].session) + 1
    BY DEF TraceInv, TurnTraced, NumbersOK
  <2> PICK s : s = turn[t].session
    OBVIOUS
  <2>2. Count(s) \in Nat /\ Count(s)' = Count(s) + 1 /\ turn'[t].session = s /\ turn[t].seq <= Count(s) + 1
    BY <2>1, Appended
  <2>3. table'[new].turn = t /\ table'[new].session = s /\ table'[new].seq = turn[t].seq
    BY <1>1
  <2> QED BY <2>1, <2>2, <2>3 DEF RecordOK
<1>6. \A i \in 1..Len(table') : RecordOK(i)'
  BY <1>1, <1>4, <1>5
<1>7. earlier' = [u \in Turns |-> earlier'[u]] /\ DOMAIN runs' \subseteq Turns
  BY DEF OnlyOf
<1>8. \A u \in Turns : TurnTraced(u)'
  BY <1>3
<1> QED BY <1>1, <1>6, <1>7, <1>8 DEF TraceInv

\* A step of turn t, if it starts, ends or concludes no run.
LEMMA OneTurnSteps ==
  ASSUME TraceInv, TurnsTyped, NEW t \in Turns, NEW new, Steps(t, new), UNCHANGED <<earlier, runs>>
  PROVE  turn'[t] = new /\ OnlyOf(t) /\ earlier'[t] = earlier[t]
<1>1. turn' = [turn EXCEPT ![t] = new]
  BY DEF Steps
<1>2. turn'[t] = new /\ \A u \in Turns \ {t} : turn'[u] = turn[u]
  BY <1>1 DEF TurnsTyped
<1> QED BY <1>2 DEF OnlyOf, TraceInv

\* A step of turn t that inserts its run.
LEMMA OneRunSteps ==
  ASSUME TraceInv, TurnsTyped, NEW t \in Turns, NEW new, Steps(t, new), earlier' = earlier,
         NEW run, put_job_run(t, run)
  PROVE  turn'[t] = new /\ OnlyOf(t) /\ earlier'[t] = earlier[t] /\ t \in DOMAIN runs' /\ runs'[t] = run
<1>1. turn' = [turn EXCEPT ![t] = new]
  BY DEF Steps
<1>2. turn'[t] = new /\ \A u \in Turns \ {t} : turn'[u] = turn[u]
  BY <1>1 DEF TurnsTyped
<1>3. /\ DOMAIN runs' = DOMAIN runs \cup {t} /\ runs'[t] = run
      /\ \A u \in DOMAIN runs : u # t => runs'[u] = runs[u]
  BY DEF put_job_run, Insert
<1> QED BY <1>2, <1>3 DEF OnlyOf, TraceInv

\* A turn that goes on without appending keeps its numbers.
Onwards(t) ==
  /\ turn[t].st \notin Over /\ turn[t].st # "idle" /\ turn'[t].st # "idle"
  /\ turn'[t].session = turn[t].session
  /\ turn'[t].st \in Before \cup Appending \cup {"conclude"} \cup Over
  /\ turn'[t].st \in Before => turn[t].st \in Before
  /\ turn'[t].st \in Appending => turn[t].st \in Appending /\ turn'[t].seq = turn[t].seq

\* Such a step keeps the invariant if it keeps what is known of response and run.
LEMMA OnwardsKeeps ==
  ASSUME TraceInv, NEW t \in Turns, OnlyOf(t), Onwards(t), table' = table, earlier'[t] = earlier[t],
         ResponseOK(t)', HasRun(t)' => t \in DOMAIN runs', t \in DOMAIN runs' => RunOK(t)'
  PROVE  TraceInv'
<1>0. TurnTraced(t)
  BY DEF TraceInv
<1>1. Mine(t)' = Mine(t) /\ \A u : Mine(u)' = Mine(u)
  BY SameTable
<1>2. NumbersOK(t)'
  <2> PICK s : s = turn[t].session
    OBVIOUS
  <2>1. Count(s)' = Count(s) /\ turn'[t].session = s
    BY SameTable DEF Onwards
  <2>2. turn'[t].st \in Before' => Mine(t)' = {} /\ earlier'[t] = {}
    BY <1>0, <1>1, SameNames DEF Onwards, TurnTraced, NumbersOK
  <2>3. turn'[t].st \in Appending' => /\ turn'[t].seq \in Nat /\ turn'[t].seq <= Count(turn[t].session)' + 1
                                     /\ \A i \in Mine(t)' : table'[i].seq < turn'[t].seq
    BY <1>0, <1>1, <2>1, SameNames DEF Onwards, TurnTraced, NumbersOK
  <2>4. \A i, j \in Mine(t)' : i < j => table'[i].seq < table'[j].seq
    BY <1>0, <1>1 DEF TurnTraced, NumbersOK
  <2> QED BY <2>2, <2>3, <2>4 DEF NumbersOK
<1>3. EarlierOK(t)'
  <2> SUFFICES ASSUME NEW v \in earlier'[t]
               PROVE  /\ v \in Turns /\ turn'[v].st \in Over' /\ turn'[v].session = turn'[t].session
                      /\ \A i \in Mine(v)' : /\ turn'[t].st \in Appending' => table'[i].seq < turn'[t].seq
                                            /\ \A j \in Mine(t)' : table'[i].seq < table'[j].seq
    BY DEF EarlierOK
  <2>1. /\ v \in Turns /\ turn[v].st \in Over /\ turn[v].session = turn[t].session
        /\ \A i \in Mine(v) : /\ turn[t].st \in Appending => table[i].seq < turn[t].seq
                              /\ \A j \in Mine(t) : table[i].seq < table[j].seq
    BY <1>0 DEF TurnTraced, EarlierOK
  <2>2. v # t /\ turn'[v] = turn[v]
    BY <2>1 DEF Onwards, OnlyOf
  <2> QED BY <1>1, <2>1, <2>2, SameNames DEF Onwards
<1>4. TurnTraced(t)'
  BY <1>2, <1>3, SameNames DEF TurnTraced, Onwards
<1> QED BY <1>4, OthersKept DEF Onwards

\* The run of such a turn has not been concluded, and is as true as it was.
LEMMA RunKept ==
  ASSUME TraceInv, NEW t \in Turns, Onwards(t), table' = table, t \in DOMAIN runs,
         runs'[t] = runs[t] \/ runs'[t] = [runs[t] EXCEPT !.status = "Running"]
  PROVE  RunOK(t)'
<1>0. RunOK(t) /\ NumbersOK(t)
  BY DEF TraceInv, TurnTraced
<1>1. runs'[t].status \notin {"Succeeded", "Failed"}
  BY <1>0 DEF RunOK, RunFields, Onwards
<1>2. /\ runs'[t] = [f \in RunFields |-> runs'[t][f]] /\ runs'[t].started = runs[t].started
      /\ runs'[t].session = runs[t].session
  BY <1>0 DEF RunOK, RunFields
<1> PICK s : s = turn[t].session
  OBVIOUS
<1>3. Count(s)' = Count(s) /\ turn'[t].session = s /\ runs'[t].session = s /\ Mine(t)' = Mine(t)
  BY <1>0, <1>2, SameTable DEF Onwards, RunOK
<1>4. turn'[t].st \in Before' => runs'[t].started <= Count(runs[t].session)' + 1
  BY <1>0, <1>2, <1>3, SameNames DEF RunOK, Onwards
<1>5. /\ turn'[t].st \in Appending' => runs'[t].started <= turn'[t].seq
      /\ \A i \in Mine(t)' : runs'[t].started <= table'[i].seq
  BY <1>0, <1>2, <1>3, SameNames DEF RunOK, Onwards
<1>6. RunFields' = RunFields
  BY DEF RunFields
<1>7. runs'[t].started \in Nat /\ turn'[t].st # "idle"
  BY <1>0, <1>2 DEF RunOK, Onwards
<1> QED BY <1>1, <1>2, <1>3, <1>4, <1>5, <1>6, <1>7 DEF RunOK

\* A number up to another is below the next.
LEMMA BelowNext ==
  ASSUME NEW x \in Nat, NEW y \in Nat, x <= y \/ x < y
  PROVE  x < y + 1
  OBVIOUS

\* A turn goes on between two records.
LEMMA MovesKeep ==
  ASSUME TraceInv, TurnsTyped, NEW t \in Turns, NEW new, Steps(t, new), UNCHANGED <<table, earlier, runs>>,
         turn[t].st \in Appending, new.st \in Appending, new.seq = turn[t].seq, new.session = turn[t].session
  PROVE  TraceInv'
<1>1. turn'[t] = new /\ OnlyOf(t) /\ earlier'[t] = earlier[t]
  BY OneTurnSteps
<1>2. Onwards(t)
  BY <1>1 DEF Onwards, Before, Appending, Over
<1>3. ResponseOK(t)'
  <2>1. ~Responded(t)' /\ turn'[t].st # "conclude"
    BY <1>1, SameTable DEF TraceInv, TurnTraced, ResponseOK, Appending
  <2> QED BY <2>1 DEF ResponseOK
<1>4. HasRun(t)' => HasRun(t)
  BY <1>1 DEF HasRun, Appending
<1>5. t \in DOMAIN runs' => RunOK(t)'
  BY <1>2, RunKept
<1>6. HasRun(t)' => t \in DOMAIN runs'
  BY <1>4 DEF TraceInv, TurnTraced
<1> QED BY <1>1, <1>2, <1>3, <1>5, <1>6, OnwardsKeeps

\* run_turn returns an error; what it has appended stays.
LEMMA FailsKeep ==
  ASSUME TraceInv, TurnsTyped, NEW t \in Turns, Returns(t, "err"), UNCHANGED <<table, earlier, runs>>,
         turn[t].st \in Appending \cup {"number"}
  PROVE  TraceInv'
<1> DEFINE st == IF JobOf(t) # Without THEN "conclude" ELSE "err"
           new == [turn[t] EXCEPT !.st = st, !.result = "err", !.calls = <<>>]
<1>1. Steps(t, new)
  BY DEF Returns
<1>2. new.st = st /\ new.result = "err" /\ new.session = turn[t].session
  BY DEF TurnsTyped, IsTurn, TurnFields
<1> HIDE DEF new
<1>3. turn'[t] = new /\ OnlyOf(t) /\ earlier'[t] = earlier[t]
  BY <1>1, OneTurnSteps
<1>4. Onwards(t)
  BY <1>2, <1>3 DEF Onwards, Before, Appending, Over
<1>5. ~Responded(t)
  BY DEF TraceInv, TurnTraced, ResponseOK, NumbersOK, Responded, Before
<1>6. ResponseOK(t)'
  <2>1. ~Responded(t)' /\ turn'[t].st = st /\ turn'[t].result = "err"
    BY <1>2, <1>3, <1>5, SameTable
  <2> QED BY <2>1 DEF ResponseOK, Appending
<1>7. HasRun(t)' => HasRun(t)
  BY <1>2, <1>3 DEF HasRun, Appending
<1>8. t \in DOMAIN runs' => RunOK(t)'
  BY <1>4, RunKept
<1>9. HasRun(t)' => t \in DOMAIN runs'
  BY <1>7 DEF TraceInv, TurnTraced
<1> QED BY <1>3, <1>4, <1>6, <1>8, <1>9, OnwardsKeeps

\* A record is appended under the number of the turn.
LEMMA RecordKeeps ==
  ASSUME TraceInv, TurnsTyped, NEW t \in Turns, NEW new, Steps(t, new), UNCHANGED <<earlier, runs>>,
         turn[t].st \in Appending, new.session = turn[t].session,
         NEW r, table' = Append(table, r), r.turn = t, r.session = turn[t].session, r.seq = turn[t].seq,
         \/ new.st \in Appending /\ new.seq = turn[t].seq + 1 /\ r.kind # "AssistantMessage"
         \/ /\ new.st = (IF JobOf(t) # Without THEN "conclude" ELSE "ok") /\ new.result = "ok"
            /\ r.kind = "AssistantMessage"
  PROVE  TraceInv'
<1>1. turn'[t] = new /\ OnlyOf(t) /\ earlier'[t] = earlier[t]
  BY OneTurnSteps
<1>2. TurnTraced(t) /\ NumbersOK(t) /\ EarlierOK(t) /\ ResponseOK(t) /\ turn[t].seq \in Nat
  BY DEF TraceInv, TurnTraced, NumbersOK
<1> PICK s, key : s = turn[t].session /\ key = Len(table) + 1
  OBVIOUS
<1>3. /\ Len(table) \in Nat /\ \A i \in 1..Len(table) : table'[i] = table[i]
      /\ table'[key] = r /\ Mine(t)' = Mine(t) \cup {key}
      /\ \A u : u # t => Mine(u)' = Mine(u)
      /\ Count(s) \in Nat /\ Count(s)' = Count(s) + 1
  BY Appended
<1>4. \A u : \A i \in Mine(u) : table'[i] = table[i] /\ table[i].seq \in Nat /\ i < key /\ i \in Nat
  BY <1>3 DEF Mine, TraceInv, RecordOK
<1>5. /\ \A i \in Mine(t) : table[i].seq < turn[t].seq
      /\ turn[t].seq <= Count(s) + 1
  BY <1>2 DEF NumbersOK
<1>6. new.st \notin Before /\ new.st # "idle" /\ new.st \in Appending \cup {"conclude"} \cup Over
  BY DEF Before, Appending, Over
<1>7. new.st \in Appending => new.seq = turn[t].seq + 1
  BY DEF Appending
<1>8. NumbersOK(t)'
  <2>1. new.st \in Appending => /\ new.seq \in Nat /\ new.seq <= Count(s)' + 1
                                /\ \A i \in Mine(t)' : table'[i].seq < new.seq
    <3>1. \A i \in Mine(t)' : table'[i].seq \in Nat /\ table'[i].seq <= turn[t].seq
      <4> SUFFICES ASSUME NEW i \in Mine(t)' PROVE table'[i].seq \in Nat /\ table'[i].seq <= turn[t].seq
        OBVIOUS
      <4>1. CASE i = key
        BY <1>2, <1>3, <4>1
      <4>2. CASE i \in Mine(t)
        <5>1. table'[i] = table[i] /\ table[i].seq \in Nat
          BY <1>4, <4>2
        <5>2. table[i].seq < turn[t].seq
          BY <1>5, <4>2
        <5> PICK x, y : x = table[i].seq /\ y = turn[t].seq
          OBVIOUS
        <5>3. x \in Nat /\ y \in Nat /\ x < y
          BY <1>2, <5>1, <5>2
        <5> QED BY <5>1, <5>3
      <4> QED BY <1>3, <4>1, <4>2
    <3> SUFFICES ASSUME new.st \in Appending
                 PROVE  /\ new.seq \in Nat /\ new.seq <= Count(s)' + 1
                        /\ \A i \in Mine(t)' : table'[i].seq < new.seq
      OBVIOUS
    <3>2. new.seq = turn[t].seq + 1
      BY <1>7
    <3>3. new.seq \in Nat /\ new.seq <= Count(s)' + 1
      BY <1>2, <1>3, <1>5, <3>2
    <3>4. ASSUME NEW i \in Mine(t)'
          PROVE  table'[i].seq < new.seq
      <4>1. table'[i].seq \in Nat /\ table'[i].seq <= turn[t].seq
        BY <3>1
      <4>2. table'[i].seq < turn[t].seq + 1
        BY <1>2, <4>1, BelowNext
      <4> QED BY <3>2, <4>2
    <3> QED BY <3>3, <3>4
  <2>2. \A i, j \in Mine(t)' : i < j => table'[i].seq < table'[j].seq
    <3> SUFFICES ASSUME NEW i \in Mine(t)', NEW j \in Mine(t)', i < j PROVE table'[i].seq < table'[j].seq
      OBVIOUS
    <3>1. i \in Mine(t) /\ (j \in Mine(t) \/ j = key)
      BY <1>3, <1>4
    <3> QED BY <1>2, <1>3, <1>4, <1>5, <3>1 DEF NumbersOK
  <2>3. turn'[t].st \in Appending' => /\ turn'[t].seq \in Nat /\ turn'[t].seq <= Count(turn[t].session)' + 1
                                     /\ \A i \in Mine(t)' : table'[i].seq < turn'[t].seq
    BY <1>1, <2>1, SameNames
  <2> QED BY <1>1, <1>6, <2>2, <2>3, SameNames DEF NumbersOK
<1>9. EarlierOK(t)'
  <2> SUFFICES ASSUME NEW v \in earlier'[t]
               PROVE  /\ v \in Turns /\ turn'[v].st \in Over' /\ turn'[v].session = turn'[t].session
                      /\ \A i \in Mine(v)' : /\ turn'[t].st \in Appending' => table'[i].seq < turn'[t].seq
                                            /\ \A j \in Mine(t)' : table'[i].seq < table'[j].seq
    BY DEF EarlierOK
  <2>1. /\ v \in Turns /\ turn[v].st \in Over /\ turn[v].session = turn[t].session
        /\ \A i \in Mine(v) : table[i].seq < turn[t].seq /\ \A j \in Mine(t) : table[i].seq < table[j].seq
    BY <1>1, <1>2 DEF EarlierOK
  <2>2. v # t /\ turn'[v] = turn[v] /\ Mine(v)' = Mine(v)
    <3>1. v # t
      BY <2>1 DEF Over, Appending
    <3> QED BY <1>1, <1>3, <2>1, <3>1 DEF OnlyOf
  <2>3. \A i \in Mine(v) : table'[i] = table[i] /\ table[i].seq \in Nat
    BY <1>4
  <2>4. \A i \in Mine(v)' : \A j \in Mine(t)' : table'[i].seq < table'[j].seq
    <3> SUFFICES ASSUME NEW i \in Mine(v)', NEW j \in Mine(t)' PROVE table'[i].seq < table'[j].seq
      OBVIOUS
    <3>1. i \in Mine(v) /\ table'[i] = table[i] /\ table[i].seq < turn[t].seq
      BY <2>1, <2>2, <2>3
    <3>2. CASE j = key
      BY <1>3, <3>1, <3>2
    <3>3. CASE j \in Mine(t)
      <4>1. table'[j] = table[j] /\ table[i].seq < table[j].seq
        BY <1>4, <2>1, <3>1, <3>3
      <4> QED BY <3>1, <4>1
    <3> QED BY <1>3, <3>2, <3>3
  <2>5. \A i \in Mine(v)' : turn'[t].st \in Appending' => table'[i].seq < turn'[t].seq
    <3> SUFFICES ASSUME NEW i \in Mine(v)', new.st \in Appending PROVE table'[i].seq < new.seq
      BY <1>1, SameNames
    <3>1. i \in Mine(v) /\ table'[i].seq < turn[t].seq /\ table'[i].seq \in Nat
      BY <2>1, <2>2, <2>3
    <3>2. new.seq = turn[t].seq + 1
      BY <1>7
    <3> PICK x, y : x = table'[i].seq /\ y = turn[t].seq
      OBVIOUS
    <3>3. x \in Nat /\ y \in Nat /\ x < y
      BY <1>2, <3>1
    <3>4. x < y + 1
      BY <3>3, BelowNext
    <3> QED BY <3>2, <3>4
  <2> QED BY <1>1, <2>1, <2>2, <2>4, <2>5, SameNames
<1>10. ~Responded(t)
  BY <1>2 DEF ResponseOK
<1>11. Responded(t)' <=> r.kind = "AssistantMessage"
  BY <1>3, <1>4, <1>10 DEF Responded
<1>12. ResponseOK(t)'
  BY <1>1, <1>11, SameNames DEF ResponseOK, Appending
<1>13. HasRun(t)' => HasRun(t)
  BY <1>1 DEF HasRun, Appending
<1>14. ASSUME t \in DOMAIN runs
       PROVE  RunOK(t)'
  <2>1. RunOK(t) /\ runs'[t] = runs[t]
    BY <1>2, <1>14 DEF TurnTraced
  <2>2. /\ runs[t].status \notin {"Succeeded", "Failed"} /\ runs[t].started \in Nat
        /\ runs[t].started <= turn[t].seq /\ runs[t].session = turn'[t].session
        /\ \A i \in Mine(t) : runs[t].started <= table[i].seq
        /\ runs[t] = [f \in RunFields |-> runs[t][f]]
    BY <1>1, <2>1 DEF RunOK, Over, Appending
  <2>3. /\ \A i \in Mine(t)' : runs[t].started <= table'[i].seq
        /\ turn'[t].st \in Appending' => runs[t].started <= turn'[t].seq
    <3>1. ASSUME NEW i \in Mine(t)'
          PROVE  runs[t].started <= table'[i].seq
      <4>1. CASE i = key
        BY <1>3, <2>2, <4>1
      <4>2. CASE i \in Mine(t)
        BY <1>4, <2>2, <4>2
      <4> QED BY <1>3, <4>1, <4>2
    <3>2. ASSUME new.st \in Appending
          PROVE  runs[t].started <= new.seq
      <4>1. new.seq = turn[t].seq + 1
        BY <1>7, <3>2
      <4> QED BY <1>2, <2>2, <4>1
    <3> QED BY <1>1, <3>1, <3>2, SameNames
  <2>4. RunFields' = RunFields
    BY DEF RunFields
  <2> QED BY <1>1, <1>6, <2>1, <2>2, <2>3, <2>4, SameNames DEF RunOK
<1>15. TurnTraced(t)'
  <2>1. turn'[t].st \in Before' \cup Appending' \cup {"conclude"} \cup Over'
    BY <1>1, <1>6, SameNames
  <2>2. HasRun(t)' => t \in DOMAIN runs'
    BY <1>2, <1>13 DEF TurnTraced
  <2> QED BY <1>8, <1>9, <1>12, <1>14, <2>1, <2>2 DEF TurnTraced
<1> QED BY <1>1, <1>15, OthersKeptOnAppend


\* A turn appends a record and goes on, or its store fails.
LEMMA AppendsKeep ==
  ASSUME TraceInv, TurnsTyped, NEW t \in Turns, NEW kind, NEW call, NEW new, Appends(t, kind, call, new),
         turn[t].st \in Appending, IsTurn(new), new.st \in Appending, new.seq = turn[t].seq,
         new.session = turn[t].session, kind # "AssistantMessage"
  PROVE  TraceInv'
<1>1. UNCHANGED <<earlier, runs>>
  BY DEF Appends, TurnStep
<1>2. CASE Returns(t, "err") /\ UNCHANGED table
  BY <1>1, <1>2, FailsKeep
<1> DEFINE r == [session |-> turn[t].session, turn |-> t, kind |-> kind, call |-> call, seq |-> turn[t].seq]
           next == [new EXCEPT !.seq = new.seq + 1]
<1>3. CASE table' = Append(table, r) /\ Steps(t, next)
  <2>1. r.turn = t /\ r.session = turn[t].session /\ r.seq = turn[t].seq /\ r.kind = kind
    OBVIOUS
  <2>2. next.st = new.st /\ next.session = new.session /\ next.seq = new.seq + 1
    BY DEF IsTurn, TurnFields
  <2> HIDE DEF r, next
  <2> QED BY <1>1, <1>3, <2>1, <2>2, RecordKeeps
<1>4. \/ table' = Append(table, r) /\ Steps(t, next)
      \/ Returns(t, "err") /\ UNCHANGED table
  BY DEF Appends, append
<1> QED BY <1>2, <1>3, <1>4

\* The steps that append a record.
LEMMA RecordsKeepTraces ==
  ASSUME TraceInv, TurnsTyped, NEW t \in Turns,
         UserMessage(t) \/ RecordCall(t) \/ RecordResult(t) \/ FinalText(t)
  PROVE  TraceInv'
<1>a. IsTurn(turn[t])
  BY DEF TurnsTyped
<1>b. turn[t].st \in Appending
  BY DEF UserMessage, RecordCall, RecordResult, FinalText, Appending
<1>1. CASE UserMessage(t)
  <2> DEFINE new == [turn[t] EXCEPT !.st = "provider", !.left = MaxIterations]
  <2>1. Appends(t, "UserMessage", Without, new)
    BY <1>1 DEF UserMessage
  <2>2. IsTurn(new) /\ new.st = "provider" /\ new.seq = turn[t].seq /\ new.session = turn[t].session
    BY <1>a DEF IsTurn, TurnFields
  <2>3. new.st \in Appending
    BY <2>2 DEF Appending
  <2> HIDE DEF new
  <2> QED BY <1>b, <2>1, <2>2, <2>3, AppendsKeep
<1>2. CASE RecordCall(t)
  <2> DEFINE new == [turn[t] EXCEPT !.st = "authorize"]
  <2>1. Appends(t, "AssistantToolCall", Head(turn[t].calls).id, new)
    BY <1>2 DEF RecordCall
  <2>2. IsTurn(new) /\ new.st = "authorize" /\ new.seq = turn[t].seq /\ new.session = turn[t].session
    BY <1>a DEF IsTurn, TurnFields
  <2>3. new.st \in Appending
    BY <2>2 DEF Appending
  <2> HIDE DEF new
  <2> QED BY <1>b, <2>1, <2>2, <2>3, AppendsKeep
<1>3. CASE RecordResult(t)
  <2> DEFINE s == IF Len(turn[t].calls) = 1 THEN "provider" ELSE "call"
             new == [turn[t] EXCEPT !.calls = Tail(turn[t].calls), !.st = s]
  <2>1. Appends(t, "ToolResult", Call(t).id, new)
    BY <1>3 DEF RecordResult
  <2>2. s \in Appending
    BY DEF Appending
  <2>3. IsTurn(new) /\ new.st = s /\ new.seq = turn[t].seq /\ new.session = turn[t].session
    BY <1>a DEF IsTurn, TurnFields
  <2> HIDE DEF new
  <2> QED BY <1>b, <2>1, <2>2, <2>3, AppendsKeep
<1>4. CASE FinalText(t)
  <2>1. UNCHANGED <<earlier, runs>>
    BY <1>4 DEF FinalText, TurnStep
  <2> DEFINE r == [session |-> turn[t].session, turn |-> t, kind |-> "AssistantMessage",
                   call |-> Without, seq |-> turn[t].seq]
             st == IF JobOf(t) # Without THEN "conclude" ELSE "ok"
             new == [turn[t] EXCEPT !.st = st, !.result = "ok", !.calls = <<>>]
  <2>2. \/ table' = Append(table, r) /\ Returns(t, "ok")
        \/ Returns(t, "err") /\ UNCHANGED table
    BY <1>4 DEF FinalText, append
  <2>3. CASE Returns(t, "err") /\ UNCHANGED table
    BY <1>b, <2>1, <2>3, FailsKeep
  <2>4. CASE table' = Append(table, r) /\ Returns(t, "ok")
    <3>1. Steps(t, new)
      BY <2>4 DEF Returns
    <3>2. new.st = st /\ new.result = "ok" /\ new.session = turn[t].session
      BY <1>a DEF IsTurn, TurnFields
    <3>3. r.turn = t /\ r.session = turn[t].session /\ r.seq = turn[t].seq /\ r.kind = "AssistantMessage"
      OBVIOUS
    <3> HIDE DEF r, new
    <3> QED BY <1>b, <2>1, <2>4, <3>1, <3>2, <3>3, RecordKeeps
  <2> QED BY <2>2, <2>3, <2>4
<1> QED BY <1>1, <1>2, <1>3, <1>4

\* The steps between two records: the provider answers, a tool call is dealt with.
LEMMA CallsKeepTraces ==
  ASSUME TraceInv, TurnsTyped, NEW t \in Turns, Complete(t) \/ Authorize(t) \/ Audit(t) \/ ExecuteTool(t)
  PROVE  TraceInv'
<1>a. IsTurn(turn[t])
  BY DEF TurnsTyped
<1>b. turn[t].st \in Appending /\ UNCHANGED <<table, earlier, runs>>
  BY DEF Complete, Authorize, Audit, ExecuteTool, Appending, TurnStep
<1>1. CASE Returns(t, "err")
  BY <1>b, <1>1, FailsKeep
<1>2. CASE GetsResult(t)
  <2> DEFINE new == [turn[t] EXCEPT !.st = "result", !.audit = 0, !.decision = Without]
  <2>1. Steps(t, new)
    BY <1>2 DEF GetsResult
  <2>2. new.st = "result" /\ new.seq = turn[t].seq /\ new.session = turn[t].session
    BY <1>a DEF IsTurn, TurnFields
  <2>3. new.st \in Appending
    BY <2>2 DEF Appending
  <2> HIDE DEF new
  <2> QED BY <1>b, <2>1, <2>2, <2>3, MovesKeep
<1>3. CASE Steps(t, [turn[t] EXCEPT !.st = "execute"])
  <2> DEFINE new == [turn[t] EXCEPT !.st = "execute"]
  <2>1. Steps(t, new)
    BY <1>3
  <2>2. new.st = "execute" /\ new.seq = turn[t].seq /\ new.session = turn[t].session
    BY <1>a DEF IsTurn, TurnFields
  <2>3. new.st \in Appending
    BY <2>2 DEF Appending
  <2> HIDE DEF new
  <2> QED BY <1>b, <2>1, <2>2, <2>3, MovesKeep
<1>4. CASE \E n, d : Steps(t, [turn[t] EXCEPT !.st = "audit", !.audit = n, !.decision = d])
  <2> PICK n, d : Steps(t, [turn[t] EXCEPT !.st = "audit", !.audit = n, !.decision = d])
    BY <1>4
  <2> DEFINE new == [turn[t] EXCEPT !.st = "audit", !.audit = n, !.decision = d]
  <2>1. Steps(t, new)
    OBVIOUS
  <2>2. new.st = "audit" /\ new.seq = turn[t].seq /\ new.session = turn[t].session
    BY <1>a DEF IsTurn, TurnFields
  <2>3. new.st \in Appending
    BY <2>2 DEF Appending
  <2> HIDE DEF new
  <2> QED BY <1>b, <2>1, <2>2, <2>3, MovesKeep
<1>5. CASE \E r \in load.responses[t] :
             Steps(t, [turn[t] EXCEPT !.left = @ - 1, !.calls = IF r.text THEN <<>> ELSE r.calls,
               !.st = IF r.text THEN "final" ELSE IF r.calls = <<>> THEN "provider" ELSE "call"])
  <2> PICK r \in load.responses[t] :
             Steps(t, [turn[t] EXCEPT !.left = @ - 1, !.calls = IF r.text THEN <<>> ELSE r.calls,
               !.st = IF r.text THEN "final" ELSE IF r.calls = <<>> THEN "provider" ELSE "call"])
    BY <1>5
  <2> DEFINE s == IF r.text THEN "final" ELSE IF r.calls = <<>> THEN "provider" ELSE "call"
             c == IF r.text THEN <<>> ELSE r.calls
             l == turn[t].left - 1
             new == [turn[t] EXCEPT !.left = l, !.calls = c, !.st = s]
  <2>1. Steps(t, new)
    OBVIOUS
  <2>2. s \in Appending
    BY DEF Appending
  <2> HIDE DEF s, c, l
  <2>3. new.st = s /\ new.seq = turn[t].seq /\ new.session = turn[t].session
    BY <1>a DEF IsTurn, TurnFields
  <2> HIDE DEF new
  <2> QED BY <1>b, <2>1, <2>2, <2>3, MovesKeep
<1>6. CASE Complete(t)
  BY <1>1, <1>5, <1>6 DEF Complete, IterationLimit
<1>7. CASE Authorize(t)
  <2>1. \/ GetsResult(t) \/ Steps(t, [turn[t] EXCEPT !.st = "execute"])
        \/ \E n, d : Steps(t, [turn[t] EXCEPT !.st = "audit", !.audit = n, !.decision = d])
    BY <1>7 DEF Authorize, Proceeds
  <2> QED BY <1>2, <1>3, <1>4, <2>1
<1>8. CASE Audit(t)
  BY <1>2, <1>3, <1>8 DEF Audit, AuditFails, Proceeds
<1>9. CASE ExecuteTool(t)
  BY <1>2, <1>9 DEF ExecuteTool
<1> QED BY <1>6, <1>7, <1>8, <1>9

\* The list of a session is as long as its records are many, and none is numbered higher.
LEMMA ListedAll ==
  ASSUME TraceInv, NEW s
  PROVE  /\ Count(s) \in Nat /\ Len(records(s)) = Count(s) /\ next_sequence(s) = Count(s) + 1
         /\ \A u \in Turns : turn[u].session = s =>
              \A i \in Mine(u) : table[i].seq \in Nat /\ table[i].seq <= Count(s)
<1>1. Keys(s) \in SUBSET (1..Len(table))
  BY DEF Keys
<1>2. Count(s) \in Nat
  BY <1>1, KeysFinite DEF Count
<1>3. records(s) = [n \in 1..Count(s) |-> table[At(Keys(s), n)]]
  BY DEF records, Count
<1>4. Len(records(s)) = Count(s)
  BY <1>2, <1>3
<1>5. \A u \in Turns : turn[u].session = s =>
        \A i \in Mine(u) : table[i].seq \in Nat /\ table[i].seq <= Count(s)
  BY DEF TraceInv, RecordOK, Mine
<1> QED BY <1>2, <1>4, <1>5 DEF next_sequence

\* A turn begins, with a run of its job if it is one.
LEMMA StartsKeep ==
  ASSUME TraceInv, NEW t \in Turns, OnlyOf(t), turn[t].st = "idle", table' = table, earlier'[t] = earlier[t],
         turn'[t].st \in {"queued", "number", "err"},
         \/ /\ runs' = runs /\ turn'[t].st # "queued"
            /\ turn'[t].st = "number" => JobOf(t) = Without
         \/ /\ t \in DOMAIN runs'
            /\ runs'[t] = [session |-> turn'[t].session, status |-> "Queued",
                           started |-> Count(turn'[t].session) + 1, completed |-> 0]
  PROVE  TraceInv'
<1>1. TurnTraced(t) /\ Mine(t) = {} /\ earlier[t] = {} /\ t \notin DOMAIN runs
  BY DEF TraceInv, TurnTraced, NumbersOK, RunOK, Before
<1>2. Mine(t)' = {} /\ earlier'[t] = {}
  BY <1>1, SameTable
<1>3. turn'[t].st \notin Appending' /\ turn'[t].st # "conclude" /\ turn'[t].st # "idle"
  BY DEF Appending
<1>4. NumbersOK(t)' /\ EarlierOK(t)' /\ ResponseOK(t)'
  BY <1>2, <1>3 DEF NumbersOK, EarlierOK, ResponseOK
<1>5. HasRun(t)' => t \in DOMAIN runs'
  BY <1>3 DEF HasRun, Appending
<1>6. ASSUME t \in DOMAIN runs'
      PROVE  RunOK(t)'
  <2>1. PICK s : s = turn'[t].session
    OBVIOUS
  <2>2. Count(s) \in Nat /\ Count(s)' = Count(s)
    BY ListedAll, SameTable
  <2>3. runs'[t] = [session |-> s, status |-> "Queued", started |-> Count(s) + 1, completed |-> 0]
    BY <1>1, <1>6, <2>1
  <2>4. runs'[t].started <= Count(s)' + 1 /\ runs'[t].started \in Nat
    BY <2>2, <2>3
  <2>5. runs'[t] = [f \in RunFields' |-> runs'[t][f]] /\ runs'[t].session = s /\ runs'[t].status = "Queued"
    BY <2>3 DEF RunFields
  <2> QED BY <1>2, <1>3, <2>1, <2>4, <2>5 DEF RunOK
<1>7. TurnTraced(t)'
  BY <1>4, <1>5, <1>6 DEF TurnTraced, Before, Over
<1> QED BY <1>1, <1>7, OthersKept DEF Over

\* The steps with which a turn begins.
LEMMA BeginningsKeepTraces ==
  ASSUME TraceInv, TurnsTyped, NEW t \in Turns, ForceRunJob(t) \/ RunChannelTurn(t)
  PROVE  TraceInv'
<1>a. turn[t].st = "idle" /\ UNCHANGED <<table, earlier>>
  BY DEF ForceRunJob, RunChannelTurn, TurnStep
<1>b. Idle = [f \in TurnFields |-> Idle[f]]
  BY DEF Idle, TurnFields
<1>1. CASE Steps(t, [Idle EXCEPT !.st = "err"]) /\ UNCHANGED runs
  <2> DEFINE new == [Idle EXCEPT !.st = "err"]
  <2>1. new.st = "err"
    BY <1>b DEF TurnFields
  <2> HIDE DEF new
  <2>2. turn'[t] = new /\ OnlyOf(t) /\ earlier'[t] = earlier[t]
    BY <1>a, <1>1, OneTurnSteps DEF new
  <2> QED BY <1>a, <1>1, <2>1, <2>2, StartsKeep
<1>2. CASE RunChannelTurn(t)
  <2> PICK s : s = session_id(Origin(t))
    OBVIOUS
  <2> DEFINE new == [Idle EXCEPT !.st = "number", !.session = s]
  <2>1. new.st = "number"
    BY <1>b DEF TurnFields
  <2>2. Steps(t, new) /\ UNCHANGED runs /\ JobOf(t) = Without
    BY <1>2 DEF RunChannelTurn
  <2> HIDE DEF new
  <2>3. turn'[t] = new /\ OnlyOf(t) /\ earlier'[t] = earlier[t]
    BY <1>a, <2>2, OneTurnSteps
  <2> QED BY <1>a, <2>1, <2>2, <2>3, StartsKeep
<1>3. CASE \E s : /\ Steps(t, [Idle EXCEPT !.st = "queued", !.session = s])
                  /\ put_job_run(t, [session |-> s, status |-> "Queued",
                                     started |-> next_sequence(s), completed |-> 0])
  <2> PICK s : /\ Steps(t, [Idle EXCEPT !.st = "queued", !.session = s])
               /\ put_job_run(t, [session |-> s, status |-> "Queued",
                                  started |-> next_sequence(s), completed |-> 0])
    BY <1>3
  <2> DEFINE new == [Idle EXCEPT !.st = "queued", !.session = s]
             run == [session |-> s, status |-> "Queued", started |-> next_sequence(s), completed |-> 0]
  <2>1. new.st = "queued" /\ new.session = s
    BY <1>b DEF TurnFields
  <2>2. run = [session |-> s, status |-> "Queued", started |-> Count(s) + 1, completed |-> 0]
    BY ListedAll
  <2>3. Steps(t, new) /\ put_job_run(t, run)
    OBVIOUS
  <2> HIDE DEF new, run
  <2>4. turn'[t] = new /\ OnlyOf(t) /\ earlier'[t] = earlier[t] /\ t \in DOMAIN runs' /\ runs'[t] = run
    BY <1>a, <2>3, OneRunSteps
  <2> QED BY <1>a, <2>1, <2>2, <2>4, StartsKeep
<1>4. CASE ForceRunJob(t)
  <2> DEFINE job == JobOf(t)
             session == IF definitions[job].session = <<>> THEN <<job, t>> ELSE definitions[job].session
  <2>1. \/ Steps(t, [Idle EXCEPT !.st = "err"]) /\ UNCHANGED runs
        \/ /\ Steps(t, [Idle EXCEPT !.st = "queued", !.session = session])
           /\ put_job_run(t, [session |-> session, status |-> "Queued",
                              started |-> next_sequence(session), completed |-> 0])
    BY <1>4 DEF ForceRunJob
  <2> HIDE DEF session
  <2> QED BY <1>1, <1>3, <2>1
<1> QED BY <1>2, <1>4

\* A run is started and concluded; it is left as it is if the store fails.
LEMMA RunsKeepTraces ==
  ASSUME TraceInv, TurnsTyped, NEW t \in Turns, StartRun(t) \/ ConcludeRun(t)
  PROVE  TraceInv'
<1>a. IsTurn(turn[t]) /\ TurnTraced(t)
  BY DEF TurnsTyped, TraceInv
<1>b. turn[t].st \in {"queued", "conclude"} /\ UNCHANGED <<table, earlier>>
  BY DEF StartRun, ConcludeRun, TurnStep
<1>c. t \in DOMAIN runs /\ RunOK(t)
  BY <1>a, <1>b DEF TurnTraced, HasRun
<1> DEFINE st(a) == [turn[t] EXCEPT !.st = a]
<1>d. \A a : st(a).st = a /\ st(a).session = turn[t].session
  BY <1>a DEF IsTurn, TurnFields
<1> HIDE DEF st
<1>1. CASE Steps(t, st("err")) /\ UNCHANGED runs
  <2>1. turn'[t] = st("err") /\ OnlyOf(t) /\ earlier'[t] = earlier[t]
    BY <1>b, <1>1, OneTurnSteps
  <2>2. Onwards(t)
    BY <1>b, <1>d, <2>1 DEF Onwards, Before, Appending, Over
  <2>3. ResponseOK(t)'
    BY <1>d, <2>1 DEF ResponseOK, Appending
  <2>4. RunOK(t)' /\ t \in DOMAIN runs'
    BY <1>b, <1>c, <1>1, <2>2, RunKept
  <2> QED BY <1>b, <2>1, <2>2, <2>3, <2>4, OnwardsKeeps
<1>2. CASE StartRun(t) /\ Steps(t, st("number")) /\ put_job_run(t, [runs[t] EXCEPT !.status = "Running"])
  <2> PICK run : run = [runs[t] EXCEPT !.status = "Running"]
    OBVIOUS
  <2>1. /\ turn'[t] = st("number") /\ OnlyOf(t) /\ earlier'[t] = earlier[t]
        /\ t \in DOMAIN runs' /\ runs'[t] = run
    BY <1>b, <1>2, OneRunSteps
  <2>2. turn[t].st = "queued"
    BY <1>2 DEF StartRun
  <2>3. Onwards(t)
    BY <1>d, <2>1, <2>2 DEF Onwards, Before, Appending, Over
  <2>4. ResponseOK(t)'
    BY <1>d, <2>1 DEF ResponseOK, Appending
  <2>5. RunOK(t)'
    BY <1>b, <1>c, <2>1, <2>3, RunKept
  <2> QED BY <1>b, <2>1, <2>3, <2>4, <2>5, OnwardsKeeps
<1>3. CASE /\ ConcludeRun(t) /\ Steps(t, st(turn[t].result))
           /\ put_job_run(t, [runs[t] EXCEPT !.completed = Len(records(turn[t].session)),
                                !.status = IF turn[t].result = "ok" THEN "Succeeded" ELSE "Failed"])
  <2> PICK s, result : s = turn[t].session /\ result = turn[t].result
    OBVIOUS
  <2> DEFINE status == IF result = "ok" THEN "Succeeded" ELSE "Failed"
             run == [runs[t] EXCEPT !.completed = Count(s), !.status = status]
  <2>1. /\ Count(s) \in Nat /\ Count(s)' = Count(s) /\ Len(records(s)) = Count(s)
        /\ \A i \in Mine(t) : table[i].seq \in Nat /\ table[i].seq <= Count(s)
    BY <1>b, ListedAll, SameTable
  <2>2. Steps(t, st(result)) /\ put_job_run(t, run)
    BY <1>3, <2>1
  <2>3. turn[t].st = "conclude" /\ result \in {"ok", "err"} /\ (Responded(t) <=> result = "ok")
    BY <1>a, <1>3 DEF ConcludeRun, TurnTraced, ResponseOK
  <2>4. /\ run = [f \in RunFields |-> run[f]] /\ run.completed = Count(s) /\ run.status = status
        /\ run.started = runs[t].started /\ run.session = runs[t].session
    BY <1>c DEF RunOK, RunFields
  <2> HIDE DEF run
  <2>5. /\ turn'[t] = st(result) /\ OnlyOf(t) /\ earlier'[t] = earlier[t]
        /\ t \in DOMAIN runs' /\ runs'[t] = run
    BY <1>b, <2>2, OneRunSteps
  <2>6. turn'[t].st = result /\ turn'[t].session = s
    BY <1>d, <2>5
  <2>7. Onwards(t)
    BY <2>3, <2>6 DEF Onwards, Before, Appending, Over
  <2>8. turn'[t].st \in Over' /\ turn'[t].st \notin Before' /\ turn'[t].st \notin Appending'
    BY <2>3, <2>6 DEF Before, Appending, Over
  <2>9. ResponseOK(t)'
    BY <2>3, <2>6, <2>8 DEF ResponseOK
  <2>10. RunOK(t)'
    <3>1. Mine(t)' = Mine(t) /\ Responded(t)' = Responded(t)
      BY <1>b, SameTable
    <3>2. /\ runs'[t] = [f \in RunFields' |-> runs'[t][f]] /\ runs'[t].started \in Nat
          /\ turn'[t].st # "idle" /\ runs'[t].session = turn'[t].session
      BY <1>c, <2>3, <2>4, <2>5, <2>6 DEF RunOK, RunFields
    <3>3. \A i \in Mine(t)' : runs'[t].started <= table'[i].seq
      BY <1>b, <1>c, <2>4, <2>5, <3>1 DEF RunOK
    <3>4. \A i \in Mine(t)' : table'[i].seq <= runs'[t].completed
      BY <1>b, <2>1, <2>4, <2>5, <3>1
    <3>5. (Responded(t)' <=> runs'[t].status = "Succeeded") /\ runs'[t].completed \in Nat
      BY <2>1, <2>3, <2>4, <2>5, <3>1
    <3> QED BY <2>8, <3>2, <3>3, <3>4, <3>5 DEF RunOK
  <2> QED BY <1>b, <2>5, <2>7, <2>9, <2>10, OnwardsKeeps
<1>4. CASE StartRun(t)
  BY <1>1, <1>2, <1>4 DEF StartRun, st
<1>5. CASE ConcludeRun(t)
  BY <1>1, <1>3, <1>5 DEF ConcludeRun, st
<1> QED BY <1>4, <1>5

\* A turn numbers its records from above all that its session holds.
LEMMA NumberKeepsTraces ==
  ASSUME TraceInv, TurnsTyped, NEW t \in Turns, Number(t)
  PROVE  TraceInv'
<1>a. IsTurn(turn[t]) /\ TurnTraced(t)
  BY DEF TurnsTyped, TraceInv
<1>b. turn[t].st = "number" /\ UNCHANGED <<table, runs>>
  BY DEF Number, storeVars
<1>1. CASE Returns(t, "err") /\ UNCHANGED earlier
  BY <1>b, <1>1, FailsKeep
<1> PICK s : s = turn[t].session
  OBVIOUS
<1> DEFINE seq == Count(s) + 1
           new == [turn[t] EXCEPT !.st = "user", !.seq = seq]
           ended == {u \in Ended : turn[u].session = s}
<1>2. CASE Steps(t, new) /\ earlier' = [earlier EXCEPT ![t] = ended]
  <2>1. new.st = "user" /\ new.seq = seq /\ new.session = s
    BY <1>a DEF IsTurn, TurnFields
  <2> HIDE DEF new
  <2>2. turn' = [turn EXCEPT ![t] = new]
    BY <1>2 DEF Steps
  <2>3. turn'[t] = new /\ \A u \in Turns \ {t} : turn'[u] = turn[u]
    BY <2>2 DEF TurnsTyped
  <2>4. /\ earlier'[t] = ended /\ \A u \in Turns \ {t} : earlier'[u] = earlier[u]
        /\ earlier' = [u \in Turns |-> earlier'[u]]
    BY <1>2 DEF TraceInv
  <2>5. OnlyOf(t)
    BY <1>b, <2>3, <2>4 DEF OnlyOf, TraceInv
  <2>6. Mine(t) = {} /\ \A u : Mine(u)' = Mine(u)
    BY <1>a, <1>b, SameTable DEF TurnTraced, NumbersOK, Before
  <2>7. Count(s) \in Nat /\ Count(s)' = Count(s)
    BY <1>b, ListedAll, SameTable
  <2>8. turn'[t].st \in Appending' /\ turn'[t].st \notin Before' /\ turn'[t].st # "conclude" /\ turn'[t].st # "idle"
    BY <2>1, <2>3 DEF Appending, Before
  <2>9. NumbersOK(t)'
    <3>1. turn'[t].seq \in Nat /\ turn'[t].seq <= Count(s)' + 1 /\ turn'[t].session = s
      BY <2>1, <2>3, <2>7
    <3> QED BY <2>6, <2>8, <3>1 DEF NumbersOK
  <2>10. EarlierOK(t)'
    <3> SUFFICES ASSUME NEW v \in ended
                 PROVE  /\ v \in Turns /\ turn'[v].st \in Over' /\ turn'[v].session = turn'[t].session
                        /\ \A i \in Mine(v)' : table'[i].seq < turn'[t].seq
      BY <2>4, <2>6 DEF EarlierOK
    <3>1. v \in Turns /\ turn[v].st \in Over /\ turn[v].session = s
      BY DEF Ended, Over
    <3>2. v # t /\ turn'[v] = turn[v]
      BY <1>b, <2>3, <3>1 DEF Over
    <3>3. \A i \in Mine(v) : table[i].seq \in Nat /\ table[i].seq <= Count(s)
      BY <3>1, ListedAll
    <3>4. \A i \in Mine(v)' : table'[i].seq < turn'[t].seq
      BY <1>b, <2>1, <2>3, <2>6, <2>7, <3>3
    <3> QED BY <2>1, <2>3, <3>1, <3>2, <3>4, SameNames
  <2>11. ResponseOK(t)'
    BY <2>6, <2>8 DEF ResponseOK, Responded
  <2>12. HasRun(t)' => t \in DOMAIN runs'
    <3>1. HasRun(t)' => HasRun(t)
      BY <1>b, <2>1, <2>3 DEF HasRun
    <3> QED BY <1>a, <1>b, <3>1 DEF TurnTraced
  <2>13. ASSUME t \in DOMAIN runs'
         PROVE  RunOK(t)'
    <3>1. RunOK(t) /\ runs'[t] = runs[t]
      BY <1>a, <1>b, <2>13 DEF TurnTraced
    <3>2. /\ runs[t].started \in Nat /\ runs[t].session = s /\ runs[t].started <= Count(s) + 1
          /\ runs[t].status \notin {"Succeeded", "Failed"} /\ runs[t] = [f \in RunFields |-> runs[t][f]]
      BY <1>b, <3>1 DEF RunOK, Before, Over
    <3>3. runs'[t].started <= turn'[t].seq /\ turn'[t].session = s
      BY <2>1, <2>3, <2>7, <3>1, <3>2
    <3>4. RunFields' = RunFields
      BY DEF RunFields
    <3> QED BY <2>6, <2>8, <3>1, <3>2, <3>3, <3>4 DEF RunOK
  <2>14. TurnTraced(t)'
    BY <2>8, <2>9, <2>10, <2>11, <2>12, <2>13 DEF TurnTraced
  <2> QED BY <1>b, <2>5, <2>6, <2>14, OthersKept DEF Over
<1>3. next_sequence(s) = seq
  BY ListedAll
<1>4. \/ Steps(t, new) /\ earlier' = [earlier EXCEPT ![t] = ended]
      \/ Returns(t, "err") /\ UNCHANGED earlier
  <2> HIDE DEF seq
  <2> QED BY <1>3 DEF Number
<1> QED BY <1>1, <1>2, <1>4

\* A crash ends the turns that were under way; what they have appended, and what
\* their runs say, stays.
LEMMA CrashKeepsTraces ==
  ASSUME TraceInv, TurnsTyped, Crash
  PROVE  TraceInv'
<1>1. UNCHANGED <<table, earlier, runs>>
  BY DEF Crash, storeVars
<1>2. /\ \A u : Mine(u)' = Mine(u) /\ Responded(u)' = Responded(u)
      /\ \A s : Count(s)' = Count(s)
  BY <1>1, SameTable
<1>3. ASSUME NEW u \in Turns
      PROVE  /\ turn'[u].session = turn[u].session /\ (turn[u].st \in Over => turn'[u] = turn[u])
             /\ \/ turn'[u] = turn[u]
                \/ turn'[u].st = "dead" /\ turn[u].st \notin Over /\ turn[u].st # "idle"
  <2> DEFINE new == [Idle EXCEPT !.st = "dead", !.session = turn[u].session]
  <2>1. new.st = "dead" /\ new.session = turn[u].session
    BY DEF Idle
  <2> HIDE DEF new
  <2>2. turn'[u] = IF turn[u].st = "idle" \/ u \in Ended THEN turn[u] ELSE new
    BY DEF Crash, new
  <2>3. u \in Ended <=> turn[u].st \in Over
    BY DEF Ended, Over
  <2>4. CASE turn[u].st = "idle" \/ u \in Ended
    BY <2>2, <2>4
  <2>5. CASE turn[u].st # "idle" /\ u \notin Ended
    BY <2>1, <2>2, <2>3, <2>5
  <2> QED BY <2>4, <2>5
<1>4. ASSUME NEW u \in Turns
      PROVE  TurnTraced(u)'
  <2>0. TurnTraced(u)
    BY DEF TraceInv
  <2>1. EarlierOK(u)'
    <3> SUFFICES ASSUME NEW v \in earlier'[u]
                 PROVE  /\ v \in Turns /\ turn'[v].st \in Over' /\ turn'[v].session = turn'[u].session
                        /\ \A i \in Mine(v)' : /\ turn'[u].st \in Appending' => table'[i].seq < turn'[u].seq
                                              /\ \A j \in Mine(u)' : table'[i].seq < table'[j].seq
      BY DEF EarlierOK
    <3>1. /\ v \in Turns /\ turn[v].st \in Over /\ turn[v].session = turn[u].session
          /\ \A i \in Mine(v) : /\ turn[u].st \in Appending => table[i].seq < turn[u].seq
                                /\ \A j \in Mine(u) : table[i].seq < table[j].seq
      BY <1>1, <2>0 DEF TurnTraced, EarlierOK
    <3>2. turn'[v] = turn[v] /\ turn'[u].session = turn[u].session
      BY <1>3, <3>1
    <3>3. turn'[u].st \in Appending' => turn[u].st \in Appending /\ turn'[u] = turn[u]
      BY <1>3, SameNames DEF Appending
    <3> QED BY <1>1, <1>2, <3>1, <3>2, <3>3, SameNames
  <2>2. CASE turn'[u] = turn[u]
    <3> PICK s : s = turn[u].session
      OBVIOUS
    <3>1. NumbersOK(u)' /\ ResponseOK(u)' /\ HasRun(u)' = HasRun(u)
      BY <1>1, <1>2, <2>0, <2>2 DEF TurnTraced, NumbersOK, ResponseOK, HasRun
    <3>2. u \in DOMAIN runs' => RunOK(u)'
      BY <1>1, <1>2, <2>0, <2>2 DEF TurnTraced, RunOK
    <3> QED BY <1>1, <2>0, <2>1, <2>2, <3>1, <3>2, SameNames DEF TurnTraced
  <2>3. CASE turn'[u].st = "dead" /\ turn[u].st \notin Over /\ turn[u].st # "idle"
    <3>1. turn'[u].st \notin Before' /\ turn'[u].st \notin Appending' /\ turn'[u].st \in Over'
      BY <2>3 DEF Before, Appending, Over
    <3>2. NumbersOK(u)'
      <4>1. \A i, j \in Mine(u)' : i < j => table'[i].seq < table'[j].seq
        BY <1>1, <1>2, <2>0 DEF TurnTraced, NumbersOK
      <4> QED BY <3>1, <4>1 DEF NumbersOK
    <3>3. ResponseOK(u)' /\ ~HasRun(u)'
      BY <2>3, <3>1 DEF ResponseOK, HasRun
    <3>4. ASSUME u \in DOMAIN runs'
          PROVE  RunOK(u)'
      <4>1. RunOK(u) /\ runs'[u] = runs[u]
        BY <1>1, <2>0, <3>4 DEF TurnTraced
      <4>2. /\ runs[u] = [f \in RunFields |-> runs[u][f]] /\ runs[u].started \in Nat
            /\ runs[u].session = turn'[u].session /\ runs[u].status \notin {"Succeeded", "Failed"}
            /\ \A i \in Mine(u) : runs[u].started <= table[i].seq
        BY <1>3, <2>3, <4>1 DEF RunOK
      <4>3. RunFields' = RunFields
        BY DEF RunFields
      <4>4. \A i \in Mine(u)' : runs'[u].started <= table'[i].seq
        BY <1>1, <1>2, <4>1, <4>2
      <4> QED BY <2>3, <3>1, <4>1, <4>2, <4>3, <4>4 DEF RunOK
    <3> QED BY <2>1, <3>1, <3>2, <3>3, <3>4 DEF TurnTraced
  <2> QED BY <1>3, <2>2, <2>3
<1>5. ASSUME NEW i \in 1..Len(table)
      PROVE  RecordOK(i)'
  <2>1. RecordOK(i) /\ table'[i] = table[i] /\ turn'[table[i].turn].session = turn[table[i].turn].session
    BY <1>1, <1>3 DEF TraceInv, RecordOK
  <2> QED BY <1>2, <2>1 DEF RecordOK
<1> QED BY <1>1, <1>4, <1>5 DEF TraceInv

\* What is known of traces depends on these variables only.
LEMMA TraceFrame ==
  ASSUME TraceInv, UNCHANGED <<table, runs, turn, earlier>>
  PROVE  TraceInv'
<1>1. /\ \A u : Mine(u)' = Mine(u) /\ Responded(u)' = Responded(u)
      /\ \A s : Count(s)' = Count(s)
  BY SameTable
<1>2. ASSUME NEW u \in Turns
      PROVE  TurnTraced(u)'
  <2>0. TurnTraced(u)
    BY DEF TraceInv
  <2>1. NumbersOK(u)' /\ ResponseOK(u)' /\ HasRun(u)' = HasRun(u) /\ EarlierOK(u)'
    BY <1>1, <2>0 DEF TurnTraced, NumbersOK, ResponseOK, HasRun, EarlierOK
  <2>2. u \in DOMAIN runs' => RunOK(u)'
    BY <1>1, <2>0 DEF TurnTraced, RunOK
  <2> QED BY <2>0, <2>1, <2>2, SameNames DEF TurnTraced
<1>3. \A i \in 1..Len(table) : RecordOK(i)'
  BY <1>1 DEF TraceInv, RecordOK
<1> QED BY <1>2, <1>3 DEF TraceInv

\* At the start nothing is recorded and no turn has begun.
LEMMA InitTraces == Init => TraceInv
<1> SUFFICES ASSUME Init PROVE TraceInv
  OBVIOUS
<1>1. table = <<>> /\ runs = <<>> /\ Len(table) = 0 /\ DOMAIN runs = {}
  BY DEF Init
<1>2. IsSequence(table) /\ 1..Len(table) = {}
  BY <1>1 DEF IsSequence
<1>3. \A t \in Turns : Mine(t) = {} /\ earlier[t] = {} /\ turn[t].st = "idle"
  BY <1>1, <1>2 DEF Mine, Init, Idle
<1>4. \A t \in Turns : TurnTraced(t)
  BY <1>1, <1>3 DEF TurnTraced, NumbersOK, EarlierOK, ResponseOK, HasRun, Before, Appending
<1> QED BY <1>1, <1>2, <1>4 DEF TraceInv, Init

\* Every step of the runtime keeps what is known of traces.
LEMMA TraceStep == AuditInv /\ TraceInv /\ [Next]_vars => TraceInv'
<1> SUFFICES ASSUME TurnsTyped, TraceInv, [Next]_vars PROVE TraceInv'
  BY DEF AuditInv
<1>1. CASE PutDefinition
  BY <1>1, TraceFrame DEF PutDefinition
<1>2. CASE Crash
  BY <1>2, CrashKeepsTraces
<1>3. ASSUME NEW t \in Turns, ForceRunJob(t) \/ RunChannelTurn(t)
      PROVE  TraceInv'
  BY <1>3, BeginningsKeepTraces
<1>4. ASSUME NEW t \in Turns, StartRun(t) \/ ConcludeRun(t)
      PROVE  TraceInv'
  BY <1>4, RunsKeepTraces
<1>5. ASSUME NEW t \in Turns, Number(t)
      PROVE  TraceInv'
  BY <1>5, NumberKeepsTraces
<1>6. ASSUME NEW t \in Turns, UserMessage(t) \/ RecordCall(t) \/ RecordResult(t) \/ FinalText(t)
      PROVE  TraceInv'
  BY <1>6, RecordsKeepTraces
<1>7. ASSUME NEW t \in Turns, Complete(t) \/ Authorize(t) \/ Audit(t) \/ ExecuteTool(t)
      PROVE  TraceInv'
  BY <1>7, CallsKeepTraces
<1>8. ASSUME NEW t \in Turns, EnqueueResponse(t)
      PROVE  TraceInv'
  BY <1>8, TraceFrame DEF EnqueueResponse
<1>9. ASSUME NEW s \in Senders, ReadDelivery(s) \/ Deliver(s) \/ Cancel(s) \/ PutDelivery(s)
      PROVE  TraceInv'
  BY <1>9, TraceFrame DEF ReadDelivery, Deliver, Cancel, PutDelivery, SenderStep
<1>10. CASE UNCHANGED vars
  BY <1>10, TraceFrame DEF vars, storeVars
<1> QED
  BY <1>1, <1>2, <1>3, <1>4, <1>5, <1>6, <1>7, <1>8, <1>9, <1>10 DEF Next

\* However many turns run side by side in a session, fail or crash: its trace shows
\* a turn after every turn that had ended when it numbered its records, and the
\* records of a turn in the order they were appended (run_turn numbers its records
\* once, from next_sequence, and the store lists them by sequence and key).
THEOREM TurnsStayInOrder == Spec => []TurnsInOrder
<1>1. AuditInv /\ TraceInv => TurnsInOrder
  BY TraceOrders
<1> QED
  BY <1>1, InitAudit, AuditStep, InitTraces, TraceStep, PTL DEF Spec

\* A concluded run tells the truth of its trace, whatever other turns have added to
\* the session: it succeeded exactly if its response is there, and its records lie
\* between the sequences it says (force_run_job counts the session's records again
\* after run_turn has returned).
THEOREM RunsMatchTraces == Spec => []RunMatchesTrace
<1>1. AuditInv /\ TraceInv => RunMatchesTrace
  BY TraceTells
<1> QED
  BY <1>1, InitAudit, AuditStep, InitTraces, TraceStep, PTL DEF Spec
=============================================================================
