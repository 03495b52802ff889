--------------------------- MODULE AgentTurnProofs ---------------------------
(***************************************************************************)
(* What holds of the agents, the router and the provider plugins for every *)
(* set of agents, chats and tools and every bound of the model.            *)
(*                                                                         *)
(* The invariant has a part for each of them, and a part for the           *)
(* subscriptions an agent makes at run time:                               *)
(*   - a request to a provider has started at most as many tool calls as   *)
(*     the rounds behind it allow, and waits for the newest of them;       *)
(*   - the events of an agent are ahead of it in the order of their        *)
(*     numbers, no number is given twice, and each fits behind whatever    *)
(*     stands in the conversations it may be added to;                     *)
(*   - an event is asked for once, by the turn that has it, with the chat  *)
(*     of the event, and a turn that goes on has taken the answer;         *)
(*   - every forwarder task has an entry of its own, or gets it when the   *)
(*     call that has spawned it goes on, and there is room for it;         *)
(*   - a message for the router is in one place, and the task that has it  *)
(*     has asked, in order, the providers it has tried.                    *)
(***************************************************************************)
EXTENDS AgentTurn, FiniteSetTheorems, SequenceTheorems, WellFoundedInduction, TLAPS

-----------------------------------------------------------------------------
(* Requests to the providers and calls of tools                             *)

(* What the models ask for are lists of tool names, whoever asks.  It is a  *)
(* hypothesis of the theorems about the constant operator ToolBatches, for  *)
(* there is no set of all who might ask.                                    *)
Batches == \A who : ToolBatches(who) \subseteq Seq(Tools)

Subjects == PluginSubjects \cup {"consciousness", None}
Replies == {None, "text", "empty", "error"}
Who == [agent : AgentIds, id : Nat, depth : Nat, chat : Origins \cup {None}]

(* The providers there are, or that the environment names. *)
Names == Providers \cup {LlmProvider} \cup ToSet(FallbackList)

CallRecord ==
  [provider : Names, from : Who, round : Nat, rounds : Nat, queue : Seq(Tools), task : Nat,
   st : {"asking", "unheard", "tools", "waiting", "answered"}, caller : {"waits", "took", "left"},
   reply : Replies]
TaskRecord ==
  [call : Nat, plugin_id : {None}, st : {"lookup", "describing", "found", "sent", "done"},
   to : Subjects, ran : BOOLEAN, tool : Tools]

ProviderTypes ==
  /\ calls \in Seq(CallRecord) /\ tasks \in Seq(TaskRecord)
  /\ \A k \in DOMAIN tasks : tasks[k].call \in DOMAIN calls
  /\ cache \in [Tools -> Subjects] /\ owner \in [Tools -> Subjects]
  /\ news \in Seq(Tools)
  /\ listener \in [tool : Tools, to : Subjects] \cup {NoEntry}

(* The tasks of a request, and how many there may be when the model asks    *)
(* for n tools a round: those of the rounds behind, and in the round that   *)
(* is under way all but the tools that are still in the queue.              *)
TasksOf(c) == {k \in DOMAIN tasks : tasks[k].call = c}
InRound(c) == calls[c].st \in {"tools", "waiting"}
StillQueued(c) == IF calls[c].st = "waiting" THEN Len(calls[c].queue) - 1 ELSE Len(calls[c].queue)
Within(c, n) ==
  IF InRound(c)
  THEN /\ Len(calls[c].queue) \in 1..n
       /\ Cardinality(TasksOf(c)) + StillQueued(c) <= (calls[c].round + 1) * n
  ELSE Cardinality(TasksOf(c)) <= calls[c].round * n

WaitsForNewest(c) ==
  LET k == calls[c].task
  IN  /\ k \in TasksOf(c) /\ \A l \in TasksOf(c) : l <= k
      /\ tasks[k].tool \in {Head(calls[c].queue),
                            unsanitize_tool_name(sanitize_tool_name(Head(calls[c].queue)))}

LoopOK(c) ==
  /\ calls[c].round <= MaxToolRounds
  /\ InRound(c) => calls[c].round < MaxToolRounds
  /\ \E batch \in ToolBatches(calls[c].from) \cup {<<>>} : Within(c, Len(batch))
  /\ calls[c].st = "waiting" => WaitsForNewest(c)

ProviderInv == ProviderTypes /\ \A c \in DOMAIN calls : LoopOK(c)

-----------------------------------------------------------------------------
(* The router                                                               *)

RouterRecord == [st : {"trying", "waiting"}, req : Nat, tries : Seq(Names), tried : Seq(Names), call : Nat]
RouterTypes ==
  /\ rq \in [Paths -> Seq(RouterMessage)]
  /\ rt \in [Paths -> RouterRecord \cup {RouterIdle}]
  /\ responses \in Seq([req : Nat, kind : Replies, call : Nat, tried : Seq(Names)])

(* A message is in one place: in the queue, with nothing done for it, or in *)
(* the hands of one task, or answered.                                      *)
Queued(n) == \E p \in Paths : \E i \in DOMAIN rq[p] : rq[p][i].id = n
Responded(n) == \E i \in DOMAIN responses : responses[i].req = n
Handles(p, n) == rt[p].st # "idle" /\ rt[p].req = n

OnePlace ==
  /\ \A p, s \in Paths : \A i \in DOMAIN rq[p], j \in DOMAIN rq[s] :
       rq[p][i].id = rq[s][j].id => p = s /\ i = j
  /\ \A p \in Paths : \A i \in DOMAIN rq[p] :
       ~Responded(rq[p][i].id) /\ \A c \in DOMAIN calls : ~CallFor(c, rq[p][i].id)
  /\ \A p \in Paths : rt[p].st # "idle" =>
       /\ ~Queued(rt[p].req) /\ ~Responded(rt[p].req)
       /\ \A s \in Paths \ {p} : ~Handles(s, rt[p].req)

(* A task has asked, in order, the providers it has tried, and those and    *)
(* the ones ahead are all there are.                                        *)
TriesOK ==
  \A p \in Paths : rt[p].st # "idle" =>
    /\ SentInOrder(rt[p].req, rt[p].tried)
    /\ EveryProvider(rt[p].tried \o rt[p].tries)
    /\ rt[p].st = "waiting" => CallFor(rt[p].call, rt[p].req)

RouterInv == RouterTypes /\ OnePlace /\ TriesOK /\ RouterAnswersOnce
  /\ \A i \in DOMAIN responses : responses[i].call # 0 => calls[responses[i].call].st = "answered"

-----------------------------------------------------------------------------
(* The agents                                                               *)

Kinds == {"subscribed_event", "message", "self_wake", "agent_message"}
EventRecord == [id : Nat, kind : Kinds, chat : Origins \cup {None}, conv : Nat, depth : Nat]
TurnRecord == [st : {"find", "create", "load", "llm", "user", "assistant", "publish"},
               ev : EventRecord, conv : Nat, call : Nat, answer : Replies \cup {"stopped"}]
Message == [ev : Nat, role : {"user", "assistant"}, late : BOOLEAN]
Conversation == [agent : Agents, key : Origins \cup Kinds \cup {"agent"}, msgs : Seq(Message)]

AgentTypes ==
  /\ inbox \in [Agents -> Seq(EventRecord)]
  /\ turn \in [Agents -> TurnRecord \cup {NoTurn}]
  /\ convs \in Seq(Conversation)
  /\ \A x \in late : x \in [conv : DOMAIN convs, msg : Message]
  /\ outbound \in Seq([chat : Chats \cup Origins, ev : Nat, by : AgentIds])
  /\ events \in Nat

(* The events of an agent come in the order of their numbers, and no number *)
(* is given to two events.                                                  *)
Has(a, n) ==
  \/ turn[a].st # "idle" /\ turn[a].ev.id = n
  \/ \E i \in DOMAIN inbox[a] : inbox[a][i].id = n

InOrder(a) ==
  /\ \A i \in DOMAIN inbox[a] : inbox[a][i].id \in 1..events
  /\ \A i, j \in DOMAIN inbox[a] : i < j => inbox[a][i].id < inbox[a][j].id
  /\ turn[a].st # "idle" => /\ turn[a].ev.id \in 1..events
                            /\ \A i \in DOMAIN inbox[a] : turn[a].ev.id < inbox[a][i].id
EventsInOrder ==
  /\ \A a \in Agents : InOrder(a)
  /\ \A a, b \in Agents : \A n \in 1..events : Has(a, n) /\ Has(b, n) => a = b

(* The conversations that an event x of agent a may be added to: the one it *)
(* names, which is one between agents, or one that is not.  Whatever is in  *)
(* it already came before x, or is x itself.                                *)
MayUse(a, x, n) ==
  convs[n].agent = a /\ (x.conv = n \/ (x.conv = 0 /\ convs[n].key # "agent"))
NamesOwn(a, x) ==
  IF x.conv = 0 THEN Key(x) # "agent"
  ELSE x.conv \in DOMAIN convs /\ convs[x.conv].agent = a /\ convs[x.conv].key = "agent"
Precedes(n, x) ==
  \A i \in DOMAIN convs[n].msgs :
    LET m == convs[n].msgs[i]
    IN  ~m.late => m.ev < x.id \/ (m.ev = x.id /\ m.role = "user")
EventOK(a, x) == NamesOwn(a, x) /\ \A n \in DOMAIN convs : MayUse(a, x, n) => Precedes(n, x)

Unwritten(a) == turn[a].st \in {"find", "create", "load", "llm", "user", "assistant"}
InConversation(a) == turn[a].st \in {"load", "llm", "user", "assistant"}

Ahead(a) ==
  {inbox[a][i] : i \in DOMAIN inbox[a]} \cup (IF Unwritten(a) THEN {turn[a].ev} ELSE {})
UsesOwn(a) ==
  /\ turn[a].st = "create" => turn[a].ev.conv = 0
  /\ InConversation(a) => turn[a].conv \in DOMAIN convs /\ MayUse(a, turn[a].ev, turn[a].conv)
HistoryOf(a) == (\A x \in Ahead(a) : EventOK(a, x)) /\ UsesOwn(a)

HistoryInv ==
  /\ \A a \in Agents : HistoryOf(a)
  /\ \A n \in DOMAIN convs : \A i \in DOMAIN convs[n].msgs :
       ~convs[n].msgs[i].late => convs[n].msgs[i].ev <= events
  /\ HistoryInEventOrder

(* A turn that has an answer has it from the provider it asked; whoever has *)
(* been answered has nothing ahead.                                         *)
Asked(a) == turn[a].st \in {"llm", "user", "assistant", "publish"}
AskedOK(a) ==
  Asked(a) => LET c == turn[a].call
              IN  /\ c \in DOMAIN calls /\ calls[c].from.agent = a /\ calls[c].from.id = turn[a].ev.id
                  /\ turn[a].st # "llm" => calls[c].st = "answered"
AnswerHeard ==
  \A i \in DOMAIN outbound : outbound[i].ev # 0 =>
    /\ \A j \in DOMAIN outbound : outbound[i].ev = outbound[j].ev => i = j
    /\ \E c \in DOMAIN calls : /\ calls[c].from.agent = outbound[i].by
                               /\ calls[c].from.id = outbound[i].ev
                               /\ calls[c].st = "answered"
AnswerInv ==
  /\ \A a \in Agents : AskedOK(a)
  /\ \A i \in DOMAIN outbound : outbound[i].ev # 0 =>
       outbound[i].ev \in 1..events /\ \A a \in Agents : ~Has(a, outbound[i].ev)
  /\ AnswerHeard

(* An event is asked for once, by the turn that has it: nobody has asked    *)
(* for one that still waits, the request of a turn comes from the chat of   *)
(* its event, and a turn that goes on has taken the answer.                 *)
Waiting(a, n) ==
  \/ \E i \in DOMAIN inbox[a] : inbox[a][i].id = n
  \/ turn[a].st \in {"find", "create", "load"} /\ turn[a].ev.id = n
AskedFor(c, a, n) == calls[c].from.agent = a /\ calls[c].from.id = n
AskedOnce ==
  \A a \in Agents : \A n : \A c, d \in DOMAIN calls : AskedFor(c, a, n) /\ AskedFor(d, a, n) => c = d
NotYetAsked ==
  \A c \in DOMAIN calls, a \in Agents : calls[c].from.agent = a =>
    calls[c].from.id \in 1..events /\ ~Waiting(a, calls[c].from.id)
TurnAsked(a) ==
  Asked(a) => /\ calls[turn[a].call].from.chat = turn[a].ev.chat
              /\ turn[a].st # "llm" => calls[turn[a].call].caller = "took"
Taken ==
  \A i \in DOMAIN outbound : outbound[i].ev # 0 =>
    /\ outbound[i].by \in Agents
    /\ \A c \in DOMAIN calls : AskedFor(c, outbound[i].by, outbound[i].ev) =>
         calls[c].from.chat = outbound[i].chat /\ calls[c].caller = "took"
RequestInv == AskedOnce /\ NotYetAsked /\ (\A a \in Agents : TurnAsked(a)) /\ Taken

AgentInv == AgentTypes /\ EventsInOrder /\ HistoryInv /\ AnswerInv

(* An entry is made for each forwarder, now or when the call that has       *)
(* spawned it goes on, and there is room for it.                            *)
Forwarder == [agent : AgentIds, pattern : Patterns, expires : BOOLEAN, task : Nat]
ServerOK ==
  \/ server = ServerIdle
  \/ /\ server \in [st : {"install"}, task : DOMAIN tasks, agent : AgentIds, patterns : SUBSET Patterns]
     /\ Cardinality(subs[server.agent]) + Cardinality(server.patterns) <= MaxSubscriptions
Installing(f) ==
  server.st = "install" /\ f.task = server.task /\ f.agent = server.agent /\ f.pattern \in server.patterns
SubscriptionInv ==
  /\ subs \in [AgentIds -> SUBSET [pattern : Patterns, task : Nat]]
  /\ \A a \in AgentIds : IsFiniteSet(subs[a]) /\ Cardinality(subs[a]) <= MaxSubscriptions
  /\ ServerOK
  /\ \A f \in forwards : /\ f \in Forwarder
                         /\ [pattern |-> f.pattern, task |-> f.task] \in subs[f.agent] \/ Installing(f)
-----------------------------------------------------------------------------
(* Arithmetic and lists                                                     *)

(* More tools a round are more tools in all. *)
LEMMA TimesGrows ==
  ASSUME NEW r \in Nat, NEW m \in Nat, NEW n \in Nat, m <= n
  PROVE  r * m <= r * n
<1>1. PICK d \in Nat : n = m + d
  <2>1. n - m \in Nat /\ n = m + (n - m)
    OBVIOUS
  <2> QED BY <2>1
<1>2. r * n = r * m + r * d
  BY <1>1
<1>3. r * d \in Nat /\ r * m \in Nat
  OBVIOUS
<1> QED BY <1>2, <1>3

(* One round more is one batch more. *)
LEMMA TimesSucc ==
  ASSUME NEW r \in Nat, NEW n \in Nat
  PROVE  (r + 1) * n = r * n + n /\ r * n \in Nat
  OBVIOUS

(* A longer list. *)
LEMMA AppendIs ==
  ASSUME NEW S, NEW s \in Seq(S), NEW x \in S
  PROVE  /\ Append(s, x) \in Seq(S) /\ Len(Append(s, x)) = Len(s) + 1
         /\ DOMAIN Append(s, x) = DOMAIN s \cup {Len(s) + 1}
         /\ Append(s, x)[Len(s) + 1] = x
         /\ \A i \in DOMAIN s : Append(s, x)[i] = s[i] /\ i # Len(s) + 1
  OBVIOUS

-----------------------------------------------------------------------------
(* The providers' loops                                                     *)

(* The loop of a request depends on the request and on its tasks. *)
LEMMA LoopKept ==
  ASSUME NEW c, LoopOK(c), TasksOf(c)' = TasksOf(c),
         calls'[c].from = calls[c].from, calls'[c].round = calls[c].round, calls'[c].queue = calls[c].queue,
         calls'[c].task = calls[c].task, calls'[c].st = calls[c].st,
         \A k \in TasksOf(c) : tasks'[k].tool = tasks[k].tool
  PROVE  LoopOK(c)'
<1>1. InRound(c)' = InRound(c) /\ StillQueued(c)' = StillQueued(c)
  BY DEF InRound, StillQueued
<1>2. \A n : Within(c, n)' = Within(c, n)
  BY <1>1 DEF Within
<1>3. calls[c].st = "waiting" => WaitsForNewest(c)'
  BY DEF LoopOK, WaitsForNewest
<1> QED BY <1>1, <1>2, <1>3 DEF LoopOK

(* There are finitely many tasks. *)
LEMMA TasksFinite ==
  ASSUME tasks \in Seq(TaskRecord), NEW c
  PROVE  IsFiniteSet(TasksOf(c)) /\ Cardinality(TasksOf(c)) \in Nat
<1>1. DOMAIN tasks = 1..Len(tasks) /\ Len(tasks) \in Nat
  OBVIOUS
<1>2. IsFiniteSet(1..Len(tasks))
  BY <1>1, FS_Interval
<1>3. TasksOf(c) \subseteq 1..Len(tasks)
  BY <1>1 DEF TasksOf
<1> QED BY <1>2, <1>3, FS_Subset, FS_CardinalityType

(* What a model asks for is a list, which has a length. *)
LEMMA BatchLength ==
  ASSUME Batches, NEW who, NEW batch \in ToolBatches(who) \cup {<<>>}
  PROVE  batch \in Seq(Tools) /\ Len(batch) \in Nat
<1>1. ToolBatches(who) \subseteq Seq(Tools)
  BY DEF Batches
<1>2. <<>> \in Seq(Tools)
  OBVIOUS
<1>3. batch \in Seq(Tools)
  BY <1>1, <1>2, Zenon
<1> QED BY <1>3

(* A step of one task that keeps what it is for. *)
LEMMA TaskStepKeeps ==
  ASSUME ProviderInv, NEW k \in DOMAIN tasks, NEW x \in TaskRecord,
         tasks' = [tasks EXCEPT ![k] = x], x.call = tasks[k].call, x.tool = tasks[k].tool, calls' = calls,
         cache' \in [Tools -> Subjects], UNCHANGED <<owner, news, listener>>
  PROVE  ProviderInv'
<1>1. /\ tasks' \in Seq(TaskRecord) /\ DOMAIN tasks' = DOMAIN tasks
      /\ \A l \in DOMAIN tasks : tasks'[l].call = tasks[l].call /\ tasks'[l].tool = tasks[l].tool
  BY DEF ProviderInv, ProviderTypes
<1>2. \A c : TasksOf(c)' = TasksOf(c)
  BY <1>1 DEF TasksOf
<1>3. ASSUME NEW c \in DOMAIN calls
      PROVE  LoopOK(c)'
  <2>1. \A l \in TasksOf(c) : tasks'[l].tool = tasks[l].tool
    BY <1>1 DEF TasksOf
  <2> QED BY <1>2, <2>1, LoopKept DEF ProviderInv
<1>4. ProviderTypes'
  BY <1>1 DEF ProviderInv, ProviderTypes
<1> QED BY <1>3, <1>4 DEF ProviderInv

(* A step of one request that starts no task. *)
LEMMA CallStepKeeps ==
  ASSUME ProviderInv, NEW c \in DOMAIN calls, NEW x \in CallRecord,
         calls' = [calls EXCEPT ![c] = x], UNCHANGED <<tasks, cache, owner, news, listener>>, LoopOK(c)'
  PROVE  ProviderInv'
<1>1. /\ calls' \in Seq(CallRecord) /\ DOMAIN calls' = DOMAIN calls
      /\ \A d \in DOMAIN calls : d # c => calls'[d] = calls[d]
  BY DEF ProviderInv, ProviderTypes
<1>2. \A d : TasksOf(d)' = TasksOf(d)
  BY DEF TasksOf
<1>3. ASSUME NEW d \in DOMAIN calls
      PROVE  LoopOK(d)'
  BY <1>1, <1>2, LoopKept DEF ProviderInv
<1>4. ProviderTypes'
  BY <1>1 DEF ProviderInv, ProviderTypes
<1> QED BY <1>1, <1>3, <1>4 DEF ProviderInv

(* Its caller gives up, and nothing else. *)
LEMMA GiveUpKeeps ==
  ASSUME ProviderInv, NEW c \in DOMAIN calls, NEW how \in {"took", "left"}, calls' = GiveUp(c, how),
         UNCHANGED <<tasks, cache, owner, news, listener>>
  PROVE  ProviderInv'
<1> PICK x : x = [calls[c] EXCEPT !.caller = how]
  OBVIOUS
<1>1. calls \in Seq(CallRecord) /\ calls[c] \in CallRecord
  BY DEF ProviderInv, ProviderTypes
<1>2. x \in CallRecord /\ calls' = [calls EXCEPT ![c] = x]
  BY <1>1 DEF CallRecord, GiveUp
<1>3. calls'[c] = x
  BY <1>1, <1>2
<1>4. x.from = calls[c].from /\ x.round = calls[c].round /\ x.queue = calls[c].queue /\ x.task = calls[c].task
      /\ x.st = calls[c].st
  BY <1>1 DEF CallRecord
<1>5. TasksOf(c)' = TasksOf(c)
  BY DEF TasksOf
<1>6. LoopOK(c)'
  BY <1>3, <1>4, <1>5, LoopKept DEF ProviderInv
<1> QED BY <1>2, <1>6, CallStepKeeps

(* A new request has no tasks. *)
LEMMA NewCallKeeps ==
  ASSUME ProviderInv, NEW p \in Names, NEW who \in Who, calls' = Append(calls, NewCall(p, who)),
         UNCHANGED <<tasks, cache, owner, news, listener>>
  PROVE  ProviderInv'
<1> PICK x : x = NewCall(p, who)
  OBVIOUS
<1> PICK n : n = Len(calls) + 1
  OBVIOUS
<1>1. calls \in Seq(CallRecord) /\ tasks \in Seq(TaskRecord)
  BY DEF ProviderInv, ProviderTypes
<1>2. /\ x \in CallRecord /\ x.round = 0 /\ x.st \in {"asking", "unheard"}
  BY DEF NewCall, CallRecord, Replies
<1>3. /\ calls' \in Seq(CallRecord) /\ DOMAIN calls' = DOMAIN calls \cup {n} /\ calls'[n] = x
      /\ n \notin DOMAIN calls /\ \A c \in DOMAIN calls : calls'[c] = calls[c]
  BY <1>1, <1>2, AppendIs
<1>4. \A c : TasksOf(c)' = TasksOf(c)
  BY DEF TasksOf
<1>5. TasksOf(n) = {}
  BY <1>3 DEF TasksOf, ProviderInv, ProviderTypes
<1>6. LoopOK(n)'
  <2>1. Cardinality(TasksOf(n)') = 0
    BY <1>4, <1>5, FS_EmptySet
  <2>2. ~InRound(n)' /\ calls'[n].st # "waiting" /\ calls'[n].round = 0
    BY <1>2, <1>3 DEF InRound
  <2>3. Within(n, Len(<<>>))'
    BY <2>1, <2>2 DEF Within
  <2> QED BY <2>2, <2>3, RoundsAssumption DEF LoopOK
<1>7. \A c \in DOMAIN calls : LoopOK(c)'
  BY <1>3, <1>4, LoopKept DEF ProviderInv
<1>8. ProviderTypes'
  BY <1>3 DEF ProviderInv, ProviderTypes
<1> QED BY <1>3, <1>6, <1>7, <1>8 DEF ProviderInv

(* One question to the model: an error, a text, or the next round's tools.  *)
(* The longest list so far bounds every round.                              *)
LEMMA RoundKeeps ==
  ASSUME Batches, ProviderInv, NEW c \in DOMAIN calls, NEW p, ProviderRound(c, p)
  PROVE  ProviderInv'
<1>1. calls \in Seq(CallRecord) /\ calls[c] \in CallRecord /\ tasks \in Seq(TaskRecord)
  BY DEF ProviderInv, ProviderTypes
<1>2. calls[c].st = "asking" /\ UNCHANGED <<tasks, cache, owner, news, listener>>
  BY DEF ProviderRound
<1>3. LoopOK(c)
  BY DEF ProviderInv
<1>4. TasksOf(c)' = TasksOf(c)
  BY <1>2 DEF TasksOf
<1>5. PICK old \in ToolBatches(calls[c].from) \cup {<<>>} : Within(c, Len(old))
  BY <1>3 DEF LoopOK
<1>6. Cardinality(TasksOf(c)) <= calls[c].round * Len(old) /\ calls[c].round <= MaxToolRounds
  BY <1>2, <1>3, <1>5 DEF Within, InRound, LoopOK
<1>7. ASSUME NEW kind \in {"error", "text", "empty"}, Reply(c, kind)
      PROVE  ProviderInv'
  <2> PICK x : x = [calls[c] EXCEPT !.st = "answered", !.reply = kind]
    OBVIOUS
  <2>1. x \in CallRecord /\ calls' = [calls EXCEPT ![c] = x]
    BY <1>1, <1>7 DEF CallRecord, Reply, Replies
  <2>2. calls'[c] = x /\ x.from = calls[c].from /\ x.round = calls[c].round /\ x.st = "answered"
    BY <1>1, <2>1 DEF CallRecord
  <2>3. ~InRound(c)' /\ calls'[c].st # "waiting"
    BY <2>2 DEF InRound
  <2>4. Within(c, Len(old))'
    BY <1>4, <1>6, <2>2, <2>3 DEF Within
  <2>5. LoopOK(c)'
    BY <1>6, <2>2, <2>3, <2>4 DEF LoopOK
  <2> QED BY <1>2, <2>1, <2>5, CallStepKeeps
<1>8. ASSUME NEW batch \in ToolBatches(calls[c].from) \cup {<<>>}, batch # <<>>, calls[c].round # MaxToolRounds,
             calls' = [calls EXCEPT ![c].st = "tools", ![c].queue = batch, ![c].rounds = @ + 1]
      PROVE  ProviderInv'
  <2>0. batch \in Seq(Tools) /\ Len(batch) \in Nat /\ Len(old) \in Nat
    BY BatchLength
  <2> PICK x : x = [calls[c] EXCEPT !.st = "tools", !.queue = batch, !.rounds = @ + 1]
    OBVIOUS
  <2>1. x \in CallRecord /\ calls' = [calls EXCEPT ![c] = x]
    <3>0. calls[c].rounds + 1 \in Nat
      BY <1>1, SMTT(30) DEF CallRecord
    <3>1. x \in CallRecord
      BY <1>1, <2>0, <3>0 DEF CallRecord
    <3> QED BY <1>1, <1>8, <3>1
  <2>2. /\ calls'[c] = x /\ x.from = calls[c].from /\ x.round = calls[c].round /\ x.st = "tools" /\ x.queue = batch
    BY <1>1, <2>1 DEF CallRecord
  <2>3. InRound(c)' /\ calls'[c].st # "waiting" /\ StillQueued(c)' = Len(batch)
    BY <2>2 DEF InRound, StillQueued
  <2>4. PICK long \in ToolBatches(calls[c].from) \cup {<<>>} :
          Len(long) \in Nat /\ Len(batch) <= Len(long) /\ Len(old) <= Len(long)
    <3>1. CASE Len(old) <= Len(batch)
      BY <2>0, <3>1
    <3>2. CASE Len(batch) <= Len(old)
      BY <2>0, <3>2
    <3> QED BY <2>0, <3>1, <3>2
  <2>5. Cardinality(TasksOf(c)) \in Nat /\ calls[c].round \in Nat
    BY <1>1, TasksFinite DEF CallRecord
  <2>6. calls[c].round * Len(old) <= calls[c].round * Len(long)
    BY <2>0, <2>4, <2>5, TimesGrows
  <2>7. (calls[c].round + 1) * Len(long) = calls[c].round * Len(long) + Len(long) /\ calls[c].round * Len(long) \in Nat
    BY <2>4, <2>5, TimesSucc
  <2>8. calls[c].round * Len(old) \in Nat
    BY <2>0, <2>5, TimesSucc
  <2>9. Cardinality(TasksOf(c)) + Len(batch) <= (calls[c].round + 1) * Len(long)
    BY <1>6, <2>0, <2>4, <2>5, <2>6, <2>7, <2>8, SMTT(30)
  <2>10. Len(batch) \in 1..Len(long)
    BY <1>8, <2>0, <2>4
  <2>11. Within(c, Len(long))'
    BY <1>4, <2>2, <2>3, <2>9, <2>10 DEF Within
  <2>12. calls[c].round < MaxToolRounds
    BY <1>6, <1>8, <2>5, RoundsAssumption
  <2>13. LoopOK(c)'
    BY <1>6, <2>2, <2>3, <2>11, <2>12 DEF LoopOK
  <2> QED BY <1>2, <2>1, <2>13, CallStepKeeps
<1> QED BY <1>7, <1>8 DEF ProviderRound

(* The next tool of the round: one task more, one tool less in the queue. *)
LEMMA SendKeeps ==
  ASSUME Batches, ProviderInv, NEW c \in DOMAIN calls, ProviderSendsTool(c)
  PROVE  ProviderInv'
<1>1. calls \in Seq(CallRecord) /\ calls[c] \in CallRecord /\ tasks \in Seq(TaskRecord)
  BY DEF ProviderInv, ProviderTypes
<1>2. calls[c].st = "tools" /\ UNCHANGED <<cache, owner, news, listener>>
  BY DEF ProviderSendsTool
<1>3. LoopOK(c) /\ InRound(c)
  BY <1>2 DEF ProviderInv, InRound
<1>4. PICK b \in ToolBatches(calls[c].from) \cup {<<>>} : Within(c, Len(b))
  BY <1>3 DEF LoopOK
<1>5. Len(calls[c].queue) \in 1..Len(b) /\ Len(b) \in Nat /\ calls[c].queue \in Seq(Tools)
  BY <1>1, <1>3, <1>4, BatchLength DEF Within, CallRecord
<1> PICK t : t = tool_call_to_dispatch_request(c, Head(calls[c].queue))
  OBVIOUS
<1> PICK k : k = Len(tasks) + 1
  OBVIOUS
<1>6. Head(calls[c].queue) \in Tools
  BY <1>5
<1>7. /\ t \in TaskRecord /\ t.call = c
      /\ t.tool \in {Head(calls[c].queue), unsanitize_tool_name(sanitize_tool_name(Head(calls[c].queue)))}
  <2>1. unsanitize_tool_name(sanitize_tool_name(Head(calls[c].queue))) \in Tools
    BY <1>6 DEF unsanitize_tool_name, sanitize_tool_name, Tools, PluginTools
  <2>2. c \in Nat
    BY <1>1
  <2> QED BY <1>6, <2>1, <2>2 DEF tool_call_to_dispatch_request, TaskRecord, Subjects
<1>8. /\ tasks' \in Seq(TaskRecord) /\ Len(tasks') = k /\ DOMAIN tasks' = DOMAIN tasks \cup {k} /\ tasks'[k] = t
      /\ \A l \in DOMAIN tasks : tasks'[l] = tasks[l] /\ l # k /\ l <= k
  <2>1. tasks' = Append(tasks, t)
    BY DEF ProviderSendsTool
  <2>2. \A l \in DOMAIN tasks : l <= k
    BY <1>1
  <2> QED BY <1>1, <1>7, <2>1, <2>2, AppendIs
<1> PICK x : x = [calls[c] EXCEPT !.st = "waiting", !.task = k]
  OBVIOUS
<1>9. x \in CallRecord /\ calls' = [calls EXCEPT ![c] = x]
  <2>1. k \in Nat
    BY <1>1
  <2> QED BY <1>1, <1>8, <2>1 DEF CallRecord, ProviderSendsTool
<1>10. /\ calls' \in Seq(CallRecord) /\ DOMAIN calls' = DOMAIN calls /\ calls'[c] = x
       /\ \A d \in DOMAIN calls : d # c => calls'[d] = calls[d]
  BY <1>1, <1>9
<1>11. /\ x.from = calls[c].from /\ x.round = calls[c].round /\ x.st = "waiting" /\ x.queue = calls[c].queue /\ x.task = k
  BY <1>1, <1>9 DEF CallRecord
<1>12. TasksOf(c)' = TasksOf(c) \cup {k} /\ k \notin TasksOf(c)
  BY <1>7, <1>8 DEF TasksOf
<1>13. Cardinality(TasksOf(c)') = Cardinality(TasksOf(c)) + 1 /\ Cardinality(TasksOf(c)) \in Nat
  BY <1>1, <1>12, TasksFinite, FS_AddElement
<1>14. StillQueued(c)' = StillQueued(c) - 1 /\ StillQueued(c) \in Nat /\ InRound(c)'
  BY <1>2, <1>5, <1>10, <1>11 DEF StillQueued, InRound
<1>15. Within(c, Len(b))'
  <2>1. Cardinality(TasksOf(c)) + StillQueued(c) <= (calls[c].round + 1) * Len(b)
    BY <1>3, <1>4 DEF Within
  <2>2. Cardinality(TasksOf(c)') + StillQueued(c)' = Cardinality(TasksOf(c)) + StillQueued(c)
    BY <1>13, <1>14
  <2> QED BY <1>5, <1>10, <1>11, <1>14, <2>1, <2>2 DEF Within
<1>16. WaitsForNewest(c)'
  <2>1. \A l \in TasksOf(c)' : l <= k
    BY <1>1, <1>8, <1>12 DEF TasksOf
  <2> QED BY <1>7, <1>8, <1>10, <1>11, <1>12, <2>1 DEF WaitsForNewest
<1>17. LoopOK(c)'
  BY <1>3, <1>10, <1>11, <1>14, <1>15, <1>16 DEF LoopOK
<1>18. ASSUME NEW d \in DOMAIN calls, d # c
       PROVE  LoopOK(d)'
  <2>1. TasksOf(d)' = TasksOf(d)
    BY <1>7, <1>8, <1>18 DEF TasksOf
  <2>2. \A l \in TasksOf(d) : tasks'[l].tool = tasks[l].tool
    BY <1>8 DEF TasksOf
  <2> QED BY <1>10, <1>18, <2>1, <2>2, LoopKept DEF ProviderInv
<1>19. ProviderTypes'
  <2>1. \A l \in DOMAIN tasks' : tasks'[l].call \in DOMAIN calls'
    BY <1>7, <1>8, <1>10 DEF ProviderInv, ProviderTypes
  <2> QED BY <1>2, <1>8, <1>10, <2>1 DEF ProviderInv, ProviderTypes
<1> QED BY <1>10, <1>17, <1>18, <1>19 DEF ProviderInv

(* A result is fed back: the round goes on, or is over. *)
LEMMA FeedKeeps ==
  ASSUME Batches, ProviderInv, NEW c \in DOMAIN calls, calls[c].st = "waiting", FeedResult(c),
         UNCHANGED <<tasks, cache, owner, news, listener>>
  PROVE  ProviderInv'
<1>1. calls \in Seq(CallRecord) /\ calls[c] \in CallRecord /\ tasks \in Seq(TaskRecord)
  BY DEF ProviderInv, ProviderTypes
<1>3. LoopOK(c) /\ InRound(c)
  BY DEF ProviderInv, InRound
<1>4. PICK b \in ToolBatches(calls[c].from) \cup {<<>>} : Within(c, Len(b))
  BY <1>3 DEF LoopOK
<1>5. Len(calls[c].queue) \in 1..Len(b) /\ Len(b) \in Nat /\ calls[c].queue \in Seq(Tools)
  BY <1>1, <1>3, <1>4, BatchLength DEF Within, CallRecord
<1>6. TasksOf(c)' = TasksOf(c)
  BY DEF TasksOf
<1>7. Cardinality(TasksOf(c)) + (Len(calls[c].queue) - 1) <= (calls[c].round + 1) * Len(b)
  BY <1>3, <1>4 DEF Within, StillQueued
<1>8. Cardinality(TasksOf(c)) \in Nat /\ calls[c].round \in Nat
  BY <1>1, TasksFinite DEF CallRecord
<1>9. CASE Len(calls[c].queue) = 1
  <2> PICK x : x = [calls[c] EXCEPT !.st = "asking", !.queue = <<>>, !.round = @ + 1, !.task = 0]
    OBVIOUS
  <2>1. x \in CallRecord /\ calls' = [calls EXCEPT ![c] = x]
    <3>0. calls[c].round + 1 \in Nat /\ <<>> \in Seq(Tools)
      BY <1>1, SMTT(40) DEF CallRecord
    <3>1. x \in CallRecord
      BY <1>1, <3>0 DEF CallRecord
    <3>2. calls' = [calls EXCEPT ![c].st = "asking", ![c].queue = <<>>, ![c].round = @ + 1, ![c].task = 0]
      BY <1>9 DEF FeedResult
    <3> QED BY <1>1, <3>1, <3>2
  <2>2. calls'[c] = x /\ x.from = calls[c].from /\ x.round = calls[c].round + 1 /\ x.st = "asking"
    BY <1>1, <2>1 DEF CallRecord
  <2>3. ~InRound(c)' /\ calls'[c].st # "waiting"
    BY <2>2 DEF InRound
  <2>4. Cardinality(TasksOf(c)) <= (calls[c].round + 1) * Len(b)
    BY <1>7, <1>8, <1>9
  <2>5. Within(c, Len(b))'
    BY <1>6, <2>2, <2>3, <2>4 DEF Within
  <2>6. calls[c].round + 1 <= MaxToolRounds
    BY <1>3, <1>8, RoundsAssumption DEF LoopOK
  <2>7. LoopOK(c)'
    BY <2>2, <2>3, <2>5, <2>6 DEF LoopOK
  <2> QED BY <2>1, <2>7, CallStepKeeps
<1>10. CASE Len(calls[c].queue) # 1
  <2>0. Tail(calls[c].queue) \in Seq(Tools) /\ Len(Tail(calls[c].queue)) = Len(calls[c].queue) - 1
    BY <1>5
  <2> PICK x : x = [calls[c] EXCEPT !.st = "tools", !.queue = Tail(@), !.task = 0]
    OBVIOUS
  <2>1. x \in CallRecord /\ calls' = [calls EXCEPT ![c] = x]
    BY <1>1, <1>10, <2>0 DEF CallRecord, FeedResult
  <2>2. /\ calls'[c] = x /\ x.from = calls[c].from /\ x.round = calls[c].round /\ x.st = "tools"
        /\ x.queue = Tail(calls[c].queue)
    BY <1>1, <2>1 DEF CallRecord
  <2>3. InRound(c)' /\ calls'[c].st # "waiting" /\ StillQueued(c)' = Len(calls[c].queue) - 1
    BY <2>0, <2>2 DEF InRound, StillQueued
  <2>4. Len(Tail(calls[c].queue)) \in 1..Len(b)
    <3>1. \A n \in Nat : \A m \in 1..n : m # 1 => m - 1 \in 1..n
      OBVIOUS
    <3> QED BY <1>5, <1>10, <2>0, <3>1, Zenon
  <2>5. Within(c, Len(b))'
    BY <1>6, <1>7, <2>2, <2>3, <2>4 DEF Within
  <2>6. LoopOK(c)'
    BY <1>3, <2>2, <2>3, <2>5 DEF LoopOK
  <2> QED BY <2>1, <2>6, CallStepKeeps
<1> QED BY <1>9, <1>10

(* A tool is done, by whomever. *)
LEMMA RanKeeps ==
  ASSUME ProviderInv, NEW k \in DOMAIN tasks, Ran(k), UNCHANGED <<calls, cache, owner, news, listener>>
  PROVE  ProviderInv'
<1>1. tasks \in Seq(TaskRecord) /\ tasks[k] \in TaskRecord /\ cache \in [Tools -> Subjects]
  BY DEF ProviderInv, ProviderTypes
<1> PICK x : x = [tasks[k] EXCEPT !.ran = TRUE, !.st = "done"]
  OBVIOUS
<1>2. x \in TaskRecord /\ tasks' = [tasks EXCEPT ![k] = x] /\ x.call = tasks[k].call /\ x.tool = tasks[k].tool
  BY <1>1 DEF TaskRecord, Ran
<1> QED BY <1>1, <1>2, TaskStepKeeps

(* Another place of a task in the dispatcher. *)
LEMMA TaskSetKeeps ==
  ASSUME ProviderInv, NEW k \in DOMAIN tasks, NEW st \in {"describing", "found", "sent", "done"}, NEW to \in Subjects,
         TaskSet(k, st, to), calls' = calls, cache' \in [Tools -> Subjects], UNCHANGED <<owner, news, listener>>
  PROVE  ProviderInv'
<1>1. tasks \in Seq(TaskRecord) /\ tasks[k] \in TaskRecord
  BY DEF ProviderInv, ProviderTypes
<1> PICK x : x = [tasks[k] EXCEPT !.st = st, !.to = to]
  OBVIOUS
<1>2. x \in TaskRecord /\ tasks' = [tasks EXCEPT ![k] = x] /\ x.call = tasks[k].call /\ x.tool = tasks[k].tool
  BY <1>1 DEF TaskRecord, TaskSet
<1> QED BY <1>1, <1>2, TaskStepKeeps

(* The dispatcher and the registrations of tools. *)
LEMMA DispatcherKeeps ==
  ASSUME ProviderInv,
         \/ \E k \in DOMAIN tasks :
              LookUpTool(k) \/ DescribeTool(k) \/ CacheTool(k) \/ PluginRuns(k) \/ ToolCallTimedOut(k)
         \/ \E p \in PluginSubjects : RegisterTool("execute-code", p)
         \/ ListenerDescribes \/ ListenerCaches
  PROVE  ProviderInv'
<1>1. /\ cache \in [Tools -> Subjects] /\ owner \in [Tools -> Subjects] /\ news \in Seq(Tools)
      /\ \A k \in DOMAIN tasks : tasks[k].tool \in Tools /\ tasks[k].to \in Subjects
      /\ None \in Subjects
  <2>1. \A k \in DOMAIN tasks : tasks[k] \in TaskRecord
    BY DEF ProviderInv, ProviderTypes
  <2> QED BY <2>1 DEF ProviderInv, ProviderTypes, TaskRecord, Subjects
<1>2. ASSUME NEW k \in DOMAIN tasks, LookUpTool(k)
      PROVE  ProviderInv'
  <2>1. cache[tasks[k].tool] \in Subjects
    BY <1>1
  <2> QED BY <1>1, <1>2, <2>1, TaskSetKeeps DEF LookUpTool
<1>3. ASSUME NEW k \in DOMAIN tasks, DescribeTool(k)
      PROVE  ProviderInv'
  <2>1. owner[tasks[k].tool] \in Subjects
    BY <1>1
  <2> QED BY <1>1, <1>3, <2>1, TaskSetKeeps DEF DescribeTool
<1>4. ASSUME NEW k \in DOMAIN tasks, CacheTool(k)
      PROVE  ProviderInv'
  <2>1. cache' \in [Tools -> Subjects]
    BY <1>1, <1>4 DEF CacheTool
  <2> QED BY <1>1, <1>4, <2>1, TaskSetKeeps DEF CacheTool
<1>5. ASSUME NEW k \in DOMAIN tasks, PluginRuns(k)
      PROVE  ProviderInv'
  BY <1>5, RanKeeps DEF PluginRuns
<1>6. ASSUME NEW k \in DOMAIN tasks, ToolCallTimedOut(k)
      PROVE  ProviderInv'
  BY <1>1, <1>6, TaskSetKeeps DEF ToolCallTimedOut
<1>7. ASSUME UNCHANGED <<calls, tasks>>, cache' \in [Tools -> Subjects], owner' \in [Tools -> Subjects],
             news' \in Seq(Tools), listener' \in [tool : Tools, to : Subjects] \cup {NoEntry}
      PROVE  ProviderInv'
  <2>1. \A c : TasksOf(c)' = TasksOf(c)
    BY <1>7 DEF TasksOf
  <2>2. \A c \in DOMAIN calls : LoopOK(c)'
    BY <1>7, <2>1, LoopKept DEF ProviderInv
  <2>3. ProviderTypes'
    BY <1>7 DEF ProviderInv, ProviderTypes
  <2> QED BY <1>7, <2>2, <2>3 DEF ProviderInv
<1>8. listener \in [tool : Tools, to : Subjects] \cup {NoEntry}
  BY DEF ProviderInv, ProviderTypes
<1>9. ASSUME NEW p \in PluginSubjects, RegisterTool("execute-code", p)
      PROVE  ProviderInv'
  <2>1. "execute-code" \in Tools /\ p \in Subjects
    BY DEF Tools, PluginTools, Subjects
  <2>2. owner' \in [Tools -> Subjects] /\ news' \in Seq(Tools)
    BY <1>1, <1>9, <2>1 DEF RegisterTool
  <2> QED BY <1>1, <1>7, <1>8, <1>9, <2>2 DEF RegisterTool
<1>10. CASE ListenerDescribes
  <2>1. Head(news) \in Tools /\ Tail(news) \in Seq(Tools)
    BY <1>1, <1>10 DEF ListenerDescribes
  <2>2. owner[Head(news)] \in Subjects
    BY <1>1, <2>1
  <2> QED BY <1>1, <1>7, <1>10, <2>1, <2>2 DEF ListenerDescribes
<1>11. CASE ListenerCaches
  <2>1. listener.to \in Subjects
    BY <1>8, <1>11 DEF ListenerCaches
  <2>2. cache' \in [Tools -> Subjects]
    BY <1>1, <1>11, <2>1 DEF ListenerCaches
  <2> QED BY <1>1, <1>7, <1>11, <2>2 DEF ListenerCaches
<1> QED BY <1>2, <1>3, <1>4, <1>5, <1>6, <1>9, <1>10, <1>11

(* Whatever the providers and the dispatcher do. *)
LEMMA ProviderKeeps ==
  ASSUME Batches, ProviderInv, NextProvider
  PROVE  ProviderInv'
<1>1. ASSUME NEW c \in DOMAIN calls, ToolReplied(c) \/ ToolTimedOut(c)
      PROVE  ProviderInv'
  BY <1>1, FeedKeeps DEF ToolReplied, ToolTimedOut
<1>2. ASSUME NEW c \in DOMAIN calls, GoogleRound(c) \/ OpenAiRound(c) \/ AnthropicRound(c) \/ OllamaRound(c)
      PROVE  ProviderInv'
  BY <1>2, RoundKeeps DEF GoogleRound, OpenAiRound, AnthropicRound, OllamaRound
<1> QED BY <1>1, <1>2, SendKeeps, DispatcherKeeps DEF NextProvider

(* What the property says of a loop follows from its invariant. *)
LEMMA LoopsBounded ==
  ASSUME Batches, ProviderInv
  PROVE  ResultBelongsToTool
<1> SUFFICES ASSUME NEW c \in DOMAIN calls
    PROVE  /\ \E batch \in ToolBatches(calls[c].from) \cup {<<>>} :
                Cardinality({k \in DOMAIN tasks : tasks[k].call = c}) <= MaxToolRounds * Len(batch)
           /\ calls[c].st = "waiting" =>
                LET k == calls[c].task
                IN  /\ \A l \in DOMAIN tasks : tasks[l].call = c => l <= k
                    /\ tasks[k].call = c
                    /\ tasks[k].tool \in {Head(calls[c].queue),
                                          unsanitize_tool_name(sanitize_tool_name(Head(calls[c].queue)))}
  BY DEF ResultBelongsToTool
<1>1. LoopOK(c) /\ calls[c] \in CallRecord /\ tasks \in Seq(TaskRecord)
  BY DEF ProviderInv, ProviderTypes
<1>2. PICK b \in ToolBatches(calls[c].from) \cup {<<>>} : Within(c, Len(b))
  BY <1>1 DEF LoopOK
<1>3. Len(b) \in Nat /\ calls[c].round \in Nat /\ Cardinality(TasksOf(c)) \in Nat
  BY <1>1, BatchLength, TasksFinite DEF CallRecord
<1>4. Cardinality(TasksOf(c)) <= MaxToolRounds * Len(b)
  <2>1. CASE InRound(c)
    <3>1. Cardinality(TasksOf(c)) + StillQueued(c) <= (calls[c].round + 1) * Len(b) /\ StillQueued(c) \in Nat
      BY <1>2, <1>3, <2>1 DEF Within, StillQueued
    <3>2. calls[c].round + 1 <= MaxToolRounds
      BY <1>1, <1>3, <2>1, RoundsAssumption DEF LoopOK
    <3>3. Len(b) * (calls[c].round + 1) <= Len(b) * MaxToolRounds
      BY <1>3, <3>2, TimesGrows, RoundsAssumption
    <3>4. (calls[c].round + 1) * Len(b) <= MaxToolRounds * Len(b)
      BY <1>3, <3>3, RoundsAssumption
    <3>5. (calls[c].round + 1) * Len(b) \in Nat /\ MaxToolRounds * Len(b) \in Nat
      BY <1>3, RoundsAssumption
    <3> QED BY <1>3, <3>1, <3>4, <3>5
  <2>2. CASE ~InRound(c)
    <3>1. Cardinality(TasksOf(c)) <= calls[c].round * Len(b)
      BY <1>2, <2>2 DEF Within
    <3>2. calls[c].round <= MaxToolRounds
      BY <1>1 DEF LoopOK
    <3>3. Len(b) * calls[c].round <= Len(b) * MaxToolRounds
      BY <1>3, <3>2, TimesGrows, RoundsAssumption
    <3>4. calls[c].round * Len(b) <= MaxToolRounds * Len(b)
      BY <1>3, <3>3, RoundsAssumption
    <3>5. calls[c].round * Len(b) \in Nat /\ MaxToolRounds * Len(b) \in Nat
      BY <1>3, RoundsAssumption
    <3> QED BY <1>3, <3>1, <3>4, <3>5
  <2> QED BY <2>1, <2>2
<1>5. \E batch \in ToolBatches(calls[c].from) \cup {<<>>} :
        Cardinality({k \in DOMAIN tasks : tasks[k].call = c}) <= MaxToolRounds * Len(batch)
  BY <1>4 DEF TasksOf
<1> QED BY <1>1, <1>5 DEF LoopOK, WaitsForNewest, TasksOf

(* What every step leaves of a request: whose it is and whom it asks, and   *)
(* its answer; and what most of them leave, whether its caller waits.       *)
Kept(c) ==
  /\ calls'[c].from = calls[c].from /\ calls'[c].provider = calls[c].provider
  /\ calls[c].st = "answered" => calls'[c].st = "answered" /\ calls'[c].reply = calls[c].reply
Untouched(c) == calls'[c].from = calls[c].from /\ calls'[c].caller = calls[c].caller
SameCallers == \A c \in DOMAIN calls : Untouched(c)
SameCalls == DOMAIN calls' = DOMAIN calls /\ \A c \in DOMAIN calls : Kept(c)
OneMore(p, who) ==
  /\ DOMAIN calls' = DOMAIN calls \cup {Len(calls) + 1} /\ Len(calls') = Len(calls) + 1
  /\ \A c \in DOMAIN calls : Kept(c) /\ Untouched(c) /\ c # Len(calls) + 1 /\ c < Len(calls) + 1
  /\ calls'[Len(calls) + 1].from = who /\ calls'[Len(calls) + 1].provider = p

(* A caller that stops waiting changes nothing else about a request. *)
LEMMA GiveUpSame ==
  ASSUME calls \in Seq(CallRecord), NEW c \in DOMAIN calls, NEW how \in {"took", "left"}, calls' = GiveUp(c, how)
  PROVE  SameCalls /\ calls'[c].caller = how /\ \A d \in DOMAIN calls : d # c => Untouched(d)
<1>1. DOMAIN calls' = DOMAIN calls
  BY DEF GiveUp
<1>2. ASSUME NEW d \in DOMAIN calls
      PROVE  Kept(d)
  <2>1. calls[d] \in CallRecord
    OBVIOUS
  <2>2. CASE d = c
    <3>1. calls'[d] = [calls[d] EXCEPT !.caller = how]
      BY <2>2 DEF GiveUp
    <3> QED BY <2>1, <3>1 DEF Kept, CallRecord
  <2>3. CASE d # c
    <3>1. calls'[d] = calls[d]
      BY <2>3 DEF GiveUp
    <3> QED BY <3>1 DEF Kept
  <2> QED BY <2>2, <2>3
<1>3. calls'[c].caller = how
  <2>1. calls'[c] = [calls[c] EXCEPT !.caller = how] /\ calls[c] \in CallRecord
    BY DEF GiveUp
  <2> QED BY <2>1 DEF CallRecord
<1>4. \A d \in DOMAIN calls : d # c => Untouched(d)
  BY DEF GiveUp, Untouched
<1> QED BY <1>1, <1>2, <1>3, <1>4 DEF SameCalls

(* A new request comes behind the others and leaves them as they are. *)
LEMMA NewCallOneMore ==
  ASSUME calls \in Seq(CallRecord), NEW p \in Names, NEW who \in Who, calls' = Append(calls, NewCall(p, who))
  PROVE  OneMore(p, who)
<1> PICK x : x = NewCall(p, who)
  OBVIOUS
<1>1. x \in CallRecord /\ x.from = who /\ x.provider = p
  BY DEF NewCall, CallRecord, Replies
<1>2. /\ DOMAIN calls' = DOMAIN calls \cup {Len(calls) + 1} /\ Len(calls') = Len(calls) + 1
      /\ calls'[Len(calls) + 1] = x
      /\ \A c \in DOMAIN calls : calls'[c] = calls[c] /\ c # Len(calls) + 1
  BY <1>1, AppendIs
<1>3. \A c \in DOMAIN calls : Kept(c) /\ Untouched(c) /\ c < Len(calls) + 1
  BY <1>2 DEF Kept, Untouched
<1> QED BY <1>1, <1>2, <1>3 DEF OneMore

(* The providers themselves change a request only before it is answered. *)
LEMMA ProviderSame ==
  ASSUME ProviderInv, NextProvider
  PROVE  SameCalls /\ SameCallers /\ DOMAIN tasks \subseteq DOMAIN tasks'
<1>0. calls \in Seq(CallRecord) /\ tasks \in Seq(TaskRecord)
  BY DEF ProviderInv, ProviderTypes
<1>1. ASSUME NEW c \in DOMAIN calls, NEW x \in CallRecord, calls' = [calls EXCEPT ![c] = x],
             x.from = calls[c].from, x.provider = calls[c].provider, x.caller = calls[c].caller, calls[c].st # "answered"
      PROVE  SameCalls /\ SameCallers
  <2>1. DOMAIN calls' = DOMAIN calls
    BY <1>0, <1>1
  <2>2. \A d \in DOMAIN calls : Kept(d) /\ Untouched(d)
    BY <1>0, <1>1 DEF Kept, Untouched
  <2> QED BY <2>1, <2>2 DEF SameCalls, SameCallers
<1>2. ASSUME calls' = calls
      PROVE  SameCalls /\ SameCallers
  BY <1>2 DEF SameCalls, SameCallers, Kept, Untouched
<1>3. ASSUME NEW c \in DOMAIN calls, NEW p, ProviderRound(c, p)
      PROVE  SameCalls /\ SameCallers /\ DOMAIN tasks \subseteq DOMAIN tasks'
  <2>0. calls[c].st # "answered" /\ tasks' = tasks
    BY <1>3 DEF ProviderRound
  <2>1. calls[c] \in CallRecord /\ calls[c].st # "answered" /\ tasks' = tasks
    BY <1>0, <2>0
  <2>2. ASSUME NEW kind, Reply(c, kind)
        PROVE  SameCalls /\ SameCallers
    <3> PICK x : x = [calls[c] EXCEPT !.st = "answered", !.reply = kind]
      OBVIOUS
    <3>1. calls' = [calls EXCEPT ![c] = x] /\ x.from = calls[c].from /\ x.provider = calls[c].provider /\ x.caller = calls[c].caller
      BY <2>1, <2>2 DEF Reply, CallRecord
    <3>2. DOMAIN calls' = DOMAIN calls
      BY <3>1
    <3>3. \A d \in DOMAIN calls : Kept(d) /\ Untouched(d)
      BY <1>0, <2>1, <3>1 DEF Kept, Untouched
    <3> QED BY <3>2, <3>3 DEF SameCalls, SameCallers
  <2>3. ASSUME NEW batch, calls' = [calls EXCEPT ![c].st = "tools", ![c].queue = batch, ![c].rounds = @ + 1]
        PROVE  SameCalls /\ SameCallers
    <3> PICK x : x = [calls[c] EXCEPT !.st = "tools", !.queue = batch, !.rounds = @ + 1]
      OBVIOUS
    <3>1. calls' = [calls EXCEPT ![c] = x] /\ x.from = calls[c].from /\ x.provider = calls[c].provider /\ x.caller = calls[c].caller
      BY <2>1, <2>3 DEF CallRecord
    <3>2. DOMAIN calls' = DOMAIN calls
      BY <3>1
    <3>3. \A d \in DOMAIN calls : Kept(d) /\ Untouched(d)
      BY <1>0, <2>1, <3>1 DEF Kept, Untouched
    <3> QED BY <3>2, <3>3 DEF SameCalls, SameCallers
  <2> QED BY <1>3, <2>1, <2>2, <2>3 DEF ProviderRound
<1>4. ASSUME NEW c \in DOMAIN calls, ProviderSendsTool(c)
      PROVE  SameCalls /\ SameCallers /\ DOMAIN tasks \subseteq DOMAIN tasks'
  <2>1. calls[c] \in CallRecord /\ calls[c].st # "answered"
    BY <1>0, <1>4 DEF ProviderSendsTool
  <2> PICK x : x = [calls[c] EXCEPT !.st = "waiting", !.task = Len(tasks')]
    OBVIOUS
  <2>2. calls' = [calls EXCEPT ![c] = x] /\ x.from = calls[c].from /\ x.provider = calls[c].provider /\ x.caller = calls[c].caller
    BY <1>4, <2>1 DEF ProviderSendsTool, CallRecord
  <2>3. DOMAIN calls' = DOMAIN calls
    BY <2>2
  <2>4. \A d \in DOMAIN calls : Kept(d) /\ Untouched(d)
    BY <1>0, <2>1, <2>2 DEF Kept, Untouched
  <2>5. DOMAIN tasks \subseteq DOMAIN tasks'
    BY <1>0, <1>4 DEF ProviderSendsTool
  <2> QED BY <2>3, <2>4, <2>5 DEF SameCalls, SameCallers
<1>5. ASSUME NEW c \in DOMAIN calls, ToolReplied(c) \/ ToolTimedOut(c)
      PROVE  SameCalls /\ SameCallers /\ DOMAIN tasks \subseteq DOMAIN tasks'
  <2>1. calls[c] \in CallRecord /\ calls[c].st # "answered" /\ tasks' = tasks /\ FeedResult(c)
    BY <1>0, <1>5 DEF ToolReplied, ToolTimedOut
  <2>2. PICK x : calls' = [calls EXCEPT ![c] = x] /\ x.from = calls[c].from /\ x.provider = calls[c].provider /\ x.caller = calls[c].caller
    <3>1. CASE Len(calls[c].queue) = 1
      <4> PICK x : x = [calls[c] EXCEPT !.st = "asking", !.queue = <<>>, !.round = @ + 1, !.task = 0]
        OBVIOUS
      <4>1. calls' = [calls EXCEPT ![c] = x] /\ x.from = calls[c].from /\ x.provider = calls[c].provider /\ x.caller = calls[c].caller
        BY <2>1, <3>1 DEF FeedResult, CallRecord
      <4> QED BY <4>1
    <3>2. CASE Len(calls[c].queue) # 1
      <4> PICK x : x = [calls[c] EXCEPT !.st = "tools", !.queue = Tail(@), !.task = 0]
        OBVIOUS
      <4>1. calls' = [calls EXCEPT ![c] = x] /\ x.from = calls[c].from /\ x.provider = calls[c].provider /\ x.caller = calls[c].caller
        BY <2>1, <3>2 DEF FeedResult, CallRecord
      <4> QED BY <4>1
    <3> QED BY <3>1, <3>2
  <2>3. DOMAIN calls' = DOMAIN calls
    BY <2>2
  <2>4. \A d \in DOMAIN calls : Kept(d) /\ Untouched(d)
    BY <1>0, <2>1, <2>2 DEF Kept, Untouched
  <2> QED BY <2>1, <2>3, <2>4 DEF SameCalls, SameCallers
<1>6. ASSUME NEW k \in DOMAIN tasks, LookUpTool(k) \/ DescribeTool(k) \/ CacheTool(k) \/ PluginRuns(k) \/ ToolCallTimedOut(k)
      PROVE  calls' = calls /\ DOMAIN tasks' = DOMAIN tasks
  BY <1>6 DEF LookUpTool, DescribeTool, CacheTool, PluginRuns, ToolCallTimedOut, TaskSet, Ran
<1>7. ASSUME NEW p, RegisterTool("execute-code", p)
      PROVE  calls' = calls /\ tasks' = tasks
  BY <1>7 DEF RegisterTool
<1>8. ListenerDescribes \/ ListenerCaches => calls' = calls /\ tasks' = tasks
  BY DEF ListenerDescribes, ListenerCaches
<1>9. ASSUME NEW c \in DOMAIN calls, GoogleRound(c) \/ OpenAiRound(c) \/ AnthropicRound(c) \/ OllamaRound(c)
      PROVE  \E p : ProviderRound(c, p)
  BY <1>9 DEF GoogleRound, OpenAiRound, AnthropicRound, OllamaRound
<1> QED BY <1>2, <1>3, <1>4, <1>5, <1>6, <1>7, <1>8, <1>9 DEF NextProvider

(* The call that the built-in loop takes next is one of those that wait. *)
LEMMA NextCallWaits ==
  ASSUME tasks \in Seq(TaskRecord), CallsAhead # {}
  PROVE  Next_call \in CallsAhead /\ Next_call \in DOMAIN tasks
<1>1. CallsAhead \subseteq DOMAIN tasks /\ DOMAIN tasks \subseteq Nat
  BY DEF CallsAhead
<1>2. PICK n \in CallsAhead : \A k \in CallsAhead : ~ (<<k, n>> \in OpToRel(<, Nat))
  <2>1. CallsAhead \subseteq Nat
    BY <1>1
  <2> QED BY <2>1, NatLessThanWellFounded, WFMin
<1>3. ASSUME NEW k \in CallsAhead
      PROVE  n <= k
  <2>1. n \in Nat /\ k \in Nat /\ ~ (<<k, n>> \in OpToRel(<, Nat))
    BY <1>1, <1>2
  <2> QED BY <2>1 DEF OpToRel
<1>4. \E k \in CallsAhead : \A l \in CallsAhead : k <= l
  BY <1>3
<1> QED BY <1>1, <1>4 DEF Next_call

-----------------------------------------------------------------------------
(* Runtime subscriptions                                                    *)

(* Entries for a set of patterns are as many as the patterns, at most. *)
LEMMA EntriesCount ==
  ASSUME NEW ps \in SUBSET Patterns, NEW k
  PROVE  /\ IsFiniteSet(ps) /\ Cardinality(ps) \in Nat
         /\ IsFiniteSet([pattern : ps, task : {k}]) /\ Cardinality([pattern : ps, task : {k}]) <= Cardinality(ps)
<1>1. IsFiniteSet(ps) /\ Cardinality(ps) \in Nat
  BY ConsciousnessAssumption, FS_Subset, FS_CardinalityType
<1> DEFINE T == [pattern : ps, task : {k}]
           f == [p \in ps |-> [pattern |-> p, task |-> k]]
<1>2. f \in Surjection(ps, T)
  <2>1. f \in [ps -> T]
    OBVIOUS
  <2>2. ASSUME NEW t \in T
        PROVE  \E p \in ps : f[p] = t
    <3>1. t.pattern \in ps /\ t = [pattern |-> t.pattern, task |-> k]
      OBVIOUS
    <3> QED BY <3>1
  <2> QED BY <2>1, <2>2 DEF Surjection
<1> HIDE DEF f, T
<1>3. IsFiniteSet(T) /\ Cardinality(T) <= Cardinality(ps)
  BY <1>1, <1>2, FS_Surjection
<1> QED BY <1>1, <1>3 DEF T

(* Where a step leaves server, entries and forwarders alone. *)
LEMMA SubscriptionsLeft ==
  ASSUME SubscriptionInv, UNCHANGED <<subs, server>>, forwards' \subseteq forwards, DOMAIN tasks \subseteq DOMAIN tasks'
  PROVE  SubscriptionInv'
<1>1. ServerOK'
  BY DEF SubscriptionInv, ServerOK
<1>2. \A f : Installing(f)' = Installing(f)
  BY DEF Installing
<1> QED BY <1>1, <1>2 DEF SubscriptionInv

(* subscribe-events: the forwarders are spawned, their entries still to     *)
(* come.                                                                    *)
LEMMA SubscribeKeeps ==
  ASSUME ProviderInv, SubscriptionInv, SubscribeEvents
  PROVE  SubscriptionInv'
<1>1. server.st = "idle" /\ CallsAhead # {} /\ subs' = subs
  BY DEF SubscribeEvents, Serves
<1> PICK k : k = Next_call
  OBVIOUS
<1>2. k \in DOMAIN tasks /\ CallerOf(k) = None /\ k \in Nat
  <2>1. tasks \in Seq(TaskRecord)
    BY DEF ProviderInv, ProviderTypes
  <2>2. k \in DOMAIN tasks
    BY <1>1, <2>1, NextCallWaits
  <2>3. tasks[k] \in TaskRecord
    BY <2>1, <2>2
  <2> QED BY <2>1, <2>2, <2>3 DEF CallerOf, TaskRecord
<1>3. CASE Answer(k) /\ UNCHANGED <<forwards, server>>
  <2>1. DOMAIN tasks' = DOMAIN tasks
    BY <1>3 DEF Answer, Ran
  <2> QED BY <1>1, <1>3, <2>1, SubscriptionsLeft
<1>4. ASSUME NEW ps \in SUBSET Patterns, NEW e \in BOOLEAN,
             Cardinality(subs[None]) + Cardinality(ps) <= MaxSubscriptions,
             forwards' = forwards \cup [agent : {None}, pattern : ps, expires : {e}, task : {k}],
             server' = [st |-> "install", task |-> k, agent |-> None, patterns |-> ps], tasks' = tasks
      PROVE  SubscriptionInv'
  <2>1. None \in AgentIds
    BY DEF AgentIds
  <2>2. ServerOK'
    BY <1>1, <1>2, <1>4, <2>1 DEF ServerOK
  <2>3. ASSUME NEW f \in forwards'
        PROVE  f \in Forwarder /\ ([pattern |-> f.pattern, task |-> f.task] \in subs[f.agent] \/ Installing(f)')
    <3>1. CASE f \in forwards
      <4>1. ~Installing(f)
        BY <1>1 DEF Installing
      <4> QED BY <3>1, <4>1 DEF SubscriptionInv
    <3>2. CASE f \in [agent : {None}, pattern : ps, expires : {e}, task : {k}]
      BY <1>2, <1>4, <2>1, <3>2 DEF Forwarder, Installing
    <3> QED BY <1>4, <2>3, <3>1, <3>2
  <2> QED BY <1>1, <2>2, <2>3 DEF SubscriptionInv
<1> QED BY <1>2, <1>3, <1>4 DEF SubscribeEvents, providerVars

(* subscribe-events goes on: every forwarder it has spawned gets its entry. *)
LEMMA InstallKeeps ==
  ASSUME ProviderInv, SubscriptionInv, InstallSubscription
  PROVE  SubscriptionInv'
<1> PICK a, ps, k : a = server.agent /\ ps = server.patterns /\ k = server.task
  OBVIOUS
<1>1. /\ a \in AgentIds /\ ps \in SUBSET Patterns /\ k \in DOMAIN tasks /\ server.st = "install"
      /\ Cardinality(subs[a]) + Cardinality(ps) <= MaxSubscriptions
  BY DEF InstallSubscription, SubscriptionInv, ServerOK, ServerIdle
<1> PICK new : new = [pattern : ps, task : {k}]
  OBVIOUS
<1>2. /\ subs' = [subs EXCEPT ![a] = @ \cup new] /\ server' = ServerIdle /\ forwards' = forwards
  BY DEF InstallSubscription
<1>3. k \in Nat
  BY <1>1 DEF ProviderInv, ProviderTypes
<1>4. subs \in [AgentIds -> SUBSET [pattern : Patterns, task : Nat]]
  BY DEF SubscriptionInv
<1>5. /\ subs' \in [AgentIds -> SUBSET [pattern : Patterns, task : Nat]]
      /\ subs'[a] = subs[a] \cup new /\ \A b \in AgentIds : b # a => subs'[b] = subs[b]
  BY <1>1, <1>2, <1>3, <1>4
<1>6. IsFiniteSet(subs'[a]) /\ Cardinality(subs'[a]) <= MaxSubscriptions
  <2>1. IsFiniteSet(subs[a]) /\ Cardinality(subs[a]) \in Nat
    BY <1>1, FS_CardinalityType DEF SubscriptionInv
  <2>2. IsFiniteSet(new) /\ Cardinality(new) <= Cardinality(ps) /\ Cardinality(ps) \in Nat /\ Cardinality(new) \in Nat
    BY <1>1, EntriesCount, FS_CardinalityType
  <2>3. /\ IsFiniteSet(subs[a] \cup new)
        /\ Cardinality(subs[a] \cup new) = Cardinality(subs[a]) + Cardinality(new) - Cardinality(subs[a] \cap new)
    BY <2>1, <2>2, FS_Union
  <2>4. Cardinality(subs[a] \cap new) \in Nat
    BY <2>1, FS_Intersection, FS_CardinalityType
  <2>5. MaxSubscriptions \in Nat
    BY ConsciousnessAssumption
  <2> QED BY <1>1, <1>5, <2>1, <2>2, <2>3, <2>4, <2>5
<1>7. \A b \in AgentIds : IsFiniteSet(subs'[b]) /\ Cardinality(subs'[b]) <= MaxSubscriptions
  BY <1>5, <1>6 DEF SubscriptionInv
<1>8. ServerOK'
  BY <1>2 DEF ServerOK
<1>9. ASSUME NEW f \in forwards
      PROVE  [pattern |-> f.pattern, task |-> f.task] \in subs'[f.agent]
  <2>1. f \in Forwarder /\ f.agent \in AgentIds
    BY DEF SubscriptionInv, Forwarder
  <2>2. CASE [pattern |-> f.pattern, task |-> f.task] \in subs[f.agent]
    BY <1>5, <2>1, <2>2
  <2>3. CASE Installing(f)
    <3>1. f.agent = a /\ f.task = k /\ f.pattern \in ps
      BY <2>3 DEF Installing
    <3> QED BY <1>5, <3>1
  <2> QED BY <2>2, <2>3 DEF SubscriptionInv
<1> QED BY <1>2, <1>5, <1>7, <1>8, <1>9 DEF SubscriptionInv

(* unsubscribe-events: the entries of a pattern go with their forwarders. *)
LEMMA UnsubscribeKeeps ==
  ASSUME ProviderInv, SubscriptionInv, UnsubscribeEvents
  PROVE  SubscriptionInv'
<1>1. server.st = "idle" /\ CallsAhead # {} /\ server' = server
  BY DEF UnsubscribeEvents, Serves
<1>2. server = ServerIdle
  BY <1>1 DEF SubscriptionInv, ServerOK
<1>3. CallerOf(Next_call) = None
  <2>1. tasks \in Seq(TaskRecord)
    BY DEF ProviderInv, ProviderTypes
  <2>2. tasks[Next_call] \in TaskRecord
    BY <1>1, <2>1, NextCallWaits
  <2> QED BY <2>2 DEF CallerOf, TaskRecord
<1>4. PICK gone \in SUBSET Patterns :
        /\ subs' = [subs EXCEPT ![None] = {e \in @ : e.pattern \notin gone}]
        /\ forwards' = {f \in forwards : ~(f.agent = None /\ f.pattern \in gone)}
  BY <1>3 DEF UnsubscribeEvents
<1>5. subs \in [AgentIds -> SUBSET [pattern : Patterns, task : Nat]] /\ None \in AgentIds
  BY DEF SubscriptionInv, AgentIds
<1>6. /\ subs' \in [AgentIds -> SUBSET [pattern : Patterns, task : Nat]]
      /\ subs'[None] = {e \in subs[None] : e.pattern \notin gone}
      /\ \A b \in AgentIds : b # None => subs'[b] = subs[b]
  BY <1>4, <1>5
<1>7. IsFiniteSet(subs'[None]) /\ Cardinality(subs'[None]) <= MaxSubscriptions
  <2>1. IsFiniteSet(subs[None]) /\ Cardinality(subs[None]) <= MaxSubscriptions /\ Cardinality(subs[None]) \in Nat
    BY <1>5, FS_CardinalityType DEF SubscriptionInv
  <2>2. subs'[None] \subseteq subs[None]
    BY <1>6
  <2>3. IsFiniteSet(subs'[None]) /\ Cardinality(subs'[None]) <= Cardinality(subs[None]) /\ Cardinality(subs'[None]) \in Nat
    BY <2>1, <2>2, FS_Subset, FS_CardinalityType
  <2>4. MaxSubscriptions \in Nat
    BY ConsciousnessAssumption
  <2> QED BY <2>1, <2>3, <2>4
<1>8. \A b \in AgentIds : IsFiniteSet(subs'[b]) /\ Cardinality(subs'[b]) <= MaxSubscriptions
  BY <1>6, <1>7 DEF SubscriptionInv
<1>9. ASSUME NEW f \in forwards'
      PROVE  f \in Forwarder /\ [pattern |-> f.pattern, task |-> f.task] \in subs'[f.agent]
  <2>1. f \in Forwarder /\ [pattern |-> f.pattern, task |-> f.task] \in subs[f.agent]
    BY <1>1, <1>4 DEF SubscriptionInv, Installing
  <2>2. f.agent \in AgentIds
    BY <2>1 DEF Forwarder
  <2>3. CASE f.agent = None
    <3>1. f.pattern \notin gone
      BY <1>4, <2>3
    <3> QED BY <1>6, <2>1, <2>3, <3>1
  <2> QED BY <1>6, <2>1, <2>2, <2>3
<1>10. ServerOK'
  BY <1>1, <1>2 DEF ServerOK
<1> QED BY <1>6, <1>8, <1>9, <1>10 DEF SubscriptionInv

(* What the property says is part of the invariant. *)
LEMMA ForwardersHaveEntries ==
  ASSUME SubscriptionInv
  PROVE  ForwardersAccounted
  BY DEF SubscriptionInv, ForwardersAccounted, Installing

-----------------------------------------------------------------------------
(* The agents' conversations                                                *)

ConvsKept ==
  \A n \in DOMAIN convs :
    n \in DOMAIN convs' /\ convs'[n].agent = convs[n].agent /\ convs'[n].key = convs[n].key

(* A turn is idle or has its event. *)
LEMMA TurnIs ==
  ASSUME AgentTypes, NEW a \in Agents
  PROVE  /\ turn[a].st = "idle" => turn[a] = NoTurn
         /\ turn[a].st # "idle" => turn[a] \in TurnRecord /\ turn[a].ev \in EventRecord
<1>1. turn[a] \in TurnRecord \cup {NoTurn}
  BY DEF AgentTypes
<1>2. turn[a] \in TurnRecord => turn[a].st # "idle" /\ turn[a].ev \in EventRecord
  BY DEF TurnRecord
<1> QED BY <1>1, <1>2 DEF NoTurn

(* What is ahead of an agent are events. *)
LEMMA AheadIsEvent ==
  ASSUME AgentTypes, NEW a \in Agents, NEW x \in Ahead(a)
  PROVE  x \in EventRecord /\ x.id \in Nat /\ x.conv \in Nat
<1>1. x \in EventRecord
  <2>1. Unwritten(a) => turn[a].ev \in EventRecord
    BY TurnIs DEF Unwritten
  <2>2. \A i \in DOMAIN inbox[a] : inbox[a][i] \in EventRecord
    BY DEF AgentTypes
  <2> QED BY <2>1, <2>2 DEF Ahead
<1> QED BY <1>1 DEF EventRecord

(* An agent that does nothing. *)
LEMMA HistoryStays ==
  ASSUME NEW a \in Agents, HistoryOf(a), ConvsKept, inbox'[a] = inbox[a], turn'[a] = turn[a],
         \A x \in Ahead(a) : EventOK(a, x)'
  PROVE  HistoryOf(a)'
<1>1. Unwritten(a)' = Unwritten(a) /\ InConversation(a)' = InConversation(a)
  BY DEF Unwritten, InConversation
<1>2. Ahead(a)' = Ahead(a)
  BY <1>1 DEF Ahead
<1>3. UsesOwn(a)'
  BY <1>1 DEF HistoryOf, UsesOwn, MayUse, ConvsKept
<1> QED BY <1>2, <1>3 DEF HistoryOf

(* What a conversation may be used for does not change. *)
LEMMA NamesKept ==
  ASSUME ConvsKept, NEW a, NEW x, NamesOwn(a, x)
  PROVE  NamesOwn(a, x)'
  BY DEF ConvsKept, NamesOwn, Key

(* With the conversations as they were, the events fit as they did. *)
LEMMA SameConvs ==
  ASSUME convs' = convs
  PROVE  ConvsKept /\ \A a, x : EventOK(a, x)' = EventOK(a, x)
<1>1. \A a, x : NamesOwn(a, x)' = NamesOwn(a, x)
  BY DEF NamesOwn, Key
<1>2. \A a, x, n : MayUse(a, x, n)' = MayUse(a, x, n) /\ Precedes(n, x)' = Precedes(n, x)
  BY DEF MayUse, Precedes
<1> QED BY <1>1, <1>2 DEF ConvsKept, EventOK

(* A new conversation is of no concern to the events there are: it is empty *)
(* or between agents.                                                       *)
LEMMA NewConversationIs ==
  ASSUME convs \in Seq(Conversation), NEW v \in Conversation, convs' = Append(convs, v)
  PROVE  /\ convs' \in Seq(Conversation) /\ Len(convs') = Len(convs) + 1 /\ ConvsKept
         /\ DOMAIN convs' = DOMAIN convs \cup {Len(convs')} /\ convs'[Len(convs')] = v
         /\ Len(convs') \notin DOMAIN convs /\ Len(convs') \in Nat \ {0}
         /\ \A n \in DOMAIN convs : convs'[n] = convs[n]
<1>1. /\ convs' \in Seq(Conversation) /\ Len(convs') = Len(convs) + 1
      /\ DOMAIN convs' = DOMAIN convs \cup {Len(convs) + 1} /\ convs'[Len(convs) + 1] = v
      /\ \A n \in DOMAIN convs : convs'[n] = convs[n] /\ n # Len(convs) + 1
  BY AppendIs
<1>2. Len(convs) \in Nat
  OBVIOUS
<1> QED BY <1>1, <1>2 DEF ConvsKept

(* A conversation that is created leaves the events that are ahead in       *)
(* order.                                                                   *)
LEMMA NewConversationKeeps ==
  ASSUME convs \in Seq(Conversation), NEW v \in Conversation, convs' = Append(convs, v),
         v.msgs = <<>> \/ v.key = "agent", NEW a, NEW x, x.conv \in Nat, EventOK(a, x)
  PROVE  EventOK(a, x)'
<1>1. /\ ConvsKept /\ DOMAIN convs' = DOMAIN convs \cup {Len(convs')} /\ convs'[Len(convs')] = v
      /\ Len(convs') \notin DOMAIN convs /\ Len(convs') # 0
      /\ \A n \in DOMAIN convs : convs'[n] = convs[n]
  BY NewConversationIs
<1>2. NamesOwn(a, x)'
  BY <1>1, NamesKept DEF EventOK
<1>3. ASSUME NEW n \in DOMAIN convs, MayUse(a, x, n)'
      PROVE  Precedes(n, x)'
  <2>1. MayUse(a, x, n)
    BY <1>1, <1>3 DEF MayUse
  <2> QED BY <1>1, <2>1 DEF EventOK, Precedes
<1>4. ASSUME NEW n, n = Len(convs'), MayUse(a, x, n)'
      PROVE  Precedes(n, x)'
  <2>1. x.conv # n
    BY <1>1, <1>4 DEF EventOK, NamesOwn
  <2>2. v.key # "agent"
    BY <1>1, <1>4, <2>1 DEF MayUse
  <2>3. convs'[n].msgs = <<>>
    BY <1>1, <1>4, <2>2
  <2> QED BY <2>3 DEF Precedes
<1> QED BY <1>1, <1>2, <1>3, <1>4 DEF EventOK

(* One message more in one conversation. *)
LEMMA AppendedIs ==
  ASSUME convs \in Seq(Conversation), NEW n \in DOMAIN convs, NEW m \in Message, convs' = Appended(n, m)
  PROVE  /\ convs' \in Seq(Conversation) /\ DOMAIN convs' = DOMAIN convs /\ ConvsKept
         /\ convs'[n].msgs = Append(convs[n].msgs, m) /\ convs[n].msgs \in Seq(Message)
         /\ \A k \in DOMAIN convs : k # n => convs'[k] = convs[k]
<1> PICK v : v = [convs[n] EXCEPT !.msgs = Append(@, m)]
  OBVIOUS
<1>1. convs[n] \in Conversation
  OBVIOUS
<1>2. convs[n].msgs \in Seq(Message)
  BY <1>1 DEF Conversation
<1>3. Append(convs[n].msgs, m) \in Seq(Message)
  BY <1>2
<1>4. /\ v \in Conversation /\ v.agent = convs[n].agent /\ v.key = convs[n].key /\ v.msgs = Append(convs[n].msgs, m)
  BY <1>1, <1>3 DEF Conversation
<1>5. convs' = [convs EXCEPT ![n] = v]
  BY DEF Appended
<1>6. /\ convs' \in Seq(Conversation) /\ DOMAIN convs' = DOMAIN convs /\ convs'[n] = v
      /\ \A k \in DOMAIN convs : k # n => convs'[k] = convs[k]
  BY <1>4, <1>5
<1>7. ConvsKept
  BY <1>4, <1>6 DEF ConvsKept
<1> QED BY <1>2, <1>4, <1>6, <1>7

Fits(m, x) == ~m.late => m.ev < x.id \/ (m.ev = x.id /\ m.role = "user")

(* An append leaves an event ahead in order if what it appends came first. *)
LEMMA AppendedKeeps ==
  ASSUME convs \in Seq(Conversation), NEW n \in DOMAIN convs, NEW m \in Message, convs' = Appended(n, m),
         NEW a, NEW x, EventOK(a, x), MayUse(a, x, n) => Fits(m, x)
  PROVE  EventOK(a, x)'
<1>1. /\ convs' \in Seq(Conversation) /\ DOMAIN convs' = DOMAIN convs /\ ConvsKept
      /\ convs'[n].msgs = Append(convs[n].msgs, m) /\ convs[n].msgs \in Seq(Message)
      /\ \A k \in DOMAIN convs : k # n => convs'[k] = convs[k]
  BY AppendedIs
<1>2. NamesOwn(a, x)'
  BY <1>1, NamesKept DEF EventOK
<1>3. ASSUME NEW k \in DOMAIN convs, MayUse(a, x, k)'
      PROVE  Precedes(k, x)'
  <2>1. MayUse(a, x, k) /\ Precedes(k, x)
    BY <1>1, <1>3 DEF MayUse, ConvsKept, EventOK
  <2>2. CASE k # n
    BY <1>1, <2>1, <2>2 DEF Precedes
  <2>3. CASE k = n
    <3>1. ASSUME NEW i \in DOMAIN convs'[n].msgs
          PROVE  Fits(convs'[n].msgs[i], x)
      <4>1. i \in DOMAIN convs[n].msgs => convs'[n].msgs[i] = convs[n].msgs[i]
        BY <1>1
      <4>2. i \notin DOMAIN convs[n].msgs => convs'[n].msgs[i] = m
        BY <1>1, <3>1
      <4> QED BY <2>1, <2>3, <4>1, <4>2 DEF Precedes, Fits
    <3> QED BY <2>3, <3>1 DEF Precedes, Fits
  <2> QED BY <2>2, <2>3
<1> QED BY <1>1, <1>2, <1>3 DEF EventOK

(* The order within a conversation. *)
Ordered(n) ==
  \A i, j \in DOMAIN convs[n].msgs :
    LET x == convs[n].msgs[i]
        y == convs[n].msgs[j]
    IN  i < j /\ ~x.late /\ ~y.late => x.ev < y.ev \/ (x.ev = y.ev /\ x.role = "user")
Recent(n) == \A i \in DOMAIN convs[n].msgs : ~convs[n].msgs[i].late => convs[n].msgs[i].ev <= events

(* The invariant of the conversations, agent by agent and conversation by   *)
(* conversation.                                                            *)
LEMMA HistoryIs ==
  HistoryInv <=> (\A a \in Agents : HistoryOf(a)) /\ \A n \in DOMAIN convs : Ordered(n) /\ Recent(n)
  BY DEF HistoryInv, HistoryInEventOrder, Ordered, Recent

(* What is appended comes behind everything the conversation has. *)
LEMMA AppendedOrdered ==
  ASSUME convs \in Seq(Conversation), NEW n \in DOMAIN convs, NEW m \in Message, convs' = Appended(n, m),
         Ordered(n), Recent(n), NEW x, x.id = m.ev, m.late \/ Precedes(n, x), m.late \/ m.ev <= events, events' = events
  PROVE  Ordered(n)' /\ Recent(n)'
<1>1. convs'[n].msgs = Append(convs[n].msgs, m) /\ convs[n].msgs \in Seq(Message)
  BY AppendedIs
<1> PICK s, t : s = convs[n].msgs /\ t = convs'[n].msgs
  OBVIOUS
<1>2. /\ DOMAIN t = DOMAIN s \cup {Len(s) + 1} /\ t[Len(s) + 1] = m
      /\ \A i \in DOMAIN s : t[i] = s[i] /\ i # Len(s) + 1
  BY <1>1, AppendIs
<1>3. \A i \in DOMAIN s : i < Len(s) + 1 /\ i \in Nat
  BY <1>1
<1>4. \A i \in DOMAIN s : ~s[i].late /\ ~m.late => s[i].ev < m.ev \/ (s[i].ev = m.ev /\ s[i].role = "user")
  BY DEF Precedes
<1>5. ASSUME NEW i \in DOMAIN t, NEW j \in DOMAIN t, i < j, ~t[i].late, ~t[j].late
      PROVE  t[i].ev < t[j].ev \/ (t[i].ev = t[j].ev /\ t[i].role = "user")
  <2>1. CASE j = Len(s) + 1
    <3>1. i \in DOMAIN s
      BY <1>1, <1>2, <1>5, <2>1
    <3> QED BY <1>2, <1>4, <1>5, <2>1, <3>1
  <2>2. CASE j \in DOMAIN s
    <3>1. i \in DOMAIN s
      BY <1>1, <1>2, <1>3, <1>5, <2>2
    <3> QED BY <1>2, <1>5, <2>2, <3>1 DEF Ordered
  <2> QED BY <1>2, <2>1, <2>2
<1>6. \A i \in DOMAIN t : ~t[i].late => t[i].ev <= events
  BY <1>2 DEF Recent
<1> QED BY <1>5, <1>6 DEF Ordered, Recent

-----------------------------------------------------------------------------
(* The agents' turns                                                        *)

CallsKept == \A c \in DOMAIN calls : c \in DOMAIN calls' /\ Kept(c)

(* What an agent has asked for does not change under it. *)
LEMMA AskedStays ==
  ASSUME NEW a \in Agents, AskedOK(a), turn'[a] = turn[a], CallsKept
  PROVE  AskedOK(a)'
<1>1. Asked(a)' = Asked(a)
  BY DEF Asked
<1> QED BY <1>1 DEF AskedOK, CallsKept, Kept

(* Nothing is sent, and nobody gets an event that was answered. *)
LEMMA AnswersStay ==
  ASSUME AgentTypes, AnswerInv, outbound' = outbound, events \in Nat, events' \in Nat, events <= events', CallsKept,
         \A a \in Agents, n \in 1..events : Has(a, n)' => Has(a, n), \A a \in Agents : AskedOK(a)'
  PROVE  AnswerInv'
<1>1. AnswerHeard'
  BY DEF AnswerInv, AnswerHeard, CallsKept, Kept
<1>2. ASSUME NEW i \in DOMAIN outbound, outbound[i].ev # 0
      PROVE  outbound[i].ev \in 1..events' /\ \A a \in Agents : ~Has(a, outbound[i].ev)'
  <2> PICK n : n = outbound[i].ev
    OBVIOUS
  <2>1. n \in 1..events /\ \A a \in Agents : ~Has(a, n)
    BY <1>2 DEF AnswerInv
  <2>2. \A a \in Agents : ~Has(a, n)'
    BY <2>1
  <2>3. n \in 1..events'
    BY <2>1
  <2> QED BY <2>2, <2>3 DEF Has
<1> QED BY <1>1, <1>2 DEF AnswerInv, Has

(* A step that is no business of the agents. *)
LEMMA AgentsLeft ==
  ASSUME AgentInv, UNCHANGED <<inbox, turn, convs, late, outbound, events>>, CallsKept
  PROVE  AgentInv'
<1>1. AgentTypes' /\ EventsInOrder' /\ HistoryInEventOrder'
  BY DEF AgentInv, HistoryInv, AgentTypes, EventsInOrder, InOrder, Has, HistoryInEventOrder
<1>2. ConvsKept /\ \A a, x : EventOK(a, x)' = EventOK(a, x)
  BY SameConvs
<1>3. \A a \in Agents : HistoryOf(a)'
  BY <1>2, HistoryStays DEF AgentInv, HistoryInv, HistoryOf
<1>4. HistoryInv'
  BY <1>1, <1>3 DEF AgentInv, HistoryInv
<1>5. \A a \in Agents, n \in 1..events : Has(a, n)' => Has(a, n)
  BY DEF Has
<1>6. events \in Nat
  BY DEF AgentInv, AgentTypes
<1>7. \A a \in Agents : AskedOK(a)'
  BY AskedStays DEF AgentInv, AnswerInv
<1>8. AnswerInv'
  BY <1>5, <1>6, <1>7, AnswersStay DEF AgentInv
<1> QED BY <1>1, <1>4, <1>8 DEF AgentInv

(* A notification is no answer. *)
LEMMA NotificationKeeps ==
  ASSUME AgentInv, NEW chat \in Chats, outbound' = Append(outbound, [chat |-> chat, ev |-> 0, by |-> None]),
         UNCHANGED <<inbox, turn, convs, late, events>>, CallsKept
  PROVE  AgentInv'
<1> PICK o : o = [chat |-> chat, ev |-> 0, by |-> None]
  OBVIOUS
<1>0. outbound \in Seq([chat : Chats \cup Origins, ev : Nat, by : AgentIds])
  BY DEF AgentInv, AgentTypes
<1>1. o \in [chat : Chats \cup Origins, ev : Nat, by : AgentIds] /\ o.ev = 0
  BY DEF AgentIds
<1>2. /\ outbound' \in Seq([chat : Chats \cup Origins, ev : Nat, by : AgentIds])
      /\ DOMAIN outbound' = DOMAIN outbound \cup {Len(outbound) + 1} /\ outbound'[Len(outbound) + 1] = o
      /\ \A i \in DOMAIN outbound : outbound'[i] = outbound[i]
  BY <1>0, <1>1, AppendIs
<1>3. AgentTypes' /\ EventsInOrder' /\ HistoryInEventOrder'
  BY <1>2 DEF AgentInv, HistoryInv, AgentTypes, EventsInOrder, InOrder, Has, HistoryInEventOrder
<1>4. ConvsKept /\ \A a, x : EventOK(a, x)' = EventOK(a, x)
  BY SameConvs
<1>5. \A a \in Agents : HistoryOf(a)'
  BY <1>4, HistoryStays DEF AgentInv, HistoryInv, HistoryOf
<1>6. HistoryInv'
  BY <1>3, <1>5 DEF AgentInv, HistoryInv
<1>7. \A a \in Agents : AskedOK(a)'
  BY AskedStays DEF AgentInv, AnswerInv
<1>8. \A i \in DOMAIN outbound' : outbound'[i].ev # 0 => i \in DOMAIN outbound /\ outbound'[i] = outbound[i]
  BY <1>1, <1>2
<1>9. ASSUME NEW i \in DOMAIN outbound', outbound'[i].ev # 0
      PROVE  /\ \A j \in DOMAIN outbound' : outbound'[i].ev = outbound'[j].ev => i = j
             /\ \E c \in DOMAIN calls' : /\ calls'[c].from.agent = outbound'[i].by
                                         /\ calls'[c].from.id = outbound'[i].ev /\ calls'[c].st = "answered"
  <2>1. i \in DOMAIN outbound /\ outbound'[i] = outbound[i]
    BY <1>8, <1>9
  <2>2. /\ \A j \in DOMAIN outbound : outbound[i].ev = outbound[j].ev => i = j
        /\ \E c \in DOMAIN calls : /\ calls[c].from.agent = outbound[i].by
                                   /\ calls[c].from.id = outbound[i].ev /\ calls[c].st = "answered"
    BY <1>9, <2>1 DEF AgentInv, AnswerInv, AnswerHeard
  <2>3. ASSUME NEW j \in DOMAIN outbound', outbound'[i].ev = outbound'[j].ev
        PROVE  i = j
    <3>1. j \in DOMAIN outbound /\ outbound'[j] = outbound[j]
      BY <1>8, <1>9, <2>3
    <3> QED BY <2>1, <2>2, <2>3, <3>1
  <2> QED BY <2>1, <2>2, <2>3 DEF CallsKept, Kept
<1>10. \A i \in DOMAIN outbound' : outbound'[i].ev # 0 =>
         outbound'[i].ev \in 1..events' /\ \A a \in Agents : ~Has(a, outbound'[i].ev)
  BY <1>8 DEF AgentInv, AnswerInv
<1>11. AnswerInv'
  BY <1>7, <1>9, <1>10 DEF AnswerInv, AnswerHeard, Has
<1> QED BY <1>3, <1>6, <1>11 DEF AgentInv

(* An agent goes on with the event it has. *)
LEMMA TurnMoves ==
  ASSUME AgentTypes, EventsInOrder, NEW a \in Agents, turn[a].st # "idle", NEW t \in TurnRecord, t.ev = turn[a].ev,
         Step(a, t), UNCHANGED <<inbox, events>>
  PROVE  /\ turn' \in [Agents -> TurnRecord \cup {NoTurn}] /\ turn'[a] = t
         /\ \A b \in Agents : b # a => turn'[b] = turn[b]
         /\ EventsInOrder' /\ \A b \in Agents, n \in 1..events : Has(b, n)' => Has(b, n)
<1>1. /\ turn' \in [Agents -> TurnRecord \cup {NoTurn}] /\ turn'[a] = t
      /\ \A b \in Agents : b # a => turn'[b] = turn[b]
  BY DEF AgentTypes, Step
<1>2. t.st # "idle"
  BY DEF TurnRecord
<1>3. \A b \in Agents, n \in 1..events : Has(b, n)' = Has(b, n)
  BY <1>1, <1>2 DEF Has
<1>4. \A b \in Agents : InOrder(b)'
  BY <1>1, <1>2 DEF EventsInOrder, InOrder
<1> QED BY <1>1, <1>3, <1>4 DEF EventsInOrder

(* A turn is over. *)
LEMMA TurnEnds ==
  ASSUME AgentTypes, EventsInOrder, NEW a \in Agents, Step(a, NoTurn), UNCHANGED <<inbox, events>>
  PROVE  /\ turn' \in [Agents -> TurnRecord \cup {NoTurn}] /\ turn'[a] = NoTurn
         /\ \A b \in Agents : b # a => turn'[b] = turn[b]
         /\ EventsInOrder' /\ \A b \in Agents, n \in 1..events : Has(b, n)' => Has(b, n)
<1>1. /\ turn' \in [Agents -> TurnRecord \cup {NoTurn}] /\ turn'[a] = NoTurn
      /\ \A b \in Agents : b # a => turn'[b] = turn[b]
  BY DEF AgentTypes, Step
<1>3. \A b \in Agents, n \in 1..events : Has(b, n)' => Has(b, n)
  BY <1>1 DEF Has, NoTurn
<1>4. \A b \in Agents : InOrder(b)'
  BY <1>1 DEF EventsInOrder, InOrder, NoTurn
<1> QED BY <1>1, <1>3, <1>4 DEF EventsInOrder

(* Who has nothing left to write has nothing ahead but the inbox. *)
LEMMA EndedHistory ==
  ASSUME NEW a \in Agents, HistoryOf(a), ConvsKept, inbox'[a] = inbox[a],
         turn'[a].st \in {"idle", "publish"}, \A x \in Ahead(a) : EventOK(a, x)'
  PROVE  HistoryOf(a)'
<1>1. ~Unwritten(a)' /\ ~InConversation(a)'
  BY DEF Unwritten, InConversation
<1>2. Ahead(a)' \subseteq Ahead(a)
  BY <1>1 DEF Ahead
<1> QED BY <1>1, <1>2 DEF HistoryOf, UsesOwn

(* The same event in another state of its turn. *)
LEMMA MovedHistory ==
  ASSUME NEW a \in Agents, HistoryOf(a), ConvsKept, inbox'[a] = inbox[a], Unwritten(a), turn'[a].ev = turn[a].ev,
         \A x \in Ahead(a) : EventOK(a, x)', UsesOwn(a)'
  PROVE  HistoryOf(a)'
<1>1. Ahead(a)' \subseteq Ahead(a)
  BY DEF Ahead
<1> QED BY <1>1 DEF HistoryOf

(* A step of an agent's turn that adds to conversations at most, on the     *)
(* event it has: t is where the turn stands after it.                       *)
TurnStep(a, t) ==
  /\ turn[a].st # "idle" /\ (t = NoTurn \/ (t \in TurnRecord /\ t.ev = turn[a].ev))
  /\ Step(a, t) /\ UNCHANGED <<inbox, events>>
  /\ CallsKept /\ ConvsKept /\ convs' \in Seq(Conversation)
  /\ \A x \in late' : x \in [conv : DOMAIN convs', msg : Message]
  /\ t.st \in {"idle", "publish"} \/ (Unwritten(a) /\ UsesOwn(a)')
  /\ \A b \in Agents : \A x \in Ahead(b) :
       EventOK(b, x)' \/ (b = a /\ x.id = turn[a].ev.id /\ t.st \in {"idle", "publish"})
  /\ \A n \in DOMAIN convs' : Ordered(n)' /\ Recent(n)'
  /\ AskedOK(a)'

(* Such a step keeps the agents in order. *)
LEMMA TurnStepKeeps ==
  ASSUME AgentInv, NEW a \in Agents, NEW t, TurnStep(a, t),
         outbound' \in Seq([chat : Chats \cup Origins, ev : Nat, by : AgentIds])
  PROVE  /\ AgentTypes' /\ EventsInOrder' /\ HistoryInv' /\ \A b \in Agents : AskedOK(b)'
         /\ turn'[a] = t /\ \A b \in Agents, n \in 1..events : Has(b, n)' => Has(b, n)
<1>0. AgentTypes /\ EventsInOrder /\ HistoryInv /\ AnswerInv
  BY DEF AgentInv
<1>1. /\ turn' \in [Agents -> TurnRecord \cup {NoTurn}] /\ turn'[a] = t
      /\ \A b \in Agents : b # a => turn'[b] = turn[b]
      /\ EventsInOrder' /\ \A b \in Agents, n \in 1..events : Has(b, n)' => Has(b, n)
  BY <1>0, TurnMoves, TurnEnds DEF TurnStep
<1>2. AgentTypes'
  BY <1>0, <1>1 DEF AgentTypes, TurnStep
<1>3. \A b \in Agents : b # a => AskedOK(b)'
  BY <1>0, <1>1, AskedStays DEF AnswerInv, TurnStep
<1>4. ASSUME NEW b \in Agents, b # a
      PROVE  HistoryOf(b)'
  <2>1. \A x \in Ahead(b) : EventOK(b, x)'
    BY <1>4 DEF TurnStep
  <2>2. inbox'[b] = inbox[b] /\ turn'[b] = turn[b] /\ ConvsKept
    BY <1>1, <1>4 DEF TurnStep
  <2> QED BY <1>0, <2>1, <2>2, HistoryStays DEF HistoryInv
<1>5. HistoryOf(a)'
  <2>1. inbox'[a] = inbox[a]
    BY DEF TurnStep
  <2>2. ASSUME NEW x \in Ahead(a)'
        PROVE  EventOK(a, x)'
    <3>1. CASE x \in {inbox[a][i] : i \in DOMAIN inbox[a]}
      <4>1. PICK i \in DOMAIN inbox[a] : x = inbox[a][i]
        BY <3>1
      <4>2. turn[a].ev.id < x.id /\ x.id \in Nat /\ turn[a].ev.id \in Nat
        BY <1>0, <4>1 DEF TurnStep, EventsInOrder, InOrder
      <4>3. x \in Ahead(a)
        BY <3>1 DEF Ahead
      <4> QED BY <4>2, <4>3 DEF TurnStep
    <3>2. CASE Unwritten(a)' /\ x = turn'[a].ev
      <4>1. t.st \notin {"idle", "publish"}
        BY <1>1, <3>2 DEF Unwritten
      <4>2. Unwritten(a) /\ t.ev = turn[a].ev
        BY <4>1 DEF TurnStep, NoTurn
      <4>3. x \in Ahead(a)
        BY <1>1, <3>2, <4>2 DEF Ahead
      <4> QED BY <4>1, <4>3 DEF TurnStep
    <3> QED BY <2>1, <2>2, <3>1, <3>2 DEF Ahead
  <2>3. CASE t.st \in {"idle", "publish"}
    <3>1. UsesOwn(a)'
      BY <1>1, <2>3 DEF UsesOwn, InConversation
    <3> QED BY <2>2, <3>1 DEF HistoryOf
  <2>4. CASE UsesOwn(a)'
    BY <2>2, <2>4 DEF HistoryOf
  <2> QED BY <2>3, <2>4 DEF TurnStep
<1>6. (\A b \in Agents : HistoryOf(b)') /\ \A n \in DOMAIN convs' : Ordered(n)' /\ Recent(n)'
  BY <1>4, <1>5 DEF TurnStep
<1>7. HistoryInv'
  <2>1. (\A b \in Agents : HistoryOf(b))' /\ (\A n \in DOMAIN convs : Ordered(n) /\ Recent(n))'
    BY <1>6
  <2> QED BY <2>1 DEF HistoryInv, HistoryInEventOrder, Ordered, Recent
<1>8. \A b \in Agents : AskedOK(b)'
  BY <1>3 DEF TurnStep
<1> QED BY <1>1, <1>2, <1>7, <1>8

(* When it sends nothing. *)
LEMMA QuietStepKeeps ==
  ASSUME AgentInv, NEW a \in Agents, NEW t, TurnStep(a, t), outbound' = outbound
  PROVE  AgentInv'
<1>1. outbound' \in Seq([chat : Chats \cup Origins, ev : Nat, by : AgentIds]) /\ events \in Nat
  BY DEF AgentInv, AgentTypes
<1>2. /\ AgentTypes' /\ EventsInOrder' /\ HistoryInv' /\ \A b \in Agents : AskedOK(b)'
      /\ \A b \in Agents, n \in 1..events : Has(b, n)' => Has(b, n)
  BY <1>1, TurnStepKeeps
<1>3. events' = events /\ CallsKept
  BY DEF TurnStep
<1>4. AnswerInv'
  BY <1>1, <1>2, <1>3, AnswersStay DEF AgentInv
<1> QED BY <1>2, <1>4 DEF AgentInv

(* What a step that leaves the conversations alone need not show. *)
LEMMA SameHistory ==
  ASSUME AgentInv, convs' = convs, events' = events
  PROVE  /\ ConvsKept /\ convs' \in Seq(Conversation)
         /\ \A b \in Agents : \A x \in Ahead(b) : EventOK(b, x)'
         /\ \A n \in DOMAIN convs' : Ordered(n)' /\ Recent(n)'
<1>1. ConvsKept /\ \A a, x : EventOK(a, x)' = EventOK(a, x)
  BY SameConvs
<1>2. (\A a \in Agents : HistoryOf(a)) /\ \A n \in DOMAIN convs : Ordered(n) /\ Recent(n)
  BY HistoryIs DEF AgentInv
<1>3. \A n \in DOMAIN convs : Ordered(n)' /\ Recent(n)'
  BY <1>2 DEF Ordered, Recent
<1>4. convs \in Seq(Conversation)
  BY DEF AgentInv, AgentTypes
<1> QED BY <1>1, <1>2, <1>3, <1>4 DEF HistoryOf

(* The newest of some conversations is one of them. *)
LEMMA NewestIsOne ==
  ASSUME convs \in Seq(Conversation), NEW S \in SUBSET DOMAIN convs, S # {}
  PROVE  Newest(S) \in S
<1> PICK N : N = Len(convs)
  OBVIOUS
<1>1. N \in Nat /\ DOMAIN convs = 1..N
  OBVIOUS
<1> DEFINE T == {k \in Nat : N - k \in S}
<1>2. T # {} /\ T \subseteq Nat
  <2>1. PICK i \in S : TRUE
    OBVIOUS
  <2>2. i \in 1..N
    BY <1>1
  <2>3. N - i \in Nat /\ N - (N - i) = i
    BY <1>1, <2>2
  <2>4. N - i \in T
    BY <2>1, <2>3
  <2> QED BY <2>4
<1>3. PICK n \in T : \A k \in T : ~ (<<k, n>> \in OpToRel(<, Nat))
  <2> HIDE DEF T
  <2> QED BY <1>2, NatLessThanWellFounded, WFMin
<1>4. N - n \in S
  OBVIOUS
<1>5. ASSUME NEW j \in S
      PROVE  j <= N - n
  <2>1. j \in 1..N /\ n \in Nat
    BY <1>1, <1>3
  <2>2. N - j \in Nat /\ N - (N - j) = j
    BY <1>1, <2>1
  <2>3. N - j \in T
    BY <2>2
  <2>4. ~ (<<N - j, n>> \in OpToRel(<, Nat))
    BY <1>3, <2>3
  <2>5. ~ (N - j < n)
    BY <2>1, <2>2, <2>4 DEF OpToRel
  <2> QED BY <1>1, <2>1, <2>2, <2>5
<1>6. \E i \in S : \A j \in S : j <= i
  BY <1>4, <1>5
<1> QED BY <1>6 DEF Newest

(* The steps of a turn. *)
LEMMA FindKeeps ==
  ASSUME AgentInv, NEW a \in Agents, FindConversation(a)
  PROVE  AgentInv'
<1>0. AgentTypes /\ turn[a].st = "find" /\ convs \in Seq(Conversation)
  BY DEF AgentInv, AgentTypes, FindConversation
<1>1. UNCHANGED <<inbox, convs, late, outbound, events, calls>>
  BY DEF FindConversation, providerVars
<1> PICK ev : ev = turn[a].ev
  OBVIOUS
<1>2. turn[a] \in TurnRecord /\ ev \in EventRecord /\ ev.conv \in Nat
  BY <1>0, TurnIs DEF EventRecord
<1>3. NamesOwn(a, ev)
  <2>1. ev \in Ahead(a)
    BY <1>0 DEF Ahead, Unwritten
  <2> QED BY <2>1 DEF AgentInv, HistoryInv, HistoryOf, EventOK
<1>4. /\ ConvsKept /\ convs' \in Seq(Conversation)
      /\ \A b \in Agents : \A x \in Ahead(b) : EventOK(b, x)'
      /\ \A n \in DOMAIN convs' : Ordered(n)' /\ Recent(n)'
  BY <1>1, SameHistory
<1>5. CallsKept
  BY <1>1 DEF CallsKept, Kept
<1>6. \A x \in late' : x \in [conv : DOMAIN convs', msg : Message]
  BY <1>0, <1>1 DEF AgentTypes
<1>7. ASSUME NEW t, t \in TurnRecord, t.ev = ev, Step(a, t), t.st \in {"create", "load"},
             t.st = "create" => ev.conv = 0,
             t.st = "load" => t.conv \in DOMAIN convs /\ MayUse(a, ev, t.conv)
      PROVE  AgentInv'
  <2>1. turn'[a] = t
    BY <1>0, <1>7 DEF Step, AgentTypes
  <2>2. UsesOwn(a)'
    BY <1>1, <1>7, <2>1 DEF UsesOwn, InConversation, MayUse
  <2>3. AskedOK(a)'
    BY <1>7, <2>1 DEF AskedOK, Asked
  <2>4. TurnStep(a, t)
    BY <1>0, <1>1, <1>4, <1>5, <1>6, <1>7, <2>2, <2>3 DEF TurnStep, Unwritten
  <2> QED BY <1>1, <2>4, QuietStepKeeps
<1>8. ASSUME NEW n \in DOMAIN convs, MayUse(a, ev, n), Step(a, [turn[a] EXCEPT !.st = "load", !.conv = n])
      PROVE  AgentInv'
  <2> PICK t : t = [turn[a] EXCEPT !.st = "load", !.conv = n]
    OBVIOUS
  <2>0. n \in Nat
    BY <1>0
  <2>1. t \in TurnRecord /\ t.ev = ev /\ t.st = "load" /\ t.conv = n
    BY <1>2, <2>0 DEF TurnRecord
  <2> QED BY <1>7, <1>8, <2>1
<1>9. CASE ev.conv # 0 /\ Step(a, [turn[a] EXCEPT !.st = "load", !.conv = ev.conv])
  <2>1. ev.conv \in DOMAIN convs /\ MayUse(a, ev, ev.conv)
    BY <1>3, <1>9 DEF NamesOwn, MayUse
  <2> QED BY <1>8, <1>9, <2>1
<1>10. CASE /\ ev.conv = 0 /\ Matching(a, ev) # {}
            /\ Step(a, [turn[a] EXCEPT !.st = "load", !.conv = Newest(Matching(a, ev))])
  <2> PICK n : n = Newest(Matching(a, ev))
    OBVIOUS
  <2>1. Matching(a, ev) \in SUBSET DOMAIN convs
    BY DEF Matching
  <2>2. n \in Matching(a, ev)
    BY <1>0, <1>10, <2>1, NewestIsOne
  <2>3. n \in DOMAIN convs /\ MayUse(a, ev, n)
    BY <1>3, <1>10, <2>2 DEF Matching, MayUse, NamesOwn
  <2> QED BY <1>8, <1>10, <2>3
<1>11. CASE ev.conv = 0 /\ Step(a, [turn[a] EXCEPT !.st = "create"])
  <2> PICK t : t = [turn[a] EXCEPT !.st = "create"]
    OBVIOUS
  <2>1. t \in TurnRecord /\ t.ev = ev /\ t.st = "create"
    BY <1>2 DEF TurnRecord
  <2> QED BY <1>7, <1>11, <2>1
<1> QED BY <1>9, <1>10, <1>11 DEF FindConversation

(* Whatever comes of a request to create a conversation. *)
LEMMA CreateKeeps ==
  ASSUME AgentInv, NEW a \in Agents, CreateConversation(a)
  PROVE  AgentInv'
<1>0. AgentTypes /\ turn[a].st = "create" /\ convs \in Seq(Conversation)
  BY DEF AgentInv, AgentTypes, CreateConversation
<1>1. UNCHANGED <<inbox, late, outbound, events, calls>>
  BY DEF CreateConversation, providerVars
<1> PICK ev : ev = turn[a].ev
  OBVIOUS
<1>2. turn[a] \in TurnRecord /\ ev \in EventRecord
  BY <1>0, TurnIs
<1>3. NamesOwn(a, ev) /\ ev.conv = 0
  <2>1. ev \in Ahead(a)
    BY <1>0 DEF Ahead, Unwritten
  <2>2. UsesOwn(a) /\ EventOK(a, ev)
    BY <2>1 DEF AgentInv, HistoryInv, HistoryOf
  <2> QED BY <1>0, <2>2 DEF EventOK, UsesOwn
<1>4. CallsKept
  BY <1>1 DEF CallsKept, Kept
<1> PICK v : v = [agent |-> a, key |-> Key(ev), msgs |-> <<>>]
  OBVIOUS
<1>5. v \in Conversation /\ v.agent = a /\ v.key = Key(ev) /\ v.msgs = <<>> /\ v.key # "agent"
  BY <1>2, <1>3 DEF Conversation, EventRecord, Key, NamesOwn
<1>6. ASSUME convs' = Append(convs, v)
      PROVE  /\ ConvsKept /\ convs' \in Seq(Conversation)
             /\ \A b \in Agents : \A x \in Ahead(b) : EventOK(b, x)'
             /\ \A n \in DOMAIN convs' : Ordered(n)' /\ Recent(n)'
             /\ Len(convs') \in DOMAIN convs' /\ convs'[Len(convs')] = v
  <2>1. /\ convs' \in Seq(Conversation) /\ ConvsKept /\ Len(convs') \in Nat
        /\ DOMAIN convs' = DOMAIN convs \cup {Len(convs')} /\ convs'[Len(convs')] = v
        /\ \A n \in DOMAIN convs : convs'[n] = convs[n]
    BY <1>0, <1>5, <1>6, NewConversationIs
  <2>2. ASSUME NEW b \in Agents, NEW x \in Ahead(b)
        PROVE  EventOK(b, x)'
    <3>1. x.conv \in Nat /\ EventOK(b, x)
      BY <1>0, AheadIsEvent DEF AgentInv, HistoryInv, HistoryOf
    <3> QED BY <1>0, <1>5, <1>6, <3>1, NewConversationKeeps
  <2>3. \A n \in DOMAIN convs : Ordered(n) /\ Recent(n)
    BY HistoryIs DEF AgentInv
  <2>4. \A n \in DOMAIN convs : Ordered(n)' /\ Recent(n)'
    BY <1>1, <2>1, <2>3 DEF Ordered, Recent
  <2>5. ASSUME NEW n, n = Len(convs')
        PROVE  Ordered(n)' /\ Recent(n)'
    BY <1>5, <2>1, <2>5 DEF Ordered, Recent
  <2> QED BY <2>1, <2>2, <2>4, <2>5
<1>7. ASSUME convs' = convs
      PROVE  /\ ConvsKept /\ convs' \in Seq(Conversation)
             /\ \A b \in Agents : \A x \in Ahead(b) : EventOK(b, x)'
             /\ \A n \in DOMAIN convs' : Ordered(n)' /\ Recent(n)'
  BY <1>1, <1>7, SameHistory
<1>8. ConvsKept => \A x \in late' : x \in [conv : DOMAIN convs', msg : Message]
  BY <1>0, <1>1 DEF AgentTypes, ConvsKept
<1>9. CASE /\ convs' = Append(convs, v)
           /\ Step(a, [turn[a] EXCEPT !.st = "load", !.conv = Len(convs')])
  <2> PICK n : n = Len(convs')
    OBVIOUS
  <2> PICK t : t = [turn[a] EXCEPT !.st = "load", !.conv = n]
    OBVIOUS
  <2>0. n \in Nat /\ n \in DOMAIN convs' /\ convs'[n] = v
    BY <1>6, <1>9
  <2>1. t \in TurnRecord /\ t.ev = ev /\ t.st = "load" /\ t.conv = n
    BY <1>2, <2>0 DEF TurnRecord
  <2>2. turn'[a] = t /\ Step(a, t)
    BY <1>0, <1>9 DEF Step, AgentTypes
  <2>3. UsesOwn(a)'
    BY <1>3, <1>5, <2>0, <2>1, <2>2 DEF UsesOwn, InConversation, MayUse
  <2>4. AskedOK(a)'
    BY <2>1, <2>2 DEF AskedOK, Asked
  <2>5. TurnStep(a, t)
    BY <1>0, <1>1, <1>4, <1>6, <1>8, <1>9, <2>1, <2>2, <2>3, <2>4 DEF TurnStep, Unwritten
  <2> QED BY <1>1, <2>5, QuietStepKeeps
<1>10. CASE convs' \in {convs, Append(convs, v)} /\ Step(a, NoTurn)
  <2>1. turn'[a] = NoTurn
    BY <1>0, <1>10 DEF Step, AgentTypes
  <2>2. AskedOK(a)'
    BY <2>1 DEF AskedOK, Asked, NoTurn
  <2>3. /\ ConvsKept /\ convs' \in Seq(Conversation)
        /\ \A b \in Agents : \A x \in Ahead(b) : EventOK(b, x)'
        /\ \A n \in DOMAIN convs' : Ordered(n)' /\ Recent(n)'
    BY <1>6, <1>7, <1>10
  <2>4. NoTurn.st = "idle"
    BY DEF NoTurn
  <2>5. TurnStep(a, NoTurn)
    BY <1>0, <1>1, <1>4, <1>8, <1>10, <2>2, <2>3, <2>4 DEF TurnStep
  <2> QED BY <1>1, <2>5, QuietStepKeeps
<1> QED BY <1>9, <1>10 DEF CreateConversation, NewConversation

(* Who asks for the event of a turn. *)
AskerOf(a) == [agent |-> a, id |-> turn[a].ev.id, depth |-> turn[a].ev.depth, chat |-> turn[a].ev.chat]

(* The provider is asked, its answer taken, or the wait for it given up:    *)
(* nothing of it is in the history yet.                                     *)
LEMMA WaitKeeps ==
  ASSUME ProviderInv, AgentInv, NEW a \in Agents, AskProvider(a) \/ TakeAnswer(a) \/ AnswerTimedOut(a)
  PROVE  AgentInv' /\ (SameCalls \/ \E who \in Who : OneMore(LlmProvider, who) /\ who.agent = a)
<1>0. AgentTypes /\ calls \in Seq(CallRecord)
  BY DEF AgentInv, ProviderInv, ProviderTypes
<1>1. UNCHANGED <<inbox, convs, late, outbound, events>>
  BY DEF AskProvider, TakeAnswer, AnswerTimedOut
<1>2. turn[a].st \in {"load", "llm"} /\ turn[a] \in TurnRecord /\ turn[a].ev \in EventRecord
  BY <1>0, TurnIs DEF AskProvider, TakeAnswer, AnswerTimedOut
<1>3. /\ ConvsKept /\ convs' \in Seq(Conversation)
      /\ \A b \in Agents : \A x \in Ahead(b) : EventOK(b, x)'
      /\ \A n \in DOMAIN convs' : Ordered(n)' /\ Recent(n)'
  BY <1>1, SameHistory
<1>4. \A x \in late' : x \in [conv : DOMAIN convs', msg : Message]
  BY <1>0, <1>1 DEF AgentTypes
<1>5. turn[a].conv \in DOMAIN convs /\ MayUse(a, turn[a].ev, turn[a].conv)
  BY <1>2 DEF AgentInv, HistoryInv, HistoryOf, UsesOwn, InConversation
<1>6. ASSUME NEW t, t \in TurnRecord, t.ev = turn[a].ev, t.conv = turn[a].conv, t.st \in {"llm", "user"}, Step(a, t),
             CallsKept, t.call \in DOMAIN calls', calls'[t.call].from.agent = a,
             calls'[t.call].from.id = turn[a].ev.id, t.st = "user" => calls'[t.call].st = "answered"
      PROVE  AgentInv'
  <2>1. turn'[a] = t
    BY <1>0, <1>6 DEF Step, AgentTypes
  <2>2. UsesOwn(a)'
    BY <1>1, <1>5, <1>6, <2>1 DEF UsesOwn, InConversation, MayUse
  <2>3. AskedOK(a)'
    BY <1>6, <2>1 DEF AskedOK, Asked
  <2>4. TurnStep(a, t)
    BY <1>1, <1>2, <1>3, <1>4, <1>6, <2>2, <2>3 DEF TurnStep, Unwritten
  <2> QED BY <1>1, <2>4, QuietStepKeeps
<1>7. CASE AskProvider(a)
  <2> PICK n, who : n = Len(calls) + 1 /\ who = AskerOf(a)
    OBVIOUS
  <2>1. who \in Who /\ who.agent = a /\ who.id = turn[a].ev.id
    BY <1>2 DEF AskerOf, Who, AgentIds, EventRecord
  <2>2. OneMore(LlmProvider, who)
    <3>1. calls' = Append(calls, NewCall(LlmProvider, who)) /\ LlmProvider \in Names
      BY <1>7 DEF AskProvider, AskerOf, Names
    <3> QED BY <1>0, <2>1, <3>1, NewCallOneMore
  <2>3. CallsKept /\ n \in DOMAIN calls' /\ calls'[n].from = who
    BY <2>2 DEF OneMore, CallsKept
  <2> PICK t : t = [turn[a] EXCEPT !.st = "llm", !.call = n]
    OBVIOUS
  <2>4. n \in Nat
    BY <1>0
  <2>5. t \in TurnRecord /\ t.ev = turn[a].ev /\ t.conv = turn[a].conv /\ t.st = "llm" /\ t.call = n
    BY <1>2, <2>4 DEF TurnRecord
  <2>6. Step(a, t)
    BY <1>7 DEF AskProvider
  <2> QED BY <1>6, <2>1, <2>2, <2>3, <2>5, <2>6
<1>8. ASSUME turn[a].st = "llm"
      PROVE  turn[a].call \in DOMAIN calls /\ calls[turn[a].call].from.agent = a /\ calls[turn[a].call].from.id = turn[a].ev.id
  BY <1>8 DEF AgentInv, AnswerInv, AskedOK, Asked
<1>9. CASE TakeAnswer(a)
  <2> PICK c : c = turn[a].call
    OBVIOUS
  <2>1. turn[a].st = "llm" /\ calls[c].st = "answered" /\ calls' = GiveUp(c, "took")
    BY <1>9 DEF TakeAnswer
  <2>2. c \in DOMAIN calls /\ calls[c] \in CallRecord
    BY <1>0, <1>8, <2>1
  <2>3. SameCalls
    BY <1>0, <2>1, <2>2, GiveUpSame
  <2>4. /\ CallsKept /\ c \in DOMAIN calls' /\ calls'[c].from.agent = a /\ calls'[c].from.id = turn[a].ev.id
        /\ calls'[c].st = "answered"
    BY <1>8, <2>1, <2>2, <2>3 DEF SameCalls, CallsKept, Kept
  <2>5. PICK r \in Replies \cup {"stopped"} : Step(a, [turn[a] EXCEPT !.st = "user", !.answer = r])
    <3>1. calls[c].reply \in Replies
      BY <2>2 DEF CallRecord
    <3> QED BY <1>9, <3>1 DEF TakeAnswer
  <2> PICK t : t = [turn[a] EXCEPT !.st = "user", !.answer = r]
    OBVIOUS
  <2>6. t \in TurnRecord /\ t.ev = turn[a].ev /\ t.conv = turn[a].conv /\ t.st = "user" /\ t.call = c
    BY <1>2, <2>5 DEF TurnRecord
  <2> QED BY <1>6, <2>3, <2>4, <2>5, <2>6
<1>10. CASE AnswerTimedOut(a)
  <2>1. turn[a].st = "llm" /\ calls' = GiveUp(turn[a].call, "left") /\ Step(a, NoTurn)
    BY <1>10 DEF AnswerTimedOut
  <2>2. SameCalls
    BY <1>0, <1>8, <2>1, GiveUpSame
  <2>3. CallsKept
    BY <2>2 DEF SameCalls, CallsKept
  <2>4. turn'[a] = NoTurn
    BY <1>0, <2>1 DEF Step, AgentTypes
  <2>5. AskedOK(a)' /\ NoTurn.st = "idle"
    BY <2>4 DEF AskedOK, Asked, NoTurn
  <2>6. TurnStep(a, NoTurn)
    BY <1>1, <1>3, <1>4, <2>1, <2>3, <2>5 DEF TurnStep
  <2> QED BY <1>1, <2>2, <2>6, QuietStepKeeps
<1> QED BY <1>7, <1>9, <1>10

(* A message of the event in hand goes into the conversation of its turn,   *)
(* behind all that precedes the events to come.                             *)
LEMMA WrittenHistory ==
  ASSUME AgentInv, NEW a \in Agents, turn[a].st \in {"user", "assistant"}, NEW m \in Message,
         m.ev = turn[a].ev.id, convs' = Appended(turn[a].conv, m), events' = events
  PROVE  /\ ConvsKept /\ convs' \in Seq(Conversation) /\ DOMAIN convs' = DOMAIN convs
         /\ \A b \in Agents : \A x \in Ahead(b) :
              EventOK(b, x)' \/ (b = a /\ x.id = turn[a].ev.id /\ m.role # "user")
         /\ \A n \in DOMAIN convs' : Ordered(n)' /\ Recent(n)'
<1>0. AgentTypes /\ EventsInOrder /\ HistoryInv /\ convs \in Seq(Conversation)
  BY DEF AgentInv, AgentTypes
<1> PICK n, ev : n = turn[a].conv /\ ev = turn[a].ev
  OBVIOUS
<1>1. n \in DOMAIN convs /\ MayUse(a, ev, n)
  BY <1>0 DEF HistoryInv, HistoryOf, UsesOwn, InConversation
<1>2. ev \in Ahead(a) /\ ev.id \in 1..events
  BY <1>0 DEF Ahead, Unwritten, EventsInOrder, InOrder
<1>3. EventOK(a, ev) /\ Precedes(n, ev)
  BY <1>0, <1>1, <1>2 DEF HistoryInv, HistoryOf, EventOK
<1>4. events \in Nat /\ m.ev = ev.id /\ m.ev <= events
  BY <1>0, <1>2 DEF AgentTypes
<1>5. /\ ConvsKept /\ convs' \in Seq(Conversation) /\ DOMAIN convs' = DOMAIN convs
      /\ \A k \in DOMAIN convs : k # n => convs'[k] = convs[k]
  BY <1>0, <1>1, AppendedIs
<1>6. \A k \in DOMAIN convs : Ordered(k) /\ Recent(k)
  BY <1>0, HistoryIs
<1>7. Ordered(n)' /\ Recent(n)'
  BY <1>0, <1>1, <1>3, <1>4, <1>6, AppendedOrdered
<1>8. \A k \in DOMAIN convs : k # n => Ordered(k)' /\ Recent(k)'
  <2> SUFFICES ASSUME NEW k \in DOMAIN convs, k # n PROVE Ordered(k)' /\ Recent(k)'
    OBVIOUS
  <2>1. convs'[k] = convs[k] /\ events' = events /\ Ordered(k) /\ Recent(k)
    BY <1>5, <1>6
  <2> QED BY <2>1 DEF Ordered, Recent
<1>9. ASSUME NEW b \in Agents, NEW x \in Ahead(b), ~(b = a /\ x.id = ev.id /\ m.role # "user")
      PROVE  EventOK(b, x)'
  <2>1. EventOK(b, x)
    BY <1>0 DEF HistoryInv, HistoryOf
  <2>2. MayUse(b, x, n) => b = a
    BY <1>1 DEF MayUse
  <2>3. b = a => m.ev <= x.id /\ x.id \in Nat
    <3>1. CASE x \in {inbox[b][i] : i \in DOMAIN inbox[b]}
      BY <1>0, <1>4, <3>1 DEF EventsInOrder, InOrder
    <3>2. CASE x = turn[b].ev
      BY <1>2, <1>4, <3>2
    <3> QED BY <3>1, <3>2 DEF Ahead
  <2>4. MayUse(b, x, n) => Fits(m, x)
    BY <1>2, <1>4, <1>9, <2>2, <2>3 DEF Fits
  <2> QED BY <1>0, <1>1, <2>1, <2>4, AppendedKeeps
<1> QED BY <1>5, <1>7, <1>8, <1>9

(* append_to_conversation, with whatever comes of it. *)
LEMMA AppendKeeps ==
  ASSUME AgentInv, NEW a \in Agents, AppendUser(a) \/ AppendAssistant(a)
  PROVE  AgentInv'
<1>0. AgentTypes /\ turn[a].st \in {"user", "assistant"}
  BY DEF AgentInv, AppendUser, AppendAssistant
<1>1. UNCHANGED <<inbox, outbound, events, calls>>
  BY DEF AppendUser, AppendAssistant, providerVars
<1>2. turn[a] \in TurnRecord /\ turn[a].ev \in EventRecord /\ turn[a].ev.id \in Nat
  BY <1>0, TurnIs DEF EventRecord
<1>3. PICK m, st, e : /\ m = [ev |-> turn[a].ev.id, role |-> turn[a].st, late |-> FALSE]
                      /\ AppendTo(turn[a].conv, m, e) /\ Step(a, [turn[a] EXCEPT !.st = st])
                      /\ turn[a].st = "user" => st = "assistant"
                      /\ turn[a].st = "assistant" => st = "publish"
  BY DEF AppendUser, AppendAssistant
<1>4. m \in Message /\ m.ev = turn[a].ev.id /\ m.role = turn[a].st
  BY <1>0, <1>2, <1>3 DEF Message
<1>5. CallsKept
  BY <1>1 DEF CallsKept, Kept
<1>6. /\ turn[a].conv \in DOMAIN convs /\ MayUse(a, turn[a].ev, turn[a].conv)
  BY <1>0 DEF AgentInv, HistoryInv, HistoryOf, UsesOwn, InConversation
<1>7. /\ ConvsKept /\ convs' \in Seq(Conversation) /\ DOMAIN convs' = DOMAIN convs
      /\ \A b \in Agents : \A x \in Ahead(b) :
           EventOK(b, x)' \/ (b = a /\ x.id = turn[a].ev.id /\ m.role # "user")
      /\ \A n \in DOMAIN convs' : Ordered(n)' /\ Recent(n)'
  <2>1. CASE convs' = Appended(turn[a].conv, m)
    BY <1>0, <1>1, <1>4, <2>1, WrittenHistory
  <2>2. CASE convs' = convs
    BY <1>1, <2>2, SameHistory
  <2> QED BY <1>3, <2>1, <2>2 DEF AppendTo
<1>8. \A x \in late' : x \in [conv : DOMAIN convs', msg : Message]
  <2>1. late' \subseteq late \cup {[conv |-> turn[a].conv, msg |-> m]}
    BY <1>3 DEF AppendTo
  <2>2. [conv |-> turn[a].conv, msg |-> m] \in [conv : DOMAIN convs, msg : Message]
    BY <1>4, <1>6
  <2> QED BY <1>0, <1>7, <2>1, <2>2 DEF AgentTypes
<1> PICK t : t = [turn[a] EXCEPT !.st = st]
  OBVIOUS
<1>9. t \in TurnRecord /\ t.ev = turn[a].ev /\ t.st = st /\ t.conv = turn[a].conv /\ t.call = turn[a].call
  BY <1>0, <1>2, <1>3 DEF TurnRecord
<1>10. turn'[a] = t
  BY <1>0, <1>3 DEF Step, AgentTypes
<1>11. UsesOwn(a)'
  BY <1>0, <1>3, <1>6, <1>7, <1>9, <1>10 DEF UsesOwn, InConversation, MayUse, ConvsKept
<1>12. AskedOK(a)'
  <2>1. /\ turn[a].call \in DOMAIN calls /\ calls[turn[a].call].from.agent = a
        /\ calls[turn[a].call].from.id = turn[a].ev.id /\ calls[turn[a].call].st = "answered"
    BY <1>0 DEF AgentInv, AnswerInv, AskedOK, Asked
  <2> QED BY <1>1, <1>9, <1>10, <2>1 DEF AskedOK
<1>13. TurnStep(a, t)
  BY <1>0, <1>1, <1>3, <1>4, <1>5, <1>7, <1>8, <1>9, <1>11, <1>12 DEF TurnStep, Unwritten
<1> QED BY <1>1, <1>13, QuietStepKeeps

(* The answer is sent, once, for a provider's answer. *)
LEMMA PublishKeeps ==
  ASSUME AgentInv, NEW a \in Agents, PublishAnswer(a)
  PROVE  AgentInv'
<1>0. AgentTypes /\ EventsInOrder /\ AnswerInv /\ turn[a].st = "publish"
  BY DEF AgentInv, PublishAnswer
<1>1. UNCHANGED <<inbox, convs, late, events, calls>> /\ Step(a, NoTurn)
  BY DEF PublishAnswer, providerVars
<1>2. turn[a] \in TurnRecord /\ turn[a].ev \in EventRecord /\ turn[a].ev.id \in 1..events
  BY <1>0, TurnIs DEF EventsInOrder, InOrder
<1>3. /\ ConvsKept /\ convs' \in Seq(Conversation)
      /\ \A b \in Agents : \A x \in Ahead(b) : EventOK(b, x)'
      /\ \A n \in DOMAIN convs' : Ordered(n)' /\ Recent(n)'
  BY <1>1, SameHistory
<1>4. CallsKept /\ \A x \in late' : x \in [conv : DOMAIN convs', msg : Message]
  BY <1>0, <1>1 DEF AgentTypes, CallsKept, Kept
<1>5. turn'[a] = NoTurn
  BY <1>0, <1>1 DEF Step, AgentTypes
<1>6. AskedOK(a)' /\ NoTurn.st = "idle"
  BY <1>5 DEF AskedOK, Asked, NoTurn
<1>7. TurnStep(a, NoTurn)
  BY <1>0, <1>1, <1>3, <1>4, <1>6 DEF TurnStep
<1>8. CASE outbound' = outbound
  BY <1>7, <1>8, QuietStepKeeps
<1>9. CASE outbound' # outbound
  <2> PICK o, n : o = [chat |-> turn[a].ev.chat, ev |-> turn[a].ev.id, by |-> a] /\ n = turn[a].ev.id
    OBVIOUS
  <2>1. outbound' = Append(outbound, o) /\ turn[a].ev.chat # None
    BY <1>9 DEF PublishAnswer
  <2>2. o \in [chat : Chats \cup Origins, ev : Nat, by : AgentIds] /\ o.ev = n /\ o.by = a /\ n \in 1..events
    BY <1>2, <2>1 DEF EventRecord, AgentIds
  <2>3. outbound \in Seq([chat : Chats \cup Origins, ev : Nat, by : AgentIds])
    BY <1>0 DEF AgentTypes
  <2>4. /\ outbound' \in Seq([chat : Chats \cup Origins, ev : Nat, by : AgentIds])
        /\ DOMAIN outbound' = DOMAIN outbound \cup {Len(outbound) + 1} /\ outbound'[Len(outbound) + 1] = o
        /\ \A i \in DOMAIN outbound : outbound'[i] = outbound[i] /\ i # Len(outbound) + 1
    BY <2>1, <2>2, <2>3, AppendIs
  <2>5. /\ AgentTypes' /\ EventsInOrder' /\ HistoryInv' /\ \A b \in Agents : AskedOK(b)'
        /\ \A b \in Agents, k \in 1..events : Has(b, k)' => Has(b, k)
    BY <1>7, <2>4, TurnStepKeeps
  <2>6. Has(a, n)
    BY <1>0 DEF Has
  <2>7. ASSUME NEW b \in Agents
        PROVE  ~Has(b, n)'
    <3>1. CASE b = a
      <4>1. \A i \in DOMAIN inbox[a] : n < inbox[a][i].id /\ inbox[a][i].id \in Nat
        BY <1>0 DEF EventsInOrder, InOrder
      <4>2. n \in Nat
        BY <2>2
      <4> QED BY <1>1, <1>5, <3>1, <4>1, <4>2 DEF Has, NoTurn
    <3>2. CASE b # a
      BY <1>0, <2>2, <2>5, <2>6, <3>2 DEF EventsInOrder
    <3> QED BY <3>1, <3>2
  <2>8. \A i \in DOMAIN outbound : outbound[i].ev # 0 => outbound[i].ev # n
    BY <1>0, <2>6 DEF AnswerInv
  <2>9. \A i \in DOMAIN outbound : outbound[i].ev # n
    BY <2>2, <2>8
  <2>10. ASSUME NEW i \in DOMAIN outbound', outbound'[i].ev # 0
         PROVE  /\ \A j \in DOMAIN outbound' : outbound'[i].ev = outbound'[j].ev => i = j
                /\ \E c \in DOMAIN calls' : /\ calls'[c].from.agent = outbound'[i].by
                                            /\ calls'[c].from.id = outbound'[i].ev /\ calls'[c].st = "answered"
                /\ \E k \in 1..events' : outbound'[i].ev = k /\ \A b \in Agents : ~Has(b, k)'
    <3>1. CASE i \in DOMAIN outbound
      <4> PICK k : k = outbound[i].ev
        OBVIOUS
      <4>1. outbound'[i] = outbound[i] /\ k # 0
        BY <2>4, <2>10, <3>1
      <4>2. /\ \A j \in DOMAIN outbound : outbound[i].ev = outbound[j].ev => i = j
            /\ \E c \in DOMAIN calls : /\ calls[c].from.agent = outbound[i].by
                                       /\ calls[c].from.id = outbound[i].ev /\ calls[c].st = "answered"
            /\ k \in 1..events /\ \A b \in Agents : ~Has(b, k)
        BY <1>0, <3>1, <4>1 DEF AnswerInv, AnswerHeard
      <4>3. \A b \in Agents : ~Has(b, k)'
        BY <2>5, <4>2
      <4>4. \A j \in DOMAIN outbound' : outbound'[i].ev = outbound'[j].ev => i = j
        BY <2>2, <2>4, <2>9, <3>1, <4>1, <4>2
      <4> QED BY <1>1, <4>1, <4>2, <4>3, <4>4
    <3>2. CASE i = Len(outbound) + 1
      <4>1. outbound'[i] = o
        BY <2>4, <3>2
      <4>2. \A j \in DOMAIN outbound' : outbound'[i].ev = outbound'[j].ev => i = j
        BY <2>2, <2>4, <2>9, <3>2, <4>1
      <4>3. turn[a].call \in DOMAIN calls /\ calls[turn[a].call].from.agent = a
            /\ calls[turn[a].call].from.id = n /\ calls[turn[a].call].st = "answered"
        BY <1>0 DEF AnswerInv, AskedOK, Asked
      <4> QED BY <1>1, <2>2, <2>7, <4>1, <4>2, <4>3
    <3> QED BY <2>4, <3>1, <3>2
  <2>11. AnswerInv'
    BY <2>5, <2>10 DEF AnswerInv, AnswerHeard, Has
  <2> QED BY <2>5, <2>11 DEF AgentInv
<1> QED BY <1>8, <1>9

(* An append that comes late is no part of the order. *)
LEMMA LateKeeps ==
  ASSUME AgentInv, NEW x \in late, LateAppend(x)
  PROVE  AgentInv'
<1>0. AgentTypes /\ convs \in Seq(Conversation) /\ x \in [conv : DOMAIN convs, msg : Message]
  BY DEF AgentInv, AgentTypes
<1>1. UNCHANGED <<inbox, turn, outbound, events, calls>> /\ late' \subseteq late
  BY DEF LateAppend, providerVars
<1> PICK n, m : n = x.conv /\ m = [x.msg EXCEPT !.late = TRUE]
  OBVIOUS
<1>2. n \in DOMAIN convs /\ m \in Message /\ m.late /\ convs' = Appended(n, m)
  BY <1>0 DEF LateAppend, Message
<1>3. /\ ConvsKept /\ convs' \in Seq(Conversation) /\ DOMAIN convs' = DOMAIN convs
      /\ \A k \in DOMAIN convs : k # n => convs'[k] = convs[k]
  BY <1>0, <1>2, AppendedIs
<1>4. CallsKept /\ events \in Nat
  BY <1>0, <1>1 DEF CallsKept, Kept, AgentTypes
<1>5. AgentTypes' /\ EventsInOrder'
  BY <1>0, <1>1, <1>3, SMTT(30) DEF AgentInv, AgentTypes, EventsInOrder, InOrder, Has
<1>6. \A k \in DOMAIN convs : Ordered(k) /\ Recent(k)
  BY HistoryIs DEF AgentInv
<1>7. PICK y : y.id = m.ev
  <2> PICK y : y = [id |-> m.ev]
    OBVIOUS
  <2>1. y.id = m.ev
    OBVIOUS
  <2> QED BY <2>1
<1>8. Ordered(n)' /\ Recent(n)'
  BY <1>0, <1>1, <1>2, <1>6, <1>7, AppendedOrdered
<1>9. \A k \in DOMAIN convs' : Ordered(k)' /\ Recent(k)'
  BY <1>1, <1>3, <1>6, <1>8 DEF Ordered, Recent
<1>10. ASSUME NEW b \in Agents
       PROVE  HistoryOf(b)'
  <2>1. HistoryOf(b)
    BY DEF AgentInv, HistoryInv
  <2>2. ASSUME NEW e \in Ahead(b)
        PROVE  EventOK(b, e)'
    <3>1. EventOK(b, e)
      BY <2>1 DEF HistoryOf
    <3>2. Fits(m, e)
      BY <1>2 DEF Fits
    <3> QED BY <1>0, <1>2, <3>1, <3>2, AppendedKeeps
  <2> QED BY <1>1, <1>3, <2>1, <2>2, HistoryStays
<1>11. HistoryInv'
  <2>1. (\A b \in Agents : HistoryOf(b))' /\ (\A k \in DOMAIN convs : Ordered(k) /\ Recent(k))'
    BY <1>9, <1>10
  <2> QED BY <2>1 DEF HistoryInv, HistoryInEventOrder, Ordered, Recent
<1>12. \A b \in Agents : AskedOK(b)'
  BY <1>1, <1>4, AskedStays DEF AgentInv, AnswerInv
<1>13. \A b \in Agents, k \in 1..events : Has(b, k)' => Has(b, k)
  BY <1>1 DEF Has
<1>14. AnswerInv'
  BY <1>0, <1>1, <1>4, <1>12, <1>13, AnswersStay DEF AgentInv
<1> QED BY <1>5, <1>11, <1>14 DEF AgentInv

(* The oldest event of the channel is taken. *)
LEMMA TakeKeeps ==
  ASSUME AgentInv, NEW a \in Agents, TakeEvent(a)
  PROVE  AgentInv'
<1>0. /\ AgentTypes /\ EventsInOrder /\ turn[a].st = "idle" /\ inbox[a] # <<>>
      /\ inbox[a] \in Seq(EventRecord)
  BY DEF AgentInv, AgentTypes, TakeEvent
<1>1. UNCHANGED <<convs, late, outbound, events, calls>>
  BY DEF TakeEvent, providerVars
<1> PICK s, r, x : s = inbox[a] /\ r = Tail(inbox[a]) /\ x = Head(inbox[a])
  OBVIOUS
<1>2. /\ x \in EventRecord /\ r \in Seq(EventRecord) /\ x = s[1] /\ 1 \in DOMAIN s
      /\ \A i \in DOMAIN r : r[i] = s[i + 1] /\ i + 1 \in DOMAIN s /\ i \in Nat /\ 1 < i + 1
  BY <1>0
<1> PICK t : t = [NoTurn EXCEPT !.st = "find", !.ev = x]
  OBVIOUS
<1>3. t \in TurnRecord /\ t.ev = x /\ t.st = "find"
  BY <1>2 DEF TurnRecord, NoTurn, Replies
<1>4. /\ inbox' = [inbox EXCEPT ![a] = r] /\ Step(a, t)
  BY DEF TakeEvent
<1>5. /\ inbox' \in [Agents -> Seq(EventRecord)] /\ inbox'[a] = r
      /\ turn' \in [Agents -> TurnRecord \cup {NoTurn}] /\ turn'[a] = t
      /\ \A b \in Agents : b # a => inbox'[b] = inbox[b] /\ turn'[b] = turn[b]
  BY <1>0, <1>2, <1>3, <1>4 DEF AgentTypes, Step
<1>6. AgentTypes'
  BY <1>0, <1>1, <1>5 DEF AgentTypes
<1>7. \A b \in Agents, n \in 1..events : Has(b, n)' => Has(b, n)
  <2>1. \A n : Has(a, n)' => Has(a, n)
    BY <1>2, <1>3, <1>5 DEF Has
  <2>2. \A b \in Agents, n \in 1..events : b # a => Has(b, n)' = Has(b, n)
    BY <1>5 DEF Has
  <2> QED BY <2>1, <2>2
<1>8. ASSUME NEW b \in Agents
      PROVE  InOrder(b)'
  <2>1. InOrder(b)
    BY <1>0 DEF EventsInOrder
  <2>2. CASE b # a
    BY <1>1, <1>5, <2>1, <2>2 DEF InOrder
  <2>3. CASE b = a
    <3>1. \A i \in DOMAIN s : s[i].id \in 1..events
      BY <2>1, <2>3 DEF InOrder
    <3>2. \A i, j \in DOMAIN s : i < j => s[i].id < s[j].id
      BY <2>1, <2>3 DEF InOrder
    <3>3. \A i \in DOMAIN r : r[i].id \in 1..events /\ x.id < r[i].id
      BY <1>2, <3>1, <3>2
    <3>4. \A i, j \in DOMAIN r : i < j => r[i].id < r[j].id
      BY <1>2, <3>2
    <3>5. x.id \in 1..events
      BY <1>2, <3>1
    <3> QED BY <1>1, <1>3, <1>5, <2>3, <3>3, <3>4, <3>5 DEF InOrder
  <2> QED BY <2>2, <2>3
<1>9. EventsInOrder'
  BY <1>0, <1>1, <1>7, <1>8 DEF EventsInOrder
<1>10. /\ ConvsKept
       /\ \A b \in Agents : \A e \in Ahead(b) : EventOK(b, e)'
       /\ \A n \in DOMAIN convs' : Ordered(n)' /\ Recent(n)'
  BY <1>1, SameHistory
<1>11. ASSUME NEW b \in Agents
       PROVE  HistoryOf(b)'
  <2>1. CASE b # a
    BY <1>5, <1>10, <2>1, HistoryStays DEF AgentInv, HistoryInv
  <2>2. CASE b = a
    <3>1. Ahead(a)' \subseteq Ahead(a)
      <4>1. \A e \in Ahead(a)' : e = x \/ \E i \in DOMAIN r : e = r[i]
        BY <1>3, <1>5 DEF Ahead
      <4>2. \A e \in Ahead(a)' : \E i \in DOMAIN s : e = s[i]
        BY <1>2, <4>1
      <4> QED BY <4>2 DEF Ahead
    <3>2. UsesOwn(a)'
      BY <1>3, <1>5 DEF UsesOwn, InConversation
    <3> QED BY <1>10, <2>2, <3>1, <3>2 DEF HistoryOf
  <2> QED BY <2>1, <2>2
<1>12. HistoryInv'
  <2>1. (\A b \in Agents : HistoryOf(b))' /\ (\A k \in DOMAIN convs : Ordered(k) /\ Recent(k))'
    BY <1>10, <1>11
  <2> QED BY <2>1 DEF HistoryInv, HistoryInEventOrder, Ordered, Recent
<1>13. CallsKept /\ events \in Nat
  BY <1>0, <1>1 DEF CallsKept, Kept, AgentTypes
<1>14. \A b \in Agents : AskedOK(b)'
  <2>1. AskedOK(a)'
    BY <1>3, <1>5 DEF AskedOK, Asked
  <2>2. \A b \in Agents : b # a => AskedOK(b)'
    BY <1>5, <1>13, AskedStays DEF AgentInv, AnswerInv
  <2> QED BY <2>1, <2>2
<1>15. AnswerInv'
  BY <1>0, <1>1, <1>7, <1>13, <1>14, AnswersStay DEF AgentInv
<1> QED BY <1>6, <1>9, <1>12, <1>15 DEF AgentInv

(* An event is sent to an agent, with the next number. *)
LEMMA SendsKeeps ==
  ASSUME AgentInv, NEW a, NEW x \in EventRecord, x.id = events + 1, events' = events + 1, Send(a, x),
         UNCHANGED <<turn, late, outbound>>, CallsKept, ConvsKept, convs' \in Seq(Conversation),
         \A b \in Agents : \A e \in Ahead(b) : EventOK(b, e)',
         a \in Agents => EventOK(a, x)',
         \A n \in DOMAIN convs' : Ordered(n)' /\ Recent(n)'
  PROVE  AgentInv'
<1>0. AgentTypes /\ EventsInOrder /\ events \in Nat
  BY DEF AgentInv, AgentTypes
<1> DEFINE New(b) == b = a /\ a \in Agents
<1>1. /\ inbox' \in [Agents -> Seq(EventRecord)]
      /\ \A b \in Agents : ~New(b) => inbox'[b] = inbox[b]
      /\ \A b \in Agents : New(b) => inbox'[b] = Append(inbox[b], x)
  BY <1>0 DEF Send, AgentTypes
<1>2. ASSUME NEW b \in Agents, New(b)
      PROVE  /\ DOMAIN inbox'[b] = DOMAIN inbox[b] \cup {Len(inbox[b]) + 1} /\ inbox'[b][Len(inbox[b]) + 1] = x
             /\ \A i \in DOMAIN inbox[b] : /\ inbox'[b][i] = inbox[b][i] /\ i # Len(inbox[b]) + 1
                                           /\ i \in Nat /\ i < Len(inbox[b]) + 1
             /\ Len(inbox[b]) \in Nat
  <2>1. inbox[b] \in Seq(EventRecord)
    BY <1>0 DEF AgentTypes
  <2> QED BY <1>1, <1>2, <2>1, AppendIs
<1>3. AgentTypes'
  BY <1>0, <1>1 DEF AgentTypes, ConvsKept
<1>4. ASSUME NEW b \in Agents
      PROVE  InOrder(b)'
  <2>1. InOrder(b)
    BY <1>0 DEF EventsInOrder
  <2>2. CASE ~New(b)
    <3>1. inbox'[b] = inbox[b] /\ turn'[b] = turn[b]
      BY <1>1, <2>2
    <3>2. \A n \in 1..events : n \in 1..events'
      BY <1>0
    <3> HIDE DEF New
    <3> QED BY <2>1, <3>1, <3>2 DEF InOrder
  <2>3. CASE New(b)
    <3> PICK s, r : s = inbox[b] /\ r = inbox'[b]
      OBVIOUS
    <3>1. /\ DOMAIN r = DOMAIN s \cup {Len(s) + 1} /\ r[Len(s) + 1] = x
          /\ \A i \in DOMAIN s : r[i] = s[i] /\ i # Len(s) + 1 /\ i \in Nat /\ i < Len(s) + 1
          /\ Len(s) \in Nat
      BY <1>2, <2>3
    <3>2. /\ \A i \in DOMAIN s : s[i].id \in 1..events
          /\ \A i, j \in DOMAIN s : i < j => s[i].id < s[j].id
          /\ turn[b].st # "idle" => turn[b].ev.id \in 1..events /\ \A i \in DOMAIN s : turn[b].ev.id < s[i].id
      BY <2>1 DEF InOrder
    <3>3. \A i \in DOMAIN r : r[i].id \in 1..events + 1
      BY <1>0, <3>1, <3>2
    <3>4. ASSUME NEW i \in DOMAIN r, NEW j \in DOMAIN r, i < j
          PROVE  r[i].id < r[j].id
      <4>1. i \in DOMAIN s
        BY <3>1, <3>4
      <4>2. CASE j \in DOMAIN s
        BY <3>1, <3>2, <3>4, <4>1, <4>2
      <4>3. CASE j = Len(s) + 1
        BY <1>0, <3>1, <3>2, <4>1, <4>3
      <4> QED BY <3>1, <4>2, <4>3
    <3>5. turn[b].st # "idle" => turn[b].ev.id \in 1..events + 1 /\ \A i \in DOMAIN r : turn[b].ev.id < r[i].id
      <4>1. turn[b].st # "idle" => turn[b].ev.id \in 1..events /\ turn[b].ev.id < x.id
        BY <1>0, <3>2
      <4>2. turn[b].st # "idle" => \A i \in DOMAIN s : turn[b].ev.id < r[i].id
        BY <3>1, <3>2
      <4>3. turn[b].st # "idle" => turn[b].ev.id \in 1..events + 1
        BY <1>0, <4>1
      <4> QED BY <3>1, <4>1, <4>2, <4>3
    <3> QED BY <3>3, <3>4, <3>5 DEF InOrder
  <2> QED BY <2>2, <2>3
<1>5. ASSUME NEW b \in Agents, NEW n \in 1..events
      PROVE  Has(b, n)' => Has(b, n)
  <2>0. n # x.id
    BY <1>0
  <2>1. CASE ~New(b)
    BY <1>1, <2>1 DEF Has
  <2>2. CASE New(b)
    <3>1. \A i \in DOMAIN inbox'[b] : inbox'[b][i].id = n => i \in DOMAIN inbox[b] /\ inbox[b][i].id = n
      BY <1>2, <2>0, <2>2
    <3> QED BY <3>1 DEF Has
  <2> QED BY <2>1, <2>2
<1>6. ASSUME NEW b \in Agents, NEW n, n = events + 1, Has(b, n)'
      PROVE  New(b)
  <2>1. SUFFICES ASSUME ~New(b) PROVE FALSE
    OBVIOUS
  <2>2. inbox'[b] = inbox[b] /\ InOrder(b)
    BY <1>0, <1>1, <2>1 DEF EventsInOrder
  <2>3. turn[b].st # "idle" => turn[b].ev.id # events + 1
    BY <1>0, <2>2 DEF InOrder
  <2>4. \A i \in DOMAIN inbox[b] : inbox[b][i].id # events + 1
    BY <1>0, <2>2 DEF InOrder
  <2> QED BY <1>6, <2>2, <2>3, <2>4 DEF Has
<1>7. EventsInOrder'
  <2>1. ASSUME NEW b \in Agents, NEW c \in Agents, NEW n \in 1..events', Has(b, n)', Has(c, n)'
        PROVE  b = c
    <3>1. CASE n \in 1..events
      BY <1>0, <1>5, <2>1, <3>1 DEF EventsInOrder
    <3>2. CASE n = events + 1
      <4>1. New(b) /\ New(c)
        BY <1>6, <2>1, <3>2
      <4> QED BY <4>1
    <3>3. n \in 1..events \/ n = events + 1
      BY <1>0, <2>1
    <3> QED BY <3>1, <3>2, <3>3
  <2> QED BY <1>4, <2>1 DEF EventsInOrder
<1>8. ASSUME NEW b \in Agents
      PROVE  HistoryOf(b)'
  <2>1. HistoryOf(b)
    BY DEF AgentInv, HistoryInv
  <2>2. CASE ~New(b)
    BY <1>1, <2>1, <2>2, HistoryStays
  <2>3. CASE New(b)
    <3>1. Unwritten(b)' = Unwritten(b) /\ InConversation(b)' = InConversation(b)
      BY DEF Unwritten, InConversation
    <3>2. \A e \in Ahead(b)' : e \in Ahead(b) \/ e = x
      <4>1. \A i \in DOMAIN inbox'[b] : inbox'[b][i] = x \/ \E j \in DOMAIN inbox[b] : inbox'[b][i] = inbox[b][j]
        BY <1>2, <2>3
      <4> QED BY <3>1, <4>1 DEF Ahead
    <3>3. UsesOwn(b)'
      BY <2>1, <3>1 DEF HistoryOf, UsesOwn, MayUse, ConvsKept
    <3>4. EventOK(b, x)'
      BY <2>3
    <3> QED BY <3>2, <3>3, <3>4 DEF HistoryOf
  <2> QED BY <2>2, <2>3
<1>9. HistoryInv'
  <2>1. (\A b \in Agents : HistoryOf(b))' /\ (\A k \in DOMAIN convs : Ordered(k) /\ Recent(k))'
    BY <1>8
  <2> QED BY <2>1 DEF HistoryInv, HistoryInEventOrder, Ordered, Recent
<1>10. \A b \in Agents : AskedOK(b)'
  BY AskedStays DEF AgentInv, AnswerInv
<1>11. AnswerInv'
  BY <1>0, <1>5, <1>10, AnswersStay DEF AgentInv
<1> QED BY <1>3, <1>7, <1>9, <1>11 DEF AgentInv

(* An event that names no conversation and is not from an agent. *)
LEMMA PlainEventKeeps ==
  ASSUME AgentInv, NEW a, NEW x \in EventRecord, x.id = events + 1, x.conv = 0, Key(x) # "agent",
         events' = events + 1, Send(a, x), UNCHANGED <<turn, convs, late, outbound, calls>>
  PROVE  AgentInv'
<1>0. AgentTypes /\ events \in Nat /\ convs \in Seq(Conversation)
  BY DEF AgentInv, AgentTypes
<1>1. ConvsKept /\ \A b, e : EventOK(b, e)' = EventOK(b, e)
  BY SameConvs
<1>2. (\A b \in Agents : HistoryOf(b)) /\ \A n \in DOMAIN convs : Ordered(n) /\ Recent(n)
  BY HistoryIs DEF AgentInv
<1>3. \A b \in Agents : \A e \in Ahead(b) : EventOK(b, e)'
  BY <1>1, <1>2 DEF HistoryOf
<1>4. ASSUME NEW n \in DOMAIN convs
      PROVE  Precedes(n, x) /\ Ordered(n)' /\ Recent(n)'
  <2>1. convs[n] \in Conversation
    BY <1>0
  <2>2. convs[n].msgs \in Seq(Message)
    BY <2>1 DEF Conversation
  <2>3. \A i \in DOMAIN convs[n].msgs : convs[n].msgs[i].ev \in Nat
    <3>1. \A i \in DOMAIN convs[n].msgs : convs[n].msgs[i] \in Message
      BY <2>2
    <3> QED BY <3>1 DEF Message
  <2>4. Ordered(n) /\ Recent(n)
    BY <1>2
  <2>5. Precedes(n, x)
    BY <1>0, <2>3, <2>4 DEF Precedes, Recent
  <2>6. Ordered(n)'
    BY <2>4 DEF Ordered
  <2>7. Recent(n)'
    BY <1>0, <2>3, <2>4 DEF Recent
  <2> QED BY <2>5, <2>6, <2>7
<1>5. EventOK(a, x)
  BY <1>4 DEF EventOK, NamesOwn
<1>6. EventOK(a, x)'
  BY <1>1, <1>5
<1>7. CallsKept
  BY DEF CallsKept, Kept
<1> QED BY <1>0, <1>1, <1>3, <1>4, <1>6, <1>7, SendsKeeps

(* Events from outside, of a runtime subscription, or of a timer. *)
LEMMA ArrivalKeeps ==
  ASSUME AgentInv, NEW a, NEW kind \in {"subscribed_event", "message", "self_wake"},
         NEW chat \in Origins \cup {None}, events' = events + 1, Send(a, Event(events', kind, chat, 0, 0)),
         UNCHANGED <<turn, convs, late, outbound, calls>>
  PROVE  AgentInv'
<1> PICK x : x = Event(events', kind, chat, 0, 0)
  OBVIOUS
<1>1. events \in Nat
  BY DEF AgentInv, AgentTypes
<1>2. x \in EventRecord /\ x.id = events + 1 /\ x.conv = 0
  BY <1>1 DEF Event, EventRecord, Kinds
<1>3. Key(x) # "agent"
  BY ConsciousnessAssumption DEF Event, Key
<1> QED BY <1>2, <1>3, PlainEventKeeps

(* delegate-task: a conversation between agents and the event that names it. *)
LEMMA DelegateKeeps ==
  ASSUME ProviderInv, AgentInv, DelegateTask
  PROVE  AgentInv'
<1>0. AgentTypes /\ events \in Nat /\ convs \in Seq(Conversation)
  BY DEF AgentInv, AgentTypes
<1>1. UNCHANGED <<turn, late, outbound, calls>> /\ CallsAhead # {}
  BY DEF DelegateTask, Answer, Serves
<1>2. CallsKept
  BY <1>1 DEF CallsKept, Kept
<1> PICK k, depth : k = Next_call /\ depth = calls[tasks[k].call].from.depth + 1
  OBVIOUS
<1>3. depth \in Nat
  <2>1. tasks \in Seq(TaskRecord) /\ calls \in Seq(CallRecord) /\ \A l \in DOMAIN tasks : tasks[l].call \in DOMAIN calls
    BY DEF ProviderInv, ProviderTypes
  <2>2. k \in DOMAIN tasks
    BY <1>1, <2>1, NextCallWaits
  <2>3. calls[tasks[k].call] \in CallRecord
    BY <2>1, <2>2
  <2>4. calls[tasks[k].call].from \in Who
    BY <2>3 DEF CallRecord
  <2>5. calls[tasks[k].call].from.depth \in Nat
    BY <2>4 DEF Who
  <2> QED BY <2>5
<1>4. CASE UNCHANGED <<convs, inbox, events>>
  BY <1>1, <1>2, <1>4, AgentsLeft
<1>5. CASE \E to \in Agents :
             LET conv(msgs) == Append(convs, [agent |-> to, key |-> "agent", msgs |-> msgs])
                 first == [ev |-> events', role |-> "user", late |-> FALSE]
             IN  /\ convs' = conv(<<first>>) \/ convs' = conv(<<>>)
                 /\ Send(to, Event(events', "agent_message", None, Len(convs'), depth))
                 /\ events' = events + 1
  <2>1. PICK a \in Agents, ms \in {<<>>, <<[ev |-> events', role |-> "user", late |-> FALSE]>>} :
          /\ convs' = Append(convs, [agent |-> a, key |-> "agent", msgs |-> ms])
          /\ Send(a, Event(events', "agent_message", None, Len(convs'), depth)) /\ events' = events + 1
    BY <1>5
  <2> PICK v, n, x : /\ v = [agent |-> a, key |-> "agent", msgs |-> ms] /\ n = Len(convs')
                     /\ x = Event(events', "agent_message", None, Len(convs'), depth)
    OBVIOUS
  <2>2. /\ ms \in Seq(Message)
        /\ \A i \in DOMAIN ms : i = 1 /\ ms[i].ev = events + 1 /\ ms[i].role = "user"
    <3>1. [ev |-> events', role |-> "user", late |-> FALSE] \in Message
      BY <1>0, <2>1 DEF Message
    <3>2. CASE ms = <<>>
      BY <3>2
    <3>3. CASE ms = <<[ev |-> events', role |-> "user", late |-> FALSE]>>
      BY <2>1, <3>1, <3>3
    <3> QED BY <2>1, <3>2, <3>3
  <2>3. v \in Conversation /\ v.key = "agent" /\ v.agent = a /\ v.msgs = ms
    BY <2>2 DEF Conversation
  <2>4. /\ convs' \in Seq(Conversation) /\ ConvsKept /\ n \in Nat \ {0}
        /\ DOMAIN convs' = DOMAIN convs \cup {n} /\ convs'[n] = v /\ n \notin DOMAIN convs
        /\ \A m \in DOMAIN convs : convs'[m] = convs[m]
    BY <1>0, <2>1, <2>3, NewConversationIs
  <2>5. x \in EventRecord /\ x.id = events + 1 /\ x.conv = n
    BY <1>0, <1>3, <2>1, <2>4 DEF Event, EventRecord, Kinds
  <2>6. ASSUME NEW b \in Agents, NEW e \in Ahead(b)
        PROVE  EventOK(b, e)'
    <3>1. e.conv \in Nat /\ EventOK(b, e)
      BY <1>0, AheadIsEvent DEF AgentInv, HistoryInv, HistoryOf
    <3> QED BY <1>0, <2>1, <2>3, <3>1, NewConversationKeeps
  <2>7. EventOK(a, x)'
    <3>1. NamesOwn(a, x)'
      BY <2>3, <2>4, <2>5 DEF NamesOwn
    <3>2. \A m \in DOMAIN convs' : MayUse(a, x, m)' => m = n
      BY <2>4, <2>5 DEF MayUse
    <3>3. Precedes(n, x)'
      BY <2>2, <2>3, <2>4, <2>5 DEF Precedes
    <3> QED BY <3>1, <3>2, <3>3 DEF EventOK
  <2>8. \A m \in DOMAIN convs : Ordered(m) /\ Recent(m)
    BY HistoryIs DEF AgentInv
  <2>9. ASSUME NEW m \in DOMAIN convs
        PROVE  Ordered(m)' /\ Recent(m)'
    <3>1. convs[m] \in Conversation
      BY <1>0
    <3>2. convs[m].msgs \in Seq(Message)
      BY <3>1 DEF Conversation
    <3>3. \A i \in DOMAIN convs[m].msgs : convs[m].msgs[i].ev \in Nat
      <4>1. \A i \in DOMAIN convs[m].msgs : convs[m].msgs[i] \in Message
        BY <3>2
      <4> QED BY <4>1 DEF Message
    <3>4. Ordered(m)'
      BY <2>4, <2>8 DEF Ordered
    <3>5. Recent(m)'
      BY <1>0, <2>1, <2>4, <2>8, <3>3 DEF Recent
    <3> QED BY <3>4, <3>5
  <2>10. Ordered(n)' /\ Recent(n)'
    <3>1. Ordered(n)'
      BY <2>2, <2>3, <2>4 DEF Ordered
    <3>2. Recent(n)'
      BY <1>0, <2>1, <2>2, <2>3, <2>4 DEF Recent
    <3> QED BY <3>1, <3>2
  <2>12. \A m \in DOMAIN convs' : Ordered(m)' /\ Recent(m)'
    BY <2>4, <2>9, <2>10
  <2> QED BY <1>1, <1>2, <2>1, <2>4, <2>5, <2>6, <2>7, <2>12, SendsKeeps
<1> QED BY <1>4, <1>5 DEF DelegateTask

-----------------------------------------------------------------------------
(* The router                                                               *)

(* A list with a name put behind it. *)
LEMMA JoinedIs ==
  ASSUME NEW S, NEW s \in Seq(S), NEW q \in S
  PROVE  /\ s \o <<q>> \in Seq(S) /\ Len(s \o <<q>>) = Len(s) + 1 /\ (s \o <<q>>)[Len(s) + 1] = q
         /\ \A i \in 1..Len(s) : (s \o <<q>>)[i] = s[i]
<1>1. s \o <<q>> = Append(s, q)
  BY AppendIsConcat
<1>2. s \in Seq(S) /\ q \in S
  OBVIOUS
<1> QED BY <1>1, <1>2, AppendIs

(* A list with nothing put behind it. *)
LEMMA WithNothing ==
  ASSUME NEW S, NEW s \in Seq(S)
  PROVE  s \o <<>> = s
  OBVIOUS

(* A list of one name. *)
LEMMA OneName ==
  ASSUME NEW S, NEW q \in S
  PROVE  <<q>> \in Seq(S) /\ Len(<<q>>) = 1 /\ <<q>>[1] = q
  OBVIOUS

(* A list of the names in it. *)
LEMMA OfItsNames ==
  ASSUME NEW S, NEW T, NEW s \in Seq(S), ToSet(s) \subseteq T
  PROVE  s \in Seq(T)
<1>1. DOMAIN s = 1..Len(s) /\ Len(s) \in Nat /\ \A i \in 1..Len(s) : s[i] \in T
  BY DEF ToSet
<1>2. s = [i \in 1..Len(s) |-> s[i]]
  OBVIOUS
<1>3. s \in [1..Len(s) -> T]
  BY <1>1, <1>2
<1> QED BY <1>1, <1>3

(* Four providers in a row. *)
LEMMA FourTried ==
  ASSUME NEW s \in Seq(Names), Len(s) = 4, {s[1], s[2], s[3], s[4]} = Providers,
         s[1] # s[2], s[1] # s[3], s[1] # s[4], s[2] # s[3], s[2] # s[4], s[3] # s[4]
  PROVE  /\ ToSet(s) = Providers
         /\ \A i, j \in DOMAIN s : s[i] = s[j] => i = j
<1>1. DOMAIN s = 1..4 /\ 1..4 = {1, 2, 3, 4}
  OBVIOUS
<1>3. ToSet(s) = {s[1], s[2], s[3], s[4]}
  BY <1>1 DEF ToSet
<1>4. \A i, j \in DOMAIN s : s[i] = s[j] => i = j
  BY <1>1
<1> QED BY <1>3, <1>4

(* Whatever the message, the providers to try are all the strategy has to   *)
(* offer.                                                                   *)
LEMMA EveryProviderTried ==
  ASSUME NEW pf
  PROVE  get_providers_to_try(pf) \in Seq(Names) /\ EveryProvider(get_providers_to_try(pf))
<1> PICK google, openai, anthropic, ollama :
      google = "google" /\ openai = "openai" /\ anthropic = "anthropic" /\ ollama = "ollama"
  OBVIOUS
<1>0. google \in Names /\ openai \in Names /\ anthropic \in Names /\ ollama \in Names
  BY DEF Names, Providers
<1>1. CASE Strategy = "fixed"
  <2>1. get_providers_to_try(pf) = <<google>> /\ EveryProvider(<<google>>)
    BY <1>1 DEF get_providers_to_try, EveryProvider
  <2> QED BY <1>0, <2>1, OneName
<1>2. CASE Strategy = "fallback"
  <2>1. FallbackList \in Seq(Names)
    BY RequestsAssumption, OfItsNames DEF Names
  <2> QED BY <1>2, <2>1 DEF get_providers_to_try, EveryProvider
<1>3. CASE Strategy # "fixed" /\ Strategy # "fallback"
  <2> PICK primary, s : primary = select_intelligent(pf) /\ s = get_providers_to_try(pf)
    OBVIOUS
  <2>1. primary \in {google, ollama, anthropic}
    BY DEF select_intelligent, Route
  <2> PICK first : first = IF google # primary THEN <<primary, google>> ELSE <<primary>>
    OBVIOUS
  <2> DEFINE rest(q) == IF q \in ToSet(first) THEN <<>> ELSE <<q>>
  <2> PICK r1, r2, r3, r4 : r1 = rest(google) /\ r2 = rest(openai) /\ r3 = rest(anthropic) /\ r4 = rest(ollama)
    OBVIOUS
  <2>2. s = first \o r1 \o r2 \o r3 \o r4
    BY <1>3 DEF get_providers_to_try, Route
  <2>4. ASSUME NEW t \in Seq(Names), Len(t) = 2, NEW q \in Names, NEW r \in Names, s = t \o <<q>> \o <<r>>
        PROVE  s \in Seq(Names) /\ Len(s) = 4 /\ s[1] = t[1] /\ s[2] = t[2] /\ s[3] = q /\ s[4] = r
    <3> PICK u : u = t \o <<q>>
      OBVIOUS
    <3>1. u \in Seq(Names) /\ Len(u) = Len(t) + 1 /\ u[Len(t) + 1] = q /\ \A i \in 1..Len(t) : u[i] = t[i]
      <4>1. t \in Seq(Names) /\ q \in Names
        OBVIOUS
      <4> QED BY <4>1, JoinedIs
    <3>2. Len(u) = 3 /\ u[1] = t[1] /\ u[2] = t[2] /\ u[3] = q
      BY <2>4, <3>1
    <3>3. s \in Seq(Names) /\ Len(s) = Len(u) + 1 /\ s[Len(u) + 1] = r /\ \A i \in 1..Len(u) : s[i] = u[i]
      BY <2>4, <3>1, JoinedIs
    <3> QED BY <3>2, <3>3
  <2>5. CASE primary = google
    <3>1. first = <<google>> /\ ToSet(first) = {google}
      BY <2>5 DEF ToSet
    <3>2. r1 = <<>> /\ r2 = <<openai>> /\ r3 = <<anthropic>> /\ r4 = <<ollama>>
      BY <3>1
    <3>3. first \in Seq(Names) /\ Len(first) = 1 /\ first[1] = google
      BY <1>0, <3>1, OneName
    <3> PICK t : t = first \o r2
      OBVIOUS
    <3>4. t \in Seq(Names) /\ Len(t) = Len(first) + 1 /\ t[Len(first) + 1] = openai /\ \A i \in 1..Len(first) : t[i] = first[i]
      BY <1>0, <3>2, <3>3, JoinedIs
    <3>5. first \o r1 = first
      BY <3>2, <3>3, WithNothing
    <3>6. s = t \o <<anthropic>> \o <<ollama>>
      BY <2>2, <3>2, <3>5
    <3>7. Len(t) = 2 /\ t[1] = google /\ t[2] = openai
      BY <3>3, <3>4
    <3>8. s \in Seq(Names) /\ Len(s) = 4 /\ s[1] = google /\ s[2] = openai /\ s[3] = anthropic /\ s[4] = ollama
      BY <1>0, <2>4, <3>4, <3>6, <3>7
    <3>9. {s[1], s[2], s[3], s[4]} = Providers
      BY <3>8 DEF Providers
    <3>10. s[1] # s[2] /\ s[1] # s[3] /\ s[1] # s[4] /\ s[2] # s[3] /\ s[2] # s[4] /\ s[3] # s[4]
      BY <3>8
    <3>11. ToSet(s) = Providers /\ \A i, j \in DOMAIN s : s[i] = s[j] => i = j
      BY <3>8, <3>9, <3>10, FourTried
    <3> QED BY <1>3, <3>8, <3>11 DEF EveryProvider
  <2>6. CASE primary # google
    <3>0. primary \in Names
      BY <1>0, <2>1
    <3>1. first = <<primary, google>> /\ ToSet(first) = {primary, google}
      BY <2>6 DEF ToSet
    <3>2. /\ first \in Seq(Names) /\ Len(first) = 2 /\ first[1] = primary /\ first[2] = google
      BY <1>0, <3>0, <3>1
    <3>3. r1 = <<>> /\ r2 = <<openai>>
      BY <2>1, <2>6, <3>1
    <3>4. first \o r1 = first
      BY <3>2, <3>3, WithNothing
    <3> PICK u : u = first \o <<openai>>
      OBVIOUS
    <3>5. u \in Seq(Names) /\ s = u \o r3 \o r4
      BY <1>0, <2>2, <3>2, <3>3, <3>4, JoinedIs
    <3>6. CASE primary = ollama
      <4>1. r3 = <<anthropic>> /\ r4 = <<>>
        BY <3>1, <3>6
      <4>2. u \o <<anthropic>> \in Seq(Names)
        BY <1>0, <3>5, JoinedIs
      <4>3. s = first \o <<openai>> \o <<anthropic>>
        BY <3>5, <4>1, <4>2, WithNothing
      <4>4. s \in Seq(Names) /\ Len(s) = 4 /\ s[1] = ollama /\ s[2] = google /\ s[3] = openai /\ s[4] = anthropic
        BY <1>0, <2>4, <3>2, <3>6, <4>3
      <4>5. {s[1], s[2], s[3], s[4]} = Providers
        BY <4>4 DEF Providers
      <4>6. s[1] # s[2] /\ s[1] # s[3] /\ s[1] # s[4] /\ s[2] # s[3] /\ s[2] # s[4] /\ s[3] # s[4]
        BY <4>4
      <4>7. ToSet(s) = Providers /\ \A i, j \in DOMAIN s : s[i] = s[j] => i = j
        BY <4>4, <4>5, <4>6, FourTried
      <4> QED BY <1>3, <4>4, <4>7 DEF EveryProvider
    <3>7. CASE primary = anthropic
      <4>1. r3 = <<>> /\ r4 = <<ollama>>
        BY <3>1, <3>7
      <4>2. u \o r3 = u
        BY <3>5, <4>1, WithNothing
      <4>3. s = first \o <<openai>> \o <<ollama>>
        BY <3>5, <4>1, <4>2
      <4>4. s \in Seq(Names) /\ Len(s) = 4 /\ s[1] = anthropic /\ s[2] = google /\ s[3] = openai /\ s[4] = ollama
        BY <1>0, <2>4, <3>2, <3>7, <4>3
      <4>5. {s[1], s[2], s[3], s[4]} = Providers
        BY <4>4 DEF Providers
      <4>6. s[1] # s[2] /\ s[1] # s[3] /\ s[1] # s[4] /\ s[2] # s[3] /\ s[2] # s[4] /\ s[3] # s[4]
        BY <4>4
      <4>7. ToSet(s) = Providers /\ \A i, j \in DOMAIN s : s[i] = s[j] => i = j
        BY <4>4, <4>5, <4>6, FourTried
      <4> QED BY <1>3, <4>4, <4>7 DEF EveryProvider
    <3> QED BY <2>1, <2>6, <3>6, <3>7
  <2> QED BY <2>5, <2>6
<1> QED BY <1>1, <1>2, <1>3

(* The next provider leaves the list ahead and joins those tried. *)
LEMMA NextTry ==
  ASSUME NEW tried \in Seq(Names), NEW tries \in Seq(Names), tries # <<>>
  PROVE  /\ Head(tries) \in Names /\ Tail(tries) \in Seq(Names) /\ Append(tried, Head(tries)) \in Seq(Names)
         /\ Append(tried, Head(tries)) \o Tail(tries) = tried \o tries
<1> PICK s, t : s = Append(tried, Head(tries)) \o Tail(tries) /\ t = tried \o tries
  OBVIOUS
<1>1. /\ Head(tries) \in Names /\ Tail(tries) \in Seq(Names) /\ Append(tried, Head(tries)) \in Seq(Names)
  OBVIOUS
<1>2. s \in Seq(Names) /\ t \in Seq(Names)
  BY <1>1
<1>3. Len(tries) \in Nat \ {0} /\ Len(Tail(tries)) = Len(tries) - 1 /\ Len(Append(tried, Head(tries))) = Len(tried) + 1
  OBVIOUS
<1>4. Len(s) = Len(t)
  BY <1>1, <1>3
<1>5. ASSUME NEW i \in 1..Len(s)
      PROVE  s[i] = t[i]
  <2>1. CASE i <= Len(tried)
    BY <1>1, <1>3, <1>4, <2>1
  <2>2. CASE i = Len(tried) + 1
    BY <1>1, <1>3, <1>4, <2>2
  <2>3. CASE i > Len(tried) + 1
    BY <1>1, <1>3, <1>4, <2>3
  <2> QED BY <1>1, <2>1, <2>2, <2>3
<1>6. s = t
  BY <1>2, <1>4, <1>5, SeqEqual
<1> QED BY <1>1, <1>6

(* A request of the router stays one. *)
LEMMA CallForStays ==
  ASSUME CallsKept, NEW c, NEW req, CallFor(c, req)
  PROVE  CallFor(c, req)' /\ calls'[c].provider = calls[c].provider
         /\ (calls[c].st = "answered" => calls'[c].st = "answered" /\ calls'[c].reply = calls[c].reply)
  BY DEF CallsKept, Kept, CallFor

NoneFor(req) == \A c \in DOMAIN calls' : CallFor(c, req)' => c \in DOMAIN calls

(* Where nothing is sent for a message, its requests are the same. *)
LEMMA SentStays ==
  ASSUME CallsKept, NEW req, NEW tried, SentInOrder(req, tried), NoneFor(req)
  PROVE  SentInOrder(req, tried)'
<1>1. PICK place \in [DOMAIN tried -> DOMAIN calls] :
        /\ \A i, j \in DOMAIN tried : i < j => place[i] < place[j]
        /\ \A i \in DOMAIN tried : CallFor(place[i], req) /\ calls[place[i]].provider = tried[i]
        /\ \A c \in DOMAIN calls : CallFor(c, req) => \E i \in DOMAIN tried : c = place[i]
  BY DEF SentInOrder
<1>2. DOMAIN calls \subseteq DOMAIN calls'
  BY DEF CallsKept
<1>3. place \in [DOMAIN tried -> DOMAIN calls']
  BY <1>1, <1>2
<1>4. \A i \in DOMAIN tried : CallFor(place[i], req)' /\ calls'[place[i]].provider = tried[i]
  BY <1>1, CallForStays
<1>5. \A c \in DOMAIN calls' : CallFor(c, req)' => \E i \in DOMAIN tried : c = place[i]
  <2>1. ASSUME NEW c \in DOMAIN calls', CallFor(c, req)'
        PROVE  CallFor(c, req) /\ c \in DOMAIN calls
    BY <2>1 DEF NoneFor, CallFor, CallsKept, Kept
  <2> QED BY <1>1, <2>1
<1> QED BY <1>1, <1>3, <1>4, <1>5 DEF SentInOrder

(* One request more for the message: the provider it asks is the last.      *)
LEMMA SentOneMore ==
  ASSUME calls \in Seq(CallRecord), NEW req, NEW tried \in Seq(Names), SentInOrder(req, tried), NEW p \in Names,
         NEW who, OneMore(p, who), who.agent = None, who.id = req
  PROVE  SentInOrder(req, Append(tried, p))'
<1>1. PICK place \in [DOMAIN tried -> DOMAIN calls] :
        /\ \A i, j \in DOMAIN tried : i < j => place[i] < place[j]
        /\ \A i \in DOMAIN tried : CallFor(place[i], req) /\ calls[place[i]].provider = tried[i]
        /\ \A c \in DOMAIN calls : CallFor(c, req) => \E i \in DOMAIN tried : c = place[i]
  BY DEF SentInOrder
<1> PICK n, l, t : n = Len(calls) + 1 /\ l = Len(tried) + 1 /\ t = Append(tried, p)
  OBVIOUS
<1>2. /\ DOMAIN t = DOMAIN tried \cup {l} /\ t[l] = p
      /\ \A i \in DOMAIN tried : t[i] = tried[i] /\ i # l
  BY AppendIs
<1>3. \A i \in DOMAIN tried : i \in Nat /\ i < l
  OBVIOUS
<1>4. CallsKept /\ DOMAIN calls' = DOMAIN calls \cup {n} /\ \A c \in DOMAIN calls : c < n
  BY DEF OneMore, CallsKept
<1>5. calls'[n].from.agent = None /\ calls'[n].from.id = req /\ calls'[n].provider = p
  BY DEF OneMore
<1>6. PICK new : new = [i \in DOMAIN t |-> IF i = l THEN n ELSE place[i]]
  OBVIOUS
<1>7. new \in [DOMAIN t -> DOMAIN calls'] /\ new[l] = n /\ \A i \in DOMAIN tried : new[i] = place[i] /\ place[i] \in DOMAIN calls
  BY <1>1, <1>2, <1>4, <1>6
<1>8. ASSUME NEW i \in DOMAIN t, NEW j \in DOMAIN t, i < j
      PROVE  new[i] < new[j]
  <2>0. l \in Nat
    OBVIOUS
  <2>1. i \in DOMAIN tried
    BY <1>2, <1>3, <1>8, <2>0
  <2>2. CASE j = l
    BY <1>4, <1>7, <2>1, <2>2
  <2>3. CASE j \in DOMAIN tried
    BY <1>1, <1>7, <1>8, <2>1, <2>3
  <2> QED BY <1>2, <2>2, <2>3
<1>9. ASSUME NEW i \in DOMAIN t
      PROVE  CallFor(new[i], req)' /\ calls'[new[i]].provider = t[i]
  <2>1. CASE i = l
    BY <1>2, <1>4, <1>5, <1>7, <2>1 DEF CallFor
  <2>2. CASE i \in DOMAIN tried
    BY <1>1, <1>2, <1>4, <1>7, <2>2, CallForStays
  <2> QED BY <1>2, <2>1, <2>2
<1>10. ASSUME NEW c \in DOMAIN calls', CallFor(c, req)'
       PROVE  \E i \in DOMAIN t : c = new[i]
  <2>1. CASE c = n
    BY <1>2, <1>7, <2>1
  <2>2. CASE c \in DOMAIN calls
    <3>1. CallFor(c, req)
      BY <1>4, <1>10, <2>2 DEF CallFor, CallsKept, Kept
    <3>2. PICK i \in DOMAIN tried : c = place[i]
      BY <1>1, <2>2, <3>1
    <3> QED BY <1>2, <1>7, <3>2
  <2> QED BY <1>4, <2>1, <2>2
<1>11. SentInOrder(req, t)'
  BY <1>7, <1>8, <1>9, <1>10 DEF SentInOrder
<1> QED BY <1>11 DEF SentInOrder

(* Nothing has been sent for a message that waits. *)
LEMMA NothingSent ==
  ASSUME NEW req, \A c \in DOMAIN calls : ~CallFor(c, req)
  PROVE  SentInOrder(req, <<>>)
<1>1. PICK place : place = [i \in DOMAIN <<>> |-> 0]
  OBVIOUS
<1>2. DOMAIN <<>> = {}
  OBVIOUS
<1>3. place \in [DOMAIN <<>> -> DOMAIN calls]
  BY <1>1, <1>2
<1> QED BY <1>2, <1>3 DEF SentInOrder

(* A response is true to the requests there were. *)
ResponseOK(r) ==
  /\ SentInOrder(r.req, r.tried)
  /\ r.call # 0 => CallFor(r.call, r.req) /\ calls[r.call].reply = r.kind /\ calls[r.call].st = "answered"
  /\ r.call = 0 => EveryProvider(r.tried)
ResponsesOK ==
  /\ \A i, j \in DOMAIN responses : responses[i].req = responses[j].req => i = j
  /\ \A i \in DOMAIN responses : ResponseOK(responses[i])

(* What a task of the router has done so far. *)
TaskOK(t) ==
  t.st # "idle" =>
    /\ SentInOrder(t.req, t.tried) /\ EveryProvider(t.tried \o t.tries)
    /\ t.st = "waiting" => CallFor(t.call, t.req)

(* The invariant, response by response. *)
LEMMA RouterInvIs == RouterInv <=> RouterTypes /\ OnePlace /\ (\A p \in Paths : TaskOK(rt[p])) /\ ResponsesOK
  BY DEF RouterInv, TriesOK, TaskOK, RouterAnswersOnce, ResponsesOK, ResponseOK

(* The same after a step. *)
LEMMA RouterInvNext ==
  ASSUME RouterTypes', OnePlace', \A p \in Paths : TaskOK(rt[p])', ResponsesOK'
  PROVE  RouterInv'
  BY DEF RouterInv, TriesOK, TaskOK, RouterAnswersOnce, ResponsesOK, ResponseOK

(* A response does not change, nor what it tells. *)
LEMMA ResponseStays ==
  ASSUME CallsKept, NEW r, ResponseOK(r), NoneFor(r.req)
  PROVE  ResponseOK(r)'
<1>1. SentInOrder(r.req, r.tried)'
  <2> PICK q, t : q = r.req /\ t = r.tried
    OBVIOUS
  <2>1. SentInOrder(q, t) /\ NoneFor(q)
    BY DEF ResponseOK
  <2>2. SentInOrder(q, t)'
    BY <2>1, SentStays
  <2> QED BY <2>2
<1>2. r.call # 0 => CallFor(r.call, r.req)' /\ calls'[r.call].reply = r.kind /\ calls'[r.call].st = "answered"
  BY CallForStays DEF ResponseOK
<1>3. EveryProvider(r.tried)' = EveryProvider(r.tried)
  BY DEF EveryProvider
<1> QED BY <1>1, <1>2, <1>3 DEF ResponseOK

(* Nor does a task that waits. *)
LEMMA TaskStays ==
  ASSUME CallsKept, NEW t, TaskOK(t), t.st # "idle" => NoneFor(t.req)
  PROVE  TaskOK(t)'
<1>1. ASSUME t.st # "idle"
      PROVE  SentInOrder(t.req, t.tried)'
  <2> PICK q, s : q = t.req /\ s = t.tried
    OBVIOUS
  <2>1. SentInOrder(q, s) /\ NoneFor(q)
    BY <1>1 DEF TaskOK
  <2>2. SentInOrder(q, s)'
    BY <2>1, SentStays
  <2> QED BY <2>2
<1>2. t.st = "waiting" => CallFor(t.call, t.req)'
  BY CallForStays DEF TaskOK
<1>3. EveryProvider(t.tried \o t.tries)' = EveryProvider(t.tried \o t.tries)
  BY DEF EveryProvider
<1> QED BY <1>1, <1>2, <1>3 DEF TaskOK

(* No request is made for a message that still waits. *)
LEMMA NoneYet ==
  ASSUME CallsKept, NEW req, NoneFor(req), \A c \in DOMAIN calls : ~CallFor(c, req)
  PROVE  \A c \in DOMAIN calls' : ~CallFor(c, req)'
  BY DEF NoneFor, CallsKept, Kept, CallFor

(* The requests of others are no business of the router. *)
LEMMA RouterLeft ==
  ASSUME RouterInv, UNCHANGED routerVars, CallsKept, \A req : NoneFor(req)
  PROVE  RouterInv'
<1>0. RouterTypes /\ OnePlace /\ (\A p \in Paths : TaskOK(rt[p])) /\ ResponsesOK
  BY RouterInvIs
<1>1. RouterTypes' /\ rq' = rq /\ rt' = rt /\ responses' = responses
  BY <1>0 DEF RouterTypes, routerVars
<1>2. \A p \in Paths : TaskOK(rt[p])'
  <2>1. ASSUME NEW p \in Paths
        PROVE  TaskOK(rt[p])'
    <3> PICK t : t = rt[p]
      OBVIOUS
    <3>1. TaskOK(t)'
      BY <1>0, TaskStays
    <3> QED BY <1>1, <3>1 DEF TaskOK
  <2> QED BY <2>1
<1>3. ResponsesOK'
  <2>1. ASSUME NEW i \in DOMAIN responses
        PROVE  ResponseOK(responses[i])'
    <3> PICK r : r = responses[i]
      OBVIOUS
    <3>1. ResponseOK(r)'
      BY <1>0, ResponseStays DEF ResponsesOK
    <3> QED BY <1>1, <3>1 DEF ResponseOK
  <2> QED BY <1>0, <1>1, <2>1 DEF ResponsesOK
<1>4. OnePlace'
  <2>1. ASSUME NEW p \in Paths, NEW i \in DOMAIN rq[p], NEW c \in DOMAIN calls'
        PROVE  ~CallFor(c, rq[p][i].id)'
    <3> PICK n : n = rq[p][i].id
      OBVIOUS
    <3>1. \A d \in DOMAIN calls : ~CallFor(d, n)
      BY <1>0 DEF OnePlace
    <3>2. ~CallFor(c, n)'
      BY <3>1, NoneYet
    <3> QED BY <1>1, <3>2 DEF CallFor
  <2>2. \A n : Queued(n)' = Queued(n) /\ Responded(n)' = Responded(n) /\ \A p : Handles(p, n)' = Handles(p, n)
    BY <1>1 DEF Queued, Responded, Handles
  <2>3. \A p \in Paths : \A i \in DOMAIN rq[p] : ~Responded(rq[p][i].id)'
    BY <1>0, <1>1 DEF OnePlace, Responded
  <2>4. \A p \in Paths : rt[p].st # "idle" =>
          /\ ~Queued(rt[p].req)' /\ ~Responded(rt[p].req)'
          /\ \A s \in Paths \ {p} : ~Handles(s, rt[p].req)'
    BY <1>0, <1>1 DEF OnePlace, Queued, Responded, Handles
  <2> QED BY <1>0, <1>1, <2>1, <2>3, <2>4 DEF OnePlace
<1> QED BY <1>1, <1>2, <1>3, <1>4, RouterInvNext

(* What is known of the message a task has in hand. *)
LEMMA InHand ==
  ASSUME OnePlace, NEW p \in Paths, rt[p].st # "idle", NEW n, n = rt[p].req
  PROVE  /\ \A s \in Paths : \A i \in DOMAIN rq[s] : rq[s][i].id # n
         /\ \A i \in DOMAIN responses : responses[i].req # n
         /\ \A s \in Paths : s # p => rt[s].st = "idle" \/ rt[s].req # n
  BY DEF OnePlace, Queued, Responded, Handles

(* A task goes on with its message, and asks for that one only. *)
LEMMA TaskMoves ==
  ASSUME RouterInv, NEW p \in Paths, rt[p].st # "idle", NEW t \in RouterRecord, t.req = rt[p].req,
         rt' = [rt EXCEPT ![p] = t], TaskOK(t)', UNCHANGED <<rq, responses>>, CallsKept,
         \A req : req # rt[p].req => NoneFor(req)
  PROVE  RouterInv'
<1>0. RouterTypes /\ OnePlace /\ (\A s \in Paths : TaskOK(rt[s])) /\ ResponsesOK
  BY RouterInvIs
<1>1. /\ rt' \in [Paths -> RouterRecord \cup {RouterIdle}] /\ rt'[p] = t
      /\ \A s \in Paths : s # p => rt'[s] = rt[s]
  BY <1>0 DEF RouterTypes
<1>2. RouterTypes' /\ t.st # "idle"
  BY <1>0, <1>1 DEF RouterTypes, RouterRecord
<1> PICK n : n = rt[p].req
  OBVIOUS
<1>3. /\ \A s \in Paths : \A i \in DOMAIN rq[s] : rq[s][i].id # n
      /\ \A i \in DOMAIN responses : responses[i].req # n
      /\ \A s \in Paths : s # p => rt[s].st = "idle" \/ rt[s].req # n
  BY <1>0, InHand
<1>4. ASSUME NEW s \in Paths
      PROVE  TaskOK(rt[s])'
  <2>1. CASE s = p
    BY <1>1, <2>1 DEF TaskOK
  <2>2. CASE s # p
    <3> PICK u : u = rt[s]
      OBVIOUS
    <3>1. u.st # "idle" => NoneFor(u.req)
      BY <1>3, <2>2
    <3>2. TaskOK(u)'
      BY <1>0, <3>1, TaskStays
    <3> QED BY <1>1, <2>2, <3>2 DEF TaskOK
  <2> QED BY <2>1, <2>2
<1>5. ResponsesOK'
  <2>1. ASSUME NEW i \in DOMAIN responses
        PROVE  ResponseOK(responses[i])'
    <3> PICK r : r = responses[i]
      OBVIOUS
    <3>1. NoneFor(r.req)
      BY <1>3
    <3>2. ResponseOK(r)'
      BY <1>0, <3>1, ResponseStays DEF ResponsesOK
    <3> QED BY <3>2 DEF ResponseOK
  <2> QED BY <1>0, <2>1 DEF ResponsesOK
<1>6. OnePlace'
  <2>1. ASSUME NEW s \in Paths, NEW i \in DOMAIN rq[s], NEW c \in DOMAIN calls'
        PROVE  ~CallFor(c, rq[s][i].id)'
    <3> PICK m : m = rq[s][i].id
      OBVIOUS
    <3>1. (\A d \in DOMAIN calls : ~CallFor(d, m)) /\ NoneFor(m)
      BY <1>0, <1>3 DEF OnePlace
    <3>2. ~CallFor(c, m)'
      BY <3>1, NoneYet
    <3> QED BY <3>2 DEF CallFor
  <2>2. \A s \in Paths : \A i \in DOMAIN rq[s] : ~Responded(rq[s][i].id)'
    BY <1>0 DEF OnePlace, Responded
  <2>3. ASSUME NEW s \in Paths, rt'[s].st # "idle"
        PROVE  /\ rt[s].st # "idle" /\ rt'[s].req = rt[s].req
    BY <1>1, <2>3
  <2>4. ASSUME NEW s \in Paths, rt'[s].st # "idle"
        PROVE  /\ ~Queued(rt[s].req)' /\ ~Responded(rt[s].req)' /\ \A u \in Paths \ {s} : ~Handles(u, rt[s].req)'
    <3> PICK m : m = rt[s].req
      OBVIOUS
    <3>1. ~Queued(m) /\ ~Responded(m) /\ \A u \in Paths \ {s} : ~Handles(u, m)
      BY <1>0, <2>3, <2>4 DEF OnePlace
    <3>2. ~Queued(m)' /\ ~Responded(m)'
      BY <3>1 DEF Queued, Responded
    <3>3. \A u \in Paths \ {s} : ~Handles(u, m)'
      BY <2>3, <3>1 DEF Handles
    <3>4. rt'[s].req = m
      BY <2>3, <2>4
    <3> QED BY <3>2, <3>3, <3>4 DEF Queued, Responded, Handles
  <2> QED BY <1>0, <2>1, <2>2, <2>4 DEF OnePlace
<1> QED BY <1>2, <1>4, <1>5, <1>6, RouterInvNext

(* A task publishes its response and is done with the message. *)
LEMMA TaskEnds ==
  ASSUME RouterInv, NEW p \in Paths, rt[p].st # "idle",
         NEW r \in [req : Nat, kind : Replies, call : Nat, tried : Seq(Names)], r.req = rt[p].req,
         responses' = Append(responses, r), rt' = [rt EXCEPT ![p] = RouterIdle], rq' = rq,
         ResponseOK(r)', CallsKept, \A req : NoneFor(req)
  PROVE  RouterInv'
<1>0. RouterTypes /\ OnePlace /\ (\A s \in Paths : TaskOK(rt[s])) /\ ResponsesOK
  BY RouterInvIs
<1>1. /\ rt' \in [Paths -> RouterRecord \cup {RouterIdle}] /\ rt'[p] = RouterIdle
      /\ \A s \in Paths : s # p => rt'[s] = rt[s]
  BY <1>0 DEF RouterTypes
<1>2. /\ responses' \in Seq([req : Nat, kind : Replies, call : Nat, tried : Seq(Names)])
      /\ DOMAIN responses' = DOMAIN responses \cup {Len(responses) + 1} /\ responses'[Len(responses) + 1] = r
      /\ \A i \in DOMAIN responses : responses'[i] = responses[i] /\ i # Len(responses) + 1
  <2> DEFINE S == [req : Nat, kind : Replies, call : Nat, tried : Seq(Names)]
  <2>1. responses \in Seq(S) /\ r \in S
    BY <1>0 DEF RouterTypes
  <2> HIDE DEF S
  <2>2. /\ responses' \in Seq(S)
        /\ DOMAIN responses' = DOMAIN responses \cup {Len(responses) + 1} /\ responses'[Len(responses) + 1] = r
        /\ \A i \in DOMAIN responses : responses'[i] = responses[i] /\ i # Len(responses) + 1
    BY <2>1, AppendIs
  <2> QED BY <2>2 DEF S
<1>3. RouterTypes'
  BY <1>0, <1>1, <1>2 DEF RouterTypes
<1> PICK n : n = rt[p].req
  OBVIOUS
<1>4. /\ \A s \in Paths : \A i \in DOMAIN rq[s] : rq[s][i].id # n
      /\ \A i \in DOMAIN responses : responses[i].req # n
      /\ \A s \in Paths : s # p => rt[s].st = "idle" \/ rt[s].req # n
  BY <1>0, InHand
<1>5. ASSUME NEW s \in Paths
      PROVE  TaskOK(rt[s])'
  <2>1. CASE s = p
    BY <1>1, <2>1 DEF TaskOK, RouterIdle
  <2>2. CASE s # p
    <3> PICK u : u = rt[s]
      OBVIOUS
    <3>1. TaskOK(u)'
      BY <1>0, TaskStays
    <3> QED BY <1>1, <2>2, <3>1 DEF TaskOK
  <2> QED BY <2>1, <2>2
<1>6. ResponsesOK'
  <2>1. ASSUME NEW i \in DOMAIN responses'
        PROVE  ResponseOK(responses[i])'
    <3>1. CASE i \in DOMAIN responses
      <4> PICK x : x = responses[i]
        OBVIOUS
      <4>1. ResponseOK(x)'
        BY <1>0, <3>1, ResponseStays DEF ResponsesOK
      <4> QED BY <1>2, <3>1, <4>1 DEF ResponseOK
    <3>2. CASE i = Len(responses) + 1
      BY <1>2, <3>2 DEF ResponseOK
    <3> QED BY <1>2, <3>1, <3>2
  <2>2. ASSUME NEW i \in DOMAIN responses', NEW j \in DOMAIN responses', responses'[i].req = responses'[j].req
        PROVE  i = j
    <3>1. CASE i \in DOMAIN responses /\ j \in DOMAIN responses
      BY <1>0, <1>2, <2>2, <3>1 DEF ResponsesOK
    <3>2. \A k \in DOMAIN responses : responses'[k].req # n
      BY <1>2, <1>4
    <3>3. responses'[Len(responses) + 1].req = n
      BY <1>2
    <3> QED BY <1>2, <2>2, <3>1, <3>2, <3>3
  <2> QED BY <2>1, <2>2 DEF ResponsesOK
<1>7. OnePlace'
  <2>1. ASSUME NEW s \in Paths, NEW i \in DOMAIN rq[s], NEW c \in DOMAIN calls'
        PROVE  ~CallFor(c, rq[s][i].id)'
    <3> PICK m : m = rq[s][i].id
      OBVIOUS
    <3>1. (\A d \in DOMAIN calls : ~CallFor(d, m))
      BY <1>0 DEF OnePlace
    <3>2. ~CallFor(c, m)'
      BY <3>1, NoneYet
    <3> QED BY <3>2 DEF CallFor
  <2>2. ASSUME NEW m, m # n, ~Responded(m)
        PROVE  ~Responded(m)'
    BY <1>2, <2>2 DEF Responded
  <2>3. ASSUME NEW s \in Paths, NEW i \in DOMAIN rq[s]
        PROVE  ~Responded(rq[s][i].id)'
    <3> PICK m : m = rq[s][i].id
      OBVIOUS
    <3>1. ~Responded(m) /\ m # n
      BY <1>0, <1>4 DEF OnePlace
    <3>2. ~Responded(m)'
      BY <2>2, <3>1
    <3> QED BY <3>2 DEF Responded
  <2>4. ASSUME NEW s \in Paths, rt'[s].st # "idle"
        PROVE  /\ ~Queued(rt[s].req)' /\ ~Responded(rt[s].req)' /\ \A u \in Paths \ {s} : ~Handles(u, rt[s].req)'
    <3> PICK m : m = rt[s].req
      OBVIOUS
    <3>1. s # p /\ rt'[s] = rt[s] /\ rt[s].st # "idle"
      BY <1>1, <2>4 DEF RouterIdle
    <3>2. ~Queued(m) /\ ~Responded(m) /\ m # n /\ \A u \in Paths \ {s} : ~Handles(u, m)
      BY <1>0, <1>4, <3>1 DEF OnePlace
    <3>3. ~Queued(m)' /\ ~Responded(m)'
      BY <2>2, <3>2 DEF Queued
    <3>4. \A u \in Paths \ {s} : ~Handles(u, m)'
      BY <1>1, <3>2 DEF Handles, RouterIdle
    <3> QED BY <3>1, <3>3, <3>4 DEF Queued, Responded, Handles
  <2> QED BY <1>0, <2>1, <2>3, <2>4 DEF OnePlace
<1> QED BY <1>3, <1>5, <1>6, <1>7, RouterInvNext

(* A message is taken from the queue, and dropped or tried. *)
LEMMA HandleKeeps ==
  ASSUME RouterInv, NEW p \in Paths, HandleMessage(p)
  PROVE  RouterInv'
<1>0. RouterTypes /\ OnePlace /\ (\A s \in Paths : TaskOK(rt[s])) /\ ResponsesOK
  BY RouterInvIs
<1>1. rt[p].st = "idle" /\ rq[p] # <<>> /\ responses' = responses /\ calls' = calls /\ rq' = [rq EXCEPT ![p] = Tail(@)]
  BY DEF HandleMessage, providerVars
<1> PICK r, n : r = Head(rq[p]) /\ n = r.id
  OBVIOUS
<1>2. rq[p] \in Seq(RouterMessage)
  BY <1>0 DEF RouterTypes
<1>3. /\ r \in RouterMessage /\ r = rq[p][1] /\ 1 \in DOMAIN rq[p] /\ Tail(rq[p]) \in Seq(RouterMessage)
      /\ \A i \in DOMAIN Tail(rq[p]) : Tail(rq[p])[i] = rq[p][i + 1] /\ i + 1 \in DOMAIN rq[p] /\ i \in Nat /\ i + 1 # 1
  BY <1>1, <1>2
<1>4. /\ rq' \in [Paths -> Seq(RouterMessage)] /\ rq'[p] = Tail(rq[p])
      /\ \A s \in Paths : s # p => rq'[s] = rq[s]
  BY <1>0, <1>1, <1>3 DEF RouterTypes
<1>5. n \in Nat
  BY <1>3 DEF RouterMessage
<1>6. CallsKept /\ \A req : NoneFor(req)
  BY <1>1 DEF CallsKept, Kept, NoneFor
<1>7. ASSUME NEW s \in Paths, NEW i \in DOMAIN rq'[s]
      PROVE  \E j \in DOMAIN rq[s] : rq'[s][i] = rq[s][j] /\ (s = p => j = i + 1) /\ (s # p => j = i)
  <2>1. CASE s = p
    BY <1>3, <1>4, <1>7, <2>1
  <2>2. CASE s # p
    BY <1>4, <1>7, <2>2
  <2> QED BY <2>1, <2>2
<1>8. ASSUME NEW s \in Paths, NEW u \in Paths, NEW i \in DOMAIN rq'[s], NEW j \in DOMAIN rq'[u], rq'[s][i].id = rq'[u][j].id
      PROVE  s = u /\ i = j
  <2>1. PICK k \in DOMAIN rq[s] : rq'[s][i] = rq[s][k] /\ (s = p => k = i + 1) /\ (s # p => k = i)
    BY <1>7
  <2>2. PICK l \in DOMAIN rq[u] : rq'[u][j] = rq[u][l] /\ (u = p => l = j + 1) /\ (u # p => l = j)
    BY <1>7
  <2>3. s = u /\ k = l
    BY <1>0, <1>8, <2>1, <2>2 DEF OnePlace
  <2>4. CASE s = p
    <3>1. i \in Nat /\ j \in Nat
      BY <1>3, <1>4, <2>3, <2>4
    <3> QED BY <2>1, <2>2, <2>3, <2>4, <3>1
  <2> QED BY <2>1, <2>2, <2>3, <2>4
<1>9. ASSUME NEW s \in Paths, NEW i \in DOMAIN rq'[s]
      PROVE  /\ rq'[s][i].id # n /\ Queued(rq'[s][i].id)
             /\ \A j \in DOMAIN responses : responses[j].req # rq'[s][i].id
             /\ \A c \in DOMAIN calls : ~CallFor(c, rq'[s][i].id)
  <2>1. PICK k \in DOMAIN rq[s] : rq'[s][i] = rq[s][k] /\ (s = p => k = i + 1) /\ (s # p => k = i)
    BY <1>7
  <2>2. rq'[s][i].id # n
    <3>1. SUFFICES ASSUME rq[s][k].id = rq[p][1].id PROVE FALSE
      BY <1>3, <2>1
    <3>2. s = p /\ k = 1
      BY <1>0, <1>3, <3>1 DEF OnePlace
    <3>3. i \in Nat /\ i + 1 # 1
      BY <1>3, <1>4, <1>9, <3>2
    <3> QED BY <2>1, <3>2, <3>3
  <2> QED BY <1>0, <2>1, <2>2 DEF OnePlace, Queued, Responded
<1>10. /\ Queued(n) /\ \A j \in DOMAIN responses : responses[j].req # n
       /\ \A c \in DOMAIN calls : ~CallFor(c, n)
       /\ \A s \in Paths : rt[s].st # "idle" => rt[s].req # n
  <2>1. Queued(n)
    BY <1>3 DEF Queued
  <2> QED BY <1>0, <1>3, <2>1 DEF OnePlace, Responded
<1>11. \A m : Queued(m)' => Queued(m) /\ m # n
  BY <1>9 DEF Queued
<1>12. ASSUME NEW t, t = rt'[p], t = rt[p] \/ (t \in RouterRecord /\ t.req = n /\ TaskOK(t)'),
              \A s \in Paths : s # p => rt'[s] = rt[s], rt' \in [Paths -> RouterRecord \cup {RouterIdle}]
       PROVE  RouterInv'
  <2>1. RouterTypes'
    BY <1>0, <1>1, <1>4, <1>12 DEF RouterTypes
  <2>2. ResponsesOK'
    <3>1. ASSUME NEW i \in DOMAIN responses
          PROVE  ResponseOK(responses[i])'
      <4> PICK x : x = responses[i]
        OBVIOUS
      <4>1. ResponseOK(x)'
        BY <1>0, <1>6, ResponseStays DEF ResponsesOK
      <4> QED BY <1>1, <4>1 DEF ResponseOK
    <3> QED BY <1>0, <1>1, <3>1 DEF ResponsesOK
  <2>3. ASSUME NEW s \in Paths
        PROVE  TaskOK(rt[s])'
    <3>1. CASE rt'[s] = rt[s]
      <4> PICK u : u = rt[s]
        OBVIOUS
      <4>1. TaskOK(u)'
        BY <1>0, <1>6, TaskStays
      <4> QED BY <3>1, <4>1 DEF TaskOK
    <3>2. CASE rt'[s] # rt[s]
      <4>1. s = p /\ rt'[s] = t /\ TaskOK(t)'
        BY <1>12, <3>2
      <4> QED BY <4>1 DEF TaskOK
    <3> QED BY <3>1, <3>2
  <2>4. ASSUME NEW s \in Paths, rt'[s].st # "idle"
        PROVE  /\ ~Queued(rt[s].req)' /\ ~Responded(rt[s].req)' /\ \A u \in Paths \ {s} : ~Handles(u, rt[s].req)'
    <3> PICK m : m = rt'[s].req
      OBVIOUS
    <3>1. \A u \in Paths : rt'[u].st # "idle" => (u = p /\ rt'[u].req = n) \/ (u # p /\ rt'[u] = rt[u] /\ rt[u].req # n)
      BY <1>1, <1>10, <1>12
    <3>2. CASE s = p
      <4>1. m = n
        BY <2>4, <3>1, <3>2
      <4>2. ~Queued(m)' /\ ~Responded(m)' /\ \A u \in Paths \ {s} : ~Handles(u, m)'
        BY <1>1, <1>10, <1>11, <3>1, <3>2, <4>1 DEF Responded, Handles
      <4> QED BY <4>2 DEF Queued, Responded, Handles
    <3>3. CASE s # p
      <4>1. rt'[s] = rt[s] /\ m # n /\ rt[s].st # "idle" /\ m = rt[s].req
        BY <2>4, <3>1, <3>3
      <4>2. ~Queued(m) /\ ~Responded(m) /\ \A u \in Paths \ {s} : ~Handles(u, m)
        BY <1>0, <4>1 DEF OnePlace
      <4>3. ~Queued(m)' /\ ~Responded(m)'
        BY <1>1, <1>11, <4>2 DEF Responded
      <4>4. \A u \in Paths \ {s} : ~Handles(u, m)'
        BY <3>1, <4>1, <4>2 DEF Handles
      <4> QED BY <4>3, <4>4 DEF Queued, Responded, Handles
    <3> QED BY <3>2, <3>3
  <2>5. \A s \in Paths : \A i \in DOMAIN rq'[s] :
          ~Responded(rq[s][i].id)' /\ \A c \in DOMAIN calls' : ~CallFor(c, rq[s][i].id)'
    BY <1>1, <1>9 DEF Responded, CallFor
  <2>6. OnePlace'
    BY <1>8, <2>4, <2>5 DEF OnePlace
  <2> QED BY <2>1, <2>2, <2>3, <2>6, RouterInvNext
<1>13. CASE rt' = rt
  BY <1>0, <1>12, <1>13 DEF RouterTypes
<1>14. ASSUME NEW pf, rt' = [rt EXCEPT ![p] = [RouterIdle EXCEPT !.st = "trying", !.req = n,
                                                 !.tries = get_providers_to_try(pf)]]
       PROVE  RouterInv'
  <2> PICK ps : ps = get_providers_to_try(pf)
    OBVIOUS
  <2>1. ps \in Seq(Names) /\ EveryProvider(ps)
    BY EveryProviderTried
  <2> PICK t : t = [RouterIdle EXCEPT !.st = "trying", !.req = n, !.tries = ps]
    OBVIOUS
  <2>2. t.st = "trying" /\ t.req = n /\ t.tries = ps /\ t.tried = <<>>
    BY DEF RouterIdle
  <2>3. t \in RouterRecord
    <3>1. ASSUME NEW e \in Seq(Names)
          PROVE  [st |-> "trying", req |-> n, tries |-> ps, tried |-> e, call |-> 0] \in RouterRecord
      BY <1>5, <2>1 DEF RouterRecord
    <3>2. t = [st |-> "trying", req |-> n, tries |-> ps, tried |-> <<>>, call |-> 0]
      BY DEF RouterIdle
    <3>3. <<>> \in Seq(Names)
      OBVIOUS
    <3> QED BY <3>1, <3>2, <3>3, ZenonT(60)
  <2>4. <<>> \o ps = ps
    BY <2>1
  <2>5. SentInOrder(n, <<>>)
    BY <1>10, NothingSent
  <2>6. TaskOK(t)
    BY <2>1, <2>2, <2>4, <2>5 DEF TaskOK
  <2>7. TaskOK(t)'
    BY <1>6, <2>6, TaskStays
  <2>8. /\ rt' \in [Paths -> RouterRecord \cup {RouterIdle}] /\ rt'[p] = t
        /\ \A s \in Paths : s # p => rt'[s] = rt[s]
    BY <1>0, <1>14, <2>3 DEF RouterTypes
  <2> QED BY <1>12, <2>2, <2>3, <2>7, <2>8
<1> QED BY <1>13, <1>14 DEF HandleMessage

(* A task of the router that is not idle has its record. *)
LEMMA TaskIs ==
  ASSUME RouterTypes, NEW p \in Paths, rt[p].st # "idle"
  PROVE  rt[p] \in RouterRecord
  BY DEF RouterTypes, RouterIdle

(* The next provider is asked. *)
LEMMA TryKeeps ==
  ASSUME calls \in Seq(CallRecord), RouterInv, NEW p \in Paths, TryProvider(p)
  PROVE  /\ RouterInv' /\ CallsKept
         /\ \E q \in Names, who \in Who : calls' = Append(calls, NewCall(q, who)) /\ who.agent = None
<1>0. RouterTypes /\ OnePlace /\ TaskOK(rt[p])
  BY RouterInvIs
<1>1. rt[p].st = "trying" /\ rt[p].tries # <<>> /\ rq' = rq /\ responses' = responses
  BY DEF TryProvider
<1> PICK n, q, who : n = rt[p].req /\ q = Head(rt[p].tries) /\ who = [agent |-> None, id |-> rt[p].req, depth |-> 0, chat |-> None]
  OBVIOUS
<1>2. rt[p] \in RouterRecord
  BY <1>0, <1>1, TaskIs
<1>3. n \in Nat /\ rt[p].tries \in Seq(Names) /\ rt[p].tried \in Seq(Names)
  BY <1>2 DEF RouterRecord
<1> PICK ahead, done : ahead = Tail(rt[p].tries) /\ done = Append(rt[p].tried, q)
  OBVIOUS
<1>4. q \in Names /\ ahead \in Seq(Names) /\ done \in Seq(Names) /\ done \o ahead = rt[p].tried \o rt[p].tries
  BY <1>1, <1>3, NextTry
<1>5. who \in Who /\ who.agent = None /\ who.id = n
  BY <1>3 DEF Who, AgentIds
<1>6. calls' = Append(calls, NewCall(q, who))
  BY DEF TryProvider
<1>7. OneMore(q, who)
  BY <1>4, <1>5, <1>6, NewCallOneMore
<1>8. CallsKept /\ \A req : req # n => NoneFor(req)
  BY <1>5, <1>7 DEF OneMore, CallsKept, NoneFor, CallFor
<1> PICK l : l = Len(calls')
  OBVIOUS
<1>9. l = Len(calls) + 1 /\ l \in Nat
  BY <1>7 DEF OneMore
<1> PICK t : t = [rt[p] EXCEPT !.st = "waiting", !.call = l, !.tries = ahead, !.tried = done]
  OBVIOUS
<1>10. t \in RouterRecord /\ t.st = "waiting" /\ t.req = n /\ t.call = l /\ t.tries = ahead /\ t.tried = done
  BY <1>2, <1>4, <1>9 DEF RouterRecord
<1>11. rt' = [rt EXCEPT ![p] = t]
  BY DEF TryProvider
<1>12. SentInOrder(n, done)'
  <2>1. SentInOrder(n, rt[p].tried)
    BY <1>0, <1>1 DEF TaskOK
  <2> PICK tried : tried = rt[p].tried
    OBVIOUS
  <2>2. SentInOrder(n, Append(tried, q))'
    BY <1>3, <1>4, <1>5, <1>7, <2>1, SentOneMore
  <2> QED BY <2>2
<1>13. CallFor(l, n)'
  BY <1>5, <1>7, <1>9 DEF OneMore, CallFor
<1>14. EveryProvider(done \o ahead)
  BY <1>0, <1>1, <1>4 DEF TaskOK
<1>15. TaskOK(t)'
  <2> PICK e : e = done \o ahead
    OBVIOUS
  <2>1. EveryProvider(e)' = EveryProvider(e)
    BY DEF EveryProvider
  <2>2. EveryProvider(t.tried \o t.tries)'
    BY <1>10, <1>14, <2>1
  <2> QED BY <1>10, <1>12, <1>13, <2>2 DEF TaskOK
<1>16. RouterInv'
  BY <1>1, <1>8, <1>10, <1>11, <1>15, TaskMoves
<1> QED BY <1>4, <1>5, <1>6, <1>8, <1>16

(* Whoever gives up waiting. *)
LEMMA GivenUp ==
  ASSUME calls \in Seq(CallRecord), NEW c \in DOMAIN calls, NEW how \in {"took", "left"}, calls' = GiveUp(c, how)
  PROVE  CallsKept /\ \A req : NoneFor(req)
<1>1. SameCalls
  BY GiveUpSame
<1> QED BY <1>1 DEF SameCalls, CallsKept, NoneFor

(* An answer, the end of a wait, or the end of the list. *)
LEMMA OutcomeKeeps ==
  ASSUME calls \in Seq(CallRecord), RouterInv, NEW p \in Paths,
         ProviderAnswered(p) \/ ProviderFailed(p) \/ AllProvidersFailed(p)
  PROVE  /\ RouterInv' /\ CallsKept
         /\ \/ calls' = calls
            \/ \E c \in DOMAIN calls, how \in {"took", "left"} :
                 calls[c].from.agent = None /\ calls' = GiveUp(c, how)
<1>0. RouterTypes /\ OnePlace /\ TaskOK(rt[p])
  BY RouterInvIs
<1>1. rt[p].st \in {"trying", "waiting"}
  BY DEF ProviderAnswered, ProviderFailed, AllProvidersFailed
<1>2. rt[p] \in RouterRecord
  BY <1>0, <1>1, TaskIs
<1> PICK n, c, tried : n = rt[p].req /\ c = rt[p].call /\ tried = rt[p].tried
  OBVIOUS
<1>3. n \in Nat /\ c \in Nat /\ tried \in Seq(Names)
  BY <1>2 DEF RouterRecord
<1>4. SentInOrder(n, tried) /\ EveryProvider(tried \o rt[p].tries)
  BY <1>0, <1>1 DEF TaskOK
<1>5. ASSUME rt[p].st = "waiting"
      PROVE  c \in DOMAIN calls /\ CallFor(c, n)
  BY <1>0, <1>5 DEF TaskOK, CallFor
<1>6. CASE ProviderAnswered(p)
  <2>1. rt[p].st = "waiting" /\ calls' = GiveUp(c, "took") /\ calls[c].st = "answered" /\ rq' = rq /\ rt' = [rt EXCEPT ![p] = RouterIdle]
    BY <1>6 DEF ProviderAnswered
  <2>2. CallsKept /\ (\A req : NoneFor(req)) /\ c \in DOMAIN calls /\ CallFor(c, n)
    BY <1>5, <2>1, GivenUp
  <2> PICK r : r = [req |-> n, kind |-> calls[c].reply, call |-> c, tried |-> tried]
    OBVIOUS
  <2>3. calls[c] \in CallRecord
    BY <2>2
  <2>4. calls[c].reply \in Replies
    BY <2>3 DEF CallRecord
  <2>5. r \in [req : Nat, kind : Replies, call : Nat, tried : Seq(Names)] /\ r.req = n /\ r.call = c /\ r.tried = tried /\ r.kind = calls[c].reply
    BY <1>3, <2>4
  <2>6. c # 0
    BY <2>2
  <2>7. ResponseOK(r)
    BY <1>4, <2>1, <2>2, <2>5, <2>6 DEF ResponseOK
  <2>8. ResponseOK(r)'
    BY <2>2, <2>7, ResponseStays
  <2>9. responses' = Append(responses, r)
    BY <1>6 DEF ProviderAnswered
  <2>10. RouterInv'
    BY <1>1, <2>1, <2>2, <2>5, <2>8, <2>9, TaskEnds
  <2> QED BY <2>1, <2>2, <2>10 DEF CallFor
<1>7. CASE ProviderFailed(p)
  <2>1. rt[p].st = "waiting" /\ calls' = GiveUp(c, "left") /\ rq' = rq /\ responses' = responses
    BY <1>7 DEF ProviderFailed
  <2>2. CallsKept /\ (\A req : NoneFor(req)) /\ c \in DOMAIN calls /\ calls[c].from.agent = None
    BY <1>5, <2>1, GivenUp DEF CallFor
  <2> PICK t : t = [rt[p] EXCEPT !.st = "trying", !.call = 0]
    OBVIOUS
  <2>3. t \in RouterRecord /\ t.st = "trying" /\ t.req = n /\ t.tries = rt[p].tries /\ t.tried = tried
    BY <1>2 DEF RouterRecord
  <2>4. rt' = [rt EXCEPT ![p] = t]
    BY <1>7 DEF ProviderFailed
  <2>5. TaskOK(t)
    BY <1>4, <2>3 DEF TaskOK
  <2>6. TaskOK(t)'
    BY <2>2, <2>5, TaskStays
  <2>7. RouterInv'
    BY <1>1, <2>1, <2>2, <2>3, <2>4, <2>6, TaskMoves
  <2> QED BY <2>1, <2>2, <2>7
<1>8. CASE AllProvidersFailed(p)
  <2>1. rt[p].tries = <<>> /\ calls' = calls /\ rq' = rq /\ rt' = [rt EXCEPT ![p] = RouterIdle]
    BY <1>8 DEF AllProvidersFailed, providerVars
  <2>2. CallsKept /\ \A req : NoneFor(req)
    BY <2>1 DEF CallsKept, Kept, NoneFor
  <2> PICK r : r = [req |-> n, kind |-> "error", call |-> 0, tried |-> tried]
    OBVIOUS
  <2>3. r \in [req : Nat, kind : Replies, call : Nat, tried : Seq(Names)] /\ r.req = n /\ r.call = 0 /\ r.tried = tried
    BY <1>3 DEF Replies
  <2>4. tried \o rt[p].tries = tried
    BY <1>3, <2>1, WithNothing
  <2>5. ResponseOK(r)
    BY <1>4, <2>3, <2>4 DEF ResponseOK
  <2>6. ResponseOK(r)'
    BY <2>2, <2>5, ResponseStays
  <2>7. responses' = Append(responses, r)
    BY <1>8 DEF AllProvidersFailed
  <2>8. RouterInv'
    BY <1>1, <2>1, <2>2, <2>3, <2>6, <2>7, TaskEnds
  <2> QED BY <2>1, <2>2, <2>8
<1> QED BY <1>6, <1>7, <1>8

-----------------------------------------------------------------------------
(* What the agents have asked for                                           *)

(* A step that asks for no event and leaves the agents' requests alone. *)
AgentCallsKept ==
  /\ \A c \in DOMAIN calls :
       /\ c \in DOMAIN calls' /\ calls'[c].from = calls[c].from
       /\ calls[c].from.agent \in Agents => calls'[c].caller = calls[c].caller
  /\ \A c \in DOMAIN calls' : calls'[c].from.agent \in Agents => c \in DOMAIN calls
TurnsGoOn ==
  \A a \in Agents : Asked(a)' =>
    /\ Asked(a) /\ turn'[a].call = turn[a].call /\ turn'[a].ev = turn[a].ev
    /\ turn[a].st = "llm" => turn'[a].st = "llm"
NobodyWaits == \A a \in Agents, n \in 1..events : Waiting(a, n)' => Waiting(a, n)
NoAnswerSent ==
  \A i \in DOMAIN outbound' : outbound'[i].ev # 0 => i \in DOMAIN outbound /\ outbound'[i] = outbound[i]

(* Such a step keeps them in order. *)
LEMMA RequestsStay ==
  ASSUME AgentInv, RequestInv, events' \in Nat, events <= events',
         AgentCallsKept, TurnsGoOn, NobodyWaits, NoAnswerSent
  PROVE  RequestInv'
<1>0. events \in Nat /\ \A a \in Agents : AskedOK(a)
  BY DEF AgentInv, AgentTypes, AnswerInv
<1>1. ASSUME NEW c \in DOMAIN calls', NEW a \in Agents, calls'[c].from.agent = a
      PROVE  c \in DOMAIN calls /\ calls[c].from = calls'[c].from /\ calls'[c].caller = calls[c].caller
  BY <1>1 DEF AgentCallsKept
<1>2. AskedOnce'
  BY <1>1 DEF RequestInv, AskedOnce, AskedFor
<1>3. ASSUME NEW c \in DOMAIN calls', NEW a \in Agents, calls'[c].from.agent = a
      PROVE  (calls[c].from.id \in 1..events /\ ~Waiting(a, calls[c].from.id))'
  <2> PICK n : n = calls'[c].from.id
    OBVIOUS
  <2>1. c \in DOMAIN calls /\ calls[c].from.agent = a /\ calls[c].from.id = n
    BY <1>1, <1>3
  <2>2. n \in 1..events /\ ~Waiting(a, n)
    BY <2>1 DEF RequestInv, NotYetAsked
  <2>3. ~Waiting(a, n)'
    BY <2>2 DEF NobodyWaits
  <2>4. n \in 1..events'
    BY <1>0, <2>2
  <2> QED BY <2>3, <2>4 DEF Waiting
<1>4. NotYetAsked'
  BY <1>3 DEF NotYetAsked
<1>5. ASSUME NEW a \in Agents
      PROVE  TurnAsked(a)'
  <2> SUFFICES ASSUME Asked(a)' PROVE TurnAsked(a)'
    BY DEF TurnAsked
  <2> PICK c : c = turn[a].call
    OBVIOUS
  <2>1. /\ Asked(a) /\ turn'[a].call = c /\ turn'[a].ev = turn[a].ev
        /\ turn[a].st = "llm" => turn'[a].st = "llm"
    BY DEF TurnsGoOn
  <2>2. c \in DOMAIN calls /\ calls[c].from.agent = a
    BY <1>0, <2>1 DEF AskedOK
  <2>3. calls'[c].from = calls[c].from /\ calls'[c].caller = calls[c].caller
    BY <2>2 DEF AgentCallsKept
  <2>4. /\ calls[c].from.chat = turn[a].ev.chat
        /\ turn[a].st # "llm" => calls[c].caller = "took"
    BY <2>1 DEF RequestInv, TurnAsked
  <2> QED BY <2>1, <2>3, <2>4 DEF TurnAsked
<1>6. ASSUME NEW i \in DOMAIN outbound', outbound'[i].ev # 0
      PROVE  /\ outbound'[i].by \in Agents
             /\ \A c \in DOMAIN calls' : AskedFor(c, outbound[i].by, outbound[i].ev)' =>
                  calls'[c].from.chat = outbound'[i].chat /\ calls'[c].caller = "took"
  <2>1. i \in DOMAIN outbound /\ outbound'[i] = outbound[i]
    BY <1>6 DEF NoAnswerSent
  <2>2. outbound[i].by \in Agents
    BY <1>6, <2>1 DEF RequestInv, Taken
  <2>3. ASSUME NEW c \in DOMAIN calls', calls'[c].from.agent = outbound[i].by, calls'[c].from.id = outbound[i].ev
        PROVE  calls'[c].from.chat = outbound[i].chat /\ calls'[c].caller = "took"
    <3>1. c \in DOMAIN calls /\ calls[c].from = calls'[c].from /\ calls'[c].caller = calls[c].caller
      BY <1>1, <2>2, <2>3
    <3> QED BY <1>6, <2>1, <2>3, <3>1 DEF RequestInv, Taken, AskedFor
  <2> QED BY <2>1, <2>2, <2>3 DEF AskedFor
<1>7. Taken'
  BY <1>6 DEF Taken, AskedFor
<1> QED BY <1>2, <1>4, <1>5, <1>7 DEF RequestInv

(* Nothing happens to the agents' turns, though events may come in and      *)
(* notifications go out.                                                    *)
LEMMA RequestsLeft ==
  ASSUME AgentInv, RequestInv, events' \in Nat, events <= events', AgentCallsKept, NoAnswerSent,
         turn' = turn,
         \A a \in Agents : inbox'[a] = inbox[a] \/ \E x : x.id = events + 1 /\ inbox'[a] = Append(inbox[a], x)
  PROVE  RequestInv'
<1>1. TurnsGoOn
  BY DEF TurnsGoOn, Asked
<1>2. ASSUME NEW a \in Agents, NEW n \in 1..events, Waiting(a, n)'
      PROVE  Waiting(a, n)
  <2>1. CASE inbox'[a] = inbox[a]
    BY <1>2, <2>1 DEF Waiting
  <2>2. ASSUME NEW x, x.id = events + 1, inbox'[a] = Append(inbox[a], x)
        PROVE  Waiting(a, n)
    <3>0. events \in Nat /\ inbox[a] \in Seq(EventRecord)
      BY DEF AgentInv, AgentTypes
    <3>1. \A i \in DOMAIN inbox'[a] : i \in DOMAIN inbox[a] \/ inbox'[a][i] = x
      BY <2>2, <3>0
    <3>2. \A i \in DOMAIN inbox[a] : inbox'[a][i] = inbox[a][i]
      BY <2>2, <3>0
    <3>3. n # x.id
      BY <2>2, <3>0
    <3> QED BY <1>2, <3>1, <3>2, <3>3 DEF Waiting
  <2> QED BY <2>1, <2>2
<1>3. NobodyWaits
  BY <1>2 DEF NobodyWaits
<1> QED BY <1>1, <1>3, RequestsStay

(* The agents do not take part. *)
LEMMA NothingComes ==
  ASSUME AgentInv, RequestInv, AgentCallsKept, UNCHANGED <<inbox, turn, outbound, events>>
  PROVE  RequestInv'
<1>1. events' \in Nat /\ events <= events'
  BY DEF AgentInv, AgentTypes
<1>2. NoAnswerSent
  BY DEF NoAnswerSent
<1> QED BY <1>1, <1>2, RequestsLeft

(* An event with the next number. *)
LEMMA EventComes ==
  ASSUME AgentInv, RequestInv, AgentCallsKept, NoAnswerSent, turn' = turn, events' = events + 1,
         NEW b, NEW kind, NEW chat, NEW conv, NEW depth, Send(b, Event(events', kind, chat, conv, depth))
  PROVE  RequestInv'
<1> PICK x : x = Event(events', kind, chat, conv, depth)
  OBVIOUS
<1>1. x.id = events + 1 /\ events \in Nat /\ inbox \in [Agents -> Seq(EventRecord)]
  BY DEF Event, AgentInv, AgentTypes
<1>2. \A a \in Agents : inbox'[a] = inbox[a] \/ inbox'[a] = Append(inbox[a], x)
  BY <1>1 DEF Send
<1>3. events' \in Nat /\ events <= events'
  BY <1>1
<1> QED BY <1>1, <1>2, <1>3, RequestsLeft

(* The steps of a turn that neither ask nor answer. *)
LEMMA TurnRequests ==
  ASSUME AgentInv, RequestInv, NEW a \in Agents,
         \/ TakeEvent(a) \/ FindConversation(a) \/ CreateConversation(a) \/ AppendUser(a) \/ AppendAssistant(a)
         \/ (PublishAnswer(a) /\ outbound' = outbound)
  PROVE  RequestInv'
<1>0. AgentTypes /\ events \in Nat /\ turn \in [Agents -> TurnRecord \cup {NoTurn}]
  BY DEF AgentInv, AgentTypes
<1>1. UNCHANGED <<outbound, events, calls>>
  BY DEF TakeEvent, FindConversation, CreateConversation, AppendUser, AppendAssistant, PublishAnswer, providerVars
<1>2. AgentCallsKept /\ NoAnswerSent /\ events' \in Nat /\ events <= events'
  BY <1>0, <1>1 DEF AgentCallsKept, NoAnswerSent
<1>3. PICK t : Step(a, t) /\ \/ t = NoTurn
                             \/ /\ t.st \in {"create", "load"} /\ turn[a].st \in {"find", "create"} /\ t.ev = turn[a].ev
                             \/ /\ t.st \in {"assistant", "publish"} /\ turn[a].st \in {"user", "assistant"}
                                /\ t.ev = turn[a].ev /\ t.call = turn[a].call
                             \/ t.st = "find" /\ inbox[a] # <<>> /\ t.ev = Head(inbox[a])
  <2>1. CASE TakeEvent(a)
    <3> PICK t : t = [NoTurn EXCEPT !.st = "find", !.ev = Head(inbox[a])]
      OBVIOUS
    <3>1. Step(a, t) /\ t.st = "find" /\ inbox[a] # <<>> /\ t.ev = Head(inbox[a])
      BY <2>1 DEF TakeEvent, NoTurn
    <3> QED BY <3>1
  <2>2. CASE PublishAnswer(a)
    BY <2>2 DEF PublishAnswer
  <2>3. ASSUME turn[a].st # "idle"
        PROVE  turn[a] \in TurnRecord
    BY <1>0, <2>3, TurnIs
  <2>4. CASE FindConversation(a)
    <3>0. turn[a].st = "find" /\ turn[a] \in TurnRecord
      BY <2>3, <2>4 DEF FindConversation
    <3>1. \/ \E n : Step(a, [turn[a] EXCEPT !.st = "load", !.conv = n])
          \/ Step(a, [turn[a] EXCEPT !.st = "create"])
      BY <2>4 DEF FindConversation
    <3>2. CASE Step(a, [turn[a] EXCEPT !.st = "create"])
      <4> PICK t : t = [turn[a] EXCEPT !.st = "create"]
        OBVIOUS
      <4>1. t.st = "create" /\ t.ev = turn[a].ev
        BY <3>0 DEF TurnRecord
      <4> QED BY <3>0, <3>2, <4>1
    <3>3. ASSUME NEW n, Step(a, [turn[a] EXCEPT !.st = "load", !.conv = n])
          PROVE  \E t : Step(a, t) /\ t.st \in {"create", "load"} /\ t.ev = turn[a].ev
      <4> PICK t : t = [turn[a] EXCEPT !.st = "load", !.conv = n]
        OBVIOUS
      <4>1. t.st = "load" /\ t.ev = turn[a].ev
        BY <3>0 DEF TurnRecord
      <4> QED BY <3>3, <4>1
    <3> QED BY <3>0, <3>1, <3>2, <3>3
  <2>5. CASE CreateConversation(a)
    <3>0. turn[a].st = "create" /\ turn[a] \in TurnRecord
      BY <2>3, <2>5 DEF CreateConversation
    <3>1. (\E n : Step(a, [turn[a] EXCEPT !.st = "load", !.conv = n])) \/ Step(a, NoTurn)
      BY <2>5 DEF CreateConversation
    <3>2. ASSUME NEW n, Step(a, [turn[a] EXCEPT !.st = "load", !.conv = n])
          PROVE  \E t : Step(a, t) /\ t.st \in {"create", "load"} /\ t.ev = turn[a].ev
      <4> PICK t : t = [turn[a] EXCEPT !.st = "load", !.conv = n]
        OBVIOUS
      <4>1. t.st = "load" /\ t.ev = turn[a].ev
        BY <3>0 DEF TurnRecord
      <4> QED BY <3>2, <4>1
    <3> QED BY <3>0, <3>1, <3>2
  <2>6. CASE AppendUser(a) \/ AppendAssistant(a)
    <3>0. turn[a].st \in {"user", "assistant"} /\ turn[a] \in TurnRecord
      BY <2>3, <2>6 DEF AppendUser, AppendAssistant
    <3>1. PICK st \in {"assistant", "publish"} : Step(a, [turn[a] EXCEPT !.st = st])
      BY <2>6 DEF AppendUser, AppendAssistant
    <3> PICK t : t = [turn[a] EXCEPT !.st = st]
      OBVIOUS
    <3>2. t.st = st /\ t.ev = turn[a].ev /\ t.call = turn[a].call
      BY <3>0 DEF TurnRecord
    <3> QED BY <3>0, <3>1, <3>2
  <2> QED BY <2>1, <2>2, <2>4, <2>5, <2>6
<1>4. turn'[a] = t /\ \A b \in Agents : b # a => turn'[b] = turn[b]
  BY <1>0, <1>3 DEF Step
<1>5. \A b \in Agents : b # a => inbox'[b] = inbox[b]
  BY <1>0 DEF AgentTypes, TakeEvent, FindConversation, CreateConversation, AppendUser, AppendAssistant, PublishAnswer
<1>6. inbox[a] \in Seq(EventRecord) /\ (inbox'[a] = inbox[a] \/ (inbox'[a] = Tail(inbox[a]) /\ inbox[a] # <<>>))
  <2>1. inbox \in [Agents -> Seq(EventRecord)]
    BY <1>0 DEF AgentTypes
  <2>2. CASE TakeEvent(a)
    <3>1. inbox' = [inbox EXCEPT ![a] = Tail(inbox[a])] /\ inbox[a] # <<>>
      BY <2>2 DEF TakeEvent
    <3> QED BY <2>1, <3>1
  <2>3. CASE ~TakeEvent(a)
    <3>1. inbox' = inbox
      BY <2>3 DEF FindConversation, CreateConversation, AppendUser, AppendAssistant, PublishAnswer
    <3> QED BY <2>1, <3>1
  <2> QED BY <2>2, <2>3
<1>7. TurnsGoOn
  BY <1>3, <1>4 DEF TurnsGoOn, Asked, NoTurn
<1>8. ASSUME NEW n, Waiting(a, n)'
      PROVE  Waiting(a, n)
  <2>1. \A i \in DOMAIN inbox'[a] : \E j \in DOMAIN inbox[a] : inbox'[a][i] = inbox[a][j]
    <3>1. CASE inbox'[a] = inbox[a]
      BY <3>1
    <3>2. CASE inbox'[a] = Tail(inbox[a]) /\ inbox[a] # <<>>
      <4>1. \A i \in DOMAIN inbox'[a] : i + 1 \in DOMAIN inbox[a] /\ inbox'[a][i] = inbox[a][i + 1]
        BY <1>6, <3>2
      <4> QED BY <4>1
    <3> QED BY <1>6, <3>1, <3>2
  <2>2. inbox[a] # <<>> => 1 \in DOMAIN inbox[a] /\ Head(inbox[a]) = inbox[a][1]
    BY <1>6
  <2>3. CASE \E i \in DOMAIN inbox'[a] : inbox'[a][i].id = n
    BY <2>1, <2>3 DEF Waiting
  <2>4. CASE turn'[a].st \in {"find", "create", "load"} /\ turn'[a].ev.id = n
    BY <1>3, <1>4, <2>2, <2>4 DEF Waiting, NoTurn
  <2> QED BY <1>8, <2>3, <2>4 DEF Waiting
<1>9. NobodyWaits
  BY <1>4, <1>5, <1>8 DEF NobodyWaits, Waiting
<1> QED BY <1>2, <1>7, <1>9, RequestsStay

(* A provider is asked for an event nobody has asked for; an answer is      *)
(* taken; or a turn leaves a request whose event has got no answer.         *)
LEMMA WaitRequests ==
  ASSUME ProviderInv, AgentInv, RequestInv, NEW a \in Agents, AskProvider(a) \/ TakeAnswer(a) \/ AnswerTimedOut(a)
  PROVE  RequestInv'
<1>0. /\ AgentTypes /\ calls \in Seq(CallRecord) /\ events \in Nat /\ turn \in [Agents -> TurnRecord \cup {NoTurn}]
      /\ EventsInOrder /\ AnswerInv
  BY DEF AgentInv, AgentTypes, ProviderInv, ProviderTypes
<1>1. UNCHANGED <<inbox, outbound, events>>
  BY DEF AskProvider, TakeAnswer, AnswerTimedOut
<1>2. turn[a].st \in {"load", "llm"} /\ turn[a] \in TurnRecord /\ turn[a].ev \in EventRecord
  BY <1>0, TurnIs DEF AskProvider, TakeAnswer, AnswerTimedOut
<1> PICK id : id = turn[a].ev.id
  OBVIOUS
<1>3. /\ id \in 1..events /\ Has(a, id)
      /\ \A i \in DOMAIN inbox[a] : inbox[a][i].id # id
  <2>1. InOrder(a)
    BY <1>0 DEF EventsInOrder
  <2>2. id \in 1..events /\ \A i \in DOMAIN inbox[a] : id < inbox[a][i].id /\ inbox[a][i].id \in 1..events
    BY <1>2, <2>1 DEF InOrder
  <2>3. Has(a, id)
    BY <1>2 DEF Has
  <2> QED BY <1>0, <2>2, <2>3
<1>4. \A i \in DOMAIN outbound : outbound[i].ev # id
  BY <1>0, <1>3 DEF AnswerInv
<1>5. ASSUME NEW t, Step(a, t), t.st \notin {"find", "create", "load"}
      PROVE  /\ turn'[a] = t /\ \A b \in Agents : b # a => turn'[b] = turn[b] /\ Asked(b)' = Asked(b)
             /\ \A b \in Agents : \A n : Waiting(b, n)' => Waiting(b, n)
             /\ ~Waiting(a, id)'
  <2>1. turn'[a] = t /\ \A b \in Agents : b # a => turn'[b] = turn[b]
    BY <1>0, <1>5 DEF Step
  <2>2. \A b \in Agents : \A n : Waiting(b, n)' => Waiting(b, n)
    BY <1>1, <1>5, <2>1 DEF Waiting
  <2>3. \A b \in Agents : b # a => Asked(b)' = Asked(b)
    BY <2>1 DEF Asked
  <2>4. ~Waiting(a, id)'
    BY <1>1, <1>3, <1>5, <2>1 DEF Waiting
  <2> QED BY <2>1, <2>2, <2>3, <2>4
<1>6. CASE AskProvider(a)
  <2> PICK n, who : n = Len(calls) + 1 /\ who = AskerOf(a)
    OBVIOUS
  <2>1. who \in Who /\ who.agent = a /\ who.id = id /\ who.chat = turn[a].ev.chat
    BY <1>2 DEF AskerOf, Who, AgentIds, EventRecord
  <2>2. OneMore(LlmProvider, who)
    <3>1. calls' = Append(calls, NewCall(LlmProvider, who)) /\ LlmProvider \in Names
      BY <1>6 DEF AskProvider, AskerOf, Names
    <3> QED BY <1>0, <2>1, <3>1, NewCallOneMore
  <2>3. /\ DOMAIN calls' = DOMAIN calls \cup {n} /\ n \notin DOMAIN calls /\ calls'[n].from = who
        /\ \A c \in DOMAIN calls : calls'[c].from = calls[c].from /\ calls'[c].caller = calls[c].caller
    BY <2>2 DEF OneMore, Untouched
  <2> PICK t : t = [turn[a] EXCEPT !.st = "llm", !.call = n]
    OBVIOUS
  <2>4. t.ev = turn[a].ev /\ t.st = "llm" /\ t.call = n /\ Step(a, t) /\ turn[a].st = "load"
    BY <1>2, <1>6 DEF TurnRecord, AskProvider
  <2>5. /\ turn'[a] = t /\ \A b \in Agents : b # a => turn'[b] = turn[b] /\ Asked(b)' = Asked(b)
        /\ \A b \in Agents : \A m : Waiting(b, m)' => Waiting(b, m)
        /\ ~Waiting(a, id)'
    BY <1>5, <2>4
  <2>6. \A c \in DOMAIN calls : ~AskedFor(c, a, id)
    BY <2>4 DEF RequestInv, NotYetAsked, AskedFor, Waiting
  <2>7. ASSUME NEW b \in Agents, NEW m, NEW c \in DOMAIN calls', NEW d \in DOMAIN calls',
               AskedFor(c, b, m)', AskedFor(d, b, m)'
        PROVE  c = d
    <3>1. CASE c = n
      BY <2>1, <2>3, <2>6, <2>7, <3>1 DEF AskedFor
    <3>2. CASE d = n
      BY <2>1, <2>3, <2>6, <2>7, <3>2 DEF AskedFor
    <3>3. CASE c \in DOMAIN calls /\ d \in DOMAIN calls
      BY <2>3, <2>7, <3>3 DEF RequestInv, AskedOnce, AskedFor
    <3> QED BY <2>3, <3>1, <3>2, <3>3
  <2>8. AskedOnce'
    BY <2>7 DEF AskedOnce, AskedFor
  <2>9. ASSUME NEW c \in DOMAIN calls', NEW b \in Agents, calls'[c].from.agent = b
        PROVE  (calls[c].from.id \in 1..events /\ ~Waiting(b, calls[c].from.id))'
    <3> PICK m : m = calls'[c].from.id
      OBVIOUS
    <3>1. m \in 1..events /\ ~Waiting(b, m)'
      <4>1. CASE c = n
        BY <1>3, <2>1, <2>3, <2>5, <2>9, <4>1
      <4>2. CASE c \in DOMAIN calls
        BY <2>3, <2>5, <2>9, <4>2 DEF RequestInv, NotYetAsked
      <4> QED BY <2>3, <4>1, <4>2
    <3> QED BY <1>1, <3>1 DEF Waiting
  <2>10. NotYetAsked'
    BY <2>9 DEF NotYetAsked
  <2>11. ASSUME NEW b \in Agents
         PROVE  TurnAsked(b)'
    <3>1. CASE b = a
      <4>1. turn'[b].call = n /\ turn'[b].ev = turn[a].ev /\ turn'[b].st = "llm"
        BY <2>4, <2>5, <3>1
      <4>2. calls'[n].from.chat = turn[a].ev.chat
        BY <2>1, <2>3
      <4> QED BY <4>1, <4>2 DEF TurnAsked
    <3>2. CASE b # a /\ Asked(b)
      <4>1. turn[b].call \in DOMAIN calls
        BY <1>0, <3>2 DEF AnswerInv, AskedOK
      <4>2. TurnAsked(b)
        BY DEF RequestInv
      <4> QED BY <2>3, <2>5, <3>2, <4>1, <4>2 DEF TurnAsked
    <3>3. CASE b # a /\ ~Asked(b)
      BY <2>5, <3>3 DEF TurnAsked
    <3> QED BY <3>1, <3>2, <3>3
  <2>12. ASSUME NEW i \in DOMAIN outbound, outbound[i].ev # 0
         PROVE  /\ outbound[i].by \in Agents
                /\ \A c \in DOMAIN calls' :
                     calls'[c].from.agent = outbound[i].by /\ calls'[c].from.id = outbound[i].ev =>
                       calls'[c].from.chat = outbound[i].chat /\ calls'[c].caller = "took"
    <3>1. outbound[i].ev # id
      BY <1>4
    <3>2. /\ outbound[i].by \in Agents
          /\ \A c \in DOMAIN calls :
               calls[c].from.agent = outbound[i].by /\ calls[c].from.id = outbound[i].ev =>
                 calls[c].from.chat = outbound[i].chat /\ calls[c].caller = "took"
      BY <2>12 DEF RequestInv, Taken, AskedFor
    <3> QED BY <2>1, <2>3, <3>1, <3>2
  <2>13. Taken'
    BY <1>1, <2>12 DEF Taken, AskedFor
  <2> QED BY <2>8, <2>10, <2>11, <2>13 DEF RequestInv
<1>7. ASSUME TakeAnswer(a) \/ AnswerTimedOut(a)
      PROVE  RequestInv'
  <2> PICK c : c = turn[a].call
    OBVIOUS
  <2>1. turn[a].st = "llm"
    BY <1>7 DEF TakeAnswer, AnswerTimedOut
  <2>2. c \in DOMAIN calls /\ AskedFor(c, a, id)
    BY <1>0, <2>1 DEF AnswerInv, AskedOK, Asked, AskedFor
  <2>3. PICK how, t :
          /\ how \in {"took", "left"} /\ calls' = GiveUp(c, how) /\ Step(a, t) /\ t.st \in {"user", "idle"}
          /\ t.st = "user" => how = "took" /\ t.call = c /\ t.ev = turn[a].ev
    <3>1. CASE AnswerTimedOut(a)
      BY <3>1 DEF AnswerTimedOut, NoTurn
    <3>2. CASE TakeAnswer(a)
      <4>1. PICK r : Step(a, [turn[a] EXCEPT !.st = "user", !.answer = r])
        BY <3>2 DEF TakeAnswer
      <4> PICK t : t = [turn[a] EXCEPT !.st = "user", !.answer = r]
        OBVIOUS
      <4>2. t.st = "user" /\ t.call = c /\ t.ev = turn[a].ev
        BY <1>2 DEF TurnRecord
      <4>3. calls' = GiveUp(c, "took")
        BY <3>2 DEF TakeAnswer
      <4> QED BY <4>1, <4>2, <4>3
    <3> QED BY <1>7, <3>1, <3>2
  <2>4. /\ DOMAIN calls' = DOMAIN calls /\ calls'[c].caller = how
        /\ \A d \in DOMAIN calls : calls'[d].from = calls[d].from /\ (d # c => calls'[d].caller = calls[d].caller)
    BY <1>0, <2>2, <2>3, GiveUpSame DEF SameCalls, Kept, Untouched
  <2>5. /\ turn'[a] = t /\ \A b \in Agents : b # a => turn'[b] = turn[b] /\ Asked(b)' = Asked(b)
        /\ \A b \in Agents : \A m : Waiting(b, m)' => Waiting(b, m)
    BY <1>5, <2>3
  <2>6. AskedOnce'
    BY <2>4 DEF RequestInv, AskedOnce, AskedFor
  <2>7. ASSUME NEW d \in DOMAIN calls', NEW b \in Agents, calls'[d].from.agent = b
        PROVE  (calls[d].from.id \in 1..events /\ ~Waiting(b, calls[d].from.id))'
    <3> PICK m : m = calls'[d].from.id
      OBVIOUS
    <3>1. m \in 1..events /\ ~Waiting(b, m)'
      BY <2>4, <2>5, <2>7 DEF RequestInv, NotYetAsked
    <3> QED BY <1>1, <3>1 DEF Waiting
  <2>8. NotYetAsked'
    BY <2>7 DEF NotYetAsked
  <2>9. ASSUME NEW b \in Agents
        PROVE  TurnAsked(b)'
    <3>1. TurnAsked(b)
      BY DEF RequestInv
    <3>2. CASE b = a
      BY <2>1, <2>2, <2>3, <2>4, <2>5, <3>1, <3>2 DEF TurnAsked, Asked
    <3>3. CASE b # a /\ Asked(b)
      <4>1. turn[b].call \in DOMAIN calls /\ calls[turn[b].call].from.agent = b
        BY <1>0, <3>3 DEF AnswerInv, AskedOK
      <4>2. turn[b].call # c
        BY <2>2, <3>3, <4>1 DEF AskedFor
      <4> QED BY <2>4, <2>5, <3>1, <3>3, <4>1, <4>2 DEF TurnAsked
    <3>4. CASE b # a /\ ~Asked(b)
      BY <2>5, <3>4 DEF TurnAsked
    <3> QED BY <3>2, <3>3, <3>4
  <2>10. ASSUME NEW i \in DOMAIN outbound, outbound[i].ev # 0
         PROVE  /\ outbound[i].by \in Agents
                /\ \A d \in DOMAIN calls' :
                     calls'[d].from.agent = outbound[i].by /\ calls'[d].from.id = outbound[i].ev =>
                       calls'[d].from.chat = outbound[i].chat /\ calls'[d].caller = "took"
    <3>1. outbound[i].ev # id
      BY <1>4
    <3>2. /\ outbound[i].by \in Agents
          /\ \A d \in DOMAIN calls :
               calls[d].from.agent = outbound[i].by /\ calls[d].from.id = outbound[i].ev =>
                 calls[d].from.chat = outbound[i].chat /\ calls[d].caller = "took"
      BY <2>10 DEF RequestInv, Taken, AskedFor
    <3>3. calls[c].from.id = id
      BY <2>2 DEF AskedFor
    <3> QED BY <2>4, <3>1, <3>2, <3>3
  <2>11. Taken'
    BY <1>1, <2>10 DEF Taken, AskedFor
  <2> QED BY <2>6, <2>8, <2>9, <2>11 DEF RequestInv
<1> QED BY <1>6, <1>7

(* The answer goes to the chat its request came from. *)
LEMMA PublishRequests ==
  ASSUME AgentInv, RequestInv, NEW a \in Agents, PublishAnswer(a)
  PROVE  RequestInv'
<1>0. AgentTypes /\ AnswerInv /\ turn[a].st = "publish" /\ turn \in [Agents -> TurnRecord \cup {NoTurn}]
  BY DEF AgentInv, AgentTypes, PublishAnswer
<1>1. UNCHANGED <<inbox, events, calls>> /\ Step(a, NoTurn)
  BY DEF PublishAnswer, providerVars
<1>2. CASE outbound' = outbound
  BY <1>2, TurnRequests
<1>3. CASE outbound' # outbound
  <2> PICK o, c, id : o = [chat |-> turn[a].ev.chat, ev |-> turn[a].ev.id, by |-> a] /\ c = turn[a].call /\ id = turn[a].ev.id
    OBVIOUS
  <2>1. outbound' = Append(outbound, o) /\ o.chat = turn[a].ev.chat /\ o.ev = id /\ o.by = a
    BY <1>3 DEF PublishAnswer
  <2>2. outbound \in Seq([chat : Chats \cup Origins, ev : Nat, by : AgentIds])
    BY <1>0 DEF AgentTypes
  <2>3. /\ DOMAIN outbound' = DOMAIN outbound \cup {Len(outbound) + 1} /\ outbound'[Len(outbound) + 1] = o
        /\ \A i \in DOMAIN outbound : outbound'[i] = outbound[i]
    BY <2>1, <2>2
  <2>4. turn'[a] = NoTurn /\ \A b \in Agents : b # a => turn'[b] = turn[b]
    BY <1>0, <1>1 DEF Step
  <2>5. AskedOnce'
    BY <1>1 DEF RequestInv, AskedOnce, AskedFor
  <2>6. \A b \in Agents : \A n : Waiting(b, n)' => Waiting(b, n)
    BY <1>1, <2>4 DEF Waiting, NoTurn
  <2>7. NotYetAsked'
    BY <1>1, <2>6 DEF RequestInv, NotYetAsked
  <2>8. ASSUME NEW b \in Agents
        PROVE  TurnAsked(b)'
    <3>1. TurnAsked(b)
      BY DEF RequestInv
    <3> QED BY <1>1, <2>4, <3>1 DEF TurnAsked, Asked, NoTurn
  <2>9. c \in DOMAIN calls /\ AskedFor(c, a, id) /\ calls[c].from.chat = turn[a].ev.chat /\ calls[c].caller = "took"
    BY <1>0 DEF AnswerInv, AskedOK, Asked, AskedFor, RequestInv, TurnAsked
  <2>10. ASSUME NEW i \in DOMAIN outbound', outbound'[i].ev # 0
         PROVE  /\ outbound'[i].by \in Agents
                /\ \A d \in DOMAIN calls :
                     calls[d].from.agent = outbound'[i].by /\ calls[d].from.id = outbound'[i].ev =>
                       calls[d].from.chat = outbound'[i].chat /\ calls[d].caller = "took"
    <3>1. CASE i \in DOMAIN outbound
      BY <2>3, <2>10, <3>1 DEF RequestInv, Taken, AskedFor
    <3>2. CASE i = Len(outbound) + 1
      <4>1. outbound'[i] = o
        BY <2>3, <3>2
      <4>2. \A d \in DOMAIN calls : AskedFor(d, a, id) => d = c
        BY <2>9 DEF RequestInv, AskedOnce
      <4> QED BY <2>1, <2>9, <4>1, <4>2 DEF AskedFor
    <3> QED BY <2>3, <3>1, <3>2
  <2>11. Taken'
    BY <1>1, <2>10 DEF Taken, AskedFor
  <2> QED BY <2>5, <2>7, <2>8, <2>11 DEF RequestInv
<1> QED BY <1>2, <1>3

(* Together with what the agents know of their answers, it is the property. *)
LEMMA AnswersAreTaken ==
  ASSUME AgentInv, RequestInv
  PROVE  AnswerSentOnce
<1>1. ASSUME NEW i \in DOMAIN outbound, outbound[i].ev # 0
      PROVE  /\ \A j \in DOMAIN outbound : outbound[i].ev = outbound[j].ev => i = j
             /\ \E c \in DOMAIN calls : calls[c].from.agent = outbound[i].by /\ calls[c].from.id = outbound[i].ev
             /\ \A c \in DOMAIN calls :
                  calls[c].from.agent = outbound[i].by /\ calls[c].from.id = outbound[i].ev =>
                    /\ calls[c].from.chat = outbound[i].chat
                    /\ calls[c].st = "answered" /\ calls[c].caller = "took"
  <2> PICK a, n : a = outbound[i].by /\ n = outbound[i].ev
    OBVIOUS
  <2>1. PICK c \in DOMAIN calls : AskedFor(c, a, n) /\ calls[c].st = "answered"
    BY <1>1 DEF AgentInv, AnswerInv, AnswerHeard, AskedFor
  <2>2. \A j \in DOMAIN outbound : n = outbound[j].ev => i = j
    BY <1>1 DEF AgentInv, AnswerInv, AnswerHeard
  <2>3. a \in Agents /\ \A d \in DOMAIN calls : AskedFor(d, a, n) =>
                          calls[d].from.chat = outbound[i].chat /\ calls[d].caller = "took"
    BY <1>1 DEF RequestInv, Taken
  <2>4. \A d \in DOMAIN calls : AskedFor(d, a, n) => d = c
    BY <2>1, <2>3 DEF RequestInv, AskedOnce
  <2> QED BY <2>1, <2>2, <2>3, <2>4 DEF AskedFor
<1> QED BY <1>1 DEF AnswerSentOnce

-----------------------------------------------------------------------------
(* The whole                                                                *)

TurnInv == ProviderInv /\ AgentInv /\ RequestInv /\ SubscriptionInv /\ RouterInv

(* A step that makes no request leaves every one as it was. *)
LEMMA SameRequests ==
  ASSUME calls' = calls \/ SameCalls
  PROVE  CallsKept /\ \A req : NoneFor(req)
  BY DEF SameCalls, CallsKept, Kept, NoneFor

(* The providers are left alone. *)
LEMMA ProviderLeft ==
  ASSUME ProviderInv, UNCHANGED providerVars
  PROVE  ProviderInv'
<1>1. ProviderTypes' /\ calls' = calls /\ tasks' = tasks
  BY DEF ProviderInv, ProviderTypes, providerVars
<1>2. \A c : TasksOf(c)' = TasksOf(c)
  BY <1>1 DEF TasksOf
<1>3. \A c \in DOMAIN calls : LoopOK(c)'
  BY <1>1, <1>2, LoopKept DEF ProviderInv
<1> QED BY <1>1, <1>3 DEF ProviderInv

(* The beginning. *)
LEMMA TurnInit == Init => TurnInv
<1> SUFFICES ASSUME Init PROVE TurnInv
  OBVIOUS
<1>0. InitProviders /\ InitConsciousness /\ InitRouter
  BY DEF Init
<1>1. ProviderInv
  <2>1. calls = <<>> /\ tasks = <<>> /\ news = <<>> /\ listener = NoEntry
    BY <1>0 DEF InitProviders
  <2>2. owner \in [Tools -> Subjects]
    BY <1>0 DEF InitProviders, Subjects, PluginSubjects
  <2>3. cache \in [Tools -> Subjects]
    BY <2>2 DEF Init, Subjects
  <2> QED BY <2>1, <2>2, <2>3 DEF ProviderInv, ProviderTypes
<1>2. AgentInv
  <2>1. /\ inbox = [a \in Agents |-> <<>>] /\ turn = [a \in Agents |-> NoTurn]
        /\ convs = <<>> /\ late = {} /\ outbound = <<>> /\ events \in Nat
    BY <1>0, ConsciousnessAssumption DEF InitConsciousness, Init
  <2>2. \A a \in Agents : inbox[a] = <<>> /\ turn[a].st = "idle"
    BY <2>1 DEF NoTurn
  <2>3. AgentTypes
    BY <2>1 DEF AgentTypes
  <2>4. EventsInOrder
    BY <2>2 DEF EventsInOrder, InOrder, Has
  <2>5. HistoryInv
    BY <2>1, <2>2 DEF HistoryInv, HistoryOf, HistoryInEventOrder, Ahead, Unwritten, UsesOwn, InConversation
  <2>6. AnswerInv
    BY <2>1, <2>2 DEF AnswerInv, AnswerHeard, AskedOK, Asked
  <2> QED BY <2>3, <2>4, <2>5, <2>6 DEF AgentInv
<1>5. RequestInv
  <2>1. outbound = <<>> /\ calls = <<>> /\ turn = [a \in Agents |-> NoTurn]
    BY <1>0 DEF InitConsciousness, InitProviders
  <2>2. AskedOnce /\ NotYetAsked /\ Taken
    BY <2>1 DEF AskedOnce, NotYetAsked, Taken
  <2>3. \A a \in Agents : TurnAsked(a)
    BY <2>1 DEF TurnAsked, Asked, NoTurn
  <2> QED BY <2>2, <2>3 DEF RequestInv
<1>3. SubscriptionInv
  <2>1. subs = [a \in AgentIds |-> {}] /\ server = ServerIdle /\ forwards = {}
    BY <1>0 DEF InitConsciousness
  <2>2. IsFiniteSet({}) /\ Cardinality({}) = 0 /\ MaxSubscriptions \in Nat
    BY FS_EmptySet, ConsciousnessAssumption
  <2>3. \A a \in AgentIds : IsFiniteSet(subs[a]) /\ Cardinality(subs[a]) <= MaxSubscriptions
    BY <2>1, <2>2
  <2> QED BY <2>1, <2>3 DEF SubscriptionInv, ServerOK
<1>4. RouterInv
  <2>1. responses = <<>> /\ rt = [p \in Paths |-> RouterIdle] /\ calls = <<>>
    BY <1>0 DEF InitRouter, InitProviders
  <2>2. /\ rq \in [Paths -> Seq(RouterMessage)]
        /\ \A p, s \in Paths : \A i \in DOMAIN rq[p], j \in DOMAIN rq[s] :
             rq[p][i].id = rq[s][j].id => p = s /\ i = j
    <3>1. CASE rq \in Requests
      BY <3>1, RequestsAssumption
    <3>2. CASE rq = [p \in Paths |-> <<>>]
      BY <3>2
    <3> QED BY <3>1, <3>2 DEF Init
  <2>3. \A p \in Paths : rt[p].st = "idle"
    BY <2>1 DEF RouterIdle
  <2>4. RouterTypes
    BY <2>1, <2>2 DEF RouterTypes
  <2>5. OnePlace
    BY <2>1, <2>2, <2>3 DEF OnePlace, Responded
  <2>6. (\A p \in Paths : TaskOK(rt[p])) /\ ResponsesOK
    BY <2>1, <2>3 DEF TaskOK, ResponsesOK
  <2> QED BY <2>4, <2>5, <2>6, RouterInvIs
<1> QED BY <1>1, <1>2, <1>3, <1>4, <1>5 DEF TurnInv

(* A step of a turn. *)
LEMMA NextTurnKeeps ==
  ASSUME TurnInv, NEW a \in Agents, NextTurn(a), UNCHANGED routerVars
  PROVE  TurnInv'
<1>0. ProviderInv /\ AgentInv /\ RequestInv /\ SubscriptionInv /\ RouterInv
  BY DEF TurnInv
<1>1. CASE \/ TakeEvent(a) \/ FindConversation(a) \/ CreateConversation(a)
           \/ AppendUser(a) \/ AppendAssistant(a) \/ PublishAnswer(a)
  <2>1. UNCHANGED providerVars /\ UNCHANGED <<subs, server, forwards>> /\ calls' = calls /\ tasks' = tasks
    BY <1>1 DEF TakeEvent, FindConversation, CreateConversation, AppendUser, AppendAssistant, PublishAnswer, providerVars
  <2>2. AgentInv'
    BY <1>0, <1>1, TakeKeeps, FindKeeps, CreateKeeps, AppendKeeps, PublishKeeps
  <2>3. SubscriptionInv'
    BY <1>0, <2>1, SubscriptionsLeft
  <2>4. RouterInv'
    BY <1>0, <2>1, SameRequests, RouterLeft
  <2>5. ProviderInv'
    BY <1>0, <2>1, ProviderLeft
  <2>6. RequestInv'
    BY <1>0, <1>1, TurnRequests, PublishRequests
  <2> QED BY <2>2, <2>3, <2>4, <2>5, <2>6 DEF TurnInv
<1>2. CASE AskProvider(a) \/ TakeAnswer(a) \/ AnswerTimedOut(a)
  <2>1. UNCHANGED <<subs, server, forwards, tasks, cache, owner, news, listener>>
    BY <1>2 DEF AskProvider, TakeAnswer, AnswerTimedOut
  <2>2. AgentInv' /\ (SameCalls \/ \E who \in Who : OneMore(LlmProvider, who) /\ who.agent = a)
    BY <1>0, <1>2, WaitKeeps
  <2>3. CallsKept /\ \A req : NoneFor(req)
    <3>1. CASE SameCalls
      BY <3>1, SameRequests
    <3>2. ASSUME NEW who \in Who, OneMore(LlmProvider, who), who.agent = a
          PROVE  CallsKept /\ \A req : NoneFor(req)
      BY <3>2, ConsciousnessAssumption DEF OneMore, CallsKept, NoneFor, CallFor
    <3> QED BY <2>2, <3>1, <3>2
  <2>4. RouterInv'
    BY <1>0, <2>3, RouterLeft
  <2>5. SubscriptionInv'
    BY <1>0, <2>1, SubscriptionsLeft
  <2>6. ProviderInv'
    <3>1. CASE AskProvider(a)
      <4> PICK who : who = AskerOf(a)
        OBVIOUS
      <4>1. turn[a].ev \in EventRecord
        BY <1>0, <3>1, TurnIs DEF AgentInv, AskProvider
      <4>2. who \in Who /\ LlmProvider \in Names
        BY <4>1 DEF AskerOf, Who, AgentIds, EventRecord, Names
      <4>3. calls' = Append(calls, NewCall(LlmProvider, who))
        BY <3>1 DEF AskProvider, AskerOf
      <4> QED BY <1>0, <2>1, <4>2, <4>3, NewCallKeeps
    <3>2. CASE TakeAnswer(a) \/ AnswerTimedOut(a)
      <4>1. turn[a].st = "llm" /\ \E how \in {"took", "left"} : calls' = GiveUp(turn[a].call, how)
        BY <3>2 DEF TakeAnswer, AnswerTimedOut
      <4>2. turn[a].call \in DOMAIN calls
        BY <1>0, <4>1 DEF AgentInv, AnswerInv, AskedOK, Asked
      <4> QED BY <1>0, <2>1, <4>1, <4>2, GiveUpKeeps
    <3> QED BY <1>2, <3>1, <3>2
  <2>7. RequestInv'
    BY <1>0, <1>2, WaitRequests
  <2> QED BY <2>2, <2>4, <2>5, <2>6, <2>7 DEF TurnInv
<1> QED BY <1>1, <1>2 DEF NextTurn

(* A built-in tool. *)
LEMMA NextBuiltinKeeps ==
  ASSUME TurnInv, NextBuiltin, UNCHANGED routerVars
  PROVE  TurnInv'
<1>0. ProviderInv /\ AgentInv /\ RequestInv /\ SubscriptionInv /\ RouterInv /\ tasks \in Seq(TaskRecord)
  BY DEF TurnInv, ProviderInv, ProviderTypes
<1>1. PICK k \in DOMAIN tasks : Answer(k) \/ UNCHANGED providerVars
  <2>1. CASE InstallSubscription
    <3>1. server.task \in DOMAIN tasks
      BY <1>0, <2>1 DEF InstallSubscription, SubscriptionInv, ServerOK, ServerIdle
    <3> QED BY <2>1, <3>1 DEF InstallSubscription
  <2>2. CASE ~InstallSubscription
    <3>1. CallsAhead # {} /\ (Answer(Next_call) \/ UNCHANGED providerVars)
      BY <2>2 DEF NextBuiltin, BrainQuery, SubscribeEvents, UnsubscribeEvents, DelegateTask, ScheduleWake, SendNotification, Serves
    <3>2. Next_call \in DOMAIN tasks
      BY <1>0, <3>1, NextCallWaits
    <3> QED BY <3>1, <3>2
  <2> QED BY <2>1, <2>2
<1>2. ProviderInv' /\ calls' = calls /\ DOMAIN tasks' = DOMAIN tasks
  <2>1. CASE Answer(k)
    <3>1. Ran(k) /\ UNCHANGED <<calls, cache, owner, news, listener>>
      BY <2>1 DEF Answer
    <3>2. DOMAIN tasks' = DOMAIN tasks
      BY <3>1 DEF Ran
    <3> QED BY <1>0, <3>1, <3>2, RanKeeps
  <2>2. CASE UNCHANGED providerVars
    BY <1>0, <2>2, ProviderLeft DEF providerVars
  <2> QED BY <1>1, <2>1, <2>2
<1>3. CallsKept /\ \A req : NoneFor(req)
  BY <1>2, SameRequests
<1>4. RouterInv'
  BY <1>0, <1>3, RouterLeft
<1>5. AgentInv'
  <2>1. CASE BrainQuery \/ SubscribeEvents \/ InstallSubscription \/ UnsubscribeEvents \/ ScheduleWake
    <3>1. UNCHANGED <<inbox, turn, convs, late, outbound, events>>
      BY <2>1 DEF BrainQuery, SubscribeEvents, InstallSubscription, UnsubscribeEvents, ScheduleWake, consciousVars
    <3> QED BY <1>0, <1>3, <3>1, AgentsLeft
  <2>2. CASE DelegateTask
    BY <1>0, <2>2, DelegateKeeps
  <2>3. CASE SendNotification
    BY <1>0, <1>3, <2>3, NotificationKeeps DEF SendNotification
  <2> QED BY <2>1, <2>2, <2>3 DEF NextBuiltin
<1>6. SubscriptionInv'
  <2>1. CASE BrainQuery \/ DelegateTask \/ ScheduleWake \/ SendNotification
    <3>1. UNCHANGED <<subs, server, forwards>>
      BY <2>1 DEF BrainQuery, DelegateTask, ScheduleWake, SendNotification, consciousVars
    <3> QED BY <1>0, <1>2, <3>1, SubscriptionsLeft
  <2> QED BY <1>0, <2>1, SubscribeKeeps, InstallKeeps, UnsubscribeKeeps DEF NextBuiltin
<1>7. RequestInv'
  <2>0. AgentCallsKept /\ AgentTypes /\ events \in Nat
    BY <1>0, <1>2 DEF AgentCallsKept, AgentInv, AgentTypes
  <2>1. turn' = turn
    BY DEF NextBuiltin, BrainQuery, SubscribeEvents, InstallSubscription, UnsubscribeEvents, DelegateTask, ScheduleWake,
           SendNotification, consciousVars
  <2>2. CASE DelegateTask
    <3>1. outbound' = outbound
      BY <2>2 DEF DelegateTask
    <3>2. NoAnswerSent
      BY <3>1 DEF NoAnswerSent
    <3>3. \/ UNCHANGED <<inbox, events>>
          \/ events' = events + 1 /\ \E b, conv, depth : Send(b, Event(events', "agent_message", None, conv, depth))
      BY <2>2 DEF DelegateTask
    <3>4. CASE UNCHANGED <<inbox, events>>
      BY <1>0, <2>0, <2>1, <3>2, <3>4, RequestsLeft
    <3>5. ASSUME events' = events + 1, NEW b, NEW conv, NEW depth, Send(b, Event(events', "agent_message", None, conv, depth))
          PROVE  RequestInv'
      BY <1>0, <2>0, <2>1, <3>2, <3>5, EventComes
    <3> QED BY <3>3, <3>4, <3>5
  <2>3. CASE ~DelegateTask
    <3>1. UNCHANGED <<inbox, events>>
      BY <2>3 DEF NextBuiltin, BrainQuery, SubscribeEvents, InstallSubscription, UnsubscribeEvents, ScheduleWake,
                  SendNotification, consciousVars
    <3>2. outbound' = outbound \/ \E chat \in Chats : outbound' = Append(outbound, [chat |-> chat, ev |-> 0, by |-> None])
      BY <2>3 DEF NextBuiltin, BrainQuery, SubscribeEvents, InstallSubscription, UnsubscribeEvents, ScheduleWake,
                  SendNotification, consciousVars
    <3>3. NoAnswerSent
      <4>1. outbound \in Seq([chat : Chats \cup Origins, ev : Nat, by : AgentIds])
        BY <2>0 DEF AgentTypes
      <4>2. ASSUME NEW o, o.ev = 0, outbound' = Append(outbound, o)
            PROVE  NoAnswerSent
        BY <4>1, <4>2 DEF NoAnswerSent
      <4>3. CASE outbound' = outbound
        BY <4>3 DEF NoAnswerSent
      <4>4. ASSUME NEW chat \in Chats, outbound' = Append(outbound, [chat |-> chat, ev |-> 0, by |-> None])
            PROVE  NoAnswerSent
        <5> PICK o : o = [chat |-> chat, ev |-> 0, by |-> None]
          OBVIOUS
        <5>1. o.ev = 0
          OBVIOUS
        <5> QED BY <4>2, <4>4, <5>1
      <4> QED BY <3>2, <4>3, <4>4
    <3> QED BY <1>0, <2>0, <2>1, <3>1, <3>3, RequestsLeft
  <2> QED BY <2>2, <2>3
<1> QED BY <1>2, <1>4, <1>5, <1>6, <1>7 DEF TurnInv

(* The events that come in, and the appends that come late. *)
LEMMA NextEventKeeps ==
  ASSUME TurnInv, UNCHANGED routerVars,
         \/ \E a \in Agents, chat \in Origins : EventArrives(a, chat)
         \/ \E f \in forwards : RuntimeForward(f) \/ RuntimeExpires(f)
         \/ \E w \in timers : WakeFires(w)
         \/ \E x \in late : LateAppend(x)
  PROVE  TurnInv'
<1>0. ProviderInv /\ AgentInv /\ RequestInv /\ SubscriptionInv /\ RouterInv
  BY DEF TurnInv
<1>1. UNCHANGED providerVars /\ UNCHANGED <<subs, server>> /\ forwards' \subseteq forwards /\ calls' = calls /\ tasks' = tasks
  BY DEF EventArrives, RuntimeForward, RuntimeExpires, WakeFires, LateAppend, providerVars
<1>2. ProviderInv' /\ SubscriptionInv' /\ RouterInv' /\ CallsKept
  BY <1>0, <1>1, ProviderLeft, SubscriptionsLeft, SameRequests, RouterLeft
<1>3. ASSUME NEW a \in Agents, NEW chat \in Origins, EventArrives(a, chat)
      PROVE  AgentInv'
  <2> PICK kind : kind = IF chat = None THEN "subscribed_event" ELSE "message"
    OBVIOUS
  <2>1. /\ kind \in {"subscribed_event", "message", "self_wake"} /\ chat \in Origins \cup {None}
        /\ events' = events + 1 /\ Send(a, Event(events', kind, chat, 0, 0)) /\ UNCHANGED <<turn, convs, late, outbound>>
    BY <1>3 DEF EventArrives
  <2> QED BY <1>0, <1>1, <2>1, ArrivalKeeps
<1>4. ASSUME NEW f \in forwards, RuntimeForward(f)
      PROVE  AgentInv'
  <2>1. /\ events' = events + 1 /\ Send(f.agent, Event(events', "subscribed_event", None, 0, 0))
        /\ UNCHANGED <<turn, convs, late, outbound>>
    BY <1>4 DEF RuntimeForward
  <2> QED BY <1>0, <1>1, <2>1, ArrivalKeeps
<1>5. ASSUME NEW f \in forwards, RuntimeExpires(f)
      PROVE  AgentInv'
  BY <1>0, <1>2, <1>5, AgentsLeft DEF RuntimeExpires
<1>6. ASSUME NEW w \in timers, WakeFires(w)
      PROVE  AgentInv'
  <2>1. /\ events' = events + 1 /\ Send(w.agent, Event(events', "self_wake", None, 0, 0))
        /\ UNCHANGED <<turn, convs, late, outbound>>
    BY <1>6 DEF WakeFires
  <2> QED BY <1>0, <1>1, <2>1, ArrivalKeeps
<1>7. AgentInv'
  BY <1>0, <1>3, <1>4, <1>5, <1>6, LateKeeps
<1>8. RequestInv'
  <2>0. AgentCallsKept /\ NoAnswerSent /\ events \in Nat /\ turn' = turn
    <3>1. outbound' = outbound /\ turn' = turn
      BY DEF EventArrives, RuntimeForward, RuntimeExpires, WakeFires, LateAppend
    <3> QED BY <1>0, <1>1, <3>1 DEF AgentCallsKept, NoAnswerSent, AgentInv, AgentTypes
  <2>1. \/ UNCHANGED <<inbox, events>>
        \/ events' = events + 1 /\ \E b, kind, chat : Send(b, Event(events', kind, chat, 0, 0))
    BY DEF EventArrives, RuntimeForward, RuntimeExpires, WakeFires, LateAppend
  <2>2. CASE UNCHANGED <<inbox, events>>
    BY <1>0, <2>0, <2>2, RequestsLeft
  <2>3. ASSUME events' = events + 1, NEW b, NEW kind, NEW chat, Send(b, Event(events', kind, chat, 0, 0))
        PROVE  RequestInv'
    BY <1>0, <2>0, <2>3, EventComes
  <2> QED BY <2>1, <2>2, <2>3
<1> QED BY <1>2, <1>7, <1>8 DEF TurnInv

(* A step of the router. *)
LEMMA NextRouterKeeps ==
  ASSUME TurnInv, NextRouter, UNCHANGED consciousVars
  PROVE  TurnInv'
<1>0. ProviderInv /\ AgentInv /\ RequestInv /\ SubscriptionInv /\ RouterInv /\ calls \in Seq(CallRecord)
  BY DEF TurnInv, ProviderInv, ProviderTypes
<1>1. UNCHANGED <<inbox, turn, convs, late, outbound, events, subs, server, forwards>>
  BY DEF consciousVars
<1>2. PICK p \in Paths : \/ HandleMessage(p) \/ TryProvider(p) \/ ProviderAnswered(p)
                         \/ ProviderFailed(p) \/ AllProvidersFailed(p)
  BY DEF NextRouter
<1>3. UNCHANGED <<tasks, cache, owner, news, listener>>
  BY <1>2 DEF HandleMessage, TryProvider, ProviderAnswered, ProviderFailed, AllProvidersFailed, providerVars
<1>4. SubscriptionInv'
  BY <1>0, <1>1, <1>3, SubscriptionsLeft
<1>5. RouterInv' /\ CallsKept /\ ProviderInv' /\ AgentCallsKept
  <2>1. CASE HandleMessage(p)
    <3>1. UNCHANGED providerVars /\ calls' = calls
      BY <2>1 DEF HandleMessage, providerVars
    <3> QED BY <1>0, <2>1, <3>1, HandleKeeps, SameRequests, ProviderLeft DEF AgentCallsKept
  <2>2. CASE TryProvider(p)
    <3>1. RouterInv' /\ CallsKept
      BY <1>0, <2>2, TryKeeps
    <3>2. PICK q \in Names, who \in Who : calls' = Append(calls, NewCall(q, who)) /\ who.agent = None
      BY <1>0, <2>2, TryKeeps
    <3>3. AgentCallsKept
      <4>1. OneMore(q, who)
        BY <1>0, <3>2, NewCallOneMore
      <4> QED BY <3>2, <4>1, ConsciousnessAssumption DEF OneMore, Untouched, AgentCallsKept
    <3> QED BY <1>0, <1>3, <3>1, <3>2, <3>3, NewCallKeeps
  <2>3. CASE ProviderAnswered(p) \/ ProviderFailed(p) \/ AllProvidersFailed(p)
    <3>1. /\ RouterInv' /\ CallsKept
          /\ \/ calls' = calls
             \/ \E c \in DOMAIN calls, how \in {"took", "left"} :
                  calls[c].from.agent = None /\ calls' = GiveUp(c, how)
      BY <1>0, <2>3, OutcomeKeeps
    <3>4. AgentCallsKept
      <4>1. CASE calls' = calls
        BY <4>1 DEF AgentCallsKept
      <4>2. ASSUME NEW c \in DOMAIN calls, NEW how \in {"took", "left"}, calls[c].from.agent = None, calls' = GiveUp(c, how)
            PROVE  AgentCallsKept
        <5>1. SameCalls /\ \A d \in DOMAIN calls : d # c => Untouched(d)
          BY <1>0, <4>2, GiveUpSame
        <5> QED BY <4>2, <5>1, ConsciousnessAssumption DEF SameCalls, Kept, Untouched, AgentCallsKept
      <4> QED BY <3>1, <4>1, <4>2
    <3>2. CASE AllProvidersFailed(p)
      BY <1>0, <3>1, <3>2, <3>4, ProviderLeft DEF AllProvidersFailed
    <3>3. CASE ProviderAnswered(p) \/ ProviderFailed(p)
      <4>1. regs' = regs
        BY <3>3 DEF ProviderAnswered, ProviderFailed
      <4>2. calls' = calls => UNCHANGED providerVars
        BY <1>3, <4>1 DEF providerVars
      <4> QED BY <1>0, <1>3, <3>1, <3>4, <4>2, GiveUpKeeps, ProviderLeft
    <3> QED BY <2>3, <3>2, <3>3
  <2> QED BY <1>2, <2>1, <2>2, <2>3
<1>6. AgentInv'
  BY <1>0, <1>1, <1>5, AgentsLeft
<1>7. RequestInv'
  BY <1>0, <1>1, <1>5, NothingComes
<1> QED BY <1>4, <1>5, <1>6, <1>7 DEF TurnInv

(* Every step of the whole. *)
LEMMA TurnKeeps == ASSUME Batches PROVE TurnInv /\ [Next]_agentVars => TurnInv'
<1> SUFFICES ASSUME TurnInv, [Next]_agentVars PROVE TurnInv'
  OBVIOUS
<1>0. ProviderInv /\ AgentInv /\ RequestInv /\ SubscriptionInv /\ RouterInv
  BY DEF TurnInv
<1>1. CASE NextProvider /\ UNCHANGED <<consciousVars, routerVars>>
  <2>1. SameCalls /\ SameCallers /\ DOMAIN tasks \subseteq DOMAIN tasks' /\ ProviderInv'
    BY <1>0, <1>1, ProviderSame, ProviderKeeps
  <2>2. UNCHANGED <<inbox, turn, convs, late, outbound, events, subs, server, forwards>> /\ UNCHANGED routerVars
    BY <1>1 DEF consciousVars
  <2>3. CallsKept /\ \A req : NoneFor(req)
    BY <2>1, SameRequests
  <2>4. AgentCallsKept
    BY <2>1 DEF AgentCallsKept, SameCalls, SameCallers, Untouched
  <2>5. RequestInv'
    BY <1>0, <2>2, <2>4, NothingComes
  <2> QED BY <1>0, <2>1, <2>2, <2>3, <2>5, AgentsLeft, SubscriptionsLeft, RouterLeft DEF TurnInv
<1>2. CASE NextConsciousness /\ UNCHANGED routerVars
  BY <1>2, NextTurnKeeps, NextBuiltinKeeps, NextEventKeeps DEF NextConsciousness
<1>3. CASE NextRouter /\ UNCHANGED consciousVars
  BY <1>3, NextRouterKeeps
<1>4. CASE UNCHANGED agentVars
  <2>1. UNCHANGED providerVars /\ UNCHANGED consciousVars /\ UNCHANGED routerVars
    BY <1>4 DEF agentVars
  <2>2. /\ UNCHANGED <<inbox, turn, convs, late, outbound, events, subs, server, forwards>>
        /\ calls' = calls /\ tasks' = tasks
    BY <2>1 DEF consciousVars, providerVars
  <2>3. CallsKept /\ \A req : NoneFor(req)
    BY <2>2, SameRequests
  <2>4. RequestInv'
    <3>1. AgentCallsKept
      BY <2>2 DEF AgentCallsKept
    <3> QED BY <1>0, <2>2, <3>1, NothingComes
  <2> QED BY <1>0, <2>1, <2>2, <2>3, <2>4, ProviderLeft, AgentsLeft, SubscriptionsLeft, RouterLeft DEF TurnInv
<1> QED BY <1>1, <1>2, <1>3, <1>4 DEF Next

(* The invariant of the providers, the agents and the router holds in every *)
(* state, whatever the models ask for and whoever is slow or gone.          *)
THEOREM TurnInvariant == ASSUME Batches PROVE Spec => []TurnInv
<1>1. Init => TurnInv
  BY TurnInit
<1>2. TurnInv /\ [Next]_agentVars => TurnInv'
  BY TurnKeeps
<1> QED BY <1>1, <1>2, PTL DEF Spec

(* Tool loop of the provider plugins: while a provider waits, it waits for  *)
(* the newest of its tasks, and it never starts more of them than           *)
(* --max-tool-rounds rounds of one batch (ResultBelongsToTool).             *)
THEOREM ResultsBelong == ASSUME Batches PROVE Spec => []ResultBelongsToTool
<1>1. TurnInv => ResultBelongsToTool
  BY LoopsBounded DEF TurnInv
<1> QED BY <1>1, TurnInvariant, PTL

(* LLM router: one llm.response for a message, true to the requests made    *)
(* for it and to the providers tried (RouterAnswersOnce).                   *)
THEOREM RouterAlwaysAnswersOnce == ASSUME Batches PROVE Spec => []RouterAnswersOnce
<1>1. TurnInv => RouterAnswersOnce
  BY DEF TurnInv, RouterInv
<1> QED BY <1>1, TurnInvariant, PTL

(* process_consciousness_event: the messages of a conversation that were    *)
(* appended in time stand in the order of their events                      *)
(* (HistoryInEventOrder).                                                   *)
THEOREM HistoryStaysInOrder == ASSUME Batches PROVE Spec => []HistoryInEventOrder
<1>1. TurnInv => HistoryInEventOrder
  BY DEF TurnInv, AgentInv, HistoryInv
<1> QED BY <1>1, TurnInvariant, PTL

(* publish_outbound: an event gets at most one answer, sent to the chat it  *)
(* came from, and only one that its turn took while it waited for the       *)
(* provider it asked (AnswerSentOnce).                                      *)
THEOREM AnswersSentOnce == ASSUME Batches PROVE Spec => []AnswerSentOnce
<1>1. TurnInv => AnswerSentOnce
  BY AnswersAreTaken DEF TurnInv
<1> QED BY <1>1, TurnInvariant, PTL

(* subscribe-events and unsubscribe-events: every forwarder task has an     *)
(* entry through which it can be aborted, and their number is bounded       *)
(* (ForwardersAccounted).                                                   *)
THEOREM ForwardersAlwaysAccounted == ASSUME Batches PROVE Spec => []ForwardersAccounted
<1>1. TurnInv => ForwardersAccounted
  BY ForwardersHaveEntries DEF TurnInv
<1> QED BY <1>1, TurnInvariant, PTL
=============================================================================
