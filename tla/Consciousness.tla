---------------------------- MODULE Consciousness ----------------------------
(***************************************************************************)
(* The kernel's consciousness service.  Every agent has one processor that *)
(* takes the events of agent.<id>.consciousness one at a time: it finds or *)
(* creates the conversation, loads its history, asks the LLM provider, and *)
(* appends and publishes the answer.  The built-in tools (delegate-task,   *)
(* schedule-wake, subscribe-events ...) are served by a single loop, one   *)
(* call after the other, while the processors wait for their provider.     *)
(*                                                                         *)
(* The brain is used through request/reply with a timeout: a request that  *)
(* timed out may still be carried out later.                               *)
(***************************************************************************)
EXTENDS LlmProviders, SequencesExt

CONSTANTS
  Agents,            \* the agents enabled when the service started
  Chats,             \* the chats answers and notifications go to
  Origins,           \* where events come from: a chat, or None for a pattern of the agent
  LlmProvider,       \* LLM_PROVIDER
  Patterns,          \* subject patterns an agent may subscribe to at run time
  MaxSubscriptions,  \* 20: runtime subscriptions per agent
  MaxDepth,          \* 5: delegation depth
  TurnLimit,         \* turn_limit of the agent's guardrails
  LoopThreshold,     \* loop_detection_threshold
  MaxFaults,         \* bound: requests to the brain that fail or time out
  MaxEvents          \* bound: consciousness events in a behaviour

(* No chat is taken for a conversation between agents, whose platform is    *)
(* "agent", and no agent for the absence of one.                            *)
ASSUME ConsciousnessAssumption ==
  /\ "agent" \notin Origins /\ None \notin Agents
  /\ IsFiniteSet(Patterns)
  /\ {MaxSubscriptions, MaxEvents} \subseteq Nat

VARIABLES
  inbox,     \* agent.<id>.consciousness and the mpsc channel behind it, per agent
  turn,      \* what each agent's processor is doing
  convs,     \* conversations in the brain
  late,      \* appends whose caller has stopped waiting and that may still happen
  outbound,  \* channel.<platform>.outbound events
  timers,    \* tasks spawned by schedule-wake
  subs,      \* runtime_subs: per agent, an entry for each forwarder task it can abort
  forwards,  \* the forwarder tasks of the runtime subscriptions
  server,    \* the built-in call loop
  events,    \* number of consciousness events so far
  faults     \* number of requests to the brain that have failed

consciousVars == <<inbox, turn, convs, late, outbound, timers, subs, forwards, server,
                   events, faults>>

AgentIds == Agents \cup {None}
NoTurn == [st |-> "idle", ev |-> None, conv |-> 0, call |-> 0, answer |-> None]
ServerIdle == [st |-> "idle", task |-> 0]

(* A ConsciousnessEvent; chat is its origin, conv its conversation_id. *)
Event(n, kind, chat, conv, depth) ==
  [id |-> n, kind |-> kind, chat |-> chat, conv |-> conv, depth |-> depth]

(* Publishing to agent.<a>.consciousness: only the agents that were enabled *)
(* at the start have a subscriber.                                          *)
Send(a, ev) == inbox' = IF a \in Agents THEN [inbox EXCEPT ![a] = Append(@, ev)] ELSE inbox

-----------------------------------------------------------------------------
(* Where events come from. *)

(* An event that one of the agent's patterns matched (chat = None), or one  *)
(* that another component publishes to agent.<a>.consciousness with an      *)
(* origin.  Null and malformed payloads are skipped.                        *)
EventArrives(a, chat) ==
  /\ events < MaxEvents
  /\ events' = events + 1
  /\ Send(a, Event(events', IF chat = None THEN "subscribed_event" ELSE "message", chat, 0, 0))
  /\ UNCHANGED <<faults, turn, convs, late, outbound, timers, subs, forwards, server, providerVars>>

(* A runtime subscription forwards an event to the agent it was made for,   *)
(* until it expires.                                                        *)
RuntimeForward(f) ==
  /\ events < MaxEvents
  /\ events' = events + 1
  /\ Send(f.agent, Event(events', "subscribed_event", None, 0, 0))
  /\ UNCHANGED <<faults, turn, convs, late, outbound, timers, subs, forwards, server, providerVars>>

(* The task ends at its expiry; the entry in runtime_subs stays. *)
RuntimeExpires(f) ==
  /\ f.expires
  /\ forwards' = forwards \ {f}
  /\ UNCHANGED <<faults, inbox, turn, convs, late, outbound, timers, subs, server, events, providerVars>>

WakeFires(w) ==
  /\ events < MaxEvents
  /\ timers' = timers \ {w}
  /\ events' = events + 1
  /\ Send(w.agent, Event(events', "self_wake", None, 0, 0))
  /\ UNCHANGED <<faults, turn, convs, late, outbound, subs, forwards, server, providerVars>>

-----------------------------------------------------------------------------
(* A turn: process_consciousness_event. *)

Step(a, t) == turn' = [turn EXCEPT ![a] = t]

\* Mutant: the newest event of the channel is taken first.
TakeNewestEvent(a) ==
  /\ turn[a].st = "idle"
  /\ inbox[a] # <<>>
  /\ inbox' = [inbox EXCEPT ![a] = Front(@)]
  /\ Step(a, [NoTurn EXCEPT !.st = "find", !.ev = Last(inbox[a])])
  /\ UNCHANGED <<faults, convs, late, outbound, timers, subs, forwards, server, events, providerVars>>

TakeEvent(a) ==
  /\ turn[a].st = "idle"
  /\ inbox[a] # <<>>
  /\ inbox' = [inbox EXCEPT ![a] = Tail(@)]
  /\ Step(a, [NoTurn EXCEPT !.st = "find", !.ev = Head(inbox[a])])
  /\ UNCHANGED <<faults, convs, late, outbound, timers, subs, forwards, server, events, providerVars>>

Fault == faults < MaxFaults /\ faults' = faults + 1

(* The conversations of the event's chat, or of its kind when it has none. *)
Key(ev) == IF ev.chat = None THEN ev.kind ELSE ev.chat
Matching(a, ev) == {i \in DOMAIN convs : convs[i].agent = a /\ convs[i].key = Key(ev)}
Newest(S) == CHOOSE i \in S : \A j \in S : j <= i

(* An event that names its conversation uses it.  Otherwise the newest      *)
(* conversation of the chat; if the search fails, times out or finds none,  *)
(* a new one is to be created.                                              *)
FindConversation(a) ==
  /\ turn[a].st = "find"
  /\ LET ev == turn[a].ev
         found == Matching(a, ev)
     IN  \/ /\ ev.conv # 0
            /\ Step(a, [turn[a] EXCEPT !.st = "load", !.conv = ev.conv])
            /\ UNCHANGED faults
         \/ /\ ev.conv = 0 /\ found # {}
            /\ Step(a, [turn[a] EXCEPT !.st = "load", !.conv = Newest(found)])
            /\ UNCHANGED faults
         \/ /\ ev.conv = 0
            /\ Step(a, [turn[a] EXCEPT !.st = "create"])
            /\ IF found = {} THEN UNCHANGED faults ELSE Fault
  /\ UNCHANGED <<inbox, convs, late, outbound, timers, subs, forwards, server, events, providerVars>>

NewConversation(a, key) == Append(convs, [agent |-> a, key |-> key, msgs |-> <<>>])

(* conversation.create; when it fails or times out the event is dropped,    *)
(* with the conversation created or not.                                    *)
CreateConversation(a) ==
  /\ turn[a].st = "create"
  /\ \/ /\ convs' = NewConversation(a, Key(turn[a].ev))
        /\ Step(a, [turn[a] EXCEPT !.st = "load", !.conv = Len(convs')])
        /\ UNCHANGED faults
     \/ /\ convs' \in {convs, NewConversation(a, Key(turn[a].ev))}
        /\ Step(a, NoTurn)
        /\ Fault
  /\ UNCHANGED <<inbox, late, outbound, timers, subs, forwards, server, events, providerVars>>

(* History, skills and preferences are read (each is empty when its request *)
(* fails), then the request goes to llm.provider.<LLM_PROVIDER>.            *)
AskProvider(a) ==
  /\ turn[a].st = "load"
  /\ Step(a, [turn[a] EXCEPT !.st = "llm", !.call = Len(calls) + 1])
  /\ calls' = Append(calls, NewCall(LlmProvider, [agent |-> a, id |-> turn[a].ev.id,
                                                  depth |-> turn[a].ev.depth, chat |-> turn[a].ev.chat]))
  /\ UNCHANGED <<faults, inbox, convs, late, outbound, timers, subs, forwards, server, events, tasks, cache, owner, news, listener, regs>>

(* GuardrailState::record_turn for the i-th tool call tcs[i] of a reply,    *)
(* after the rounds the provider reported: the turn limit, the time limit   *)
(* (slow) and the loop detection.                                           *)
record_turn(rounds, tcs, i, slow) ==
  \/ rounds + i >= TurnLimit
  \/ slow
  \/ Cardinality({j \in 1..i : tcs[j] = tcs[i]}) >= LoopThreshold

(* The guardrails look at the tool calls left in the reply; every provider  *)
(* resolves its tool calls itself and leaves none.                          *)
ReplyToolCalls(c) == <<>>
GuardrailTriggered(c) ==
  \E i \in DOMAIN ReplyToolCalls(c), slow \in BOOLEAN :
    record_turn(calls[c].rounds, ReplyToolCalls(c), i, slow)

TakeAnswer(a) ==
  /\ turn[a].st = "llm"
  /\ LET c == turn[a].call
     IN  /\ calls[c].st = "answered"
         /\ Step(a, [turn[a] EXCEPT !.st = "user",
                       !.answer = IF GuardrailTriggered(c) THEN "stopped" ELSE calls[c].reply])
         /\ calls' = GiveUp(c, "took")
  /\ UNCHANGED <<faults, inbox, convs, late, outbound, timers, subs, forwards, server, events, tasks, cache, owner, news, listener, regs>>

\* Mutant: the request to the provider has no timeout.
AnswerNeverTimesOut(a) == FALSE /\ UNCHANGED <<consciousVars, providerVars>>

\* Mutant: a turn without an answer goes on with the error as its answer.
AnswerTimedOutGoesOn(a) ==
  /\ turn[a].st = "llm"
  /\ calls' = GiveUp(turn[a].call, "left")
  /\ Step(a, [turn[a] EXCEPT !.st = "user", !.answer = "error"])
  /\ UNCHANGED <<faults, inbox, convs, late, outbound, timers, subs, forwards, server, events, tasks, cache, owner, news, listener, regs>>

(* 120 s without an answer, or a failed request: nothing is appended. *)
AnswerTimedOut(a) ==
  /\ turn[a].st = "llm"
  /\ calls' = GiveUp(turn[a].call, "left")
  /\ Step(a, NoTurn)
  /\ UNCHANGED <<faults, inbox, convs, late, outbound, timers, subs, forwards, server, events, tasks, cache, owner, news, listener, regs>>

Appended(conv, msg) == [convs EXCEPT ![conv].msgs = Append(@, msg)]

(* append_to_conversation: an empty text is not appended; an append that    *)
(* fails is only logged; one that times out may still be carried out.       *)
AppendTo(conv, msg, empty) ==
  \/ ~empty /\ convs' = Appended(conv, msg) /\ UNCHANGED <<late, faults>>
  \/ ~empty /\ late' = late \cup {[conv |-> conv, msg |-> msg]} /\ Fault /\ UNCHANGED convs
  \/ ~empty /\ Fault /\ UNCHANGED <<convs, late>>
  \/ empty /\ UNCHANGED <<convs, late, faults>>

AppendUser(a) ==
  /\ turn[a].st = "user"
  /\ AppendTo(turn[a].conv, [ev |-> turn[a].ev.id, role |-> "user", late |-> FALSE], FALSE)
  /\ Step(a, [turn[a] EXCEPT !.st = "assistant"])
  /\ UNCHANGED <<inbox, outbound, timers, subs, forwards, server, events, providerVars>>

AppendAssistant(a) ==
  /\ turn[a].st = "assistant"
  /\ AppendTo(turn[a].conv, [ev |-> turn[a].ev.id, role |-> "assistant", late |-> FALSE], turn[a].answer = "empty")
  /\ Step(a, [turn[a] EXCEPT !.st = "publish"])
  /\ UNCHANGED <<inbox, outbound, timers, subs, forwards, server, events, providerVars>>

(* publish_outbound, when the event has an origin, the guardrails are quiet *)
(* and there is a text.                                                     *)
PublishAnswer(a) ==
  /\ turn[a].st = "publish"
  /\ outbound' = IF turn[a].ev.chat # None /\ turn[a].answer \notin {"empty", "stopped"}
                 THEN Append(outbound, [chat |-> turn[a].ev.chat, ev |-> turn[a].ev.id, by |-> a])
                 ELSE outbound
  /\ Step(a, NoTurn)
  /\ UNCHANGED <<faults, inbox, convs, late, timers, subs, forwards, server, events, providerVars>>

LateAppend(x) ==
  /\ convs' = Appended(x.conv, [x.msg EXCEPT !.late = TRUE])
  /\ late' = late \ {x}
  /\ UNCHANGED <<faults, inbox, turn, outbound, timers, subs, forwards, server, events, providerVars>>

-----------------------------------------------------------------------------
(* The built-in tools: one call at a time. *)

CallsAhead == {k \in DOMAIN tasks : Delivered(k) /\ tasks[k].to = "consciousness"}
Next_call == CHOOSE k \in CallsAhead : \A l \in CallsAhead : k <= l

(* handle_builtin_call takes the caller for the request's plugin_id. *)
CallerOf(k) == tasks[k].plugin_id

Serves(tool) == server.st = "idle" /\ CallsAhead # {} /\ tasks[Next_call].tool = tool

Answer(k) ==
  /\ Ran(k)
  /\ UNCHANGED <<calls, cache, owner, news, listener, regs>>

(* brain-query and the reading tools: an answer or an error. *)
BrainQuery ==
  /\ Serves("brain-query")
  /\ Answer(Next_call)
  /\ UNCHANGED consciousVars

(* Internal subjects are refused, and so is more than MaxSubscriptions in   *)
(* all.  Between the count and the entry the forwarder tasks are spawned.   *)
SubscribeEvents ==
  /\ Serves("subscribe-events")
  /\ LET a == CallerOf(Next_call)
     IN  \/ /\ Answer(Next_call)                        \* refused
            /\ UNCHANGED <<forwards, server>>
         \/ \E ps \in SUBSET Patterns, expires \in BOOLEAN :
              /\ Cardinality(subs[a]) + Cardinality(ps) <= MaxSubscriptions
              /\ forwards' = forwards \cup [agent : {a}, pattern : ps, expires : {expires},
                                            task : {Next_call}]
              /\ server' = [st |-> "install", task |-> Next_call, agent |-> a, patterns |-> ps]
              /\ UNCHANGED providerVars
  /\ UNCHANGED <<faults, inbox, turn, convs, late, outbound, timers, subs, events>>

InstallSubscription ==
  /\ server.st = "install"
  /\ subs' = [subs EXCEPT ![server.agent] =
              @ \cup [pattern : server.patterns, task : {server.task}]]
  /\ server' = ServerIdle
  /\ Answer(server.task)
  /\ UNCHANGED <<faults, inbox, turn, convs, late, outbound, timers, forwards, events>>

\* Mutant: the entries go, the forwarder tasks are not aborted.
UnsubscribeWithoutAbort ==
  /\ Serves("unsubscribe-events")
  /\ \E gone \in SUBSET Patterns :
       subs' = [subs EXCEPT ![CallerOf(Next_call)] = {e \in @ : e.pattern \notin gone}]
  /\ Answer(Next_call)
  /\ UNCHANGED <<faults, inbox, turn, convs, late, outbound, timers, forwards, server, events>>

UnsubscribeEvents ==
  /\ Serves("unsubscribe-events")
  /\ \E gone \in SUBSET Patterns :
       LET a == CallerOf(Next_call)
       IN  /\ subs' = [subs EXCEPT ![a] = {e \in @ : e.pattern \notin gone}]
           /\ forwards' = {f \in forwards : ~(f.agent = a /\ f.pattern \in gone)}
  /\ Answer(Next_call)
  /\ UNCHANGED <<faults, inbox, turn, convs, late, outbound, timers, server, events>>

(* The depth is read from the context the model passes; the depth of the    *)
(* task it is working on stands beside the context in the event, and only   *)
(* the message is put before the model.                                     *)
DepthSeen(k) == 0

DelegateTask ==
  /\ Serves("delegate-task")
  /\ LET k == Next_call
         depth == calls[tasks[k].call].from.depth + 1
     IN  \/ /\ DepthSeen(k) < MaxDepth
            /\ events < MaxEvents
            /\ events' = events + 1
            /\ \E to \in Agents :
                 LET conv(msgs) == Append(convs, [agent |-> to, key |-> "agent", msgs |-> msgs])
                     first == [ev |-> events', role |-> "user", late |-> FALSE]
                 IN  /\ \/ convs' = conv(<<first>>) /\ UNCHANGED faults
                        \/ convs' = conv(<<>>) /\ Fault
                     /\ Send(to, Event(events', "agent_message", None, Len(convs'), depth))
         \/ /\ DepthSeen(k) >= MaxDepth /\ UNCHANGED faults   \* too deep
            /\ UNCHANGED <<convs, inbox, events>>
         \/ /\ Fault                                         \* no conversation
            /\ UNCHANGED <<convs, inbox, events>>
  /\ Answer(Next_call)
  /\ UNCHANGED <<turn, late, outbound, timers, subs, forwards, server>>

ScheduleWake ==
  /\ Serves("schedule-wake")
  /\ \/ timers' = timers \cup {[agent |-> CallerOf(Next_call), task |-> Next_call]}
     \/ UNCHANGED timers                              \* delay out of bounds
  /\ Answer(Next_call)
  /\ UNCHANGED <<faults, inbox, turn, convs, late, outbound, subs, forwards, server, events>>

SendNotification ==
  /\ Serves("send-notification")
  /\ \E chat \in Chats :
       outbound' = Append(outbound, [chat |-> chat, ev |-> 0, by |-> None])
  /\ Answer(Next_call)
  /\ UNCHANGED <<faults, inbox, turn, convs, late, timers, subs, forwards, server, events>>

-----------------------------------------------------------------------------
InitConsciousness ==
  /\ inbox = [a \in Agents |-> <<>>]
  /\ turn = [a \in Agents |-> NoTurn]
  /\ convs = <<>> /\ late = {} /\ outbound = <<>> /\ timers = {} /\ forwards = {}
  /\ subs = [a \in AgentIds |-> {}]
  /\ server = ServerIdle
  /\ faults = 0

NextTurn(a) ==
  \/ TakeEvent(a) \/ FindConversation(a) \/ CreateConversation(a) \/ AskProvider(a)
  \/ TakeAnswer(a) \/ AnswerTimedOut(a) \/ AppendUser(a) \/ AppendAssistant(a)
  \/ PublishAnswer(a)

NextBuiltin ==
  \/ BrainQuery \/ SubscribeEvents \/ InstallSubscription \/ UnsubscribeEvents
  \/ DelegateTask \/ ScheduleWake \/ SendNotification

NextConsciousness ==
  \/ \E a \in Agents : NextTurn(a)
  \/ NextBuiltin
  \/ \E a \in Agents, chat \in Origins : EventArrives(a, chat)
  \/ \E f \in forwards : RuntimeForward(f) \/ RuntimeExpires(f)
  \/ \E w \in timers : WakeFires(w)
  \/ \E x \in late : LateAppend(x)

-----------------------------------------------------------------------------
(* An agent's turns do not interleave: in every conversation the messages   *)
(* appended in time stand in the order of their events, the user's before   *)
(* the answer, however many events queue up while the provider is asked and *)
(* whatever turns were cut short by a timeout.                              *)
HistoryInEventOrder ==
  \A n \in DOMAIN convs : \A i, j \in DOMAIN convs[n].msgs :
    LET x == convs[n].msgs[i]
        y == convs[n].msgs[j]
    IN  i < j /\ ~x.late /\ ~y.late => \/ x.ev < y.ev
                                       \/ x.ev = y.ev /\ x.role = "user"

(* A message gets at most one answer, sent to the chat it came from, and    *)
(* only while its turn waited did the provider's answer count: each request *)
(* made for the message was answered, and its turn took the answer; one     *)
(* that comes after the 120 s belongs to a turn that has left and is never  *)
(* sent, whatever other agents and chats wait for at the same time.         *)
AnswerSentOnce ==
  \A i \in DOMAIN outbound : outbound[i].ev # 0 =>
    LET For(c) == calls[c].from.agent = outbound[i].by /\ calls[c].from.id = outbound[i].ev
    IN  /\ \A j \in DOMAIN outbound : outbound[i].ev = outbound[j].ev => i = j
        /\ \E c \in DOMAIN calls : For(c)
        /\ \A c \in DOMAIN calls : For(c) =>
             /\ calls[c].from.chat = outbound[i].chat
             /\ calls[c].st = "answered" /\ calls[c].caller = "took"

(* Every forwarder task of a runtime subscription has its entry, through    *)
(* which unsubscribe-events can abort it, and an agent never has more than  *)
(* MaxSubscriptions of them, although the count is taken before the tasks   *)
(* are spawned and the entries written after.                               *)
ForwardersAccounted ==
  /\ \A f \in forwards :
       \/ [pattern |-> f.pattern, task |-> f.task] \in subs[f.agent]
       \/ server.st = "install" /\ f.task = server.task
  /\ \A a \in AgentIds : Cardinality(subs[a]) <= MaxSubscriptions

=============================================================================
