# Seidrum in TLA+

Seidrum is an event-driven platform for personal agents: an event bus with durable delivery
(`seidrum-eventbus`), a kernel (`seidrum-kernel`) with its knowledge base, registries and agents, an agent
runtime, a daemon that supervises the processes, and plugins that talk to each other only through the bus. This
directory models the parts in which the program's own logic lives, checks them with TLC on small instances, and
proves central invariants with TLAPS for every size.

`EB/` below is `src/crates/core/seidrum-eventbus/src/`, `K/` is `src/crates/core/seidrum-kernel/src/`, `GW/` is
`src/crates/plugins/seidrum-api-gateway/src/`, `P/` is `src/crates/plugins/`, `D/` is
`src/crates/core/seidrum-daemon/src/`. `PROJECT.json` lists, for each definition, the lines it stands for; for
each component, what is modelled of it; and for each hazard, the line where it bites and the properties about it.

## 1. The system

| Component | State | Operations | What makes it correct |
|---|---|---|---|
| Event store (`EB/storage`) | events with one delivery record per subscriber; in redb also three index tables; persisted webhook registrations | append, update_status, record_delivery, requeue, purge, compact; queries by subject, status, retryable | an index never disagrees with the table; a removed event stays removed |
| Dispatch engine (`EB/dispatch/engine.rs`) | subscriptions, channels, interceptors | publish, replay, subscribe, unsubscribe | every match is served or recorded as failed; interceptors see each other's changes in order; publish returns |
| Retry and compaction tasks (`EB/delivery/retry.rs`, `EB/storage/compaction.rs`) | none of their own; they work on the store | poll, attempt, record, finalize; compact | each failed delivery is made once or dead-lettered; late writes do no damage |
| Subject index (`EB/dispatch/subject_index.rs`) | a trie of patterns | subscribe, unsubscribe, lookup | agrees with the definition of a match; leaves nothing behind |
| Webhook channel (`EB/delivery/webhook.rs`) | a circuit breaker for each URL | deliver | recovers once the receiver does, whatever is in flight |
| Request/reply (`EB/request_reply.rs`) | a reply subscription per request; a bridge task per server | request, serve, reply | one reply or none, no leak, always returns |
| WebSocket transport (`EB/transport/ws.rs`, `EB/delivery/ws_remote*.rs`) | connections, forwarders, pending results | publish, subscribe, request, remote interceptors and channels | a lost connection takes everything with it; nobody waits for ever |
| HTTP transport (`EB/transport/http.rs`) | subscriptions, interceptors, slots, rate limit | register, remove, restore, forward | what was acknowledged holds across a restart; slots are counted right |
| WebSocket client (`seidrum-common/src/ws_client.rs`) | pending calls, handles, command queue | publish, request, subscribe, unsubscribe, reconnect | a call ends with its connection; handles are subscribed again |
| Plugin sessions (`GW/ws.rs`, `connections.rs`, `rest.rs`) | connection table | register, register capability, deregister, REST delete | no entry outlives its session |
| Plugin and capability registries (`K/registry`, `K/tool_registry`) | plugins in memory; tools in cache and database | register, deregister, load | what is offered survives a restart; who is gone is forgotten |
| Scheduler (`K/scheduler`) | failure counts by plugin id | health check, confidence decay | counts and registry agree in the end |
| Consciousness (`K/consciousness`) | agents' queues, conversations, runtime subscriptions, timers | a turn per event; built-in tools | one answer per message, history in order, every turn ends |
| LLM providers, router and tool dispatcher (`P/seidrum-llm-*`, `P/seidrum-tool-dispatcher`) | tool loops, cache of tool owners | provider call, tool call, routing with fallback | a result belongs to its call; one response per message |
| Brain (`K/brain`) | content, entities, facts, scopes, tasks, conversations, users, API keys | a task per message, a few database calls each | facts are superseded without gaps; edges lead somewhere |
| Extractors and context loader (`P/seidrum-*-extractor`, …) | a buffer here and there | one event in, brain and LLM calls, events out | the pipeline comes to rest |
| Gateway accounts (`GW/auth*`, `jwt.rs`, `audit.rs`, …) | tokens, revocations, rate buckets, audit log | register, log in, change, delete, revoke, restart | what a client was told stays true; the rate limit holds |
| Orchestrator, formatter, channels (`K/orchestrator`, `P/seidrum-telegram`, `-cli`, `-email`, `-calendar`, `-response-formatter`) | origins of messages, offsets, poll marks | inbound, poll, route, format, show | an answer is shown where its message came from |
| Agent runtime (`seidrum-agent-runtime`) | turn records, audits, jobs and runs, outbound deliveries | turn, forced run, authorize, dispatch, cancel | traces, runs, audits and deliveries tell the truth |
| Supervisor (`D/daemon.rs`) | child processes, restart counts, PID files, markers | start, check, back off, restart, stop, shut down | what was stopped stays stopped |
| Scope service, trace collector, embedding, skills, management, configuration, packages, tools and emitters | little or none | | not modelled, see section 6 |

How they interact. A publisher's task runs the dispatch pipeline itself: it appends to the store, looks the
subscribers up in the index, awaits the interceptors one by one, and puts the event into bounded channels
without waiting. Failures are recorded in the store, which is the only link to the retry task. Both write
status and delivery records of the same event, as do compaction, replay and purge. Everything else in the system is
a client of the bus, in its process or over a transport: each subscription is a queue, and a service takes from
several of them with `select!` or spawns a task per message, so messages overtake each other. A call is a
request with a timeout: who gives up does not stop the one who was asked, and its work takes effect later.

What is hard here: every await is a point where another task may run; the calls to a store are atomic one by one
and not together; outcomes are written after the fact; a store error is logged and the work goes on; a process
can stop between any two writes; sequence numbers are given out again after the last event has been removed;
timeouts race with late answers; connections are lost in the middle of an operation; a branch of a `select!` is
dropped where it waits.

## 2. The modules

| Module | Models | Notes |
|---|---|---|
| `EventStore` | the `EventStore` trait as `memory_store.rs` implements it | the table is a function of the sequence number; the deliveries `Vec` a function of the subscriber, of which it has at most one record each |
| `RedbStore` | `redb_store.rs` | `EventStore` with the three index tables, one action per write transaction |
| `Dispatch` | `engine.rs`, `retry.rs`, `compaction.rs` over `EventStore` | one action per await point; `pub[p].pc` is where a publisher's call is, `retry.pc` where the retry task is; a list of entries, which the code keeps sorted by priority, is a set taken in the order of `Rank` |
| `WebhookCircuit` | the circuit breaker of `webhook.rs` | cooldowns count ticks; `remaining` stands for `opened_until` |
| `HttpSubscriptions` | `EB/transport/http.rs` | extends `WebhookCircuit`: the forwarders and the retry task are its callers; a handler is dropped where it is when its client goes away |
| `RemoteCall` | abstract: a call that is decided by its first reply or fails, and returns | what `RequestReply` implements |
| `RequestReply` | `request_reply.rs` | the part of the engine it needs (sends to bounded channels, look-up and send of a reply, a retry) in its own terms; `Call == INSTANCE RemoteCall WITH …` |
| `SubjectIndex` | `subject_index.rs` | the trie as nested records, recursive as in the code, so model-checked only |
| `WsServer`, `WsClient`, `WsTransport` | `EB/transport/ws.rs` with the remote proxies; `ws_client.rs`; both together with peers and a network | each extends the one before |
| `PluginLifecycle` | `GW/ws.rs`, `connections.rs`, `rest.rs`; `K/registry`, `K/tool_registry`, `K/scheduler` | composes the parts through one queue per subscription |
| `LlmProviders`, `LlmRouting`, `LlmRouter` | the tool loops and the dispatcher; the pure part of the router; its two tasks | `LlmRouting` is operators only |
| `Consciousness`, `AgentTurn` | `K/consciousness`; agents, router and providers together | the consciousness service and the router call the same providers, whose tools lead back to it |
| `Brain`, `Knowledge` | `K/brain`; the extractors and the context loader around it | a job is the task of one message, one action per database call |
| `Accounts`, `RateLimiter`, `Gateway` | the brain's users and keys and plugin storage; the buckets; authentication, tokens, routes | `Gateway` extends the other two |
| `Channels` | channels, orchestrator, formatter, over `Knowledge` | |
| `RuntimeStore`, `AgentRuntime` | the redb tables of the agent runtime; turns, runs, deliveries | |
| `Supervisor` | `D/daemon.rs` and its commands `plugin start` and `plugin stop` | |
| `PluginSystem` | gateway, knowledge pipeline and channels around one brain | composes `Gateway`, `Knowledge` and `Channels` |
| `EventBusProofs`, `RequestReplyProofs`, `HttpProofs`, `WsTransportProofs`, `PluginProofs`, `AgentTurnProofs`, `SystemProofs`, `AgentRuntimeProofs` | | theorems, section 4; `EventBusProofs` is about `RedbStore` and `Dispatch`, `PluginProofs` about `PluginLifecycle` and `Supervisor`, `SystemProofs` about `PluginSystem` |
| `MC*` | | constants, workloads and symmetry for TLC |

Abstractions. A payload is the set of interceptors that have changed it, which is all that the order of the
chain is about; texts, prompts, formats, counters and traces are left out, and what a model or an LLM finds in a
text is a constant. Time in `EventStore` is a clock that stops at `MaxClock`, where every timer is due: the exact
backoff does not matter, only whether a retry is due yet; elsewhere a timeout is an action that may happen whenever
its wait lasts. An interceptor call is one step with one of three results (`Pass` with or without a change, `Drop`,
`Abort` for an error, panic or timeout). A webhook or a custom channel succeeds or fails at will, and one that
reports a failure may have got the event through: `sent` keeps every copy that did, with what its sender was
answered. Databases,
stores, publishes and LLM calls fail at will within `MaxFaults`. Operators called "Mutant" in their comment are
faulty variants, kept beside the definition they vary to show that the properties notice them; no specification
uses them.

## 3. The runs

The deadlock check is off where the bounded input can be used up, which is where all work is done; it is on in `redb`
and `subject_index`.

| Run | Instance | Shows |
|---|---|---|
| `redb` | 2 events, 2 symmetric subscribers, 2 subjects | `IndexesExact`, `QueriesAgree` after every order of transactions |
| `dispatch` | sync channel, interceptor, async webhook subscriber whose channel other events fill, the first two there from the start; 1 publisher, 1 event, 3 attempts, a retry due at once, fair | `NothingLost`, `NoDuplicateDelivery`, `ChainOrder`; `FailedResolved`, `PublishReturns` |
| `operations` | 1 filtered subscriber, 2 symmetric publishers, 1 sequence number, failing store, replay, purge, compaction, a restart | `DeliveredWasSent`, `NoResurrection` |
| `request_reply` | 1 request, 2 servers, inboxes of 2, bridges of 1, fair | `NoLeakedReply`, `ImplementsCall` |
| `subject_index` | 3 ids, patterns of up to 2 tokens over 2 literals, `*`, `>`; subjects of up to 3 tokens | `LookupExact` |
| `http` | 4 callers of a circuit with threshold 2, 2 handlers, 3 ids, 1 slot of each kind, 1 fault, 1 restart; two workloads, fair | `ClosedIffBelowThreshold`, `SlotsAccounted`, `RegistrationsHonoured`; `Recovers` |
| `ws` | 2 connections, 2 callers, all queues of 1, six workloads (subscribe and lose the connection; events; publish and give up; intercept; intercept the bus's own events; request from each other), fair | `NothingLeftOfClosed`, `PendingMatched`, `CallsDieWithConnection`; `PublishesEnd` |
| `plugins` | 2 sessions for 1 plugin, 1 tool, a plugin of an earlier run, queues of 1, limit of 2 failed pings, 1 fault, fair | `CacheInDb`, `NoOrphanConnection`; `DeadForgotten` |
| `agent_turn` | 1 agent with 2 events from two chats and every built-in tool, or 2 messages for the router with a history to cut; 1 tool round, 1 change of a tool's owner, 1 fault, fair | `ResultBelongsToTool`, `RouterAnswersOnce`, `HistoryInEventOrder`, `AnswerSentOnce`, `ForwardersAccounted`; `EveryTurnEnds` |
| `knowledge` | nine deployments of plugins around the brain with 2 messages each (1 where loader and the whole routing run), an extractor that may name an entity nobody stored, answers of up to 2 pieces, 2 clients of the gateway with seven loads, 1 fault, fair | `CurrentFactRemains`, `Provenance`, `AccountsHonoured`, `RateBounded`, `AnswersGoHome`; `ComesToRest` |
| `runtime` | 3 turns of one session, one a forced job run, 2 dispatchers or cancellers; four loads with faults and a crash | `TurnsInOrder`, `RunMatchesTrace`, `ExecutedIsAudited`, `DeliveryStatusTruthful` |
| `supervisor` | the kernel and 1 plugin, 4 process ids, 1 restart, 2 requests, 2 deaths | `StopSticks` |

What the properties say is written above each of them. In the table those before the semicolon are safety.

Why the bounds are enough. `dispatch` needs subscribers of different channel kinds (the retry of a webhook takes
another path than that of an in-process channel), one on either side of the interceptor, a full channel (capacity 1
and an event of another subject), and three attempts: the dispatcher's, a retry that the receiver takes and reports as
failed, and the last one. Its clock stands still, so that a failed delivery is due at once; waiting for `next_retry`
and for the retention is part of `operations`. Its three invariants are also proved for any size, for a bus
whose store works and whose process does not stop; TLC is needed there for the two liveness properties. `operations`
has one sequence number, so that compaction or a purge followed by a publish gives it out again at once, and two
publishers, so that a replay meets a dispatch. `request_reply` needs two servers for two competing replies, and an
inbox of two so that a request and a repeated request wait together. In `http` more callers than the threshold leave
deliveries under way when the circuit opens, a cap of 3 is one that a doubling passes, and with one slot, three
ids and two handlers a registration meets its own removal, and the end, the roll back and the restoration of another;
the rate limit of one registration in a window is reached at once. In `ws` a queue of 1 is full after
one frame, and two connections are what a request in a circle, a reconnection or an interceptor on somebody else's
publish takes. In `plugins` two sessions for one plugin id is the race of interest, and one fault at a time is what
the code is written for. In `agent_turn` a second event, of the same chat or another, queues up behind a turn that waits. In `knowledge` two
messages about the same entity are what concurrent upserts of a fact take, two clients of the gateway change the same
user, and the deployments are those in which the plugins named in it meet. In `runtime` two turns overlap and a third
begins after one of them. In `supervisor` two requests and two deaths let a stop, a crash and a start fall into the
same backoff. Where a proof exists, the size of the instance does not matter. The first and the second restart of a
process are alike, since what survives is on disk.

Fairness. `Dispatch`: weak fairness of each publisher's task, of the retry task and of the clock, which is
what the tokio scheduler, the interval of the retry task and time give; nothing of subscribers (one may never
read), of callers or of the operator. An interceptor that never returns is `Abort` by its timeout.
`RequestReply`: the task that made the request, with its timeout; servers may be silent. `HttpSubscriptions`: a
delivery that was begun ends (the HTTP client has a timeout), the retry task delivers again and again, and time
passes; the receiver comes up at some time or never, and `Recovers` speaks of behaviours where it stays up.
`PluginLifecycle`: each service's task runs, the cron job fires for ever, and no subscription is passed over for
ever: `select!` polls its branches in random order, hence weak fairness of each of the registry's queues and strong
fairness of `CacheRemove`, which competes with registrations for the one task of the capability registry.
`AgentTurn`: the agents' processors and the router's tasks, all of whose waits have a timeout; providers and
tools may hang. `WsTransport`: the tasks of the server and the calls that wait in it with their timeouts; clients
may do nothing. `PluginSystem`: plugins whose calls all have a timeout, and the brain's tasks, run. The content
ingester is not among them: its call of the embeddings API has no timeout and is awaited in its only loop
(`P/seidrum-content-ingester/src/main.rs:59-65`, `150`, `191`), so `ComesToRest` is about everybody else. `AgentRuntime` and `Supervisor` are checked
for safety only and assume no fairness.

Refinement. `RequestReply` implements `RemoteCall` (`ImplementsCall`, fairness included): the abstract call is
idle, open, decided or returned, its decision is the reply that the receiver holds first, and servers, bridges,
channels and retries are invisible steps. TLC checks all of it; the safety half is proved as well (`RefinesCall`).
For the redb store `QueriesAgree` plays that part: its
event table changes as that of `EventStore`, and its indexed queries answer what the scans of `EventStore` do.

## 4. The proofs

* `RedbTypeCorrect`, `RedbIndexesExact`, `RedbQueriesAgree` (`EventBusProofs`), for any numbers of
  events, subscribers, subjects and attempts, from `StoreAssumption`. The inductive
  invariant is `RedbInv`: types, and for each index what one entry means, entry by entry
  (`SubjectEntries`, `StatusEntries`, `FailedEntries`). The statement about whole sets (`IndexesExact`) follows
  from it; entry by entry is what a transaction changes, so each of its cases is short. That the queries agree
  with a scan follows from the indexes without another induction.
* `CircuitCorrect`, `TransportCircuitCorrect`, `RegistrationsKept`, `SlotsKept` (`HttpProofs`), for any handlers, ids,
  limits, workloads, faults and restarts, from `CircuitAssumption` and `HttpAssumption`. The circuit alone, under any
  concurrent deliveries, is closed exactly while fewer than `failure_threshold` failures have been counted, and no
  cooldown exceeds its cap. `CircuitInv` is type and property together; neither is inductive alone, because
  re-opening computes with a cooldown that has to be within its range, and the mode depends on the count. The
  transport's forwarders and its retry task are callers of that circuit, so `CircuitInv` holds there too. What a
  client was told (`RegistrationsHonoured`) needs `RegistrationInv`: an id given out is below the next one
  (`IdsBelowFresh`) and nobody else's (`IdsUnique`); each handler's place says what it has put into memory and store
  so far (`HandlersInOrder`), where a removal may have taken what a handler that is not done yet has put there; and what
  was acknowledged or removed is so in every place it could come back from (`AckedKept`, `RemovedGone`).
  `SlotsBalanced` counts the slots: one for each subscription that runs, each handler between taking and giving back,
  and each left by a handler that was dropped, less those that were given back twice (section 5).
* `CacheAlwaysInDb`, `NoOrphans` (`PluginProofs`), for any number of sessions, plugins, tools,
  checks, queue lengths and faults. `LifecycleInv` adds to the two properties what is true between two writes:
  `TaskInv` (the document of a tool about to be cached is already its new plugin's; a plugin whose documents
  are about to go has nothing left in the cache) and `EntryInv` (an entry belongs to a session that is
  registering or registered with that plugin id, or failed to announce itself). The proof treats the two halves
  apart, since every action touches only one of them.
* `RateLimitHolds` and `RequestsAreLimited` (`SystemProofs`), for any subjects, rates and times: a subject is let through no more often
  than one full bucket and the refill since the start of the process allow. It assumes (`RateAssumption`) that a
  bucket is kept at least for the minute it takes to fill, as the code's constants have it: a bucket forgotten
  sooner would be full again too early. The inductive invariant `RateInv` says of each bucket
  (`BucketBounded`) that what was let through and what is still in it were together within the bound at its last
  refill; that one restored from an earlier process has let nothing through yet; and that one that is not known
  could be full again without exceeding the bound, which is what forgetting buckets relies on. That is about the limiter alone; for the gateway at
  work every step of the whole system is shown to be a step of the limiter or none of its business.
* `AccountsStayHonoured` (`SystemProofs`), for any clients, loads, faults and timeouts, from `GatewayAssumption` and
  `RateAssumption`. A client is told of a change when the task of its request has written it, and the next request
  may already have begun. `AccountInv` therefore follows each request to its task and back: names stay unique
  (`NamesUnique`), a task has the arguments of the request it answers, which nobody else waits for, and a reply that has
  not been read yet is already true (`JobArgsOK`, `RequestsOK`).
* `FactsStayCurrent` (`SystemProofs`), for any messages, deployments and faults: `FactInv` says
  that the ids of tasks and the keys of facts are never given out twice (`JobsOK`), that the fact an upsert has read
  is still there and of the same subject, and that a task's own fact is written only at its end (`FactsOK`); the current
  fact of a subject is then missing only between superseding and inserting, or for good when the insert fails.
* `FactsAreTraced` (`SystemProofs`), for the same. `TraceInv` says that whatever is on its way, event, request or job,
  is about content that is stored, and that an entity is stored and mentioned before its facts are asked for. It assumes
  only that what an LLM found is a list (`Lists`), of facts about whatever it names: `Provenance` leads from a fact to its
  source and to the entity that was asked about, and says nothing of the fact's own subject, which nobody looks up.
* `AnswersFindHome` (`SystemProofs`), for the same and without any hypothesis. `AnswerInv` says that a message goes
  through each of the router's two paths at most once (`PathsOK`, `ContextsOK`), that its correlation id names the chat
  it came from (`SentOK`), and that the answer of a path is in at most one place: not there yet, with the formatter,
  in a channel's queue, or shown (`AnswersOK`), where what Telegram shows of one outbound message are its pieces, each
  formatted, plain, in both forms or not at all (`ShownOK`).
* `ClosedLeavesNothing`, `PendingIsMatched`, `CallsEndWithConnection` (`WsTransportProofs`), for any connections, callers,
  queue lengths and workloads. `TransportInv` says that every entry on the bus is known to its connection until the
  step that removes it, where the interceptor that is being unsubscribed is known by the call of the task that does
  it; that two calls never wait for the same request; and that a call of the client that was sent is pending only on
  the connection that the manager has, while that one is up or is being given up.
* `HistoryStaysInOrder`, `AnswersSentOnce`, `ForwardersAlwaysAccounted`, `ResultsBelong`, `RouterAlwaysAnswersOnce`
  (`AgentTurnProofs`), for any agents, chats, patterns, providers, tools, messages, events, faults and limits, from
  `RoundsAssumption`, `ConsciousnessAssumption` and `RequestsAssumption` (limits are numbers, no chat is called "agent",
  the messages of the router are distinct) and the hypothesis `Batches`, that what a model asks for is a list of
  tools. `TurnInv` has five parts. `ProviderInv` counts the tool calls of a request against the rounds behind it and
  the queue of the round under way (`Within`), since the limit on all of them says nothing in between. `AgentInv` has
  the events of an agent ahead of it in the order of their numbers (`EventsInOrder`) and says of each of them, and of
  the turn that has not written its answer, that whatever stands in a conversation it may be added to came before it
  (`EventOK`); that needs the two kinds of conversation apart, those found by their key and those between agents, which
  an event names (`NamesOwn`); and who has been answered has nothing ahead any more (`AnswerInv`). `RequestInv` follows the request of a turn: an event is
  asked for once, and not while it still waits; the request carries the event's chat; and a turn that goes on, as the
  answer it sends later, has taken the provider's while it waited (`TurnAsked`, `Taken`). `SubscriptionInv`
  gives each forwarder an entry of its own, or the call that spawned it, which still has room for it. `RouterInv` has
  each message in one place (`OnePlace`) and, for the task that has it, the places of its requests in the order of the
  providers tried, with the ones ahead all that the strategy offers (`TriesOK`).
* `DeliveredIsTrue` and `NothingResurrected` (`EventBusProofs`), for any subscribers, subjects, publishers, attempts,
  capacities and numbers of events, with a store that fails, restarts, replays, purges and compaction, from
  `DispatchAssumption` and `StoreAssumption`. The inductive invariant `ToldInv` has the types, the property, that a
  number not given out yet has no traces, and what is true between a send and its record: a publisher (`PubTold`)
  or the retry task (`RetryTold`) that is about to write `Delivered` has sent the event. `NoResurrection` is an
  action property: it follows step by step from the types and from what each store operation does to a missing event.
* `NothingIsLost`, `DeliveredOnce`, `ChainIsKept` (`EventBusProofs`), for the same sizes, of a bus that is
  `Reliable`: the store does not fail, nobody replays and the process does not stop. Compaction, purges, unsubscribes,
  full channels, aborting and dropping interceptors and the retry task are all there. Without the hypothesis they
  do not hold, and the code does not mean them to: an outcome that could not be recorded is delivered again, a replay is a
  second delivery, and nothing dispatches again what a stopped process left (section 5). The three properties need one
  common invariant, `ReliableInv`: each is about what another one of them leaves behind. For a publisher it says
  (`OnEvent`) that it is alone with its event, how far its chain has come (`Stage`), and of every subscriber it may
  still deliver to (`OpenPair`) that nobody has touched it: no record, nothing sent, not in the batch of the retry
  task. For an event and a subscriber it says how record and sends agree while the retry task holds the delivery
  (`Ledger`), that who is owed the event and has no record is still open, and that what was sent carries the changes
  of the chain so far (`Course`). It speaks of numbers that belong to their own event (`OwnNumber`): once a number has
  been given out again, the old event's work goes on the new one's account. A remote channel may get several copies
  without acknowledging one; that they are fewer than its attempts takes `CountInv` beside it, which counts the copies
  against the attempts on record. `ReliableInv` was checked with TLC on the instance of `dispatch`, whose retention of
  0 has numbers given out again, before it was proved.
* `NothingLeaks` and `RefinesCall` (`RequestReplyProofs`), for any number of requests and servers and any capacities, from
  `RequestAssumption`. `RequestInv` says of each caller (`CallerInv`) what its place in `request()` means for its
  subscription, its receiver and its answer, and of everything in transit that its request has been published.
  `RefinesCall` is that `Spec` implies `CallSafety` of `RemoteCall`: initial states map to initial states, and each
  step to a step of the abstract call or to none. The one step that matters is the reply that gets into the channel
  first, which is the decision; every other step leaves the first entry alone.
* `StoppedStaysStopped` (`PluginProofs`), for any plugins, process ids, restarts, requests and deaths. The
  property is an action property; `SupervisorInv` adds to the types that from the moment a stop is asked for the marker
  is there and no spawn of that plugin is ahead, neither of the daemon after a backoff nor of the command line
  (`StopHolds`).
* `ToolsAreAudited`, `DeliveriesTellTheTruth`, `TurnsStayInOrder`, `RunsMatchTraces` (`AgentRuntimeProofs`), for any turns, tools, rules, answers of
  the provider, dispatchers, faults and crashes, from `LimitAssumption` (the two limits are numbers) alone. `AuditInv`
  says that a turn about to run an audited tool has its permission in the audit table, `DeliveryInv` that the copy of
  a delivery held by a dispatcher or canceller is as true as the one stored (`Truthful`), with no more attempts than the
  channel answered. Truth is kept by further answers, so that an older copy may overwrite a newer record.
  `TraceInv` is about the numbers of records, which turns that overlap may give out twice: none is above the number of
  records its session holds (`RecordOK`), a turn numbers upwards (`NumbersOK`) and from above the numbers of every turn
  that had ended before it (`EarlierOK`), and a run started no later than the numbers of its turn and, once concluded, has
  counted at least as many (`RunOK`). That makes `next_sequence`, a count, a number above all those of the session.
  From numbers to traces it takes lemmas about the list itself: `records` lists at each place the key with that many
  before it (`ListedOnce`, by an injection between finite sets of one size), in the order of sequence and key
  (`ListedInOrder`), which is what collecting and a stable sort give.

Only model-checked: all liveness (`FailedResolved`, `PublishReturns`, `Recovers`, `DeadForgotten`, `EveryTurnEnds`,
`PublishesEnd`, `ComesToRest`, and the fairness of `ImplementsCall`), which is out of the prover's reach;
and `LookupExact` of `SubjectIndex`, whose trie is recursive.

## 5. What the code does that its documents do not say

Seen while modelling, and reflected in the models; a property that would contradict one of these excludes it, in
words, where it is stated.

Event bus

* The retry task may settle the last failed delivery while the dispatcher is still in its fan-out; the dispatcher
  then writes `PartiallyDelivered` over the terminal status (`EB/dispatch/engine.rs:728-738`), and nothing touches
  the event again. `EB/delivery/retry.rs:287-288` says that such an event gets its status updated.
* Nothing looks for `Pending` events when a bus is built (`EB/builder.rs:349`); `seidrum-eventbus/IMPLEMENTATION.md:52`
  says they are re-dispatched on reopen.
* Sequence numbers are the highest stored number plus one, and so are reused when the last event is compacted
  or purged (`EB/storage/types.rs:6` says "Monotonically increasing"). A retry that is under way is then
  recorded on the new event; the properties of `Dispatch` are about numbers given out once (`OwnNumber`).
* Dead-lettering a delivery counts one more attempt (`EB/storage/mod.rs:68-70` says otherwise).
* An event can be `PartiallyDelivered` with no delivery pending, after an interceptor aborted
  (`types.rs:31`), `Delivered` with a dead-lettered delivery (`types.rs:29`, `retry.rs:323`), and compacted
  with a retry pending, if an interceptor dropped it after an earlier subscriber failed (`storage/mod.rs:119`).
* A retry sends the payload as stored, without the changes of the interceptors (`retry.rs:183`; `engine.rs:15`).
  `ChainOrder` therefore speaks of the dispatcher's deliveries only.
* A webhook subscriber of the HTTP transport is served through a channel: the record says `Delivered` once the event is
  in it, and the forwarder that makes the POST only logs a failure (`http.rs:663-675`). Only what did not fit in the
  channel is retried by the retry task, with the answer of the receiver. `seidrum-eventbus/ARCHITECTURE.md:210-213`
  promises retries and "delivery confirmation via HTTP status code (2xx = delivered)".
* A webhook that times out or answers 5xx after it has processed the event (`webhook.rs:499-522`), and a remote
  channel whose reply comes too late (`ws_remote.rs:166-179`), count as failed and are sent the event again
  (`retry.rs:211`). `NoDuplicateDelivery` says what is left: no copy after an acknowledged one, and fewer copies than
  attempts.
* With `max_attempts` of 1 a failed delivery stays `Failed`, neither retried nor dead-lettered (`retry.rs:8`).
* A delivery begun before the circuit opened doubles the cooldown when it fails after the half-open probe has
  begun (`webhook.rs:226-229` speaks of the probe).
* A reply that arrives between the timeout and the drop of its receiver is lost, though its server is told
  that it was delivered (`request_reply.rs:166`).

Transports

* `handle_operation` is awaited in the read loop of its connection: two connections that request from each other,
  and one that publishes what it intercepts itself, wait for the timeout (`EB/transport/ws.rs:585`).
  `WsRemoteChannel::deliver` sends its frame without a timeout. An interceptor that unsubscribes has its calls
  cancelled before it leaves the bus (`ws.rs:865`), the reverse of the order at the end of a connection (673-697).
* An error of the server carries no correlation id (`ws.rs:596-598`), so the client's call ends only with the
  connection. In the client a command that is taken during the backoff is dropped while its caller keeps waiting
  (`ws_client.rs:588-590`); an unsubscribe during the resubscription leaves the subscription on the server; events
  between "subscribed" and the entry of the handle are dropped; one full handle blocks the manager.
* An id can be deleted as soon as it is entered (`http.rs:1004`, `1299`), before its `POST` is answered. A
  `DELETE` that ends before the save leaves a persisted registration without a subscription, which comes back at the
  next restart although the client was told that it is gone. When the save fails after a `DELETE` has taken an
  interceptor, both give its slot back (`http.rs:1312`, `1371-1374`): the cap can then be exceeded, or the unsigned
  counter wraps below zero and every later interceptor is refused until a restart (`Admit` lets a request through
  only where the slot of another refused one is still counted). A client that goes away keeps its slot. Recreated
  registrations get new ids, and such left-overs can take the slots of acknowledged ones at a restart.
* `unsubscribe` of the engine returns `Ok` whether or not the id is known (`engine.rs:833-839`), so the branches for
  its failure (`http.rs:1074-1077`, `1357-1365` and in the roll backs) are never taken, and the model has none.

Registries and gateway

* `select!` may take `plugin.deregister` before a `capability.register` published earlier
  (`K/tool_registry/service.rs:612-632`), whose tool then stays; `docs/EVENT_CATALOG.md:616` says that
  deregistration triggers the cleanup. `failure_counts` survives a deregistration, so a new session may be
  removed after its first missed ping (`K/scheduler/service.rs:188` reckons with 90 seconds).
  `ConnectionManager::register` can let two sessions in (`GW/connections.rs:61`); after a REST delete the end of
  an old session removes the entry of the new one.
* Audit entries are published in an envelope that `brain.audit.store` does not expect, and are never stored.
  `cleanup_revocations` keeps arbitrary members, not "the most recent" (`GW/jwt.rs:183-196`). `storage.list` takes
  its prefix without the colon (`K/plugin_storage/service.rs:117`), so one plugin's list can show another's.
  Two concurrent changes of a configuration may be announced in another order than stored. A request that timed
  out at the gateway still takes effect. A failed insert of a user leaves its scope; the name of a deleted user
  cannot be used again.

Brain and knowledge pipeline

* Concurrent upserts can leave two current facts of one subject; a failed insert leaves `superseded_by` pointing
  nowhere (`docs/EVENT_CATALOG.md:155`, `docs/BRAIN_SCHEMA.md:109`). `CurrentFactRemains` and `Provenance` say what
  does hold.
* The fact extractor is asked about one entity and may name another as the subject of what it finds (its prompt, in
  `P/seidrum-fact-extractor/src/main.rs:365`, says "or another entity key if relevant"); nobody looks that one up, and
  the subject of a fact may be no entity at all. `Provenance` is about the entity that was asked about.
* The content ingester has no timeout for its embedding, which it throws away: one call that hangs stops it.
* The key of a content is the first 8 characters of a ULID (`K/brain/service.rs:539-543`), which tell about a second:
  of two contents stored in the same one the second insert fails. In the model that is the failing insert.
* `get_context` answers an array where the loader reads fields; the task detector writes "open" where the loader
  asks for "pending" or "in_progress"; the feedback extractor publishes an envelope where the consciousness service
  parses the bare event; the loader wraps `brain.skill.search` in an envelope the handler does not expect: each of
  these pairs never meets. `hybrid_search` may return an item twice.

Agents, router and channels

* A message is answered twice when the context loader runs, since the router handles both
  `agent.context.loaded` and `channel.*.inbound`. The router stops on an error reply (`docs/ADR_EVOLUTION.md:86`
  speaks of the next provider) and cuts a history that the loader sorts newest first from its front, "truncating
  from oldest" (`context_assembly.rs:419-434`). The simple route of intelligent routing is not reachable.
* Nobody publishes a `ConsciousnessEvent` with an origin; guardrails count what never repeats. A timed-out
  `conversation.find` makes a second conversation; a delegated message is appended twice; `brain.fact.upsert` has
  no reply, so that a preference is stored three times. The google provider changes tool names.
* Telegram is sent a piece again as plain text after any error of the formatted one
  (`P/seidrum-telegram/src/outbound.rs:103-123`), where line 81 speaks of a rejected formatting: if only the answer was
  lost, the chat shows both. A text over 4000 characters goes in pieces, and one that fails is only logged.
* Answers to mail and calendar are shown on the terminal only; what the orchestrator routes on cannot be parsed by
  a channel; `agent.<workflow>.pipeline.*` has no subscriber; origins without an answer are kept for ever. A mail
  that cannot be fetched or parsed is marked as seen and not published, and one that cannot be published is
  published again with its whole batch.

Agent runtime and daemon

* A failing store or a crash leaves a run `Running`; `dispatch_one` does not look at the status; overlapping turns
  and audits may share sequence numbers; a text beside tool calls is taken as the final one.
* An exited child is a zombie until it is waited for, and `is_process_alive` counts it: a stop over the bus always
  waits its 5 seconds and reports "killed", a shutdown its 10. A command that is taken during a backoff drops
  `check_processes`, and the crashed process is not restarted (`D/daemon.rs:400`). A start from the command line
  during a backoff makes two processes of one plugin (against `daemon.rs:804`, `833-835`); a stop from there is
  undone by the restart, which removes its marker. The daemon reads and then writes its PID file, where a comment
  speaks of an atomic create (`daemon.rs:208`); a new daemon does not look at the PID files of plugins. `StopSticks`
  is about stops that the daemon served.
* `apply_preset` saves twice and overwrites changes made in between (`K/management/handlers/presets.rs`). The
  trace collector may evict the trace it has just added, and a late event sets `last_event_at` back.

## 6. Not modelled

* Validation of subjects, payloads and URLs, the refusal of re-entrant publishing from an interceptor, metrics,
  authentication of transports, encoding, signing and password hashing: checks of one input against constants.
* `seidrum-common` events and configuration: data types, and parsing of files.
* The scope service rewrites query text; the effect is on strings. The trace collector is a bounded buffer written
  by one task and read by nobody but the dashboard. Embedding is one call per request; skills are read once.
* Management handlers other than start and stop rewrite whole YAML files; packages, setup and the command line of
  the daemon read and write files and call programs, one step after the other.
* Tools and emitters (code executor, claude-code, notification, event emitter): one process or one HTTP request per
  event. Where a long text for Telegram is cut is left out. Telegram's media, voice and commands end in the same published message.
* In the brain: skills, preferences, traces and generic AQL. The database is external, and each call to it atomic.
* Server-sent events and the reads of the dashboard; the event subscriptions of a plugin session of the gateway.

`PROJECT.json` gives the status and the reason for each component.

## 7. Plan

The modelling is done as far as the code's own logic goes, and every safety property that the provers can reach is
proved. When the code changes, the run of its module comes first, then the invariant of its proof: each invariant of section
4 can be given to TLC as an invariant of the module's run.
