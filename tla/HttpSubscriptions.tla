-------------------------- MODULE HttpSubscriptions --------------------------
(***************************************************************************)
(* The HTTP transport: webhook subscriptions and webhook interceptors that *)
(* clients register and remove, that are persisted and made again when the *)
(* server starts, and the forwarders of the subscriptions, which deliver   *)
(* to one URL through its circuit breaker, as the retry task does.         *)
(*                                                                         *)
(* A handler runs in steps, from one await to the next.  Its client may go *)
(* away in between: the handler is then dropped where it is, but a store   *)
(* operation that has begun runs to its end.                               *)
(***************************************************************************)
EXTENDS WebhookCircuit, Sequences, FiniteSets

CONSTANTS
  Handlers,        \* requests that are handled at the same time
  MaxIds,          \* bound: bus ids given out
  MaxSubscriptions, MaxInterceptors,  \* MAX_HTTP_SUBSCRIPTIONS, MAX_HTTP_INTERCEPTORS
  RateLimit,       \* WEBHOOK_REGISTRATION_RATE_LIMIT
  Workloads        \* bound: is the receiver up from the start, how many ids are given
                   \* out, how many faults and restarts happen

Kinds == {"AsyncWebhook", "SyncInterceptor"}
Ids == 1..MaxIds

(* The circuit's callers: a forwarder for each id, and the retry task, 0. *)
ASSUME HttpAssumption ==
  /\ MaxIds \in Nat /\ Callers = 0..MaxIds
  /\ IsFiniteSet(Handlers)
  /\ \A w \in Workloads : w.endpoint \in {"down", "up"}
  /\ MaxSubscriptions \in Nat /\ MaxInterceptors \in Nat /\ RateLimit \in Nat \ {0}

VARIABLES
  bus,        \* the registrations on the bus: [id, kind]
  known,      \* subscription_ids and interceptor_ids: [id, kind]
  mapping,    \* bus_to_persisted: [id, pid]
  count,      \* subscription_count and interceptor_count
  tasks,      \* ids whose forwarder runs
  queued,     \* ids with an event in the channel of the subscription
  handler,    \* the state of the handlers
  rate,       \* registrations counted in the current window
  persisted,  \* the store: [pid, kind]
  boot,       \* entries that the starting server has still to make again
  fresh,      \* the next bus id
  history,    \* what clients were told, and the slots that were lost, see NewHistory
  budget      \* what is left of the ids, faults and restarts of the workload

serverVars == <<bus, known, mapping, count, tasks, queued, handler, rate, boot>>
httpVars == <<serverVars, persisted, fresh, history, budget>>

IdleHandler == [st |-> "idle", kind |-> "none", id |-> 0]

(* acked: persisted ids of registrations answered with success; removing:   *)
(* of those, acknowledged or not, that a DELETE, or a start that refused    *)
(* them, has begun to remove; removed: of the acknowledged ones whose entry *)
(* the store then deleted for a DELETE; skipped: of those that the last     *)
(* start had no slot for; lost: slots of handlers that were dropped; twice: *)
(* slots of interceptors given back twice and not made good.                *)
NewHistory == [acked |-> {}, removing |-> {}, removed |-> {}, skipped |-> {},
               lost |-> [k \in Kinds |-> 0], twice |-> 0]

Max(kind) == IF kind = "AsyncWebhook" THEN MaxSubscriptions ELSE MaxInterceptors
Entry(id, kind) == [id |-> id, kind |-> kind]
Stored(pid, kind) == [pid |-> pid, kind |-> kind]
PidsOf(id) == {p.pid : p \in {x \in mapping : x.id = id}}

Goes(h, st) == handler' = [handler EXCEPT ![h].st = st]
Ends(h) == handler' = [handler EXCEPT ![h] = IdleHandler]
Adds(kind, n) == count' = [count EXCEPT ![kind] = @ + n]
Spend(what) == budget[what] > 0 /\ budget' = [budget EXCEPT ![what] = @ - 1]

-----------------------------------------------------------------------------
(* create_subscription, create_interceptor                                  *)

(* check_registration_rate_limit, validation, and a slot reserved, or given *)
(* back at once.  A refused request leaves nothing but its count.  A count  *)
(* below zero is a usize that wrapped: it refuses every request but one     *)
(* that meets the short-lived slot of another refused one.                  *)
Admit(h, kind) ==
  /\ boot = {} /\ handler[h].st = "idle" /\ rate < RateLimit
  /\ rate' = rate + 1
  /\ \/ /\ count[kind] < Max(kind)
        /\ Adds(kind, 1)
        /\ handler' = [handler EXCEPT ![h] = [IdleHandler EXCEPT !.st = "subscribe", !.kind = kind]]
     \/ UNCHANGED <<count, handler>>
  /\ UNCHANGED <<bus, known, mapping, tasks, queued, boot, persisted, fresh, history, budget>>

NextWindow ==
  /\ rate > 0 /\ rate' = 0
  /\ UNCHANGED <<bus, known, mapping, count, tasks, queued, handler, boot, persisted, fresh, history, budget>>

(* bus.subscribe or bus.intercept. *)
Subscribe(h) ==
  /\ handler[h].st = "subscribe"
  /\ Spend("ids")
  /\ bus' = bus \cup {Entry(fresh, handler[h].kind)}
  /\ handler' = [handler EXCEPT ![h].st = "track", ![h].id = fresh]
  /\ fresh' = fresh + 1
  /\ UNCHANGED <<known, mapping, count, tasks, queued, rate, boot, persisted, history>>

(* The mapping, then the set of ids, without which nobody asks for the      *)
(* mapping.                                                                 *)
Track(h) ==
  /\ handler[h].st = "track"
  /\ mapping' = mapping \cup {[id |-> handler[h].id, pid |-> handler[h].id]}
  /\ known' = known \cup {Entry(handler[h].id, handler[h].kind)}
  /\ Goes(h, "save")
  /\ UNCHANGED <<bus, count, tasks, queued, rate, boot, persisted, fresh, history, budget>>

SubscribeFails(h) ==
  /\ handler[h].st = "subscribe"
  /\ Spend("faults")
  /\ Adds(handler[h].kind, -1)
  /\ Ends(h)
  /\ UNCHANGED <<bus, known, mapping, tasks, queued, rate, boot, persisted, fresh, history>>

(* What the store does for a handler, if it has been asked. *)
StoreFinishes(h) ==
  IF handler[h].st = "save" THEN persisted \cup {Stored(handler[h].id, handler[h].kind)}
  ELSE IF handler[h].st = "unmap" THEN {s \in persisted : s.pid \notin PidsOf(handler[h].id)}
  ELSE persisted

(* save_subscription, the forwarder, and the answer. *)
Save(h) ==
  /\ handler[h].st = "save"
  /\ LET id == handler[h].id
         kind == handler[h].kind
     IN  /\ persisted' = persisted \cup {Stored(id, kind)}
         /\ tasks' = IF kind = "AsyncWebhook" THEN tasks \cup {id} ELSE tasks
         /\ history' = [history EXCEPT !.acked = @ \cup {id}]
  /\ Ends(h)
  /\ UNCHANGED <<bus, known, mapping, count, queued, rate, boot, fresh, budget>>

(* A DELETE that races the request has taken its interceptor. *)
Taken(h) == handler[h].kind = "SyncInterceptor" /\ Entry(handler[h].id, handler[h].kind) \notin known

\* Mutant: the roll back forgets the slot.
SaveFailsKeepingSlot(h) ==
  /\ handler[h].st = "save"
  /\ Spend("faults")
  /\ mapping' = {p \in mapping : p.id # handler[h].id}
  /\ known' = {e \in known : e.id # handler[h].id}
  /\ bus' = {e \in bus : e.id # handler[h].id}
  /\ queued' = queued \ {handler[h].id}
  /\ history' = IF Taken(h) THEN [history EXCEPT !.twice = @ + 1] ELSE history
  /\ Ends(h)
  /\ UNCHANGED <<count, tasks, rate, boot, persisted, fresh>>

(* The roll back; no forwarder has taken the channel yet.  It gives the     *)
(* slot back, also that of an interceptor that a DELETE has taken already.  *)
SaveFails(h) ==
  /\ handler[h].st = "save"
  /\ Spend("faults")
  /\ mapping' = {p \in mapping : p.id # handler[h].id}
  /\ known' = {e \in known : e.id # handler[h].id}
  /\ bus' = {e \in bus : e.id # handler[h].id}
  /\ queued' = queued \ {handler[h].id}
  /\ Adds(handler[h].kind, -1)
  /\ history' = IF Taken(h) THEN [history EXCEPT !.twice = @ + 1] ELSE history
  /\ Ends(h)
  /\ UNCHANGED <<tasks, rate, boot, persisted, fresh>>

-----------------------------------------------------------------------------
(* remove_subscription, remove_interceptor                                  *)

(* The id leaves the set of its kind; of two requests one gets a 404, and   *)
(* so does one for the other kind.  The registration need not have been     *)
(* answered yet.                                                            *)
BeginRemove(h, e) ==
  /\ boot = {} /\ handler[h].st = "idle" /\ e \in known
  /\ known' = known \ {e}
  /\ handler' = [handler EXCEPT ![h] = [st |-> "unsubscribe", kind |-> e.kind, id |-> e.id]]
  /\ history' = [history EXCEPT !.removing = @ \cup PidsOf(e.id)]
  /\ UNCHANGED <<bus, mapping, count, tasks, queued, rate, boot, persisted, fresh, budget>>

(* The slot of an interceptor is given back here, unless the counter is at  *)
(* zero, that of a subscription by its forwarder.  EventBus::unsubscribe    *)
(* returns Ok whether or not the id is there.                               *)
RemoveFromBus(h) ==
  /\ handler[h].st = "unsubscribe"
  /\ bus' = {e \in bus : e.id # handler[h].id}
  /\ IF handler[h].kind = "AsyncWebhook" THEN UNCHANGED <<count, history>>
     ELSE IF count["SyncInterceptor"] # 0 THEN Adds("SyncInterceptor", -1) /\ UNCHANGED history
     ELSE history' = [history EXCEPT !.twice = @ - 1] /\ UNCHANGED count
  /\ Goes(h, "unmap")
  /\ UNCHANGED <<known, mapping, tasks, queued, rate, boot, persisted, fresh, budget>>

(* The mapping and the entry; a store that fails is only logged. *)
RemoveEntry(h) ==
  /\ handler[h].st = "unmap"
  /\ mapping' = {p \in mapping : p.id # handler[h].id}
  /\ \/ /\ persisted' = StoreFinishes(h)
        /\ history' = [history EXCEPT !.removed = @ \cup (PidsOf(handler[h].id) \cap history.acked)]
        /\ UNCHANGED budget
     \/ Spend("faults") /\ UNCHANGED <<persisted, history>>
  /\ Ends(h)
  /\ UNCHANGED <<bus, known, count, tasks, queued, rate, boot, fresh>>

(* The client goes away and the handler is dropped, before or after it has  *)
(* asked the store.  The slot of a subscription without a forwarder, and of *)
(* an interceptor that cannot be removed, is lost.                          *)
Abandoned(h) ==
  /\ handler[h].st # "idle"
  /\ Spend("faults")
  /\ history' = [history EXCEPT !.lost[handler[h].kind] =
                   @ + IF handler[h].st \in {"subscribe", "track"}
                          \/ handler[h].st = IF handler[h].kind = "AsyncWebhook" THEN "save" ELSE "unsubscribe"
                       THEN 1 ELSE 0]
  /\ persisted' \in {persisted, StoreFinishes(h)}
  /\ mapping' = IF handler[h].st = "unmap" /\ persisted' # persisted
                THEN {p \in mapping : p.id # handler[h].id} ELSE mapping
  /\ queued' = IF handler[h].st \in {"track", "save"} THEN queued \ {handler[h].id} ELSE queued
  /\ Ends(h)
  /\ UNCHANGED <<bus, known, count, tasks, rate, boot, fresh>>

-----------------------------------------------------------------------------
(* Events                                                                   *)

(* WebhookInterceptor::intercept: whatever goes wrong passes the event. *)
intercept(answer) ==
  CASE answer = "drop" -> "Drop" [] answer = "modify" -> "Modified" [] OTHER -> "Pass"

Answers == {"pass", "drop", "modify", "not base64", "not JSON", "not a success", "unreachable", "refused URL"}

(* An event is published: the interceptors on the bus are asked, and unless *)
(* one drops it every subscription with room and a receiver gets it.        *)
PublishEvent ==
  /\ \E answer \in Answers :
       IF (\E e \in bus : e.kind = "SyncInterceptor") /\ intercept(answer) = "Drop"
       THEN UNCHANGED queued
       ELSE queued' = queued \cup {id \in Ids : /\ Entry(id, "AsyncWebhook") \in bus
                                               /\ \/ id \in tasks
                                                  \/ \E h \in Handlers : handler[h].st \in {"track", "save"} /\ handler[h].id = id}
  /\ UNCHANGED <<bus, known, mapping, count, tasks, handler, rate, boot, persisted, fresh, history, budget>>

(* The forwarder takes the next event; the circuit lets it through or not. *)
Takes(id) ==
  /\ id \in tasks /\ id \in queued
  /\ queued' = queued \ {id}
  /\ Begin(id) \/ Skip(id)
  /\ UNCHANGED <<bus, known, mapping, count, tasks, handler, rate, boot, persisted, fresh, history, budget>>

(* The channel is closed and empty: the forwarder gives its slot back. *)
ForwarderEnds(id) ==
  /\ id \in tasks /\ id \notin queued /\ call[id] = "idle"
  /\ Entry(id, "AsyncWebhook") \notin bus
  /\ tasks' = tasks \ {id}
  /\ Adds("AsyncWebhook", -1)
  /\ UNCHANGED <<bus, known, mapping, queued, handler, rate, boot, persisted, fresh, history, budget>>

-----------------------------------------------------------------------------
(* Restart                                                                  *)

Forget ==
  /\ bus' = {} /\ known' = {} /\ mapping' = {} /\ tasks' = {} /\ queued' = {}
  /\ count' = [k \in Kinds |-> 0]
  /\ handler' = [h \in Handlers |-> IdleHandler]
  /\ rate' = 0

(* The process stops and starts; the circuits start anew as well. *)
Restart ==
  /\ Spend("restarts")
  /\ Forget
  /\ boot' = persisted
  /\ mode' = "Closed" /\ failures' = 0 /\ cooldown' = InitialCooldown /\ remaining' = 0
  /\ call' = [c \in Callers |-> "idle"]
  /\ history' = [history EXCEPT !.skipped = {}, !.lost = [k \in Kinds |-> 0], !.twice = 0]
  /\ UNCHANGED <<endpoint, persisted, fresh>>

NextToMake == CHOOSE s \in boot : \A t \in boot : s.pid <= t.pid

\* Mutant: the mapping to the persisted id is not recorded.
RecreateUnmapped ==
  /\ boot # {}
  /\ boot' = boot \ {NextToMake}
  /\ IF count[NextToMake.kind] >= Max(NextToMake.kind)
     THEN /\ history' = [history EXCEPT !.skipped = @ \cup {NextToMake.pid}]
          /\ UNCHANGED <<bus, known, count, tasks, fresh, budget>>
     ELSE /\ Spend("ids")
          /\ bus' = bus \cup {Entry(fresh, NextToMake.kind)}
          /\ known' = known \cup {Entry(fresh, NextToMake.kind)}
          /\ tasks' = IF NextToMake.kind = "AsyncWebhook" THEN tasks \cup {fresh} ELSE tasks
          /\ Adds(NextToMake.kind, 1)
          /\ fresh' = fresh + 1
          /\ UNCHANGED history
  /\ UNCHANGED <<mapping, queued, handler, rate, persisted>>

(* recreate_persisted_subscription: with a new id, unless no slot is left,  *)
(* which leaves the entry for the next start.                               *)
Recreate ==
  /\ boot # {}
  /\ boot' = boot \ {NextToMake}
  /\ IF count[NextToMake.kind] >= Max(NextToMake.kind)
     THEN /\ history' = [history EXCEPT !.skipped = @ \cup {NextToMake.pid}]
          /\ UNCHANGED <<bus, known, mapping, count, tasks, fresh, budget>>
     ELSE /\ Spend("ids")
          /\ bus' = bus \cup {Entry(fresh, NextToMake.kind)}
          /\ known' = known \cup {Entry(fresh, NextToMake.kind)}
          /\ mapping' = mapping \cup {[id |-> fresh, pid |-> NextToMake.pid]}
          /\ tasks' = IF NextToMake.kind = "AsyncWebhook" THEN tasks \cup {fresh} ELSE tasks
          /\ Adds(NextToMake.kind, 1)
          /\ fresh' = fresh + 1
          /\ UNCHANGED history
  /\ UNCHANGED <<queued, handler, rate, persisted>>

(* An entry that the policy or the pattern rules no longer allow is deleted. *)
RecreateRefused ==
  /\ boot # {}
  /\ Spend("faults")
  /\ boot' = boot \ {NextToMake}
  /\ persisted' = persisted \ {NextToMake}
  /\ history' = [history EXCEPT !.removing = @ \cup {NextToMake.pid}]
  /\ UNCHANGED <<bus, known, mapping, count, tasks, queued, handler, rate, fresh>>

-----------------------------------------------------------------------------
Idle(step) == step /\ UNCHANGED <<circuit, call, endpoint>>

HandlerStep(h) ==
  Subscribe(h) \/ SubscribeFails(h) \/ Track(h) \/ Save(h) \/ SaveFails(h) \/ RemoveFromBus(h) \/ RemoveEntry(h)

HttpNext ==
  \/ \E h \in Handlers : \/ Idle(\E kind \in Kinds : Admit(h, kind))
                         \/ Idle(\E e \in known : BeginRemove(h, e))
                         \/ Idle(HandlerStep(h)) \/ Idle(Abandoned(h))
  \/ Idle(NextWindow) \/ Idle(PublishEvent) \/ Idle(Recreate) \/ Idle(RecreateRefused)
  \/ \E id \in Ids : Takes(id) \/ Idle(ForwarderEnds(id))
  \/ (Begin(0) \/ Skip(0)) /\ UNCHANGED httpVars
  \/ (\E c \in Callers : Succeed(c) \/ Fail(c)) /\ UNCHANGED httpVars
  \/ (Tick \/ Repair) /\ UNCHANGED httpVars
  \/ Restart

HttpInit ==
  /\ mode = "Closed" /\ failures = 0 /\ cooldown = InitialCooldown /\ remaining = 0
  /\ call = [c \in Callers |-> "idle"]
  /\ \E w \in Workloads : endpoint = w.endpoint /\ budget = w.budget
  /\ bus = {} /\ known = {} /\ mapping = {} /\ tasks = {} /\ queued = {} /\ boot = {} /\ rate = 0
  /\ count = [k \in Kinds |-> 0]
  /\ handler = [h \in Handlers |-> IdleHandler]
  /\ persisted = {} /\ fresh = 1 /\ history = NewHistory

httpAll == <<vars, httpVars>>

(* Requests time out after 30 seconds, time passes, and the retry task has  *)
(* deliveries to make again and again.                                      *)
HttpSpec ==
  /\ HttpInit /\ [][HttpNext]_httpAll
  /\ \A c \in Callers : WF_httpAll((Succeed(c) \/ Fail(c)) /\ UNCHANGED httpVars)
  /\ WF_httpAll((Begin(0) \/ Skip(0)) /\ UNCHANGED httpVars)
  /\ WF_httpAll(Tick /\ UNCHANGED httpVars)

-----------------------------------------------------------------------------
(* The counters count what they are to limit: each forwarder that runs,     *)
(* each interceptor that can be removed, and each request on its way holds  *)
(* one slot, through failures, roll backs, restarts and removals, also ones *)
(* that race the request that registers.  No other slot is held but those   *)
(* of clients that went away, and none is given back twice but that of an   *)
(* interceptor whose request fails after a DELETE has taken it.             *)
SlotsAccounted ==
  LET waiting(kind, states) ==
        Cardinality({h \in Handlers : handler[h].kind = kind /\ handler[h].st \in states})
  IN  /\ count["AsyncWebhook"] = Cardinality(tasks) + waiting("AsyncWebhook", {"subscribe", "track", "save"})
                                 + history.lost["AsyncWebhook"]
      /\ count["SyncInterceptor"] = Cardinality({e \in known : e.kind = "SyncInterceptor"})
                                    + waiting("SyncInterceptor", {"subscribe", "track", "unsubscribe"})
                                    + history.lost["SyncInterceptor"] - history.twice

(* What a client was told holds, across restarts: a registration that was   *)
(* acknowledged, and that no DELETE took while it was being made or later,  *)
(* is stored, and served again once the server is up, unless there was no   *)
(* slot for it; one that had been acknowledged when its removal went        *)
(* through is neither stored nor that of a subscription, ever again.  A     *)
(* DELETE that ends before its POST is answered promises nothing: the POST  *)
(* may store the entry after it.                                            *)
RegistrationsHonoured ==
  /\ \A pid \in history.acked \ history.removing :
       \E s \in persisted :
         /\ s.pid = pid
         /\ boot = {} /\ pid \notin history.skipped =>
              \E p \in mapping : /\ p.pid = pid /\ Entry(p.id, s.kind) \in bus
                                 /\ s.kind = "AsyncWebhook" => p.id \in tasks
  /\ \A pid \in history.removed :
       /\ \A s \in persisted : s.pid # pid
       /\ \A p \in mapping : p.pid # pid
=============================================================================
