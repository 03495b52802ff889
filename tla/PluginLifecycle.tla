--------------------------- MODULE PluginLifecycle ---------------------------
(***************************************************************************)
(* How external plugins come and go: their WebSocket sessions with the API  *)
(* gateway (seidrum-api-gateway/src/ws.rs, connections.rs, rest.rs), and in *)
(* the kernel the plugin registry (registry/service.rs), the capability     *)
(* registry with its cache and its database (tool_registry/service.rs) and  *)
(* the health check that removes plugins which do not answer                *)
(* (scheduler/service.rs).                                                  *)
(*                                                                          *)
(* The parts talk through the bus.  Each subscription is a queue; a service *)
(* takes from its queues with select!, in any order among them.             *)
(***************************************************************************)
EXTENDS Integers, Sequences, SequencesExt

CONSTANTS
  Conns,        \* WebSocket sessions, each of them one connection
  Plugins,      \* the plugin ids of the sessions
  OldPlugins,   \* plugins whose tools the database holds from an earlier run
  Tools,        \* tool ids
  Checks,       \* health checks that can be under way at once
  MaxHealthFailures, \* MAX_HEALTH_FAILURES
  MaxQueue,     \* bound on the messages waiting in one queue
  MaxFaults,    \* bound on lost publishes, database errors and kernel restarts
  None          \* no plugin, no connection

ASSUME LifecycleAssumption ==
  /\ MaxHealthFailures \in Nat \ {0}
  /\ MaxQueue \in Nat \ {0} /\ MaxFaults \in Nat
  /\ None \notin Conns \cup Plugins \cup OldPlugins
  /\ Plugins \cap OldPlugins = {}

VARIABLES
  sess,       \* session -> where its handler is, and the plugin id it asks for
  conn,       \* ConnectionManager.connections: plugin -> the session entered for it
  deleting,   \* the plugin a REST delete has still to announce
  registerQ,  \* plugin.register, at the registry
  deregQ,     \* plugin.deregister, at the registry
  toolDeregQ, \* plugin.deregister, at the capability registry
  toolQ,      \* capability.register, at the capability registry
  registry,   \* the plugins the registry holds
  cache,      \* tool -> the plugin of its ToolEntry in memory
  db,         \* tool -> the plugin of its document in the database
  task,       \* what the task of the capability registry is doing
  counts,     \* failure_counts, 0 for no entry
  check,      \* health check -> its progress
  faults,     \* number of faults so far
  unannounced \* history: the sessions whose plugin.register could not be published

gateway == <<sess, conn, deleting, unannounced>>
queues == <<registerQ, deregQ, toolDeregQ, toolQ>>
capabilities == <<cache, db, task>>
health == <<counts, check>>
vars == <<gateway, queues, registry, capabilities, health, faults>>

\* Who a tool may belong to.
Owners == Plugins \cup OldPlugins

NewSession == [pc |-> "new", plugin |-> None]
IdleTask == [pc |-> "idle", tool |-> None, plugin |-> None]
IdleCheck == [pc |-> "idle", todo |-> {}, active |-> {}, failed |-> {}]

-----------------------------------------------------------------------------
(* The bus and its faults                                                   *)

Room(q) == Len(q) < MaxQueue

\* Something fails here, within the bound.
Fault == faults < MaxFaults /\ faults' = faults + 1

\* plugin.deregister reaches the registry and the capability registry.
AnnounceGone(ps) ==
  /\ deregQ' = deregQ \o ps
  /\ toolDeregQ' = toolDeregQ \o ps
  /\ UNCHANGED <<registerQ, toolQ>>

-----------------------------------------------------------------------------
(* A session with the gateway: handle_ws                                    *)

\* Register, from a session without a plugin id.  First half of
\* ConnectionManager::register: no entry for the id.  The look and the insert
\* are two operations of a concurrent map.
RegisterLook(k, p) ==
  /\ sess[k].pc = "new"
  /\ conn[p] = None
  /\ sess' = [sess EXCEPT ![k] = [pc |-> "insert", plugin |-> p]]
  /\ UNCHANGED <<conn, deleting, unannounced, queues, registry, capabilities, health, faults>>

\* Second half: the entry replaces one made in between.
RegisterInsert(k) ==
  /\ sess[k].pc = "insert"
  /\ conn' = [conn EXCEPT ![sess[k].plugin] = k]
  /\ sess' = [sess EXCEPT ![k].pc = "publish"]
  /\ UNCHANGED <<deleting, unannounced, queues, registry, capabilities, health, faults>>

\* Publish plugin.register.  On an error the session is without a plugin id as
\* before, and the entry stays.
RegisterPublish(k) ==
  /\ sess[k].pc = "publish"
  /\ \/ /\ Room(registerQ)
        /\ registerQ' = Append(registerQ, sess[k].plugin)
        /\ sess' = [sess EXCEPT ![k].pc = "open"]
        /\ UNCHANGED <<unannounced, faults>>
     \/ /\ Fault
        /\ sess' = [sess EXCEPT ![k] = NewSession]
        /\ unannounced' = unannounced \cup {k}
        /\ UNCHANGED registerQ
  /\ UNCHANGED <<conn, deleting, deregQ, toolDeregQ, toolQ, registry, capabilities, health>>

\* RegisterCapability: publish it, or tell the client of the error.  The gateway
\* does not look at which plugin the capability names.
RegisterCapability(k, t, p) ==
  /\ sess[k].pc = "open"
  /\ \/ Room(toolQ) /\ toolQ' = Append(toolQ, <<t, p>>) /\ UNCHANGED faults
     \/ Fault /\ UNCHANGED toolQ
  /\ UNCHANGED <<gateway, registerQ, deregQ, toolDeregQ, registry, capabilities, health>>

\* Mutant: only a Deregister message cleans up, not the end of the connection.
DisconnectSilently(k) ==
  /\ sess[k].pc \in {"open", "new"}
  /\ sess' = [sess EXCEPT ![k].pc = "closed"]
  /\ UNCHANGED <<conn, deleting, unannounced, queues, registry, capabilities, health, faults>>

\* A Deregister message, or the end of the connection: a session that has a
\* plugin id removes the entry of that id, whoever made it.
Disconnect(k) ==
  /\ sess[k].pc \in {"open", "new"}
  /\ \/ /\ sess[k].pc = "open"
        /\ conn' = [conn EXCEPT ![sess[k].plugin] = None]
        /\ sess' = [sess EXCEPT ![k].pc = "announce"]
     \/ /\ sess[k].pc = "new"
        /\ sess' = [sess EXCEPT ![k].pc = "closed"]
        /\ UNCHANGED conn
  /\ UNCHANGED <<deleting, unannounced, queues, registry, capabilities, health, faults>>

\* ... and publishes plugin.deregister; an error is ignored.
DisconnectPublish(k) ==
  /\ sess[k].pc = "announce"
  /\ \/ /\ Room(deregQ) /\ Room(toolDeregQ)
        /\ AnnounceGone(<<sess[k].plugin>>)
        /\ UNCHANGED faults
     \/ Fault /\ UNCHANGED queues
  /\ sess' = [sess EXCEPT ![k].pc = "closed"]
  /\ UNCHANGED <<conn, deleting, unannounced, registry, capabilities, health>>

\* DELETE /api/v1/plugins/:id, in the same two steps.  The session of the
\* plugin is not told.
RestDelete(p) ==
  /\ deleting = None
  /\ conn' = [conn EXCEPT ![p] = None]
  /\ deleting' = p
  /\ UNCHANGED <<sess, unannounced, queues, registry, capabilities, health, faults>>

RestDeletePublish ==
  /\ deleting # None
  /\ \/ /\ Room(deregQ) /\ Room(toolDeregQ)
        /\ AnnounceGone(<<deleting>>)
        /\ UNCHANGED faults
     \/ Fault /\ UNCHANGED queues
  /\ deleting' = None
  /\ UNCHANGED <<sess, conn, unannounced, registry, capabilities, health>>

-----------------------------------------------------------------------------
(* The registry                                                             *)

RegistryRegister ==
  /\ registerQ # <<>>
  /\ registry' = registry \cup {Head(registerQ)}
  /\ registerQ' = Tail(registerQ)
  /\ UNCHANGED <<gateway, deregQ, toolDeregQ, toolQ, capabilities, health, faults>>

RegistryDeregister ==
  /\ deregQ # <<>>
  /\ registry' = registry \ {Head(deregQ)}
  /\ deregQ' = Tail(deregQ)
  /\ UNCHANGED <<gateway, registerQ, toolDeregQ, toolQ, capabilities, health, faults>>

-----------------------------------------------------------------------------
(* The capability registry: one task, which awaits the database             *)

\* Mutant: a failed upsert is only logged.
PersistUnchecked ==
  /\ task.pc = "idle" /\ toolQ # <<>>
  /\ LET t == Head(toolQ)[1]
         p == Head(toolQ)[2]
     IN  /\ \/ db' = [db EXCEPT ![t] = p] /\ UNCHANGED faults
            \/ Fault /\ UNCHANGED db
         /\ task' = [pc |-> "insert", tool |-> t, plugin |-> p]
  /\ toolQ' = Tail(toolQ)
  /\ UNCHANGED <<gateway, registerQ, deregQ, toolDeregQ, registry, cache, health>>

\* register_capability: upsert the document by tool id; on an error that is all.
Persist ==
  /\ task.pc = "idle" /\ toolQ # <<>>
  /\ LET t == Head(toolQ)[1]
         p == Head(toolQ)[2]
     IN  \/ /\ db' = [db EXCEPT ![t] = p]
            /\ task' = [pc |-> "insert", tool |-> t, plugin |-> p]
            /\ UNCHANGED faults
         \/ Fault /\ UNCHANGED <<db, task>>
  /\ toolQ' = Tail(toolQ)
  /\ UNCHANGED <<gateway, registerQ, deregQ, toolDeregQ, registry, cache, health>>

\* ... then enter it in the cache.
CacheInsert ==
  /\ task.pc = "insert"
  /\ cache' = [cache EXCEPT ![task.tool] = task.plugin]
  /\ task' = IdleTask
  /\ UNCHANGED <<gateway, queues, registry, db, health, faults>>

\* deregister_by_plugin: drop the plugin's entries from the cache; without any
\* the database is left alone.
CacheRemove ==
  /\ task.pc = "idle" /\ toolDeregQ # <<>>
  /\ LET p == Head(toolDeregQ) IN
       /\ cache' = [t \in Tools |-> IF cache[t] = p THEN None ELSE cache[t]]
       /\ task' = IF \E t \in Tools : cache[t] = p
                  THEN [IdleTask EXCEPT !.pc = "remove", !.plugin = p] ELSE task
  /\ toolDeregQ' = Tail(toolDeregQ)
  /\ UNCHANGED <<gateway, registerQ, deregQ, toolQ, registry, db, health, faults>>

\* ... then remove every document of the plugin; an error is logged.
DbRemove ==
  /\ task.pc = "remove"
  /\ \/ /\ db' = [t \in Tools |-> IF db[t] = task.plugin THEN None ELSE db[t]]
        /\ UNCHANGED faults
     \/ Fault /\ UNCHANGED db
  /\ task' = IdleTask
  /\ UNCHANGED <<gateway, queues, registry, cache, health>>

-----------------------------------------------------------------------------
(* The health check, a cron job: one run may start before the last has ended *)

CheckStart(h) ==
  /\ check[h].pc = "idle" /\ registry # {}
  /\ check' = [check EXCEPT ![h] = [IdleCheck EXCEPT !.pc = "ping", !.todo = registry]]
  /\ UNCHANGED <<gateway, queues, registry, capabilities, counts, faults>>

\* The plugin can answer: the gateway has a live session to forward the ping to.
Reachable(p) == conn[p] # None /\ sess[conn[p]].pc # "closed"

\* A ping, one plugin after the other.  Whoever can answer may still be late.
Ping(h) ==
  /\ check[h].pc = "ping"
  /\ \E p \in check[h].todo :
       \/ /\ Reachable(p)
          /\ check' = [check EXCEPT ![h].todo = @ \ {p}, ![h].active = @ \cup {p}]
       \/ check' = [check EXCEPT ![h].todo = @ \ {p}, ![h].failed = @ \cup {p}]
  /\ UNCHANGED <<gateway, queues, registry, capabilities, counts, faults>>

\* Mutant: a count is raised only where there is one already.
ConcludeKnown(h) ==
  /\ check[h].pc = "ping" /\ check[h].todo = {}
  /\ counts' = [p \in Plugins |->
       IF p \in check[h].failed /\ counts[p] > 0
       THEN (counts[p] + 1) % MaxHealthFailures ELSE counts[p]]
  /\ check' = [check EXCEPT ![h] = IdleCheck]
  /\ UNCHANGED <<gateway, queues, registry, capabilities, faults>>

\* Under the lock on failure_counts: forget the failures of those who answered,
\* count those of the others, and announce as gone who has reached the limit; a
\* publish that fails is logged.
Conclude(h) ==
  LET hopeless == {p \in check[h].failed : counts[p] + 1 >= MaxHealthFailures} IN
  /\ check[h].pc = "ping" /\ check[h].todo = {}
  /\ counts' = [p \in Plugins |->
       IF p \in check[h].active \cup hopeless THEN 0
       ELSE IF p \in check[h].failed THEN counts[p] + 1 ELSE counts[p]]
  /\ \/ /\ hopeless # {} => Room(deregQ) /\ Room(toolDeregQ)
        /\ AnnounceGone(SetToSeq(hopeless))
        /\ UNCHANGED faults
     \/ hopeless # {} /\ Fault /\ UNCHANGED queues
  /\ check' = [check EXCEPT ![h] = IdleCheck]
  /\ UNCHANGED <<gateway, registry, capabilities>>

-----------------------------------------------------------------------------
\* The kernel stops and starts again, and the bus with it: what was under way
\* is gone, the registry is empty, and load_from_db fills the cache, unless it
\* fails.  Sessions go on, and do not register again.
KernelRestart ==
  /\ Fault
  /\ registerQ' = <<>> /\ deregQ' = <<>> /\ toolDeregQ' = <<>> /\ toolQ' = <<>>
  /\ registry' = {}
  /\ cache' \in {db, [t \in Tools |-> None]}
  /\ task' = IdleTask
  /\ counts' = [p \in Plugins |-> 0]
  /\ check' = [h \in Checks |-> IdleCheck]
  /\ UNCHANGED <<gateway, db>>

Init ==
  /\ sess = [k \in Conns |-> NewSession]
  /\ conn = [p \in Plugins |-> None]
  /\ deleting = None
  /\ registerQ = <<>> /\ deregQ = <<>> /\ toolDeregQ = <<>> /\ toolQ = <<>>
  /\ registry = {}
  /\ db \in [Tools -> OldPlugins \cup {None}]
  /\ cache \in {db, [t \in Tools |-> None]}
  /\ task = IdleTask
  /\ counts = [p \in Plugins |-> 0]
  /\ check = [h \in Checks |-> IdleCheck]
  /\ faults = 0
  /\ unannounced = {}

\* The steps of the gateway that follow from what a client has asked for.
GatewayStep(k) == RegisterInsert(k) \/ RegisterPublish(k) \/ DisconnectPublish(k)

RegistryStep == RegistryRegister \/ RegistryDeregister

ToolStep == Persist \/ CacheInsert \/ CacheRemove \/ DbRemove

CheckStep(h) == CheckStart(h) \/ Ping(h) \/ Conclude(h)

Next ==
  \/ \E k \in Conns :
       \/ \E p \in Plugins : RegisterLook(k, p)
       \/ \E t \in Tools, p \in Plugins : RegisterCapability(k, t, p)
       \/ GatewayStep(k) \/ Disconnect(k)
  \/ \E p \in Plugins : RestDelete(p)
  \/ RestDeletePublish
  \/ RegistryStep \/ ToolStep
  \/ \E h \in Checks : CheckStep(h)
  \/ KernelRestart

Spec == Init /\ [][Next]_vars

\* The tasks run, and the cron job fires for ever.  select! polls its branches
\* in a random order, so neither of the registry's queues is passed over for
\* ever.  Nothing is assumed of the clients or of the operator.
Fairness ==
  /\ \A k \in Conns : WF_vars(GatewayStep(k))
  /\ WF_vars(RegistryRegister) /\ WF_vars(RegistryDeregister)
  /\ WF_vars(ToolStep) /\ SF_vars(CacheRemove)
  /\ \A h \in Checks : WF_vars(CheckStep(h))

FairSpec == Spec /\ Fairness

-----------------------------------------------------------------------------
(* Properties                                                               *)

Sessions ==
  [pc : {"new", "insert", "publish", "open", "announce", "closed"},
   plugin : Plugins \cup {None}]

TaskStates ==
  [pc : {"idle", "insert", "remove"}, tool : Tools \cup {None}, plugin : Owners \cup {None}]

\* Every variable has its type; in particular no failure count stays at the
\* limit, where the plugin should have been deregistered and the count removed.
LifecycleTypeOK ==
  /\ sess \in [Conns -> Sessions]
  /\ conn \in [Plugins -> Conns \cup {None}]
  /\ deleting \in Plugins \cup {None}
  /\ registerQ \in Seq(Plugins) /\ deregQ \in Seq(Plugins) /\ toolDeregQ \in Seq(Plugins)
  /\ toolQ \in Seq(Tools \X Owners)
  /\ registry \in SUBSET Plugins
  /\ cache \in [Tools -> Owners \cup {None}] /\ db \in [Tools -> Owners \cup {None}]
  /\ task \in TaskStates
  /\ counts \in [Plugins -> 0..(MaxHealthFailures - 1)]
  /\ \A h \in Checks : /\ check[h].pc \in {"idle", "ping"}
                       /\ check[h].todo \cup check[h].active \cup check[h].failed \subseteq Plugins
  /\ faults \in 0..MaxFaults
  /\ unannounced \in SUBSET Conns

\* What the cache offers is what the database holds: a tool that can be
\* described and called survives a restart of the kernel, as the same plugin's,
\* whatever database calls fail, whoever re-registers whose tool, and wherever
\* the kernel stops.  The exception is the tool whose registration is half done.
CacheInDb ==
  \A t \in Tools :
    cache[t] # None /\ ~ (task.pc = "insert" /\ task.tool = t) => db[t] = cache[t]

\* A session that has ended leaves no connection behind, which would keep its
\* plugin from connecting again: not after a race of two sessions for one id,
\* nor after a REST delete.  The exception is a session whose plugin.register
\* could not be published.
NoOrphanConnection ==
  \A p \in Plugins : conn[p] # None /\ sess[conn[p]].pc = "closed" => conn[p] \in unannounced

\* No session of the plugin is left, none will come, and no entry leads its pings
\* to another's session.
Dead(p) ==
  /\ \A k \in Conns : sess[k].pc = "closed" \/ sess[k].plugin \notin {p, None}
  /\ ~ Reachable(p)

\* A plugin that is gone for good is forgotten by the registry in the end, even
\* if its plugin.deregister was lost or overtook its plugin.register: health
\* checks go on failing until one of them deregisters it.
DeadForgotten == \A p \in Plugins : Dead(p) ~> [](p \notin registry)


=============================================================================
