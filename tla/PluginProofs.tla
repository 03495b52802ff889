---------------------------- MODULE PluginProofs ----------------------------
(***************************************************************************)
(* The plugins as the kernel and the gateway see them, and as the daemon    *)
(* runs them.                                                               *)
(*                                                                          *)
(* What the cache of the capability registry and the connection table of    *)
(* the gateway hold, for any number of sessions, plugins, tools, health     *)
(* checks and faults; and that a plugin that was stopped stays stopped, for *)
(* any number of plugins and processes, restarts of the daemon and uses of  *)
(* the command line.                                                        *)
(***************************************************************************)
EXTENDS PluginLifecycle, Supervisor, TLAPS

-----------------------------------------------------------------------------
(* The capability registry and the gateway *)

Owner == Owners \cup {None}

\* The types the two arguments need.
Typed ==
  /\ sess \in [Conns -> Sessions]
  /\ conn \in [Plugins -> Conns \cup {None}]
  /\ toolQ \in Seq(Tools \X Owner)
  /\ cache \in [Tools -> Owner] /\ db \in [Tools -> Owner]
  /\ task \in TaskStates

\* Between its two writes the task of the capability registry owes the second:
\* the document of a tool about to be cached is already its new plugin's, and a
\* plugin whose documents are about to go has nothing left in the cache.
TaskInv ==
  /\ task.pc = "insert" => task.tool \in Tools /\ db[task.tool] = task.plugin
  /\ task.pc = "remove" => \A t \in Tools : cache[t] # None => cache[t] # task.plugin

\* An entry of the connection table was made by a session for its own plugin,
\* and that session is registering or registered, or failed to announce itself.
EntryInv ==
  \A p \in Plugins : conn[p] # None =>
    \/ sess[conn[p]].plugin = p /\ sess[conn[p]].pc \in {"publish", "open"}
    \/ conn[p] \in unannounced

LifecycleInv == Typed /\ TaskInv /\ CacheInDb /\ EntryInv

toolVars == <<toolQ, cache, db, task>>
entryVars == <<sess, conn, unannounced>>

\* The kernel starts with idle tasks, no sessions and a cache loaded or empty.
LEMMA InitEstablishes == Init => LifecycleInv
<1> SUFFICES ASSUME Init
             PROVE  LifecycleInv
  OBVIOUS
<1>1. sess \in [Conns -> Sessions] /\ conn \in [Plugins -> Conns \cup {None}]
  BY DEF Init, NewSession, Sessions
<1>2. toolQ \in Seq(Tools \X Owner) /\ task \in TaskStates
  BY DEF Init, IdleTask, TaskStates
<1>3. db \in [Tools -> Owner] /\ cache \in [Tools -> Owner] /\ CacheInDb
  BY DEF Init, Owner, Owners, CacheInDb
<1>4. TaskInv
  BY DEF Init, IdleTask, TaskInv
<1>5. EntryInv
  BY DEF Init, EntryInv
<1> QED
  BY <1>1, <1>2, <1>3, <1>4, <1>5 DEF LifecycleInv, Typed

\* The invariant has two halves: what the capability registry keeps, and what
\* the sessions keep.
ToolHalf ==
  /\ toolQ \in Seq(Tools \X Owner)
  /\ cache \in [Tools -> Owner] /\ db \in [Tools -> Owner]
  /\ task \in TaskStates
  /\ TaskInv /\ CacheInDb

EntryHalf ==
  /\ sess \in [Conns -> Sessions]
  /\ conn \in [Plugins -> Conns \cup {None}]
  /\ EntryInv

\* A step that leaves a half's variables alone leaves the half alone.
LEMMA ToolHalfUntouched ==
  ASSUME ToolHalf, UNCHANGED toolVars
  PROVE  ToolHalf'
  BY DEF ToolHalf, TaskInv, CacheInDb, toolVars

\* The same for the sessions.
LEMMA EntryHalfUntouched ==
  ASSUME EntryHalf, UNCHANGED entryVars
  PROVE  EntryHalf'
  BY DEF EntryHalf, EntryInv, entryVars

\* Sessions keep the connection table in order.
LEMMA SessionsPreserve ==
  ASSUME EntryHalf, NEW k \in Conns,
         \/ \E p \in Plugins : RegisterLook(k, p)
         \/ RegisterInsert(k)
         \/ RegisterPublish(k)
         \/ Disconnect(k)
         \/ DisconnectPublish(k)
  PROVE  EntryHalf'
<1> USE LifecycleAssumption DEF EntryHalf, EntryInv, Sessions, NewSession
<1>1. ASSUME NEW p \in Plugins, RegisterLook(k, p)
      PROVE  EntryHalf'
  BY <1>1 DEF RegisterLook
<1>2. CASE RegisterInsert(k)
  BY <1>2 DEF RegisterInsert
<1>3. CASE RegisterPublish(k)
  BY <1>3 DEF RegisterPublish
<1>4. CASE Disconnect(k)
  BY <1>4 DEF Disconnect
<1>5. CASE DisconnectPublish(k)
  BY <1>5 DEF DisconnectPublish
<1> QED
  BY <1>1, <1>2, <1>3, <1>4, <1>5

\* The task of the capability registry keeps cache and database in step.
LEMMA ToolsPreserve ==
  ASSUME ToolHalf, ToolStep
  PROVE  ToolHalf'
<1> USE DEF ToolHalf
<1>1. CASE Persist
  <2> DEFINE t == Head(toolQ)[1]
             p == Head(toolQ)[2]
  <2>1. Head(toolQ) \in Tools \X Owner /\ Tail(toolQ) \in Seq(Tools \X Owner)
    BY <1>1 DEF Persist
  <2>2. t \in Tools /\ p \in Owner
    BY <2>1
  <2>3. task.pc = "idle" /\ toolQ' = Tail(toolQ) /\ cache' = cache
    BY <1>1 DEF Persist
  <2>4. CASE db' = [db EXCEPT ![t] = p] /\ task' = [pc |-> "insert", tool |-> t, plugin |-> p]
    <3>1. task' \in TaskStates
      BY <2>2, <2>4 DEF TaskStates, Owner
    <3>2. /\ task'.pc = "insert" /\ task'.tool = t /\ task'.plugin = p
          /\ db' \in [Tools -> Owner] /\ db'[t] = p
          /\ \A u \in Tools : u # t => db'[u] = db[u]
      BY <2>2, <2>4
    <3>3. TaskInv' /\ CacheInDb'
      BY <2>2, <2>3, <3>2 DEF TaskInv, CacheInDb
    <3> QED
      BY <2>1, <2>3, <3>1, <3>2, <3>3
  <2>5. CASE UNCHANGED <<db, task>>
    BY <2>1, <2>3, <2>5 DEF TaskInv, CacheInDb
  <2> QED
    BY <1>1, <2>4, <2>5 DEF Persist
<1>2. CASE CacheInsert
  <2>1. /\ task.pc = "insert" /\ task.tool \in Tools /\ task.plugin \in Owner
        /\ db[task.tool] = task.plugin
    BY <1>2 DEF CacheInsert, TaskInv, TaskStates, Owner
  <2>2. UNCHANGED <<toolQ, db>> /\ task' = IdleTask /\ task'.pc = "idle"
    BY <1>2 DEF CacheInsert, queues, IdleTask
  <2>3. /\ cache' \in [Tools -> Owner] /\ cache'[task.tool] = task.plugin
        /\ \A u \in Tools : u # task.tool => cache'[u] = cache[u]
    BY <1>2, <2>1 DEF CacheInsert
  <2>4. task' \in TaskStates /\ TaskInv'
    BY <2>2 DEF IdleTask, TaskStates, TaskInv
  <2>5. CacheInDb'
    BY <2>1, <2>2, <2>3 DEF CacheInDb
  <2> QED
    BY <2>2, <2>3, <2>4, <2>5
<1>3. CASE CacheRemove
  BY <1>3 DEF CacheRemove, IdleTask, Owner, TaskInv, CacheInDb, TaskStates
<1>4. CASE DbRemove
  <2>1. task.pc = "remove" /\ UNCHANGED <<toolQ, cache>> /\ task' = IdleTask
    BY <1>4 DEF DbRemove, queues
  <2>2. task' \in TaskStates /\ TaskInv' /\ task'.pc = "idle"
    BY <2>1 DEF IdleTask, TaskStates, TaskInv
  <2>3. db' \in [Tools -> Owner]
    BY <1>4 DEF DbRemove, Owner
  <2>4. \A u \in Tools : db[u] # task.plugin => db'[u] = db[u]
    BY <1>4 DEF DbRemove
  <2>5. \A u \in Tools : cache[u] # None => db[u] = cache[u] /\ cache[u] # task.plugin
    BY <2>1 DEF TaskInv, CacheInDb
  <2>6. CacheInDb'
    BY <2>1, <2>4, <2>5 DEF CacheInDb
  <2> QED
    BY <2>1, <2>2, <2>3, <2>6
<1> QED
  BY <1>1, <1>2, <1>3, <1>4 DEF ToolStep

\* A restart of the kernel loads the database, or starts with nothing.
LEMMA RestartPreserves ==
  ASSUME ToolHalf, KernelRestart
  PROVE  ToolHalf'
  BY DEF ToolHalf, KernelRestart, TaskInv, CacheInDb, TaskStates, IdleTask, Owner

\* Every step keeps the invariant: sessions touch one half, the capability
\* registry and a restart the other, and the remaining services neither.
LEMMA StepPreserves == LifecycleInv /\ [Next]_vars => LifecycleInv'
<1> SUFFICES ASSUME ToolHalf, EntryHalf, [Next]_vars
             PROVE  ToolHalf' /\ EntryHalf'
  BY DEF LifecycleInv, Typed, ToolHalf, EntryHalf
<1> USE ToolHalfUntouched, EntryHalfUntouched
    DEF toolVars, entryVars, gateway, queues, capabilities, health
<1>1. ASSUME NEW k \in Conns, NEW p \in Plugins, RegisterLook(k, p)
      PROVE  ToolHalf' /\ EntryHalf'
  <2>1. EntryHalf'
    BY <1>1, SessionsPreserve
  <2>2. UNCHANGED toolVars
    BY <1>1 DEF RegisterLook
  <2> QED
    BY <2>1, <2>2
<1>2. ASSUME NEW k \in Conns, GatewayStep(k) \/ Disconnect(k)
      PROVE  ToolHalf' /\ EntryHalf'
  <2>1. EntryHalf'
    BY <1>2, SessionsPreserve DEF GatewayStep
  <2>2. UNCHANGED toolVars
    BY <1>2 DEF GatewayStep, RegisterInsert, RegisterPublish, Disconnect, DisconnectPublish,
                AnnounceGone
  <2> QED
    BY <2>1, <2>2
<1>3. ASSUME NEW k \in Conns, NEW t \in Tools, NEW p \in Plugins, RegisterCapability(k, t, p)
      PROVE  ToolHalf' /\ EntryHalf'
  <2>1. toolQ' \in Seq(Tools \X Owner) /\ UNCHANGED <<cache, db, task>>
    <3>1. <<t, p>> \in Tools \X Owner /\ toolQ \in Seq(Tools \X Owner)
      BY DEF ToolHalf, Owner, Owners
    <3>2. Append(toolQ, <<t, p>>) \in Seq(Tools \X Owner)
      BY <3>1
    <3> QED
      BY <1>3, <3>1, <3>2 DEF RegisterCapability
  <2>2. UNCHANGED entryVars
    BY <1>3 DEF RegisterCapability
  <2> QED
    BY <2>1, <2>2 DEF ToolHalf, TaskInv, CacheInDb
<1>4. ASSUME NEW p \in Plugins, RestDelete(p)
      PROVE  ToolHalf' /\ EntryHalf'
  <2>1. EntryHalf'
    BY <1>4 DEF RestDelete, EntryHalf, EntryInv
  <2>2. UNCHANGED toolVars
    BY <1>4 DEF RestDelete
  <2> QED
    BY <2>1, <2>2
<1>5. CASE RestDeletePublish
  BY <1>5 DEF RestDeletePublish, AnnounceGone
<1>6. CASE RegistryStep
  BY <1>6 DEF RegistryStep, RegistryRegister, RegistryDeregister
<1>7. CASE ToolStep
  <2>1. UNCHANGED entryVars
    BY <1>7 DEF ToolStep, Persist, CacheInsert, CacheRemove, DbRemove
  <2> QED
    BY <1>7, <2>1, ToolsPreserve
<1>8. ASSUME NEW h \in Checks, CheckStep(h)
      PROVE  ToolHalf' /\ EntryHalf'
  BY <1>8 DEF CheckStep, CheckStart, Ping, Conclude, AnnounceGone
<1>9. CASE KernelRestart
  <2>1. UNCHANGED entryVars
    BY <1>9 DEF KernelRestart
  <2> QED
    BY <1>9, <2>1, RestartPreserves
<1>10. CASE UNCHANGED vars
  BY <1>10 DEF vars
<1> QED
  BY <1>1, <1>2, <1>3, <1>4, <1>5, <1>6, <1>7, <1>8, <1>9, <1>10 DEF Next

\* The invariant holds in every reachable state.
LEMMA Invariant == Spec => []LifecycleInv
  BY InitEstablishes, StepPreserves, PTL DEF Spec

\* What the capability registry offers is what the database holds, wherever
\* database calls fail, the kernel stops, or plugins take over each other's
\* tools: register_capability writes the document first and the cache second,
\* deregister_by_plugin the other way round.
THEOREM CacheAlwaysInDb == Spec => []CacheInDb
<1>1. LifecycleInv => CacheInDb
  BY DEF LifecycleInv
<1> QED
  BY <1>1, Invariant, PTL

\* A session that has ended leaves an entry in the gateway's connection table
\* only if it could not announce its plugin, for any number of sessions that
\* race for one plugin id.
THEOREM NoOrphans == Spec => []NoOrphanConnection
<1>1. LifecycleInv => NoOrphanConnection
  BY DEF LifecycleInv, EntryInv, NoOrphanConnection
<1> QED
  BY <1>1, Invariant, PTL


-----------------------------------------------------------------------------
(* The daemon *)

Pid0 == Pids \cup {0}
DaemonPcs == {"off", "plugins", "select", "check", "backoff", "spawn", "stopping",
              "plugins stop", "kernel stops"}
Entries == [managed : BOOLEAN, pid : Pid0, restart_count : Nat, window : BOOLEAN]
Processes == [name : Managed, state : {"unused", "running", "zombie", "gone"},
              signal : {"none", "term", "kill"}]

SupervisorTyped ==
  /\ daemon \in [pc : DaemonPcs, name : Managed, pid : Pid0, todo : SUBSET Managed]
  /\ entry \in [Managed -> Entries]
  /\ process \in [Pids -> Processes]
  /\ pidFile \in [Managed -> Pid0]
  /\ marker \subseteq Managed
  /\ cli \in [pc : {"idle", "spawn", "mark", "wait"}, name : Managed, pid : Pid0]
  /\ stopState \in [Supervised -> {"no", "asked", "done"}]

\* The daemon, or the command line, has a spawn of n ahead of it that no longer
\* looks at the stopped marker.
SpawnAhead(n) ==
  \/ daemon.pc \in {"backoff", "spawn"} /\ daemon.name = n
  \/ cli.pc = "spawn" /\ cli.name = n

\* From the moment the stop is asked for, the marker is there and every spawn
\* still to come will see it.
StopHolds(n) == stopState[n] \in {"asked", "done"} => n \in marker /\ ~SpawnAhead(n)

SupervisorInv == SupervisorTyped /\ \A n \in Supervised : StopHolds(n)

\* A step that makes no process.
NoneSpawned ==
  /\ process' \in [Pids -> Processes]
  /\ \A q \in Pids : process'[q].state = "running" => process[q].state = "running"

\* A step that makes no process, or one of a plugin that has not been stopped.
SpawnsOnlyWanted ==
  \A q \in Pids :
    process[q].state = "unused" /\ process'[q].state = "running" =>
      \A n \in Supervised : process'[q].name = n => stopState[n] = "no"

-----------------------------------------------------------------------------
\* A signal changes no process into another, nor does it make one run.
LEMMA SignalledKeeps ==
  ASSUME SupervisorTyped, NEW ps, NEW sig \in {"term", "kill"}
  PROVE  /\ Signalled(ps, sig) \in [Pids -> Processes]
         /\ \A q \in Pids : Signalled(ps, sig)[q].state = process[q].state
  BY DEF Signalled, SupervisorTyped, Processes

\* Reaping a child makes none run.
LEMMA DroppedKeeps ==
  ASSUME NEW ps, NEW procs \in [Pids -> Processes]
  PROVE  /\ Dropped(ps, procs) \in [Pids -> Processes]
         /\ \A q \in Pids : Dropped(ps, procs)[q].state = "running" => procs[q].state = "running"
  BY DEF Dropped, Processes

\* The one process that a spawn makes, and what it does to the files.
LEMMA SpawnMakes ==
  ASSUME SupervisorTyped, NEW n \in Managed, NEW q \in Unused, spawn(n, q)
  PROVE  /\ process' \in [Pids -> Processes] /\ pidFile' \in [Managed -> Pid0]
         /\ marker' = marker \ {n}
         /\ \A r \in Pids :
              process[r].state = "unused" /\ process'[r].state = "running" => process'[r].name = n
  BY DEF spawn, Unused, SupervisorTyped, Processes, Pid0

\* The kernel and the plugins: the constants in the records of the model.
LEMMA Constants ==
  /\ NoEntry \in Entries /\ \A q \in Pids : NewEntry(q) \in Entries
  /\ DaemonOff \in [pc : DaemonPcs, name : Managed, pid : Pid0, todo : SUBSET Managed]
  /\ IdleCli \in [pc : {"idle", "spawn", "mark", "wait"}, name : Managed, pid : Pid0]
  /\ Supervised \subseteq Managed
  BY DEF NoEntry, NewEntry, Entries, DaemonOff, IdleCli, DaemonPcs, Managed, Pid0

\* The counters of an entry stay counters when a restart is decided.
LEMMA ShouldRestartTyped ==
  ASSUME NEW e \in Entries, NEW over \in BOOLEAN
  PROVE  should_restart(e, over) \in Entries
<1> DEFINE count == IF over THEN 0 ELSE e.restart_count
<1>1. count \in Nat
  BY DEF Entries
<1>2. (IF count >= MaxRestarts THEN count ELSE count + 1) \in Nat
  BY <1>1
<1>3. ((e.window /\ ~over) \/ count < MaxRestarts) \in BOOLEAN
  OBVIOUS
<1> HIDE DEF count
<1>4. [e EXCEPT !.pid = 0, !.restart_count = IF count >= MaxRestarts THEN count ELSE count + 1,
                !.window = (e.window /\ ~over) \/ count < MaxRestarts] \in Entries
  BY <1>2, <1>3 DEF Entries, Pid0
<1> QED
  BY <1>4 DEF should_restart, count

\* Nothing runs and nothing is stopped at the start.
LEMMA SupervisorInitEstablishes == SupervisorInit => SupervisorInv
<1> SUFFICES ASSUME SupervisorInit
             PROVE  SupervisorInv
  OBVIOUS
<1>1. process \in [Pids -> Processes] /\ pidFile \in [Managed -> Pid0]
  BY DEF SupervisorInit, Processes, Managed, Pid0
<1>2. SupervisorTyped
  BY <1>1, Constants DEF SupervisorInit, SupervisorTyped
<1>3. \A n \in Supervised : StopHolds(n)
  BY DEF SupervisorInit, StopHolds
<1> QED
  BY <1>2, <1>3 DEF SupervisorInv

\* What is to be shown of a step.
StepGood == SupervisorInv' /\ SpawnsOnlyWanted

\* A step that makes no process, removes no marker, puts no spawn ahead and
\* asks for no stop.
LEMMA QuietStep ==
  ASSUME SupervisorInv, SupervisorTyped', NoneSpawned, marker \subseteq marker',
         UNCHANGED stopState,
         cli' = cli \/ cli'.pc # "spawn",
         daemon'.pc \notin {"backoff", "spawn"} \/ (daemon'.pc = daemon.pc /\ daemon'.name = daemon.name)
  PROVE  StepGood
  BY DEF StepGood, SupervisorInv, StopHolds, SpawnAhead, SpawnsOnlyWanted, NoneSpawned

\* Every step that spawns: the name has no stop on record, so no stop is undone.
LEMMA SpawningStep ==
  ASSUME SupervisorInv, SupervisorTyped', NEW n \in Managed, NEW q \in Unused, spawn(n, q),
         \A m \in Supervised : m = n => stopState[m] = "no",
         UNCHANGED stopState,
         cli' = cli \/ cli'.pc # "spawn",
         daemon'.pc \notin {"backoff", "spawn"}
  PROVE  StepGood
<1>1. SpawnsOnlyWanted
  BY SpawnMakes DEF SpawnsOnlyWanted, SupervisorInv
<1>2. \A m \in Supervised : StopHolds(m)'
  BY SpawnMakes DEF StopHolds, SpawnAhead, SupervisorInv
<1> QED
  BY <1>1, <1>2 DEF StepGood, SupervisorInv

\* The start of the daemon respects the marker.
LEMMA StartKeeps ==
  ASSUME SupervisorInv, StartKernel \/ StartNextPlugin \/ EnterLoop
  PROVE  StepGood
<1>0. SupervisorTyped
  BY DEF SupervisorInv
<1>1. CASE StartKernel
  <2>1. PICK q \in Unused : spawn("kernel", q) /\ entry' = [entry EXCEPT !["kernel"] = NewEntry(q)]
    BY <1>1 DEF StartKernel
  <2>2. q \in Pids /\ "kernel" \in Managed
    BY DEF Unused, Managed
  <2>3. daemon' \in [pc : DaemonPcs, name : Managed, pid : Pid0, todo : SUBSET Managed]
        /\ daemon'.pc = "plugins"
    BY <1>1, Constants DEF StartKernel, DaemonOff, DaemonPcs
  <2>4. entry' \in [Managed -> Entries]
    BY <1>0, <2>1, <2>2, Constants DEF SupervisorTyped
  <2>5. SupervisorTyped'
    BY <1>0, <1>1, <2>1, <2>2, <2>3, <2>4, SpawnMakes DEF StartKernel, SupervisorTyped
  <2> QED
    BY <1>1, <2>1, <2>2, <2>3, <2>5, SpawningStep, SupervisorAssumption DEF StartKernel
<1>2. CASE StartNextPlugin
  <2>1. PICK n \in daemon.todo :
          /\ daemon' = [daemon EXCEPT !.todo = @ \ {n}]
          /\ \/ n \in marker /\ UNCHANGED <<entry, process, files>>
             \/ /\ n \notin marker
                /\ \E q \in Unused : spawn(n, q) /\ entry' = [entry EXCEPT ![n] = NewEntry(q)]
    BY <1>2 DEF StartNextPlugin
  <2>2. n \in Managed /\ daemon.pc = "plugins" /\ UNCHANGED <<cli, bounds, stopState>>
    BY <1>0, <1>2, <2>1 DEF SupervisorTyped, StartNextPlugin
  <2>3. daemon' \in [pc : DaemonPcs, name : Managed, pid : Pid0, todo : SUBSET Managed]
        /\ daemon'.pc = "plugins"
    BY <1>0, <2>1, <2>2 DEF SupervisorTyped
  <2>4. CASE UNCHANGED <<entry, process, files>>
    <3>1. SupervisorTyped' /\ NoneSpawned
      BY <1>0, <2>2, <2>3, <2>4 DEF SupervisorTyped, NoneSpawned, files
    <3> QED
      BY <2>2, <2>3, <2>4, <3>1, QuietStep DEF files
  <2>5. ASSUME n \notin marker,
               NEW q \in Unused, spawn(n, q), entry' = [entry EXCEPT ![n] = NewEntry(q)]
        PROVE  StepGood
    <3>1. q \in Pids
      BY DEF Unused
    <3>2. entry' \in [Managed -> Entries]
      BY <1>0, <2>2, <2>5, <3>1, Constants DEF SupervisorTyped
    <3>3. SupervisorTyped'
      BY <1>0, <2>2, <2>3, <2>5, <3>2, SpawnMakes DEF SupervisorTyped
    <3>4. \A m \in Supervised : m = n => stopState[m] = "no"
      BY <1>0, <2>5 DEF SupervisorInv, StopHolds, SupervisorTyped
    <3> QED
      BY <2>2, <2>3, <2>5, <3>3, <3>4, SpawningStep
  <2> QED
    BY <2>1, <2>4, <2>5
<1>3. CASE EnterLoop
  <2>1. SupervisorTyped' /\ NoneSpawned /\ daemon'.pc = "select"
    BY <1>0, <1>3 DEF EnterLoop, DaemonAt, SupervisorTyped, DaemonPcs, NoneSpawned, files
  <2> QED
    BY <1>3, <2>1, QuietStep DEF EnterLoop, files
<1> QED
  BY <1>1, <1>2, <1>3

\* check_processes: a restart is decided with the marker in sight, and a request
\* that comes during the backoff drops the restart.
LEMMA CheckKeeps ==
  ASSUME SupervisorInv,
         \/ CheckBegins \/ CheckEnds \/ BackoffEnds
         \/ \E n \in Managed : CheckFindsNothing(n) \/ CheckFindsExit(n)
  PROVE  StepGood
<1>0. SupervisorTyped
  BY DEF SupervisorInv
<1>1. CASE CheckBegins
  <2>1. SupervisorTyped' /\ NoneSpawned /\ daemon'.pc = "check"
    BY <1>0, <1>1 DEF CheckBegins, SupervisorTyped, DaemonPcs, NoneSpawned, files
  <2> QED
    BY <1>1, <2>1, QuietStep DEF CheckBegins, files
<1>2. CASE CheckEnds
  <2>1. SupervisorTyped' /\ NoneSpawned /\ daemon'.pc = "select"
    BY <1>0, <1>2 DEF CheckEnds, DaemonAt, SupervisorTyped, DaemonPcs, NoneSpawned, files
  <2> QED
    BY <1>2, <2>1, QuietStep DEF CheckEnds, files
<1>3. CASE BackoffEnds
  <2>1. daemon.name \in Managed /\ UNCHANGED <<cli, bounds, stopState>>
    BY <1>0, <1>3 DEF SupervisorTyped, BackoffEnds
  <2>2. daemon' \in [pc : DaemonPcs, name : Managed, pid : Pid0, todo : SUBSET Managed]
        /\ daemon'.pc = "check"
    BY <1>0, <1>3 DEF SupervisorTyped, BackoffEnds, DaemonAt, DaemonPcs
  <2>3. CASE UNCHANGED <<entry, process, files>>
    <3>1. SupervisorTyped' /\ NoneSpawned
      BY <1>0, <2>1, <2>2, <2>3 DEF SupervisorTyped, NoneSpawned, files
    <3> QED
      BY <2>1, <2>2, <2>3, <3>1, QuietStep DEF files
  <2>4. ASSUME NEW q \in Unused, spawn(daemon.name, q),
               entry' = [entry EXCEPT ![daemon.name].pid = q]
        PROVE  StepGood
    <3>1. q \in Pid0
      BY DEF Unused, Pid0
    <3>2. entry' \in [Managed -> Entries]
      BY <1>0, <2>1, <2>4, <3>1 DEF SupervisorTyped, Entries
    <3>3. SupervisorTyped'
      BY <1>0, <2>1, <2>2, <2>4, <3>2, SpawnMakes DEF SupervisorTyped
    <3>4. \A m \in Supervised : m = daemon.name => stopState[m] = "no"
      BY <1>0, <1>3 DEF BackoffEnds, SupervisorInv, StopHolds, SpawnAhead, SupervisorTyped
    <3> QED
      BY <2>1, <2>2, <2>4, <3>3, <3>4, SpawningStep
  <2> QED
    BY <1>3, <2>3, <2>4 DEF BackoffEnds
<1>4. ASSUME NEW n \in Managed, CheckFindsNothing(n)
      PROVE  StepGood
  <2>1. SupervisorTyped' /\ NoneSpawned /\ daemon'.pc = "check"
    BY <1>0, <1>4 DEF CheckFindsNothing, CheckTakes, SupervisorTyped, NoneSpawned, files
  <2> QED
    BY <1>4, <2>1, QuietStep DEF CheckFindsNothing, files
<1>5. ASSUME NEW n \in Managed, CheckFindsExit(n)
      PROVE  StepGood
  <2>1. process' \in [Pids -> Processes] /\ NoneSpawned
    <3>1. process' = Dropped({entry[n].pid}, process) /\ process \in [Pids -> Processes]
      BY <1>0, <1>5 DEF CheckFindsExit, SupervisorTyped
    <3> QED
      BY <3>1, DroppedKeeps DEF NoneSpawned
  <2>2. pidFile' \in [Managed -> Pid0] /\ UNCHANGED <<marker, cli, bounds, stopState>>
    BY <1>0, <1>5 DEF CheckFindsExit, SupervisorTyped, Pid0
  <2>3. CASE n \in marker
    <3>1. entry' = [entry EXCEPT ![n].pid = 0] /\ daemon' = [daemon EXCEPT !.todo = @ \ {n}]
      BY <1>5, <2>3 DEF CheckFindsExit
    <3>2. entry' \in [Managed -> Entries]
      BY <1>0, <3>1 DEF SupervisorTyped, Entries, Pid0
    <3>3. SupervisorTyped' /\ daemon'.pc = daemon.pc /\ daemon'.name = daemon.name
      BY <1>0, <2>1, <2>2, <3>1, <3>2 DEF SupervisorTyped
    <3> QED
      BY <2>1, <2>2, <3>3, QuietStep
  <2>4. CASE n \notin marker
    <3>1. PICK over \in {FALSE, entry[n].window} :
            /\ entry' = [entry EXCEPT ![n] = should_restart(entry[n], over)]
            /\ daemon' = [daemon EXCEPT !.todo = @ \ {n}, !.name = n,
                 !.pc = IF over \/ entry[n].restart_count < MaxRestarts THEN "backoff" ELSE "check"]
      BY <1>5, <2>4 DEF CheckFindsExit
    <3>2. entry[n] \in Entries /\ over \in BOOLEAN
      BY <1>0 DEF SupervisorTyped, Entries
    <3>3. should_restart(entry[n], over) \in Entries
      BY <3>2, ShouldRestartTyped
    <3>4. SupervisorTyped' /\ daemon'.name = n
      BY <1>0, <2>1, <2>2, <3>1, <3>3 DEF SupervisorTyped, DaemonPcs
    <3>5. \A m \in Supervised : StopHolds(m)'
      <4> SUFFICES ASSUME NEW m \in Supervised PROVE StopHolds(m)'
        OBVIOUS
      <4>1. CASE m = n
        BY <2>2, <2>4, <4>1 DEF StopHolds, SupervisorInv
      <4>2. CASE m # n
        BY <2>2, <3>4, <4>2 DEF StopHolds, SpawnAhead, SupervisorInv
      <4> QED
        BY <4>1, <4>2
    <3> QED
      BY <2>1, <3>4, <3>5 DEF StepGood, SupervisorInv, SpawnsOnlyWanted, NoneSpawned
  <2> QED
    BY <2>3, <2>4
<1> QED
  BY <1>1, <1>2, <1>3, <1>4, <1>5

\* Requests on the bus.  A stop is asked for only when no spawn of the command
\* line is ahead, and it takes the daemon out of its backoff.
LEMMA RequestKeeps ==
  ASSUME SupervisorInv,
         \/ UnknownRequested \/ StartSpawns \/ StopEnds
         \/ \E n \in Supervised : handle_plugin_start(n) \/ handle_plugin_stop(n)
  PROVE  StepGood
<1>0. SupervisorTyped
  BY DEF SupervisorInv
<1> USE DEF files, bounds
<1>1. CASE UnknownRequested
  <2>1. SupervisorTyped' /\ NoneSpawned /\ daemon'.pc = "select"
    BY <1>0, <1>1 DEF UnknownRequested, DaemonAt, SupervisorTyped, DaemonPcs, NoneSpawned
  <2> QED
    BY <1>1, <2>1, QuietStep DEF UnknownRequested
<1>2. CASE StartSpawns
  <2>1. daemon.name \in Managed /\ UNCHANGED <<cli, bounds, stopState>>
    BY <1>0, <1>2 DEF SupervisorTyped, StartSpawns
  <2>2. daemon' \in [pc : DaemonPcs, name : Managed, pid : Pid0, todo : SUBSET Managed]
        /\ daemon'.pc = "select"
    BY <1>0, <1>2 DEF SupervisorTyped, StartSpawns, DaemonAt, DaemonPcs
  <2>3. CASE UNCHANGED <<entry, process, files>>
    <3>1. SupervisorTyped' /\ NoneSpawned
      BY <1>0, <2>1, <2>2, <2>3 DEF SupervisorTyped, NoneSpawned
    <3> QED
      BY <2>1, <2>2, <2>3, <3>1, QuietStep
  <2>4. ASSUME NEW q \in Unused, spawn(daemon.name, q),
               entry' = [entry EXCEPT ![daemon.name] = NewEntry(q)]
        PROVE  StepGood
    <3>1. q \in Pids
      BY DEF Unused
    <3>2. entry' \in [Managed -> Entries]
      BY <1>0, <2>1, <2>4, <3>1, Constants DEF SupervisorTyped
    <3>3. SupervisorTyped'
      BY <1>0, <2>1, <2>2, <2>4, <3>2, SpawnMakes DEF SupervisorTyped
    <3>4. \A m \in Supervised : m = daemon.name => stopState[m] = "no"
      BY <1>0, <1>2 DEF StartSpawns, SupervisorInv, StopHolds, SpawnAhead, SupervisorTyped
    <3> QED
      BY <2>1, <2>2, <2>4, <3>3, <3>4, SpawningStep
  <2> QED
    BY <1>2, <2>3, <2>4 DEF StartSpawns
<1>3. CASE StopEnds
  <2> DEFINE n == daemon.name
             killed == IF is_process_alive(daemon.pid) THEN Signalled({daemon.pid}, "kill") ELSE process
  <2>1. n \in Managed /\ process' = Dropped({entry[n].pid}, killed)
    BY <1>0, <1>3 DEF SupervisorTyped, StopEnds
  <2>2. killed \in [Pids -> Processes] /\ \A q \in Pids : killed[q].state = process[q].state
    BY <1>0, SignalledKeeps DEF SupervisorTyped
  <2> HIDE DEF killed
  <2>3. NoneSpawned
    BY <2>1, <2>2, DroppedKeeps DEF NoneSpawned
  <2>4. entry' \in [Managed -> Entries] /\ pidFile' \in [Managed -> Pid0]
    BY <1>0, <1>3, Constants DEF SupervisorTyped, StopEnds, Forget, Pid0
  <2>5. stopState' = [stopState EXCEPT ![n] = IF stopState[n] = "asked" THEN "done" ELSE stopState[n]]
        /\ daemon' = [daemon EXCEPT !.pc = "select"] /\ UNCHANGED <<marker, cli, bounds>>
    BY <1>3 DEF StopEnds, DaemonAt
  <2>6. SupervisorTyped'
    BY <1>0, <2>3, <2>4, <2>5 DEF SupervisorTyped, NoneSpawned, DaemonPcs
  <2>7. \A m \in Supervised : StopHolds(m)'
    BY <1>0, <2>5 DEF SupervisorInv, StopHolds, SpawnAhead, SupervisorTyped
  <2> QED
    BY <2>3, <2>6, <2>7 DEF StepGood, SupervisorInv, SpawnsOnlyWanted, NoneSpawned
<1>4. ASSUME NEW n \in Supervised, handle_plugin_start(n)
      PROVE  StepGood
  <2>1. NoneSpawned /\ UNCHANGED <<entry, process, pidFile, cli>> /\ n \in Managed
        /\ stopState' = [stopState EXCEPT ![n] = "no"]
    BY <1>0, <1>4, Constants DEF handle_plugin_start, SupervisorTyped, NoneSpawned
  <2>2. \/ daemon' = [daemon EXCEPT !.pc = "select"] /\ marker' = marker
        \/ daemon' = [daemon EXCEPT !.pc = "spawn", !.name = n] /\ marker' = marker \ {n}
    BY <1>4 DEF handle_plugin_start, DaemonAt
  <2>3. SupervisorTyped'
    BY <1>0, <2>1, <2>2 DEF SupervisorTyped, DaemonPcs
  <2>4. \A m \in Supervised : StopHolds(m)'
    BY <1>0, <2>1, <2>2 DEF SupervisorInv, StopHolds, SpawnAhead, SupervisorTyped
  <2> QED
    BY <2>1, <2>3, <2>4 DEF StepGood, SupervisorInv, SpawnsOnlyWanted, NoneSpawned
<1>5. ASSUME NEW n \in Supervised, handle_plugin_stop(n)
      PROVE  StepGood
  <2>0. n \in Managed /\ UNCHANGED cli
    BY <1>5, Constants DEF handle_plugin_stop
  <2>1. CASE DaemonAt("select") /\ UNCHANGED <<entry, process, files, stopState>>
    <3>1. SupervisorTyped' /\ NoneSpawned /\ daemon'.pc = "select"
      BY <1>0, <2>0, <2>1 DEF DaemonAt, SupervisorTyped, DaemonPcs, NoneSpawned
    <3> QED
      BY <2>0, <2>1, <3>1, QuietStep
  <2>2. CASE /\ pidFile' = [pidFile EXCEPT ![n] = 0]
             /\ Forget(n) /\ process' = Dropped({entry[n].pid}, process)
             /\ DaemonAt("select")
             /\ UNCHANGED <<marker, stopState>>
    <3>1. NoneSpawned
      BY <1>0, <2>2, DroppedKeeps DEF SupervisorTyped, NoneSpawned
    <3>2. SupervisorTyped' /\ daemon'.pc = "select"
      BY <1>0, <2>0, <2>2, <3>1, Constants
         DEF DaemonAt, SupervisorTyped, DaemonPcs, NoneSpawned, Forget, Pid0
    <3> QED
      BY <2>0, <2>2, <3>1, <3>2, QuietStep
  <2>3. CASE /\ marker' = marker \cup {n}
             /\ process' = Signalled({pidFile[n]}, "term")
             /\ daemon' = [daemon EXCEPT !.pc = "stopping", !.name = n, !.pid = pidFile[n]]
             /\ StopAsked(n)
             /\ UNCHANGED <<entry, pidFile>>
    <3>1. NoneSpawned
      BY <1>0, <2>3, SignalledKeeps DEF NoneSpawned
    <3>2. stopState' = [stopState EXCEPT ![n] =
             IF cli.pc = "spawn" /\ cli.name = n THEN stopState[n] ELSE "asked"]
      BY <2>3 DEF StopAsked
    <3>3. SupervisorTyped' /\ daemon'.pc = "stopping"
      BY <1>0, <2>0, <2>3, <3>1, <3>2 DEF SupervisorTyped, DaemonPcs, NoneSpawned
    <3>4. \A m \in Supervised : StopHolds(m)'
      BY <1>0, <2>0, <2>3, <3>2, <3>3 DEF SupervisorInv, StopHolds, SpawnAhead, SupervisorTyped
    <3> QED
      BY <3>1, <3>3, <3>4 DEF StepGood, SupervisorInv, SpawnsOnlyWanted, NoneSpawned
  <2> QED
    BY <1>5, <2>1, <2>2, <2>3 DEF handle_plugin_stop
<1> QED
  BY <1>1, <1>2, <1>3, <1>4, <1>5

\* The end of the daemon: it takes no marker with it.
LEMMA EndKeeps ==
  ASSUME SupervisorInv, Shutdown \/ ShutdownKernel \/ ShutdownEnds \/ DaemonDies
  PROVE  StepGood
<1>0. SupervisorTyped
  BY DEF SupervisorInv
<1> USE DEF files, bounds
<1>1. CASE Shutdown
  <2>1. NoneSpawned
    BY <1>0, <1>1, SignalledKeeps DEF Shutdown, NoneSpawned
  <2>2. SupervisorTyped' /\ daemon'.pc = "plugins stop"
    BY <1>0, <1>1, <2>1 DEF Shutdown, DaemonAt, SupervisorTyped, DaemonPcs, NoneSpawned
  <2> QED
    BY <1>1, <2>1, <2>2, QuietStep DEF Shutdown
<1>2. CASE ShutdownKernel
  <2>1. \A q \in Pids : /\ process'[q] \in {Signalled({q}, "term")[q], Signalled(PluginPids, "kill")[q]}
    BY <1>2 DEF ShutdownKernel
  <2>2. process' = [q \in Pids |-> process'[q]]
    BY <1>2 DEF ShutdownKernel
  <2>3. \A q \in Pids : process'[q] \in Processes /\ process'[q].state = process[q].state
    <3> SUFFICES ASSUME NEW q \in Pids
                 PROVE  process'[q] \in Processes /\ process'[q].state = process[q].state
      OBVIOUS
    <3>1. /\ Signalled({q}, "term")[q] \in Processes
          /\ Signalled({q}, "term")[q].state = process[q].state
      BY <1>0, SignalledKeeps
    <3>2. /\ Signalled(PluginPids, "kill")[q] \in Processes
          /\ Signalled(PluginPids, "kill")[q].state = process[q].state
      BY <1>0, SignalledKeeps
    <3> QED
      BY <2>1, <3>1, <3>2
  <2>4. NoneSpawned
    BY <2>2, <2>3 DEF NoneSpawned
  <2>5. SupervisorTyped' /\ daemon'.pc = "kernel stops"
    BY <1>0, <1>2, <2>4 DEF ShutdownKernel, DaemonAt, SupervisorTyped, DaemonPcs, NoneSpawned
  <2> QED
    BY <1>2, <2>4, <2>5, QuietStep DEF ShutdownKernel
<1>3. ASSUME pidFile' \in [Managed -> Pid0], Leave
      PROVE  StepGood
  <2>1. NoneSpawned
    BY <1>0, <1>3, DroppedKeeps DEF Leave, SupervisorTyped, NoneSpawned
  <2>2. SupervisorTyped' /\ daemon'.pc = "off"
    BY <1>0, <1>3, <2>1, Constants DEF Leave, SupervisorTyped, NoneSpawned, DaemonOff
  <2> QED
    BY <1>3, <2>1, <2>2, QuietStep DEF Leave
<1>4. CASE ShutdownEnds
  <2>1. pidFile' \in [Managed -> Pid0]
    BY <1>0, <1>4 DEF ShutdownEnds, SupervisorTyped, Pid0
  <2> QED
    BY <1>3, <1>4, <2>1 DEF ShutdownEnds
<1>5. CASE DaemonDies
  BY <1>0, <1>3, <1>5 DEF DaemonDies, SupervisorTyped
<1> QED
  BY <1>1, <1>2, <1>4, <1>5

\* The command line, beside the daemon.
LEMMA CliKeeps ==
  ASSUME SupervisorInv, CliStep
  PROVE  StepGood
<1>0. SupervisorTyped
  BY DEF SupervisorInv
<1> USE DEF files, bounds
<1>1. ASSUME NEW n \in Supervised, start_plugin(n)
      PROVE  StepGood
  <2>1. NoneSpawned /\ n \in Managed
    BY <1>0, <1>1, Constants DEF start_plugin, SupervisorTyped, NoneSpawned
  <2>2. /\ UNCHANGED <<daemon, entry, process, pidFile>>
        /\ marker' = marker \ {n} /\ stopState' = [stopState EXCEPT ![n] = "no"]
        /\ cli' = [cli EXCEPT !.pc = "idle", !.name = n] \/ cli' = [cli EXCEPT !.pc = "spawn", !.name = n]
    BY <1>1 DEF start_plugin
  <2>3. SupervisorTyped'
    BY <1>0, <2>1, <2>2 DEF SupervisorTyped
  <2>4. \A m \in Supervised : StopHolds(m)'
    BY <1>0, <2>2 DEF SupervisorInv, StopHolds, SpawnAhead, SupervisorTyped
  <2> QED
    BY <2>1, <2>3, <2>4 DEF StepGood, SupervisorInv, SpawnsOnlyWanted, NoneSpawned
<1>2. ASSUME NEW n \in Supervised, stop_plugin(n)
      PROVE  StepGood
  <2>1. NoneSpawned /\ n \in Managed
    BY <1>0, <1>2, Constants DEF stop_plugin, SupervisorTyped, NoneSpawned
  <2>2. SupervisorTyped'
    BY <1>0, <1>2, <2>1 DEF stop_plugin, SupervisorTyped, Pid0
  <2>3. cli' = cli \/ cli'.pc = "mark"
    BY <1>2 DEF stop_plugin
  <2> QED
    BY <1>2, <2>1, <2>2, <2>3, QuietStep DEF stop_plugin
<1>3. CASE CliSpawns
  <2>1. cli.name \in Managed /\ UNCHANGED <<daemon, entry, stopState>> /\ cli' = IdleCli
    BY <1>0, <1>3 DEF SupervisorTyped, CliSpawns
  <2>2. cli'.pc = "idle"
    BY <2>1 DEF IdleCli
  <2>3. CASE UNCHANGED <<process, files>>
    <3>1. SupervisorTyped' /\ NoneSpawned
      BY <1>0, <2>1, <2>3, Constants DEF SupervisorTyped, NoneSpawned
    <3> QED
      BY <2>1, <2>2, <2>3, <3>1, QuietStep
  <2>4. ASSUME NEW q \in Unused, spawn(cli.name, q)
        PROVE  StepGood
    <3>1. SupervisorTyped'
      BY <1>0, <2>1, <2>4, SpawnMakes, Constants DEF SupervisorTyped
    <3>2. \A m \in Supervised : m = cli.name => stopState[m] = "no"
      BY <1>0, <1>3 DEF CliSpawns, SupervisorInv, StopHolds, SpawnAhead, SupervisorTyped
    <3>3. SpawnsOnlyWanted
      BY <1>0, <2>1, <2>4, <3>2, SpawnMakes DEF SpawnsOnlyWanted
    <3>4. \A m \in Supervised : StopHolds(m)'
      BY <1>0, <2>1, <2>2, <2>4, <3>2, SpawnMakes DEF StopHolds, SpawnAhead, SupervisorInv
    <3> QED
      BY <3>1, <3>3, <3>4 DEF StepGood, SupervisorInv
  <2> QED
    BY <1>3, <2>3, <2>4 DEF CliSpawns
<1>4. CASE CliMarks
  <2>1. NoneSpawned
    BY <1>0, <1>4, SignalledKeeps DEF CliMarks, NoneSpawned
  <2>2. SupervisorTyped' /\ cli'.pc = "wait"
    BY <1>0, <1>4, <2>1 DEF CliMarks, SupervisorTyped, NoneSpawned
  <2> QED
    BY <1>4, <2>1, <2>2, QuietStep DEF CliMarks
<1>5. CASE CliStopEnds
  <2>1. NoneSpawned
    BY <1>0, <1>5, SignalledKeeps DEF CliStopEnds, SupervisorTyped, NoneSpawned
  <2>2. SupervisorTyped' /\ cli'.pc = "idle"
    BY <1>0, <1>5, <2>1, Constants DEF CliStopEnds, SupervisorTyped, NoneSpawned, IdleCli, Pid0
  <2> QED
    BY <1>5, <2>1, <2>2, QuietStep DEF CliStopEnds
<1> QED
  BY <1>1, <1>2, <1>3, <1>4, <1>5 DEF CliStep

\* Every step keeps the invariant and spawns only what is wanted.
LEMMA NextKeeps ==
  ASSUME SupervisorInv, SupervisorNext
  PROVE  StepGood
<1>1. ASSUME NEW q \in Pids, Exit(q)
      PROVE  StepGood
  <2>1. NoneSpawned
    BY <1>1 DEF Exit, SupervisorInv, SupervisorTyped, Processes, NoneSpawned
  <2>2. SupervisorTyped'
    BY <1>1, <2>1 DEF Exit, SupervisorInv, SupervisorTyped, NoneSpawned, files
  <2> QED
    BY <1>1, <2>1, <2>2, QuietStep DEF Exit, files
<1> QED
  BY <1>1, StartKeeps, CheckKeeps, RequestKeeps, EndKeeps, CliKeeps DEF SupervisorNext, DaemonStep

\* Every stop on record is backed by its marker, and no spawn ahead ignores it.
LEMMA InvariantHolds == SupervisorSpec => []SupervisorInv
<1>1. SupervisorInv /\ [SupervisorNext]_supervisorVars => SupervisorInv'
  <2>1. CASE UNCHANGED supervisorVars
    BY <2>1 DEF supervisorVars, SupervisorInv, SupervisorTyped, StopHolds, SpawnAhead
  <2> QED
    BY <2>1, NextKeeps DEF StepGood
<1> QED
  BY <1>1, SupervisorInitEstablishes, PTL DEF SupervisorSpec

\* A plugin whose stop the daemon has answered is not spawned again until a
\* start is asked for: not by check_processes, not after a backoff, not by a new
\* daemon, not by the command line (handle_plugin_stop, check_processes, start).
THEOREM StoppedStaysStopped == SupervisorSpec => StopSticks
<1>1. SupervisorInv /\ [SupervisorNext]_supervisorVars =>
        [\A q \in Pids :
           process[q].state = "unused" /\ process'[q].state = "running"
             => process'[q].name \notin {n \in Supervised : stopState[n] = "done"}]_supervisorVars
  BY NextKeeps DEF StepGood, SpawnsOnlyWanted
<1> QED
  BY <1>1, InvariantHolds, PTL DEF SupervisorSpec, StopSticks
=============================================================================
