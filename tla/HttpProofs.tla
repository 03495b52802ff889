----------------------------- MODULE HttpProofs -----------------------------
(***************************************************************************)
(* The HTTP transport keeps its circuit, its slots and its promises: for    *)
(* every number of concurrent requests, ids, limits, faults and restarts    *)
(* the breaker is closed exactly below its threshold, the counters count    *)
(* what they limit, and what a client was told of its registration holds.   *)
(***************************************************************************)
EXTENDS HttpSubscriptions, FiniteSetTheorems, TLAPS

-----------------------------------------------------------------------------
(* The circuit breaker.                                                      *)


\* Types and the relation of mode and count are inductive together: a failure
\* in half-open mode opens the circuit without looking at the count, which is
\* right only because the count of a circuit that is not closed never falls.
CircuitInv == CircuitTypeOK /\ ClosedIffBelowThreshold

\* A channel starts with its circuit closed and no failure counted.
LEMMA InitEstablishes == Init => CircuitInv
<1> SUFFICES ASSUME Init
             PROVE  CircuitInv
  OBVIOUS
<1>1. call \in [Callers -> {"idle", "sending"}]
  BY DEF Init
<1>2. mode = "Closed" /\ failures = 0 /\ failures < Threshold /\ failures \in 0..MaxFailures
  BY CircuitAssumption DEF Init
<1>3. cooldown \in 0..MaxCooldown /\ remaining \in 0..MaxCooldown /\ endpoint = "down"
  BY CircuitAssumption DEF Init
<1> QED
  BY <1>1, <1>2, <1>3 DEF CircuitInv, CircuitTypeOK, ClosedIffBelowThreshold

\* What every way of opening the circuit leaves behind.
LEMMA OpenTyped ==
  ASSUME CircuitTypeOK, OpenCircuit
  PROVE  mode' = "Open" /\ cooldown' \in 0..MaxCooldown /\ remaining' \in 0..MaxCooldown
  BY CircuitAssumption DEF CircuitTypeOK, OpenCircuit, Lesser

\* The next count: one more, and no fewer than before.
LEMMA CountGrows ==
  ASSUME NEW f \in 0..MaxFailures
  PROVE  /\ Lesser(f + 1, MaxFailures) \in 0..MaxFailures
         /\ f <= Lesser(f + 1, MaxFailures)
  BY CircuitAssumption DEF Lesser

\* A delivery that fails preserves the invariant.
LEMMA FailPreserves ==
  ASSUME CircuitInv, NEW c \in Callers, Fail(c)
  PROVE  CircuitInv'
<1>1. CircuitTypeOK /\ failures \in 0..MaxFailures
  BY DEF CircuitInv, CircuitTypeOK
<1>2. failures' \in 0..MaxFailures /\ failures <= failures'
  BY <1>1, CountGrows DEF Fail
<1>3. /\ call' \in [Callers -> {"idle", "sending"}]
      /\ endpoint' \in {"down", "up"}
  BY <1>1 DEF Fail, CircuitTypeOK
<1>4. CASE mode = "HalfOpen" \/ failures' >= Threshold
  <2>1. OpenCircuit
    BY <1>4 DEF Fail
  <2>2. mode' = "Open" /\ cooldown' \in 0..MaxCooldown /\ remaining' \in 0..MaxCooldown
    BY <1>1, <2>1, OpenTyped
  <2>3. ~ (failures' < Threshold)
    <3>1. CASE mode = "HalfOpen"
      <4>1. ~ (failures < Threshold)
        BY <3>1 DEF CircuitInv, ClosedIffBelowThreshold
      <4> QED
        BY <1>1, <1>2, <4>1, CircuitAssumption
    <3>2. CASE failures' >= Threshold
      BY <1>2, <3>2, CircuitAssumption
    <3> QED
      BY <1>4, <3>1, <3>2
  <2> QED
    BY <1>2, <1>3, <2>2, <2>3 DEF CircuitInv, CircuitTypeOK, ClosedIffBelowThreshold
<1>5. CASE ~ (mode = "HalfOpen" \/ failures' >= Threshold)
  <2>1. UNCHANGED <<mode, cooldown, remaining>>
    BY <1>5 DEF Fail
  <2>2. failures' < Threshold /\ failures < Threshold
    BY <1>1, <1>2, <1>5, CircuitAssumption
  <2> QED
    BY <1>1, <1>2, <1>3, <2>1, <2>2
    DEF CircuitInv, CircuitTypeOK, ClosedIffBelowThreshold
<1> QED
  BY <1>4, <1>5

\* Every step preserves the invariant.
LEMMA StepPreserves == CircuitInv /\ [Next]_vars => CircuitInv'
<1> SUFFICES ASSUME CircuitInv, [Next]_vars
             PROVE  CircuitInv'
  OBVIOUS
<1> USE DEF CircuitInv, CircuitTypeOK, ClosedIffBelowThreshold
<1>1. ASSUME NEW c \in Callers, Skip(c)
      PROVE  CircuitInv'
  BY <1>1 DEF Skip, vars
<1>2. ASSUME NEW c \in Callers, Begin(c)
      PROVE  CircuitInv'
  BY <1>2 DEF Begin
<1>3. ASSUME NEW c \in Callers, Succeed(c)
      PROVE  CircuitInv'
  <2>1. endpoint' \in {"down", "up"}
    BY <1>3 DEF Succeed
  <2>2. call' \in [Callers -> {"idle", "sending"}]
    BY <1>3 DEF Succeed
  <2>3. /\ mode' = "Closed"
        /\ failures' \in 0..MaxFailures /\ failures' < Threshold
        /\ cooldown' \in 0..MaxCooldown /\ remaining' \in 0..MaxCooldown
    BY <1>3, CircuitAssumption DEF Succeed
  <2> QED
    BY <2>1, <2>2, <2>3
<1>4. ASSUME NEW c \in Callers, Fail(c)
      PROVE  CircuitInv'
  BY <1>4, FailPreserves
<1>5. CASE Tick
  BY <1>5, CircuitAssumption DEF Tick
<1>6. CASE Repair
  BY <1>6 DEF Repair, circuit
<1>7. CASE UNCHANGED vars
  BY <1>7 DEF vars
<1> QED
  BY <1>1, <1>2, <1>3, <1>4, <1>5, <1>6, <1>7 DEF Next

\* The circuit is closed exactly while it has seen fewer than failure_threshold
\* failures in a row, and no cooldown exceeds max_cooldown, for any number of
\* concurrent deliveries.
THEOREM CircuitCorrect == Spec => [](CircuitTypeOK /\ ClosedIffBelowThreshold)
<1>1. Spec => []CircuitInv
  BY InitEstablishes, StepPreserves, PTL DEF Spec
<1> QED
  BY <1>1, PTL DEF CircuitInv
\* A start of the process leaves a closed circuit.
LEMMA RestartCloses == Restart /\ CircuitInv => CircuitInv'
<1> SUFFICES ASSUME Restart, CircuitInv
             PROVE  CircuitInv'
  OBVIOUS
<1>1. call' \in [Callers -> {"idle", "sending"}]
  BY DEF Restart
<1>2. mode' = "Closed" /\ failures' = 0 /\ failures' < Threshold /\ failures' \in 0..MaxFailures
  BY CircuitAssumption DEF Restart
<1>3. cooldown' \in 0..MaxCooldown /\ remaining' \in 0..MaxCooldown
  BY CircuitAssumption DEF Restart
<1>4. endpoint' \in {"down", "up"}
  BY DEF Restart, CircuitInv, CircuitTypeOK
<1> QED
  BY <1>1, <1>2, <1>3, <1>4 DEF CircuitInv, CircuitTypeOK, ClosedIffBelowThreshold

\* Every other step of the transport is a step of the circuit or none of its.
LEMMA TransportStepIsCircuitStep == [HttpNext]_httpAll => [Next]_vars \/ Restart
<1> SUFFICES ASSUME [HttpNext]_httpAll
             PROVE  [Next]_vars \/ Restart
  OBVIOUS
<1>1. ASSUME NEW step, Idle(step)
      PROVE  UNCHANGED vars
  BY <1>1 DEF Idle, vars, circuit
<1>2. ASSUME NEW id \in Ids, Takes(id)
      PROVE  Next
  <2>1. id \in Callers
    BY HttpAssumption DEF Ids
  <2> QED
    BY <1>2, <2>1 DEF Takes, Next
<1>3. CASE (Begin(0) \/ Skip(0)) /\ UNCHANGED httpVars
  <2>1. 0 \in Callers
    BY HttpAssumption
  <2> QED
    BY <1>3, <2>1 DEF Next
<1>4. CASE (\E c \in Callers : Succeed(c) \/ Fail(c)) /\ UNCHANGED httpVars
  BY <1>4 DEF Next
<1>5. CASE (Tick \/ Repair) /\ UNCHANGED httpVars
  BY <1>5 DEF Next
<1>6. CASE UNCHANGED httpAll
  BY <1>6 DEF httpAll, vars
<1> QED
  BY <1>1, <1>2, <1>3, <1>4, <1>5, <1>6 DEF HttpNext

-----------------------------------------------------------------------------
(* The registrations.                                                        *)

HandlerStates == {"idle", "subscribe", "track", "save", "unsubscribe", "unmap"}
HandlerRecords == [st : HandlerStates, kind : Kinds \cup {"none"}, id : Nat]
HistoryRecords ==
  [acked : SUBSET Nat, removing : SUBSET Nat, removed : SUBSET Nat, skipped : SUBSET Nat,
   lost : [Kinds -> Nat], twice : Int]

(* The types of what the transport keeps. *)
HttpTypeOK ==
  /\ bus \subseteq [id : Nat, kind : Kinds]
  /\ known \subseteq [id : Nat, kind : Kinds]
  /\ mapping \subseteq [id : Nat, pid : Nat]
  /\ count \in [Kinds -> Int]
  /\ tasks \subseteq Nat
  /\ handler \in [Handlers -> HandlerRecords]
  /\ persisted \subseteq [pid : Nat, kind : Kinds]
  /\ boot \subseteq persisted
  /\ fresh \in Nat
  /\ history \in HistoryRecords
  /\ \A h \in Handlers : handler[h].st # "idle" => handler[h].kind \in Kinds

(* No id is given out twice. *)
IdsBelowFresh ==
  /\ \A e \in known : e.id < fresh
  /\ \A id \in tasks : id < fresh
  /\ \A p \in mapping : p.id < fresh /\ p.pid < fresh
  /\ \A s \in persisted : s.pid < fresh
  /\ \A pid \in history.acked : pid < fresh
  /\ \A h \in Handlers : handler[h].id < fresh

(* An id has one kind and one persisted id, and a persisted id one id and    *)
(* one entry; what is still to be made again is on no bus yet.               *)
IdsUnique ==
  /\ \A e, f \in known : e.id = f.id => e = f
  /\ \A p, q \in mapping : (p.id = q.id \/ p.pid = q.pid) => p = q
  /\ \A s, t \in persisted : s.pid = t.pid => s = t
  /\ \A s \in boot : \A p \in mapping : p.pid # s.pid

(* An id that the bus has just given out is its handler's alone: on the bus, *)
(* and nowhere else.                                                         *)
HoldsNewId(h) ==
  LET id == handler[h].id IN
  /\ Entry(id, handler[h].kind) \in bus
  /\ \A e \in known : e.id # id
  /\ \A p \in mapping : p.id # id /\ p.pid # id
  /\ id \notin tasks /\ id \notin history.acked
  /\ \A s \in persisted : s.pid # id
  /\ \A g \in Handlers \ {h} : handler[g].st \in {"track", "save", "unsubscribe", "unmap"} => handler[g].id # id

(* A DELETE can find the id of the handler: it is known, on the bus, mapped. *)
Exposed(h) ==
  /\ Entry(handler[h].id, handler[h].kind) \in known /\ Entry(handler[h].id, handler[h].kind) \in bus
  /\ [id |-> handler[h].id, pid |-> handler[h].id] \in mapping

(* A registration on its way into the store is neither stored, served nor    *)
(* acknowledged, and no other request makes it; a DELETE may have taken it,  *)
(* and then it is marked.                                                    *)
OwnsRegistration(h) ==
  LET id == handler[h].id IN
  /\ id \notin tasks /\ id \notin history.acked
  /\ \A s \in persisted : s.pid # id
  /\ \A p \in mapping : p.id = id => p.pid = id
  /\ \A e \in known : e.id = id => e.kind = handler[h].kind
  /\ \A g \in Handlers \ {h} : handler[g].st \in {"track", "save"} => handler[g].id # id
  /\ id \in history.removing \/ Exposed(h)

(* What a handler removes is marked as being removed. *)
MarksRemoval(h) == \A p \in mapping : p.id = handler[h].id => p.pid \in history.removing

HandlersInOrder ==
  /\ boot # {} => \A h \in Handlers : handler[h].st = "idle"
  /\ \A h \in Handlers : handler[h].st = "track" => HoldsNewId(h)
  /\ \A h \in Handlers : handler[h].st = "save" => OwnsRegistration(h)
  /\ \A h \in Handlers : handler[h].st \in {"unsubscribe", "unmap"} => MarksRemoval(h)

(* The persisted id is served: mapped to an id that is on the bus and, for a *)
(* subscription, has its forwarder.                                          *)
Served(pid, kind) ==
  \E p \in mapping : /\ p.pid = pid /\ Entry(p.id, kind) \in bus
                     /\ kind = "AsyncWebhook" => p.id \in tasks

(* An acknowledged registration nobody removes is stored, and it is served,  *)
(* or waits for its turn or its slot in the start of the server.             *)
AckedKept ==
  \A pid \in history.acked \ history.removing :
    \E s \in persisted : s.pid = pid /\ (s \in boot \/ pid \in history.skipped \/ Served(pid, s.kind))

(* What was removed is gone. *)
RemovedGone ==
  /\ history.removed \subseteq history.acked
  /\ \A pid \in history.removed :
       /\ \A s \in persisted : s.pid # pid
       /\ \A p \in mapping : p.pid # pid

RegistrationInv == HttpTypeOK /\ IdsBelowFresh /\ IdsUnique /\ HandlersInOrder /\ AckedKept /\ RemovedGone

Waiting(kind, states) == {h \in Handlers : handler[h].kind = kind /\ handler[h].st \in states}
KnownInterceptors == {e \in known : e.kind = "SyncInterceptor"}

(* Slots of interceptors that nobody holds: lost, or, below zero, given back *)
(* twice.                                                                    *)
Unheld == history.lost["SyncInterceptor"] - history.twice

(* SlotsAccounted, over finite sets. *)
SlotsBalanced ==
  /\ IsFiniteSet(tasks) /\ IsFiniteSet(KnownInterceptors)
  /\ count["AsyncWebhook"] = Cardinality(tasks) + Cardinality(Waiting("AsyncWebhook", {"subscribe", "track", "save"}))
                             + history.lost["AsyncWebhook"]
  /\ count["SyncInterceptor"] = Cardinality(KnownInterceptors)
                                + Cardinality(Waiting("SyncInterceptor", {"subscribe", "track", "unsubscribe"}))
                                + Unheld

-----------------------------------------------------------------------------
(* Facts the steps share.                                                    *)

(* A handler that moves leaves the others alone. *)
LEMMA HandlerMoves ==
  ASSUME handler \in [Handlers -> HandlerRecords], NEW h \in Handlers, NEW x \in HandlerRecords,
         handler' = [handler EXCEPT ![h] = x]
  PROVE  /\ handler' \in [Handlers -> HandlerRecords]
         /\ handler'[h] = x
         /\ \A g \in Handlers \ {h} : handler'[g] = handler[g]
  OBVIOUS

(* The entry that the start makes next is one that is left. *)
LEMMA NextIsLeft ==
  ASSUME HttpTypeOK, boot # {}
  PROVE  NextToMake \in boot
<1>1. boot \subseteq [pid : Nat, kind : Kinds]
  BY DEF HttpTypeOK
<1> DEFINE pids == {s.pid : s \in boot}
<1>2. pids # {} /\ pids \subseteq Nat
  BY <1>1
<1>3. PICK n \in pids : \A k \in pids : ~ (<<k, n>> \in OpToRel(<, Nat))
  <2> HIDE DEF pids
  <2> QED BY <1>2, NatLessThanWellFounded, WFMin
<1>4. ASSUME NEW k \in pids
      PROVE  n <= k
  <2>1. n \in Nat /\ k \in Nat
    BY <1>2
  <2>2. ~ (<<k, n>> \in OpToRel(<, Nat))
    BY <1>3
  <2> HIDE DEF pids
  <2> QED
    BY <2>1, <2>2 DEF OpToRel
<1>5. PICK s \in boot : s.pid = n
  OBVIOUS
<1>6. \A t \in boot : s.pid <= t.pid
  BY <1>4, <1>5
<1> QED
  BY <1>6 DEF NextToMake

(* A step that touches none of the registrations. *)
LEMMA RegistrationsFramed ==
  ASSUME RegistrationInv,
         UNCHANGED <<bus, known, mapping, tasks, handler, boot, persisted, fresh, history>>,
         count' \in [Kinds -> Int]
  PROVE  RegistrationInv'
  BY DEF RegistrationInv, HttpTypeOK, IdsBelowFresh, IdsUnique, HandlersInOrder, OwnsRegistration, HoldsNewId,
         Exposed, MarksRemoval, AckedKept, RemovedGone, Served, Entry

(* Only the counts of slots change in what clients were told. *)
SameRegistrations ==
  /\ history'.acked = history.acked /\ history'.removing = history.removing
  /\ history'.removed = history.removed /\ history'.skipped = history.skipped

(* A handler that ends without having touched a registration. *)
LEMMA RegistrationsFramedButHandler ==
  ASSUME RegistrationInv, NEW h \in Handlers, NEW x \in HandlerRecords,
         handler' = [handler EXCEPT ![h] = x],
         x.st \in {"idle", "subscribe"}, x.id < fresh, x.st # "idle" => x.kind \in Kinds /\ boot = {},
         UNCHANGED <<bus, known, mapping, tasks, boot, persisted, fresh>>,
         count' \in [Kinds -> Int],
         history' \in HistoryRecords, SameRegistrations
  PROVE  RegistrationInv'
<1> USE DEF SameRegistrations
<1>1. /\ handler' \in [Handlers -> HandlerRecords]
      /\ handler'[h] = x
      /\ \A g \in Handlers \ {h} : handler'[g] = handler[g]
  BY HandlerMoves DEF RegistrationInv, HttpTypeOK
<1>2. HttpTypeOK'
  BY <1>1 DEF RegistrationInv, HttpTypeOK
<1>3. IdsBelowFresh' /\ IdsUnique'
  BY <1>1 DEF RegistrationInv, IdsBelowFresh, IdsUnique
<1>4. HandlersInOrder'
  <2>1. ASSUME NEW g \in Handlers, handler'[g].st = "save"
        PROVE  OwnsRegistration(g)'
    BY <1>1, <2>1 DEF RegistrationInv, HandlersInOrder, OwnsRegistration, Exposed, Entry
  <2>2. ASSUME NEW g \in Handlers, handler'[g].st \in {"unsubscribe", "unmap"}
        PROVE  MarksRemoval(g)'
    BY <1>1, <2>2 DEF RegistrationInv, HandlersInOrder, MarksRemoval
  <2>3. boot' # {} => \A g \in Handlers : handler'[g].st = "idle"
    BY <1>1 DEF RegistrationInv, HandlersInOrder
  <2>4. ASSUME NEW g \in Handlers, handler'[g].st = "track"
        PROVE  HoldsNewId(g)'
    BY <1>1, <2>4 DEF RegistrationInv, HandlersInOrder, HoldsNewId, Entry
  <2> QED
    BY <2>1, <2>2, <2>3, <2>4 DEF HandlersInOrder
<1>5. AckedKept' /\ RemovedGone'
  BY DEF RegistrationInv, AckedKept, RemovedGone, Served, Entry
<1> QED
  BY <1>2, <1>3, <1>4, <1>5 DEF RegistrationInv

-----------------------------------------------------------------------------
(* The steps, one by one.                                                    *)

(* The record of a handler that has nothing to do. *)
LEMMA IdleIsHandler == IdleHandler \in HandlerRecords
  BY DEF IdleHandler, HandlerRecords, HandlerStates

(* A request that is admitted or refused. *)
LEMMA AdmitKeeps ==
  ASSUME RegistrationInv, NEW h \in Handlers, NEW kind \in Kinds, Admit(h, kind)
  PROVE  RegistrationInv'
<1>1. CASE UNCHANGED <<count, handler>>
  BY <1>1, RegistrationsFramed DEF Admit, RegistrationInv, HttpTypeOK
<1>2. CASE Adds(kind, 1) /\ handler' = [handler EXCEPT ![h] = [IdleHandler EXCEPT !.st = "subscribe", !.kind = kind]]
  <2> DEFINE x == [IdleHandler EXCEPT !.st = "subscribe", !.kind = kind]
  <2>1. x \in HandlerRecords /\ x.st = "subscribe" /\ x.kind = kind /\ x.id = 0
    BY DEF IdleHandler, HandlerRecords, HandlerStates
  <2>2. count' \in [Kinds -> Int]
    BY <1>2 DEF Adds, RegistrationInv, HttpTypeOK
  <2>3. 0 < fresh
    BY DEF RegistrationInv, IdsBelowFresh, HttpTypeOK, HandlerRecords
  <2>4. handler' = [handler EXCEPT ![h] = x]
    BY <1>2
  <2> HIDE DEF x
  <2> QED
    BY <2>1, <2>2, <2>3, <2>4, RegistrationsFramedButHandler
    DEF Admit, SameRegistrations, RegistrationInv, HttpTypeOK
<1> QED
  BY <1>1, <1>2 DEF Admit

(* A bus that refuses the registration. *)
LEMMA SubscribeFailsKeeps ==
  ASSUME RegistrationInv, NEW h \in Handlers, SubscribeFails(h)
  PROVE  RegistrationInv'
<1>1. count' \in [Kinds -> Int]
  BY DEF SubscribeFails, Adds, RegistrationInv, HttpTypeOK
<1>2. IdleHandler.st = "idle" /\ IdleHandler.id < fresh
  BY DEF IdleHandler, RegistrationInv, IdsBelowFresh, HttpTypeOK, HandlerRecords
<1> QED
  BY <1>1, <1>2, IdleIsHandler, RegistrationsFramedButHandler
  DEF SubscribeFails, Ends, SameRegistrations, RegistrationInv, HttpTypeOK

(* A forwarder that ends had left the bus, so it served nobody. *)
LEMMA ForwarderEndsKeeps ==
  ASSUME RegistrationInv, NEW id \in Ids, ForwarderEnds(id)
  PROVE  RegistrationInv'
<1>0. count' \in [Kinds -> Int]
  BY DEF ForwarderEnds, Adds, RegistrationInv, HttpTypeOK, Kinds
<1>1. HttpTypeOK'
  BY <1>0 DEF ForwarderEnds, RegistrationInv, HttpTypeOK
<1>2. IdsBelowFresh' /\ IdsUnique'
  BY DEF ForwarderEnds, RegistrationInv, IdsBelowFresh, IdsUnique
<1>3. HandlersInOrder'
  BY DEF ForwarderEnds, RegistrationInv, HandlersInOrder, OwnsRegistration, HoldsNewId, Exposed, MarksRemoval, Entry
<1>4. RemovedGone'
  BY DEF ForwarderEnds, RegistrationInv, RemovedGone
<1>5. AckedKept'
  BY DEF ForwarderEnds, RegistrationInv, AckedKept, Served
<1> QED
  BY <1>1, <1>2, <1>3, <1>4, <1>5 DEF RegistrationInv

(* The bus gives a new id. *)
LEMMA SubscribeKeeps ==
  ASSUME RegistrationInv, NEW h \in Handlers, Subscribe(h)
  PROVE  RegistrationInv'
<1> DEFINE x == [handler[h] EXCEPT !.st = "track", !.id = fresh]
<1>1. handler[h] \in HandlerRecords /\ handler[h].st = "subscribe" /\ handler[h].kind \in Kinds
  BY DEF Subscribe, RegistrationInv, HttpTypeOK
<1>2. x \in HandlerRecords /\ x.st = "track" /\ x.kind = handler[h].kind /\ x.id = fresh
  BY <1>1 DEF HandlerRecords, HandlerStates, RegistrationInv, HttpTypeOK
<1>3. handler' = [handler EXCEPT ![h] = x]
  BY DEF Subscribe, RegistrationInv, HttpTypeOK
<1> HIDE DEF x
<1>4. /\ handler' \in [Handlers -> HandlerRecords]
      /\ handler'[h] = x
      /\ \A g \in Handlers \ {h} : handler'[g] = handler[g]
  BY <1>2, <1>3, HandlerMoves DEF RegistrationInv, HttpTypeOK
<1> DEFINE e == Entry(fresh, handler[h].kind)
<1>5. /\ bus' = bus \cup {e} /\ fresh' = fresh + 1
      /\ UNCHANGED <<known, mapping, count, tasks, boot, persisted, history>>
  BY DEF Subscribe
<1>6. e \in [id : Nat, kind : Kinds] /\ e = Entry(handler'[h].id, handler'[h].kind)
  BY <1>1, <1>2, <1>4 DEF Entry, RegistrationInv, HttpTypeOK
<1>7. boot = {}
  BY <1>1 DEF RegistrationInv, HandlersInOrder
<1> HIDE DEF e
<1>8. HttpTypeOK'
  BY <1>1, <1>2, <1>4, <1>5, <1>6 DEF RegistrationInv, HttpTypeOK
<1>9. IdsBelowFresh'
  <2>1. fresh \in Nat /\ fresh < fresh' /\ \A i \in Nat : i < fresh => i < fresh'
    BY <1>5 DEF RegistrationInv, HttpTypeOK
  <2>2. (\A f \in known : f.id < fresh)' /\ (\A q \in mapping : q.id < fresh /\ q.pid < fresh)'
    BY <1>5, <2>1 DEF RegistrationInv, HttpTypeOK, IdsBelowFresh
  <2>3. (\A i \in tasks : i < fresh)' /\ (\A s \in persisted : s.pid < fresh)'
    BY <1>5, <2>1 DEF RegistrationInv, HttpTypeOK, IdsBelowFresh
  <2>4. (\A i \in history.acked : i < fresh)'
    BY <1>5, <2>1 DEF RegistrationInv, HttpTypeOK, IdsBelowFresh, HistoryRecords
  <2>5. (\A g \in Handlers : handler[g].id < fresh)'
    BY <1>2, <1>4, <2>1 DEF RegistrationInv, HttpTypeOK, IdsBelowFresh, HandlerRecords
  <2> QED
    BY <2>2, <2>3, <2>4, <2>5 DEF IdsBelowFresh
<1>10. IdsUnique'
  BY <1>5 DEF RegistrationInv, IdsUnique
<1>11. HandlersInOrder'
  <2>1. \A g \in Handlers : handler[g].id # fresh
    BY DEF RegistrationInv, IdsBelowFresh, HttpTypeOK, HandlerRecords
  <2>2. ASSUME NEW g \in Handlers, handler'[g].st = "track"
        PROVE  HoldsNewId(g)'
    <3>1. CASE g = h
      <4>1. /\ \A f \in known : f.id # fresh
            /\ \A p \in mapping : p.id # fresh /\ p.pid # fresh
            /\ \A s \in persisted : s.pid # fresh
        BY DEF RegistrationInv, IdsBelowFresh, HttpTypeOK
      <4>2. fresh \notin tasks /\ fresh \notin history.acked
        BY DEF RegistrationInv, IdsBelowFresh, HttpTypeOK, HistoryRecords
      <4> QED
        BY <1>2, <1>4, <1>5, <1>6, <2>1, <3>1, <4>1, <4>2 DEF HoldsNewId
    <3>2. CASE g # h
      <4>1. HoldsNewId(g)
        BY <1>4, <2>2, <3>2 DEF RegistrationInv, HandlersInOrder
      <4> QED
        BY <1>2, <1>4, <1>5, <2>1, <3>2, <4>1 DEF HoldsNewId, Entry
    <3> QED
      BY <3>1, <3>2
  <2>3. ASSUME NEW g \in Handlers, handler'[g].st = "save"
        PROVE  OwnsRegistration(g)'
    <3>1. g # h /\ OwnsRegistration(g)
      BY <1>2, <1>4, <2>3 DEF RegistrationInv, HandlersInOrder
    <3> QED
      BY <1>2, <1>4, <1>5, <2>1, <3>1 DEF OwnsRegistration, Exposed, Entry
  <2>4. ASSUME NEW g \in Handlers, handler'[g].st \in {"unsubscribe", "unmap"}
        PROVE  MarksRemoval(g)'
    BY <1>2, <1>4, <1>5, <2>4 DEF RegistrationInv, HandlersInOrder, MarksRemoval
  <2> QED
    BY <1>5, <1>7, <2>2, <2>3, <2>4 DEF HandlersInOrder
<1>12. AckedKept' /\ RemovedGone'
  BY <1>5 DEF RegistrationInv, AckedKept, RemovedGone, Served, Entry
<1> QED
  BY <1>8, <1>9, <1>10, <1>11, <1>12 DEF RegistrationInv

(* The new id is mapped and known. *)
LEMMA TrackKeeps ==
  ASSUME RegistrationInv, NEW h \in Handlers, Track(h)
  PROVE  RegistrationInv'
<1>0. PICK id, kind : id = handler[h].id /\ kind = handler[h].kind
  OBVIOUS
<1> DEFINE x == [handler[h] EXCEPT !.st = "save"]
<1>1. /\ handler[h] \in HandlerRecords /\ handler[h].st = "track"
      /\ kind \in Kinds /\ id \in Nat /\ id < fresh
  BY <1>0 DEF Track, RegistrationInv, HttpTypeOK, IdsBelowFresh, HandlerRecords
<1>2. x \in HandlerRecords /\ x.st = "save" /\ x.kind = kind /\ x.id = id
  BY <1>0, <1>1 DEF HandlerRecords, HandlerStates
<1>3. handler' = [handler EXCEPT ![h] = x]
  BY DEF Track, Goes, RegistrationInv, HttpTypeOK
<1> HIDE DEF x
<1>4. /\ handler' \in [Handlers -> HandlerRecords]
      /\ handler'[h] = x
      /\ \A g \in Handlers \ {h} : handler'[g] = handler[g]
  BY <1>2, <1>3, HandlerMoves DEF RegistrationInv, HttpTypeOK
<1> DEFINE e == Entry(id, kind)
           p == [id |-> id, pid |-> id]
<1>5. /\ known' = known \cup {e} /\ mapping' = mapping \cup {p}
      /\ UNCHANGED <<bus, count, tasks, boot, persisted, fresh, history>>
  BY <1>0 DEF Track
<1>6. /\ e \in [id : Nat, kind : Kinds] /\ e.id = id /\ e.kind = kind
      /\ p \in [id : Nat, pid : Nat] /\ p.id = id /\ p.pid = id
      /\ e = Entry(handler'[h].id, handler'[h].kind) /\ p = [id |-> handler'[h].id, pid |-> handler'[h].id]
  BY <1>1, <1>2, <1>4 DEF Entry
<1>7. boot = {}
  BY <1>1 DEF RegistrationInv, HandlersInOrder
<1>8. /\ e \in bus
      /\ \A f \in known : f.id # id
      /\ \A q \in mapping : q.id # id /\ q.pid # id
      /\ id \notin tasks /\ id \notin history.acked
      /\ \A s \in persisted : s.pid # id
      /\ \A g \in Handlers \ {h} : handler[g].st \in {"track", "save", "unsubscribe", "unmap"} => handler[g].id # id
  BY <1>0, <1>1 DEF RegistrationInv, HandlersInOrder, HoldsNewId
<1> HIDE DEF e, p
<1>9. HttpTypeOK'
  BY <1>1, <1>2, <1>4, <1>5, <1>6 DEF RegistrationInv, HttpTypeOK
<1>10. IdsBelowFresh'
  <2>1. (\A g \in Handlers : handler[g].id < fresh)'
    BY <1>1, <1>2, <1>4, <1>5 DEF RegistrationInv, IdsBelowFresh
  <2> QED
    BY <1>1, <1>5, <1>6, <2>1 DEF RegistrationInv, IdsBelowFresh
<1>11. IdsUnique'
  BY <1>5, <1>6, <1>7, <1>8 DEF RegistrationInv, IdsUnique
<1>12. HandlersInOrder'
  <2>1. ASSUME NEW g \in Handlers, handler'[g].st = "track"
        PROVE  HoldsNewId(g)'
    <3>1. g # h /\ HoldsNewId(g) /\ handler[g].id # id
      BY <1>2, <1>4, <1>8, <2>1 DEF RegistrationInv, HandlersInOrder
    <3> QED
      BY <1>2, <1>4, <1>5, <1>6, <3>1 DEF HoldsNewId, Entry
  <2>2. ASSUME NEW g \in Handlers, handler'[g].st = "save"
        PROVE  OwnsRegistration(g)'
    <3>1. CASE g = h
      <4>1. Exposed(g)'
        BY <1>5, <1>6, <1>8, <3>1 DEF Exposed
      <4> QED
        BY <1>2, <1>4, <1>5, <1>6, <1>8, <3>1, <4>1 DEF OwnsRegistration
    <3>2. CASE g # h
      <4>1. OwnsRegistration(g) /\ handler[g].id # id
        BY <1>4, <1>8, <2>2, <3>2 DEF RegistrationInv, HandlersInOrder
      <4> QED
        BY <1>2, <1>4, <1>5, <1>6, <3>2, <4>1 DEF OwnsRegistration, Exposed, Entry
    <3> QED
      BY <3>1, <3>2
  <2>3. ASSUME NEW g \in Handlers, handler'[g].st \in {"unsubscribe", "unmap"}
        PROVE  MarksRemoval(g)'
    <3>1. g # h /\ MarksRemoval(g) /\ handler[g].id # id
      BY <1>2, <1>4, <1>8, <2>3 DEF RegistrationInv, HandlersInOrder
    <3> QED
      BY <1>4, <1>5, <1>6, <3>1 DEF MarksRemoval
  <2> QED
    BY <1>5, <1>7, <2>1, <2>2, <2>3 DEF HandlersInOrder
<1>13. AckedKept'
  BY <1>5 DEF RegistrationInv, AckedKept, Served, Entry
<1>14. RemovedGone'
  BY <1>5, <1>6, <1>8 DEF RegistrationInv, RemovedGone
<1> QED
  BY <1>9, <1>10, <1>11, <1>12, <1>13, <1>14 DEF RegistrationInv

(* The fields of what clients were told, after one of them has grown. *)
LEMMA HistoryGrows ==
  ASSUME history \in HistoryRecords, NEW ids \in SUBSET Nat
  PROVE  /\ LET new == [history EXCEPT !.acked = @ \cup ids] IN
            /\ new \in HistoryRecords /\ new.acked = history.acked \cup ids /\ new.removing = history.removing
            /\ new.removed = history.removed /\ new.skipped = history.skipped /\ new.lost = history.lost
            /\ new.twice = history.twice
         /\ LET new == [history EXCEPT !.removing = @ \cup ids] IN
            /\ new \in HistoryRecords /\ new.acked = history.acked /\ new.removing = history.removing \cup ids
            /\ new.removed = history.removed /\ new.skipped = history.skipped /\ new.lost = history.lost
            /\ new.twice = history.twice
         /\ LET new == [history EXCEPT !.removed = @ \cup ids] IN
            /\ new \in HistoryRecords /\ new.acked = history.acked /\ new.removing = history.removing
            /\ new.removed = history.removed \cup ids /\ new.skipped = history.skipped /\ new.lost = history.lost
            /\ new.twice = history.twice
         /\ LET new == [history EXCEPT !.skipped = @ \cup ids] IN
            /\ new \in HistoryRecords /\ new.acked = history.acked /\ new.removing = history.removing
            /\ new.removed = history.removed /\ new.skipped = history.skipped \cup ids /\ new.lost = history.lost
            /\ new.twice = history.twice
  BY DEF HistoryRecords

(* The handler that ends, as its successors see it. *)
LEMMA HandlerEnds ==
  ASSUME RegistrationInv, NEW h \in Handlers, Ends(h)
  PROVE  /\ handler' \in [Handlers -> HandlerRecords]
         /\ handler'[h].st = "idle" /\ handler'[h].id = 0 /\ handler'[h].kind = "none"
         /\ \A g \in Handlers \ {h} : handler'[g] = handler[g]
         /\ 0 < fresh
<1>1. IdleHandler.st = "idle" /\ IdleHandler.id = 0 /\ IdleHandler.kind = "none"
  BY DEF IdleHandler
<1>2. 0 < fresh
  BY DEF RegistrationInv, IdsBelowFresh, HttpTypeOK, HandlerRecords
<1> QED
  BY <1>1, <1>2, IdleIsHandler, HandlerMoves DEF Ends, RegistrationInv, HttpTypeOK

(* The registration is stored, and served and acknowledged unless the client *)
(* has gone away.                                                            *)
LEMMA StoringKeeps ==
  ASSUME RegistrationInv, NEW h \in Handlers, handler[h].st = "save", Ends(h),
         NEW id, NEW kind, id = handler[h].id, kind = handler[h].kind,
         persisted' = persisted \cup {Stored(id, kind)},
         tasks' = tasks \/ tasks' = tasks \cup {id},
         UNCHANGED <<bus, known, mapping, count, boot, fresh>>,
         history' \in HistoryRecords,
         history'.acked = history.acked \/
           (history'.acked = history.acked \cup {id} /\ (kind = "AsyncWebhook" => id \in tasks')),
         history'.removing = history.removing,
         history'.removed = history.removed, history'.skipped = history.skipped
  PROVE  RegistrationInv'
<1> DEFINE s == Stored(id, kind)
<1>1. handler[h].st = "save" /\ handler[h] \in HandlerRecords /\ id \in Nat /\ kind \in Kinds /\ id < fresh
  BY DEF RegistrationInv, HttpTypeOK, IdsBelowFresh, HandlerRecords
<1>2. OwnsRegistration(h)
  BY <1>1 DEF RegistrationInv, HandlersInOrder
<1>3. /\ handler' \in [Handlers -> HandlerRecords]
      /\ handler'[h].st = "idle" /\ handler'[h].id = 0 /\ handler'[h].kind = "none"
      /\ \A g \in Handlers \ {h} : handler'[g] = handler[g]
      /\ 0 < fresh
  BY HandlerEnds
<1>4. /\ persisted' = persisted \cup {s}
      /\ tasks' = tasks \/ tasks' = tasks \cup {id}
      /\ UNCHANGED <<bus, known, mapping, count, boot, fresh>>
  OBVIOUS
<1>5. /\ history' \in HistoryRecords
      /\ history'.acked = history.acked \/ history'.acked = history.acked \cup {id}
      /\ history'.removing = history.removing
      /\ history'.removed = history.removed /\ history'.skipped = history.skipped
  OBVIOUS
<1>6. s \in [pid : Nat, kind : Kinds] /\ s.pid = id /\ s.kind = kind
  BY <1>1 DEF Stored
<1>7. boot = {}
  BY <1>1 DEF RegistrationInv, HandlersInOrder
<1>8. /\ id \in history.removing \/ (Entry(id, kind) \in bus /\ [id |-> id, pid |-> id] \in mapping)
      /\ id \notin history.acked /\ \A t \in persisted : t.pid # id
      /\ \A g \in Handlers \ {h} : handler[g].st \in {"track", "save"} => handler[g].id # id
  BY <1>2 DEF OwnsRegistration, Exposed
<1> HIDE DEF s
<1>9. HttpTypeOK'
  BY <1>1, <1>3, <1>4, <1>5, <1>6 DEF RegistrationInv, HttpTypeOK
<1>10. IdsBelowFresh'
  <2>1. (\A g \in Handlers : handler[g].id < fresh)'
    BY <1>3, <1>4 DEF RegistrationInv, IdsBelowFresh
  <2> QED
    BY <1>1, <1>4, <1>5, <1>6, <2>1 DEF RegistrationInv, IdsBelowFresh
<1>11. IdsUnique'
  BY <1>4, <1>6, <1>7, <1>8 DEF RegistrationInv, IdsUnique
<1>12. HandlersInOrder'
  <2>1. ASSUME NEW g \in Handlers, handler'[g].st = "save"
        PROVE  OwnsRegistration(g)'
    <3>1. g # h /\ handler'[g] = handler[g] /\ handler[g].id # id /\ OwnsRegistration(g)
      BY <1>3, <1>8, <2>1 DEF RegistrationInv, HandlersInOrder
    <3> QED
      BY <1>3, <1>4, <1>5, <1>6, <3>1 DEF OwnsRegistration, Exposed, Entry
  <2>2. ASSUME NEW g \in Handlers, handler'[g].st \in {"unsubscribe", "unmap"}
        PROVE  MarksRemoval(g)'
    BY <1>3, <1>4, <1>5, <2>2 DEF RegistrationInv, HandlersInOrder, MarksRemoval
  <2>3. ASSUME NEW g \in Handlers, handler'[g].st = "track"
        PROVE  HoldsNewId(g)'
    <3>1. g # h /\ handler'[g] = handler[g] /\ handler[g].id # id /\ HoldsNewId(g)
      BY <1>3, <1>8, <2>3 DEF RegistrationInv, HandlersInOrder
    <3> QED
      BY <1>3, <1>4, <1>5, <1>6, <3>1 DEF HoldsNewId, Entry
  <2> QED
    BY <1>4, <1>7, <2>1, <2>2, <2>3 DEF HandlersInOrder
<1>13. AckedKept'
  <2>1. ASSUME NEW pid \in history'.acked \ history'.removing
        PROVE  \E t \in persisted' : t.pid = pid /\ (t \in boot' \/ pid \in history'.skipped \/ Served(pid, t.kind)')
    <3>1. CASE pid = id
      <4>0. kind = "AsyncWebhook" => id \in tasks'
        BY <1>8, <2>1, <3>1
      <4>a. Entry(id, kind) \in bus /\ [id |-> id, pid |-> id] \in mapping
        BY <1>5, <1>8, <2>1, <3>1
      <4>1. Served(id, kind)'
        <5> DEFINE p == [id |-> id, pid |-> id]
        <5>1. p \in mapping' /\ p.pid = id /\ p.id = id
          BY <1>4, <4>a
        <5>2. Entry(id, kind) \in bus' /\ (kind = "AsyncWebhook" => id \in tasks')
          BY <1>4, <4>a, <4>0
        <5> HIDE DEF p
        <5> QED
          BY <5>1, <5>2 DEF Served, Entry
      <4> QED
        BY <1>4, <1>6, <3>1, <4>1
    <3>2. CASE pid # id
      <4>1. PICK t \in persisted : t.pid = pid /\ (t \in boot \/ pid \in history.skipped \/ Served(pid, t.kind))
        BY <1>5, <2>1, <3>2 DEF RegistrationInv, AckedKept
      <4>2. Served(pid, t.kind) => Served(pid, t.kind)'
        BY <1>4 DEF Served, Entry
      <4> QED
        BY <1>4, <1>5, <4>1, <4>2
    <3> QED
      BY <3>1, <3>2
  <2> QED
    BY <2>1 DEF AckedKept
<1>14. RemovedGone'
  BY <1>4, <1>5, <1>6, <1>8 DEF RegistrationInv, RemovedGone
<1> QED
  BY <1>9, <1>10, <1>11, <1>12, <1>13, <1>14 DEF RegistrationInv

(* save_subscription and the answer. *)
LEMMA SaveKeeps ==
  ASSUME RegistrationInv, NEW h \in Handlers, Save(h)
  PROVE  RegistrationInv'
<1>1. PICK id, kind : id = handler[h].id /\ kind = handler[h].kind
  OBVIOUS
<1>2. {id} \in SUBSET Nat /\ history \in HistoryRecords
  BY <1>1 DEF RegistrationInv, HttpTypeOK, HandlerRecords
<1>3. /\ history' \in HistoryRecords /\ history'.acked = history.acked \cup {id} /\ history'.removing = history.removing
      /\ history'.removed = history.removed /\ history'.skipped = history.skipped
  BY <1>1, <1>2, HistoryGrows DEF Save
<1>4. tasks' = IF kind = "AsyncWebhook" THEN tasks \cup {id} ELSE tasks
  BY <1>1 DEF Save
<1>5. kind = "AsyncWebhook" => id \in tasks'
  BY <1>4
<1> QED
  BY <1>1, <1>3, <1>4, <1>5, StoringKeeps DEF Save

(* The roll back takes away the handler's own registration and no other. *)
LEMMA SaveFailsKeeps ==
  ASSUME RegistrationInv, NEW h \in Handlers, SaveFails(h)
  PROVE  RegistrationInv'
<1> DEFINE id == handler[h].id
<1>1. handler[h].st = "save" /\ handler[h] \in HandlerRecords /\ id \in Nat /\ handler[h].kind \in Kinds
  BY DEF SaveFails, RegistrationInv, HttpTypeOK, HandlerRecords
<1>2. OwnsRegistration(h)
  BY <1>1 DEF RegistrationInv, HandlersInOrder
<1>3. /\ handler' \in [Handlers -> HandlerRecords]
      /\ handler'[h].st = "idle" /\ handler'[h].id = 0 /\ handler'[h].kind = "none"
      /\ \A g \in Handlers \ {h} : handler'[g] = handler[g]
      /\ 0 < fresh
  BY HandlerEnds DEF SaveFails
<1>4. /\ mapping' = {p \in mapping : p.id # id} /\ known' = {e \in known : e.id # id} /\ bus' = {e \in bus : e.id # id}
      /\ UNCHANGED <<tasks, boot, persisted, fresh>>
  BY DEF SaveFails
<1>h. history' \in HistoryRecords /\ SameRegistrations
  <2>1. history \in HistoryRecords
    BY DEF RegistrationInv, HttpTypeOK
  <2> QED
    BY <2>1 DEF SaveFails, HistoryRecords, SameRegistrations
<1>5. count' \in [Kinds -> Int]
  BY <1>1 DEF SaveFails, Adds, RegistrationInv, HttpTypeOK
<1>6. /\ \A p \in mapping : p.id = id => p.pid = id
      /\ id \notin history.acked
      /\ \A g \in Handlers \ {h} : handler[g].st \in {"track", "save"} => handler[g].id # id
  BY <1>2 DEF OwnsRegistration
<1> HIDE DEF id
<1> USE <1>h DEF SameRegistrations
<1>7. HttpTypeOK'
  BY <1>3, <1>4, <1>5 DEF RegistrationInv, HttpTypeOK
<1>8. IdsBelowFresh'
  <2>1. (\A g \in Handlers : handler[g].id < fresh)'
    BY <1>3, <1>4 DEF RegistrationInv, IdsBelowFresh
  <2> QED
    BY <1>4, <2>1 DEF RegistrationInv, IdsBelowFresh
<1>9. IdsUnique'
  BY <1>4 DEF RegistrationInv, IdsUnique
<1>10. HandlersInOrder'
  <2>1. ASSUME NEW g \in Handlers, handler'[g].st = "save"
        PROVE  OwnsRegistration(g)'
    <3>1. g # h /\ handler'[g] = handler[g] /\ handler[g].id # id /\ OwnsRegistration(g)
      BY <1>3, <1>6, <2>1 DEF RegistrationInv, HandlersInOrder
    <3> QED
      BY <1>3, <1>4, <3>1 DEF OwnsRegistration, Exposed, Entry
  <2>2. ASSUME NEW g \in Handlers, handler'[g].st \in {"unsubscribe", "unmap"}
        PROVE  MarksRemoval(g)'
    BY <1>3, <1>4, <2>2 DEF RegistrationInv, HandlersInOrder, MarksRemoval
  <2>3. boot' = {}
    BY <1>1, <1>4 DEF RegistrationInv, HandlersInOrder
  <2>4. ASSUME NEW g \in Handlers, handler'[g].st = "track"
        PROVE  HoldsNewId(g)'
    <3>1. g # h /\ handler'[g] = handler[g] /\ handler[g].id # id /\ HoldsNewId(g)
      BY <1>3, <1>6, <2>4 DEF RegistrationInv, HandlersInOrder
    <3> QED
      BY <1>3, <1>4, <3>1 DEF HoldsNewId, Entry
  <2> QED
    BY <2>1, <2>2, <2>3, <2>4 DEF HandlersInOrder
<1>11. AckedKept'
  <2>1. ASSUME NEW pid \in history.acked, NEW kind, Served(pid, kind)
        PROVE  Served(pid, kind)'
    <3>1. PICK p \in mapping : p.pid = pid /\ Entry(p.id, kind) \in bus /\ (kind = "AsyncWebhook" => p.id \in tasks)
      BY <2>1 DEF Served
    <3>2. p.id # id
      BY <1>6, <3>1
    <3>3. p \in mapping' /\ Entry(p.id, kind) \in bus'
      BY <1>4, <3>1, <3>2 DEF Entry
    <3> QED
      BY <1>4, <3>1, <3>3 DEF Served, Entry
  <2> QED
    BY <1>4, <2>1 DEF RegistrationInv, AckedKept
<1>12. RemovedGone'
  BY <1>4 DEF RegistrationInv, RemovedGone
<1> QED
  BY <1>7, <1>8, <1>9, <1>10, <1>11, <1>12 DEF RegistrationInv

(* A DELETE marks the registration it takes out of the set of ids. *)
LEMMA BeginRemoveKeeps ==
  ASSUME RegistrationInv, NEW h \in Handlers, NEW e \in known, BeginRemove(h, e)
  PROVE  RegistrationInv'
<1> DEFINE x == [st |-> "unsubscribe", kind |-> e.kind, id |-> e.id]
<1>1. e \in [id : Nat, kind : Kinds] /\ e.id < fresh
  BY DEF RegistrationInv, HttpTypeOK, IdsBelowFresh
<1>2. x \in HandlerRecords /\ x.st = "unsubscribe" /\ x.kind = e.kind /\ x.id = e.id
  BY <1>1 DEF HandlerRecords, HandlerStates
<1>3. handler' = [handler EXCEPT ![h] = x]
  BY DEF BeginRemove
<1> HIDE DEF x
<1>4. /\ handler' \in [Handlers -> HandlerRecords]
      /\ handler'[h] = x
      /\ \A g \in Handlers \ {h} : handler'[g] = handler[g]
  BY <1>2, <1>3, HandlerMoves DEF RegistrationInv, HttpTypeOK
<1>5. PICK pids : pids = PidsOf(e.id)
  OBVIOUS
<1>6. \A p \in mapping : p.id = e.id => p.pid \in pids
  BY <1>5 DEF PidsOf
<1>7. pids \in SUBSET Nat
  BY <1>5 DEF PidsOf, RegistrationInv, HttpTypeOK
<1>8. /\ history' \in HistoryRecords /\ history'.acked = history.acked /\ history'.removing = history.removing \cup pids
      /\ history'.removed = history.removed /\ history'.skipped = history.skipped
  <2>1. history \in HistoryRecords
    BY DEF RegistrationInv, HttpTypeOK
  <2> QED
    BY <1>5, <1>7, <2>1, HistoryGrows DEF BeginRemove
<1>9. /\ boot = {} /\ known' = known \ {e}
      /\ UNCHANGED <<bus, mapping, count, tasks, boot, persisted, fresh>>
  BY DEF BeginRemove
<1>10. HttpTypeOK'
  BY <1>1, <1>2, <1>4, <1>8, <1>9 DEF RegistrationInv, HttpTypeOK
<1>11. IdsBelowFresh'
  <2>1. (\A g \in Handlers : handler[g].id < fresh)'
    BY <1>1, <1>2, <1>4, <1>9 DEF RegistrationInv, IdsBelowFresh
  <2> QED
    BY <1>8, <1>9, <2>1 DEF RegistrationInv, IdsBelowFresh
<1>12. IdsUnique'
  BY <1>9 DEF RegistrationInv, IdsUnique
<1>13. HandlersInOrder'
  <2>1. ASSUME NEW g \in Handlers, handler'[g].st = "save"
        PROVE  OwnsRegistration(g)'
    <3>1. g # h /\ handler'[g] = handler[g] /\ OwnsRegistration(g)
      BY <1>2, <1>4, <2>1 DEF RegistrationInv, HandlersInOrder
    <3>2. handler[g].id \in history'.removing \/ Exposed(g)'
      <4>1. CASE handler[g].id \in history.removing
        BY <1>8, <4>1
      <4>2. CASE Exposed(g) /\ handler[g].id = e.id
        <5>1. handler[g].id \in pids
          BY <1>6, <4>2 DEF Exposed
        <5> QED
          BY <1>8, <5>1
      <4>3. CASE Exposed(g) /\ handler[g].id # e.id
        BY <1>9, <3>1, <4>3 DEF Exposed, Entry
      <4> QED
        BY <3>1, <4>1, <4>2, <4>3 DEF OwnsRegistration
    <3> QED
      BY <1>2, <1>4, <1>8, <1>9, <3>1, <3>2 DEF OwnsRegistration
  <2>2. ASSUME NEW g \in Handlers, handler'[g].st \in {"unsubscribe", "unmap"}
        PROVE  MarksRemoval(g)'
    <3>1. CASE g = h
      BY <1>2, <1>4, <1>6, <1>8, <1>9, <3>1 DEF MarksRemoval
    <3>2. CASE g # h
      BY <1>4, <1>8, <1>9, <2>2, <3>2 DEF RegistrationInv, HandlersInOrder, MarksRemoval
    <3> QED
      BY <3>1, <3>2
  <2>3. ASSUME NEW g \in Handlers, handler'[g].st = "track"
        PROVE  HoldsNewId(g)'
    <3>1. g # h /\ handler'[g] = handler[g] /\ HoldsNewId(g)
      BY <1>2, <1>4, <2>3 DEF RegistrationInv, HandlersInOrder
    <3>2. handler[g].id # e.id
      BY <3>1 DEF HoldsNewId
    <3> QED
      BY <1>2, <1>4, <1>8, <1>9, <3>1, <3>2 DEF HoldsNewId, Entry
  <2> QED
    BY <1>9, <2>1, <2>2, <2>3 DEF HandlersInOrder
<1>14. AckedKept'
  BY <1>8, <1>9 DEF RegistrationInv, AckedKept, Served, Entry
<1>15. RemovedGone'
  BY <1>8, <1>9 DEF RegistrationInv, RemovedGone
<1> QED
  BY <1>10, <1>11, <1>12, <1>13, <1>14, <1>15 DEF RegistrationInv

(* The registrations that are served stay so when marked ones leave the bus  *)
(* or the mapping.                                                           *)
LEMMA UnmarkedStay ==
  ASSUME RegistrationInv, NEW id, \A p \in mapping : p.id = id => p.pid \in history.removing,
         NEW pid, pid \notin history.removing, NEW kind, Served(pid, kind),
         \A e \in bus : e.id # id => e \in bus',
         \A p \in mapping : p.id # id => p \in mapping',
         tasks' = tasks
  PROVE  Served(pid, kind)'
<1>1. PICK p \in mapping : p.pid = pid /\ Entry(p.id, kind) \in bus /\ (kind = "AsyncWebhook" => p.id \in tasks)
  BY DEF Served
<1>2. p.id # id /\ p \in mapping'
  BY <1>1
<1>3. Entry(p.id, kind).id = p.id
  BY DEF Entry
<1>4. Entry(p.id, kind) \in bus'
  BY <1>1, <1>2, <1>3
<1> QED
  BY <1>1, <1>2, <1>4 DEF Served, Entry

(* The marked registration leaves the bus. *)
LEMMA RemoveFromBusKeeps ==
  ASSUME RegistrationInv, NEW h \in Handlers, RemoveFromBus(h)
  PROVE  RegistrationInv'
<1>0. PICK id : id = handler[h].id
  OBVIOUS
<1> DEFINE x == [handler[h] EXCEPT !.st = "unmap"]
<1>1. handler[h] \in HandlerRecords /\ handler[h].st = "unsubscribe" /\ handler[h].kind \in Kinds
  BY DEF RemoveFromBus, RegistrationInv, HttpTypeOK
<1>2. x \in HandlerRecords /\ x.st = "unmap" /\ x.kind = handler[h].kind /\ x.id = id
  BY <1>0, <1>1 DEF HandlerRecords, HandlerStates
<1>3. handler' = [handler EXCEPT ![h] = x]
  BY DEF RemoveFromBus, Goes, RegistrationInv, HttpTypeOK
<1> HIDE DEF x
<1>4. /\ handler' \in [Handlers -> HandlerRecords]
      /\ handler'[h] = x
      /\ \A g \in Handlers \ {h} : handler'[g] = handler[g]
  BY <1>2, <1>3, HandlerMoves DEF RegistrationInv, HttpTypeOK
<1>5. /\ bus' = {e \in bus : e.id # id}
      /\ UNCHANGED <<known, mapping, tasks, boot, persisted, fresh>>
  BY <1>0 DEF RemoveFromBus
<1>h. history' \in HistoryRecords /\ SameRegistrations
  <2>1. history \in HistoryRecords
    BY DEF RegistrationInv, HttpTypeOK
  <2> QED
    BY <2>1 DEF RemoveFromBus, HistoryRecords, SameRegistrations
<1> USE <1>h DEF SameRegistrations
<1>6. count' \in [Kinds -> Int]
  BY DEF RemoveFromBus, Adds, RegistrationInv, HttpTypeOK, Kinds
<1>7. /\ \A p \in mapping : p.id = id => p.pid \in history.removing
      /\ boot = {}
  BY <1>0, <1>1 DEF RegistrationInv, HandlersInOrder, MarksRemoval
<1>8. HttpTypeOK'
  BY <1>1, <1>2, <1>4, <1>5, <1>6 DEF RegistrationInv, HttpTypeOK
<1>9. IdsBelowFresh'
  <2>1. (\A g \in Handlers : handler[g].id < fresh)'
    BY <1>0, <1>2, <1>4, <1>5 DEF RegistrationInv, IdsBelowFresh
  <2> QED
    BY <1>5, <2>1 DEF RegistrationInv, IdsBelowFresh
<1>10. IdsUnique'
  BY <1>5 DEF RegistrationInv, IdsUnique
<1>11. HandlersInOrder'
  <2>1. ASSUME NEW g \in Handlers, handler'[g].st = "save"
        PROVE  OwnsRegistration(g)'
    <3>1. g # h /\ handler'[g] = handler[g] /\ OwnsRegistration(g)
      BY <1>2, <1>4, <2>1 DEF RegistrationInv, HandlersInOrder
    <3>2. handler[g].id \in history'.removing \/ Exposed(g)'
      <4>1. CASE handler[g].id \in history.removing
        BY <4>1
      <4>2. CASE Exposed(g) /\ handler[g].id = id
        BY <1>7, <4>2 DEF Exposed
      <4>3. CASE Exposed(g) /\ handler[g].id # id
        BY <1>5, <3>1, <4>3 DEF Exposed, Entry
      <4> QED
        BY <3>1, <4>1, <4>2, <4>3 DEF OwnsRegistration
    <3> QED
      BY <1>2, <1>4, <1>5, <3>1, <3>2 DEF OwnsRegistration
  <2>2. ASSUME NEW g \in Handlers, handler'[g].st \in {"unsubscribe", "unmap"}
        PROVE  MarksRemoval(g)'
    <3>1. CASE g = h
      BY <1>2, <1>4, <1>5, <1>7, <3>1 DEF MarksRemoval
    <3>2. CASE g # h
      BY <1>4, <1>5, <2>2, <3>2 DEF RegistrationInv, HandlersInOrder, MarksRemoval
    <3> QED
      BY <3>1, <3>2
  <2>3. ASSUME NEW g \in Handlers, handler'[g].st = "track"
        PROVE  HoldsNewId(g)'
    <3>1. g # h /\ handler'[g] = handler[g] /\ HoldsNewId(g)
      BY <1>2, <1>4, <2>3 DEF RegistrationInv, HandlersInOrder
    <3>2. handler[g].id # id
      BY <1>0, <1>1, <3>1 DEF HoldsNewId
    <3> QED
      BY <1>2, <1>4, <1>5, <3>1, <3>2 DEF HoldsNewId, Entry
  <2> QED
    BY <1>5, <1>7, <2>1, <2>2, <2>3 DEF HandlersInOrder
<1>12. AckedKept'
  <2>1. ASSUME NEW pid \in history.acked \ history.removing, NEW kind, Served(pid, kind)
        PROVE  Served(pid, kind)'
    <3>1. \A e \in bus : e.id # id => e \in bus'
      BY <1>5
    <3>2. \A p \in mapping : p.id # id => p \in mapping'
      BY <1>5
    <3> QED
      BY <1>5, <1>7, <2>1, <3>1, <3>2, UnmarkedStay
  <2> QED
    BY <1>5, <2>1 DEF RegistrationInv, AckedKept
<1>13. RemovedGone'
  BY <1>5 DEF RegistrationInv, RemovedGone
<1> QED
  BY <1>8, <1>9, <1>10, <1>11, <1>12, <1>13 DEF RegistrationInv

(* The mapping and the entry of a marked registration go, together or one of *)
(* them; the client is told only when both have gone.                        *)
LEMMA UnmappingKeeps ==
  ASSUME RegistrationInv, NEW h \in Handlers, handler[h].st = "unmap", Ends(h),
         NEW id, id = handler[h].id, NEW pids, pids = PidsOf(id),
         mapping' = mapping \/ mapping' = {p \in mapping : p.id # id},
         persisted' = persisted \/ persisted' = {s \in persisted : s.pid \notin pids},
         UNCHANGED <<bus, known, count, tasks, boot, fresh>>,
         history' \in HistoryRecords,
         history'.acked = history.acked, history'.removing = history.removing, history'.skipped = history.skipped,
         \/ history'.removed = history.removed
         \/ /\ history'.removed = history.removed \cup (pids \cap history.acked)
            /\ mapping' = {p \in mapping : p.id # id}
            /\ persisted' = {s \in persisted : s.pid \notin pids}
  PROVE  RegistrationInv'
<1>1. /\ handler' \in [Handlers -> HandlerRecords]
      /\ handler'[h].st = "idle" /\ handler'[h].id = 0 /\ handler'[h].kind = "none"
      /\ \A g \in Handlers \ {h} : handler'[g] = handler[g]
      /\ 0 < fresh
  BY HandlerEnds
<1>2. /\ \A p \in mapping : p.id = id => p.pid \in history.removing
      /\ boot = {}
  BY DEF RegistrationInv, HandlersInOrder, MarksRemoval
<1>3. \A pid : pid \in pids <=> \E p \in mapping : p.id = id /\ p.pid = pid
  BY DEF PidsOf
<1>4. /\ mapping' \subseteq mapping /\ persisted' \subseteq persisted
      /\ \A p \in mapping : p.id # id => p \in mapping'
      /\ \A s \in persisted : s.pid \notin pids => s \in persisted'
  OBVIOUS
<1>5. HttpTypeOK'
  BY <1>1, <1>2, <1>4 DEF RegistrationInv, HttpTypeOK
<1>6. IdsBelowFresh'
  <2>1. (\A g \in Handlers : handler[g].id < fresh)'
    BY <1>1 DEF RegistrationInv, IdsBelowFresh
  <2> QED
    BY <1>4, <2>1 DEF RegistrationInv, IdsBelowFresh
<1>7. IdsUnique'
  BY <1>2, <1>4 DEF RegistrationInv, IdsUnique
<1>8. HandlersInOrder'
  <2>1. ASSUME NEW g \in Handlers, handler'[g].st = "save"
        PROVE  OwnsRegistration(g)'
    <3>1. g # h /\ handler'[g] = handler[g] /\ OwnsRegistration(g)
      BY <1>1, <2>1 DEF RegistrationInv, HandlersInOrder
    <3>2. handler[g].id \in history'.removing \/ Exposed(g)'
      <4>1. CASE handler[g].id \in history.removing
        BY <4>1
      <4>2. CASE Exposed(g) /\ handler[g].id = id
        BY <1>2, <4>2 DEF Exposed
      <4>3. CASE Exposed(g) /\ handler[g].id # id
        <5>1. [id |-> handler[g].id, pid |-> handler[g].id] \in mapping'
          BY <1>4, <4>3 DEF Exposed
        <5> QED
          BY <3>1, <4>3, <5>1 DEF Exposed, Entry
      <4> QED
        BY <3>1, <4>1, <4>2, <4>3 DEF OwnsRegistration
    <3> QED
      BY <1>1, <1>4, <3>1, <3>2 DEF OwnsRegistration
  <2>2. ASSUME NEW g \in Handlers, handler'[g].st \in {"unsubscribe", "unmap"}
        PROVE  MarksRemoval(g)'
    BY <1>1, <1>4, <2>2 DEF RegistrationInv, HandlersInOrder, MarksRemoval
  <2>3. ASSUME NEW g \in Handlers, handler'[g].st = "track"
        PROVE  HoldsNewId(g)'
    <3>1. g # h /\ handler'[g] = handler[g] /\ HoldsNewId(g)
      BY <1>1, <2>3 DEF RegistrationInv, HandlersInOrder
    <3> QED
      BY <1>1, <1>4, <3>1 DEF HoldsNewId, Entry
  <2> QED
    BY <1>2, <2>1, <2>2, <2>3 DEF HandlersInOrder
<1>9. AckedKept'
  <2>1. ASSUME NEW pid \in history.acked \ history.removing, NEW kind, Served(pid, kind)
        PROVE  Served(pid, kind)'
    BY <1>2, <1>4, <2>1, UnmarkedStay
  <2>2. ASSUME NEW pid \in history.acked \ history.removing, NEW s \in persisted, s.pid = pid
        PROVE  s \in persisted'
    BY <1>2, <1>3, <1>4, <2>2
  <2> QED
    BY <2>1, <2>2 DEF RegistrationInv, AckedKept
<1>10. RemovedGone'
  <2>1. ASSUME NEW pid \in history'.removed
        PROVE  (\A s \in persisted' : s.pid # pid) /\ (\A p \in mapping' : p.pid # pid)
    <3>1. CASE pid \in history.removed
      BY <1>4, <3>1 DEF RegistrationInv, RemovedGone
    <3>2. CASE pid \notin history.removed
      <4>1. /\ pid \in pids
            /\ mapping' = {p \in mapping : p.id # id}
            /\ persisted' = {s \in persisted : s.pid \notin pids}
        BY <2>1, <3>2
      <4>2. PICK q \in mapping : q.id = id /\ q.pid = pid
        BY <1>3, <4>1
      <4>3. ASSUME NEW p \in mapping', p.pid = pid
            PROVE  FALSE
        BY <4>1, <4>2, <4>3 DEF RegistrationInv, IdsUnique
      <4> QED
        BY <4>1, <4>3
    <3> QED
      BY <3>1, <3>2
  <2> QED
    BY <2>1 DEF RegistrationInv, RemovedGone
<1> QED
  BY <1>5, <1>6, <1>7, <1>8, <1>9, <1>10 DEF RegistrationInv

(* remove_subscription, its end. *)
LEMMA RemoveEntryKeeps ==
  ASSUME RegistrationInv, NEW h \in Handlers, RemoveEntry(h)
  PROVE  RegistrationInv'
<1>1. PICK id : id = handler[h].id
  OBVIOUS
<1>2. PICK pids : pids = PidsOf(id)
  OBVIOUS
<1>3. /\ handler[h].st = "unmap" /\ Ends(h) /\ mapping' = {p \in mapping : p.id # id}
      /\ UNCHANGED <<bus, known, count, tasks, boot, fresh>>
  BY <1>1 DEF RemoveEntry
<1>4. history \in HistoryRecords
  BY DEF RegistrationInv, HttpTypeOK
<1>5. CASE UNCHANGED <<persisted, history>>
  BY <1>1, <1>2, <1>3, <1>4, <1>5, UnmappingKeeps
<1>6. CASE /\ persisted' = StoreFinishes(h)
           /\ history' = [history EXCEPT !.removed = @ \cup (PidsOf(handler[h].id) \cap history.acked)]
  <2>1. persisted' = {s \in persisted : s.pid \notin pids}
    BY <1>1, <1>2, <1>3, <1>6 DEF StoreFinishes
  <2>2. pids \cap history.acked \in SUBSET Nat
    BY <1>4 DEF HistoryRecords
  <2>3. /\ history' \in HistoryRecords /\ history'.acked = history.acked /\ history'.removing = history.removing
        /\ history'.removed = history.removed \cup (pids \cap history.acked) /\ history'.skipped = history.skipped
    BY <1>1, <1>2, <1>4, <1>6, <2>2, HistoryGrows
  <2> QED
    BY <1>1, <1>2, <1>3, <2>1, <2>3, UnmappingKeeps
<1> QED
  BY <1>5, <1>6 DEF RemoveEntry

(* What a handler that is dropped leaves in the record of the clients. *)
LEMMA AbandonedCounts ==
  ASSUME RegistrationInv, NEW h \in Handlers, Abandoned(h)
  PROVE  history' \in HistoryRecords /\ SameRegistrations
<1>1. PICK n \in {0, 1} : history' = [history EXCEPT !.lost[handler[h].kind] = @ + n]
  BY DEF Abandoned
<1>2. handler[h].kind \in Kinds /\ history \in HistoryRecords
  BY DEF Abandoned, RegistrationInv, HttpTypeOK
<1>3. PICK k \in Kinds : k = handler[h].kind
  BY <1>2
<1>4. history' = [history EXCEPT !.lost = [history.lost EXCEPT ![k] = @ + n]]
  BY <1>1, <1>2, <1>3 DEF HistoryRecords
<1>5. [history.lost EXCEPT ![k] = @ + n] \in [Kinds -> Nat]
  BY <1>2 DEF HistoryRecords
<1> QED
  BY <1>2, <1>4, <1>5 DEF HistoryRecords, SameRegistrations

(* A handler that is dropped, wherever it is. *)
LEMMA AbandonedKeeps ==
  ASSUME RegistrationInv, NEW h \in Handlers, Abandoned(h)
  PROVE  RegistrationInv'
<1>1. PICK id, kind : id = handler[h].id /\ kind = handler[h].kind
  OBVIOUS
<1>2. PICK pids : pids = PidsOf(id)
  OBVIOUS
<1>3. /\ persisted' \in {persisted, StoreFinishes(h)} /\ Ends(h)
      /\ UNCHANGED <<bus, known, count, tasks, boot, fresh>>
  BY DEF Abandoned
<1>4. history' \in HistoryRecords /\ SameRegistrations
  BY AbandonedCounts
<1>5. mapping' = IF handler[h].st = "unmap" /\ persisted' # persisted THEN {p \in mapping : p.id # id} ELSE mapping
  BY <1>1 DEF Abandoned
<1>6. CASE handler[h].st = "unmap"
  <2>1. persisted' = persisted \/ persisted' = {s \in persisted : s.pid \notin pids}
    BY <1>1, <1>2, <1>3, <1>6 DEF StoreFinishes
  <2>2. mapping' = mapping \/ mapping' = {p \in mapping : p.id # id}
    BY <1>5
  <2> QED
    BY <1>1, <1>2, <1>3, <1>4, <1>6, <2>1, <2>2, UnmappingKeeps DEF SameRegistrations
<1>7. CASE handler[h].st = "save" /\ persisted' # persisted
  <2>1. persisted' = persisted \cup {Stored(id, kind)}
    BY <1>1, <1>3, <1>7 DEF StoreFinishes
  <2>2. mapping' = mapping
    BY <1>5, <1>7
  <2> QED
    BY <1>1, <1>3, <1>4, <1>7, <2>1, <2>2, StoringKeeps DEF SameRegistrations
<1>8. CASE handler[h].st # "unmap" /\ persisted' = persisted
  <2>1. mapping' = mapping /\ count' \in [Kinds -> Int]
    BY <1>3, <1>5, <1>8 DEF RegistrationInv, HttpTypeOK
  <2>2. IdleHandler.st = "idle" /\ IdleHandler.id < fresh
    BY DEF IdleHandler, RegistrationInv, IdsBelowFresh, HttpTypeOK, HandlerRecords
  <2> QED
    BY <1>3, <1>4, <1>8, <2>1, <2>2, IdleIsHandler, RegistrationsFramedButHandler DEF Ends
<1>9. handler[h].st \notin {"save", "unmap"} => persisted' = persisted
  BY <1>3 DEF StoreFinishes
<1> QED
  BY <1>6, <1>7, <1>8, <1>9

(* A start: everything but the store is gone, and everything stored is left  *)
(* to be made again.                                                         *)
LEMMA RestartKeeps ==
  ASSUME RegistrationInv, Restart
  PROVE  RegistrationInv'
<1>1. /\ bus' = {} /\ known' = {} /\ mapping' = {} /\ tasks' = {}
      /\ count' = [k \in Kinds |-> 0] /\ handler' = [h \in Handlers |-> IdleHandler]
      /\ boot' = persisted /\ UNCHANGED <<persisted, fresh>>
      /\ history' = [history EXCEPT !.skipped = {}, !.lost = [k \in Kinds |-> 0], !.twice = 0]
  BY DEF Restart, Forget
<1>2. history' \in HistoryRecords /\ history'.acked = history.acked /\ history'.removing = history.removing
      /\ history'.removed = history.removed
  <2>1. history \in HistoryRecords
    BY DEF RegistrationInv, HttpTypeOK
  <2>2. PICK none : none = [k \in Kinds |-> 0]
    OBVIOUS
  <2>3. none \in [Kinds -> Nat] /\ history' = [history EXCEPT !.skipped = {}, !.lost = none, !.twice = 0]
    BY <1>1, <2>2
  <2>4. PICK a : a = [history EXCEPT !.skipped = {}]
    OBVIOUS
  <2>5. a \in HistoryRecords /\ a.acked = history.acked /\ a.removing = history.removing /\ a.removed = history.removed
    BY <2>1, <2>4 DEF HistoryRecords
  <2>6. PICK b : b = [a EXCEPT !.lost = none]
    OBVIOUS
  <2>7. b \in HistoryRecords /\ b.acked = a.acked /\ b.removing = a.removing /\ b.removed = a.removed
    BY <2>3, <2>5, <2>6 DEF HistoryRecords
  <2>8. history' = [b EXCEPT !.twice = 0]
    BY <2>3, <2>4, <2>6
  <2>9. history' \in HistoryRecords /\ history'.acked = b.acked /\ history'.removing = b.removing /\ history'.removed = b.removed
    BY <2>7, <2>8 DEF HistoryRecords
  <2> QED
    BY <2>5, <2>7, <2>9
<1>3. /\ handler' \in [Handlers -> HandlerRecords]
      /\ \A h \in Handlers : handler'[h].st = "idle" /\ handler'[h].id = 0
  BY <1>1, IdleIsHandler DEF IdleHandler
<1>4. HttpTypeOK'
  BY <1>1, <1>2, <1>3 DEF RegistrationInv, HttpTypeOK
<1>5. IdsBelowFresh'
  <2>1. \A h \in Handlers : 0 < fresh
    BY DEF RegistrationInv, IdsBelowFresh, HttpTypeOK, HandlerRecords
  <2> QED
    BY <1>1, <1>2, <1>3, <2>1 DEF RegistrationInv, IdsBelowFresh
<1>6. IdsUnique'
  BY <1>1 DEF RegistrationInv, IdsUnique
<1>7. HandlersInOrder'
  BY <1>3 DEF HandlersInOrder
<1>8. AckedKept' /\ RemovedGone'
  BY <1>1, <1>2 DEF RegistrationInv, AckedKept, RemovedGone
<1> QED
  BY <1>4, <1>5, <1>6, <1>7, <1>8 DEF RegistrationInv

(* An entry is made again, under a new id, or finds no slot. *)
LEMMA RecreateKeeps ==
  ASSUME RegistrationInv, Recreate
  PROVE  RegistrationInv'
<1>1. PICK n : n = NextToMake
  OBVIOUS
<1>2. /\ n \in boot /\ n \in persisted /\ n \in [pid : Nat, kind : Kinds] /\ n.pid < fresh
      /\ boot' = boot \ {n} /\ UNCHANGED <<handler, persisted>>
  BY <1>1, NextIsLeft DEF Recreate, RegistrationInv, HttpTypeOK, IdsBelowFresh
<1>3. \A h \in Handlers : handler[h].st = "idle" /\ handler'[h].st = "idle"
  BY <1>2 DEF RegistrationInv, HandlersInOrder
<1>4. HandlersInOrder'
  BY <1>3 DEF HandlersInOrder
<1>5. CASE count[n.kind] >= Max(n.kind)
  <2>1. /\ history' = [history EXCEPT !.skipped = @ \cup {n.pid}]
        /\ UNCHANGED <<bus, known, mapping, count, tasks, fresh>>
    BY <1>1, <1>5 DEF Recreate
  <2>2. /\ history' \in HistoryRecords /\ history'.acked = history.acked /\ history'.removing = history.removing
        /\ history'.removed = history.removed /\ history'.skipped = history.skipped \cup {n.pid}
    <3>1. {n.pid} \in SUBSET Nat /\ history \in HistoryRecords
      BY <1>2 DEF RegistrationInv, HttpTypeOK
    <3> QED
      BY <2>1, <3>1, HistoryGrows
  <2>3. HttpTypeOK'
    BY <1>2, <2>1, <2>2 DEF RegistrationInv, HttpTypeOK
  <2>4. IdsBelowFresh' /\ IdsUnique'
    BY <1>2, <2>1, <2>2 DEF RegistrationInv, IdsBelowFresh, IdsUnique
  <2>5. AckedKept' /\ RemovedGone'
    BY <1>2, <2>1, <2>2 DEF RegistrationInv, AckedKept, RemovedGone, Served, Entry
  <2> QED
    BY <1>4, <2>3, <2>4, <2>5 DEF RegistrationInv
<1>6. CASE ~ (count[n.kind] >= Max(n.kind))
  <2> DEFINE e == Entry(fresh, n.kind)
             p == [id |-> fresh, pid |-> n.pid]
  <2>1. /\ bus' = bus \cup {e} /\ known' = known \cup {e} /\ mapping' = mapping \cup {p}
        /\ tasks' = IF n.kind = "AsyncWebhook" THEN tasks \cup {fresh} ELSE tasks
        /\ Adds(n.kind, 1) /\ fresh' = fresh + 1 /\ UNCHANGED history
    BY <1>1, <1>6 DEF Recreate
  <2>2. /\ e \in [id : Nat, kind : Kinds] /\ e.id = fresh
        /\ p \in [id : Nat, pid : Nat] /\ p.id = fresh /\ p.pid = n.pid
        /\ Entry(p.id, n.kind) = e
    BY <1>2 DEF Entry, RegistrationInv, HttpTypeOK
  <2> HIDE DEF e, p
  <2>3. count' \in [Kinds -> Int]
    BY <1>2, <2>1 DEF Adds, RegistrationInv, HttpTypeOK
  <2>4. HttpTypeOK'
    BY <1>2, <2>1, <2>2, <2>3 DEF RegistrationInv, HttpTypeOK
  <2>5. IdsBelowFresh'
    <3>1. fresh \in Nat /\ fresh < fresh' /\ \A i \in Nat : i < fresh => i < fresh'
      BY <2>1 DEF RegistrationInv, HttpTypeOK
    <3>2. (\A f \in known : f.id < fresh)' /\ (\A q \in mapping : q.id < fresh /\ q.pid < fresh)'
      BY <1>2, <2>1, <2>2, <3>1 DEF RegistrationInv, HttpTypeOK, IdsBelowFresh
    <3>3. (\A i \in tasks : i < fresh)' /\ (\A s \in persisted : s.pid < fresh)'
      BY <1>2, <2>1, <3>1 DEF RegistrationInv, HttpTypeOK, IdsBelowFresh
    <3>4. (\A i \in history.acked : i < fresh)'
      BY <2>1, <3>1 DEF RegistrationInv, HttpTypeOK, IdsBelowFresh, HistoryRecords
    <3>5. (\A g \in Handlers : handler[g].id < fresh)'
      BY <1>2, <3>1 DEF RegistrationInv, HttpTypeOK, IdsBelowFresh, HandlerRecords
    <3> QED
      BY <3>2, <3>3, <3>4, <3>5 DEF IdsBelowFresh
  <2>6. IdsUnique'
    <3>1. \A f \in known : f.id # fresh
      BY DEF RegistrationInv, IdsBelowFresh, HttpTypeOK
    <3>2. \A q \in mapping : q.id # fresh /\ q.pid # n.pid
      BY <1>2 DEF RegistrationInv, IdsBelowFresh, HttpTypeOK, IdsUnique
    <3>3. \A s \in boot' : s.pid # n.pid
      BY <1>2 DEF RegistrationInv, IdsUnique, HttpTypeOK
    <3> QED
      BY <1>2, <2>1, <2>2, <3>1, <3>2, <3>3 DEF RegistrationInv, IdsUnique
  <2>7. AckedKept'
    <3>1. ASSUME NEW pid, NEW kind, Served(pid, kind)
          PROVE  Served(pid, kind)'
      BY <2>1, <3>1 DEF Served, Entry
    <3>2. Served(n.pid, n.kind)'
      BY <2>1, <2>2 DEF Served, Entry
    <3> QED
      BY <1>2, <2>1, <3>1, <3>2 DEF RegistrationInv, AckedKept
  <2>8. RemovedGone'
    BY <1>2, <2>1, <2>2 DEF RegistrationInv, RemovedGone
  <2> QED
    BY <1>4, <2>4, <2>5, <2>6, <2>7, <2>8 DEF RegistrationInv
<1> QED
  BY <1>5, <1>6

(* An entry that is refused is deleted, and marked. *)
LEMMA RecreateRefusedKeeps ==
  ASSUME RegistrationInv, RecreateRefused
  PROVE  RegistrationInv'
<1>1. PICK n : n = NextToMake
  OBVIOUS
<1>2. /\ n \in boot /\ n \in persisted /\ n \in [pid : Nat, kind : Kinds]
      /\ boot' = boot \ {n} /\ persisted' = persisted \ {n}
      /\ UNCHANGED <<bus, known, mapping, count, tasks, handler, fresh>>
  BY <1>1, NextIsLeft DEF RecreateRefused, RegistrationInv, HttpTypeOK
<1>3. HandlersInOrder'
  BY <1>2 DEF HandlersInOrder, RegistrationInv
<1>4. /\ history' \in HistoryRecords /\ history'.acked = history.acked /\ history'.removing = history.removing \cup {n.pid}
      /\ history'.removed = history.removed /\ history'.skipped = history.skipped
  <2>1. {n.pid} \in SUBSET Nat /\ history \in HistoryRecords
    BY <1>2 DEF RegistrationInv, HttpTypeOK
  <2> QED
    BY <1>1, <2>1, HistoryGrows DEF RecreateRefused
<1>5. HttpTypeOK'
  BY <1>2, <1>4 DEF RegistrationInv, HttpTypeOK
<1>6. IdsBelowFresh' /\ IdsUnique'
  BY <1>2, <1>4 DEF RegistrationInv, IdsBelowFresh, IdsUnique
<1>7. AckedKept' /\ RemovedGone'
  BY <1>2, <1>4, SMTT(40) DEF RegistrationInv, AckedKept, RemovedGone, Served, Entry
<1> QED
  BY <1>3, <1>5, <1>6, <1>7 DEF RegistrationInv

(* The transport starts with nothing registered. *)
LEMMA HttpInitEstablishes == HttpInit => CircuitInv /\ RegistrationInv
<1> SUFFICES ASSUME HttpInit
             PROVE  CircuitInv /\ RegistrationInv
  OBVIOUS
<1>1. CircuitInv
  <2>1. call \in [Callers -> {"idle", "sending"}]
    BY DEF HttpInit
  <2>2. mode = "Closed" /\ failures = 0 /\ failures < Threshold /\ failures \in 0..MaxFailures
    BY CircuitAssumption DEF HttpInit
  <2>3. cooldown \in 0..MaxCooldown /\ remaining \in 0..MaxCooldown
    BY CircuitAssumption DEF HttpInit
  <2>4. endpoint \in {"down", "up"}
    BY HttpAssumption DEF HttpInit
  <2> QED
    BY <2>1, <2>2, <2>3, <2>4 DEF CircuitInv, CircuitTypeOK, ClosedIffBelowThreshold
<1>2. history \in HistoryRecords /\ history.acked = {} /\ history.removed = {}
  BY DEF HttpInit, NewHistory, HistoryRecords
<1>3. handler \in [Handlers -> HandlerRecords] /\ \A h \in Handlers : handler[h].st = "idle" /\ handler[h].id = 0
  BY IdleIsHandler DEF HttpInit, IdleHandler
<1>4. HttpTypeOK
  BY <1>2, <1>3 DEF HttpInit, HttpTypeOK
<1>5. IdsBelowFresh /\ IdsUnique
  BY <1>2, <1>3 DEF HttpInit, IdsBelowFresh, IdsUnique
<1>6. HandlersInOrder
  BY <1>3 DEF HandlersInOrder
<1>7. AckedKept /\ RemovedGone
  BY <1>2 DEF AckedKept, RemovedGone
<1> QED
  BY <1>1, <1>4, <1>5, <1>6, <1>7 DEF RegistrationInv

(* Every step of the transport preserves both invariants. *)
LEMMA HttpStepPreserves ==
  (CircuitInv /\ RegistrationInv) /\ [HttpNext]_httpAll => (CircuitInv /\ RegistrationInv)'
<1> SUFFICES ASSUME CircuitInv, RegistrationInv, [HttpNext]_httpAll
             PROVE  CircuitInv' /\ RegistrationInv'
  OBVIOUS
<1>1. CircuitInv'
  BY TransportStepIsCircuitStep, StepPreserves, RestartCloses
<1> SUFFICES RegistrationInv'
  BY <1>1
<1>2. ASSUME UNCHANGED httpVars
      PROVE  RegistrationInv'
  <2>1. UNCHANGED <<bus, known, mapping, count, tasks, handler, boot, persisted, fresh, history>>
    BY <1>2 DEF httpVars, serverVars
  <2>2. count' \in [Kinds -> Int]
    BY <2>1 DEF RegistrationInv, HttpTypeOK
  <2> QED
    BY <2>1, <2>2, RegistrationsFramed
<1>3. ASSUME NEW h \in Handlers, HandlerStep(h)
      PROVE  RegistrationInv'
  BY <1>3, SubscribeKeeps, SubscribeFailsKeeps, TrackKeeps, SaveKeeps, SaveFailsKeeps, RemoveFromBusKeeps, RemoveEntryKeeps
  DEF HandlerStep
<1>4. ASSUME NEW h \in Handlers,
             \/ Idle(\E kind \in Kinds : Admit(h, kind)) \/ Idle(\E e \in known : BeginRemove(h, e))
             \/ Idle(HandlerStep(h)) \/ Idle(Abandoned(h))
      PROVE  RegistrationInv'
  BY <1>3, <1>4, AdmitKeeps, BeginRemoveKeeps, AbandonedKeeps DEF Idle
<1>5. CASE Idle(NextWindow) \/ Idle(PublishEvent)
  <2>1. UNCHANGED <<bus, known, mapping, count, tasks, handler, boot, persisted, fresh, history>>
    BY <1>5 DEF Idle, NextWindow, PublishEvent
  <2>2. count' \in [Kinds -> Int]
    BY <2>1 DEF RegistrationInv, HttpTypeOK
  <2> QED
    BY <2>1, <2>2, RegistrationsFramed
<1>6. CASE Idle(Recreate) \/ Idle(RecreateRefused)
  BY <1>6, RecreateKeeps, RecreateRefusedKeeps DEF Idle
<1>7. ASSUME NEW id \in Ids, Takes(id)
      PROVE  RegistrationInv'
  <2>1. UNCHANGED <<bus, known, mapping, count, tasks, handler, boot, persisted, fresh, history>>
    BY <1>7 DEF Takes
  <2>2. count' \in [Kinds -> Int]
    BY <2>1 DEF RegistrationInv, HttpTypeOK
  <2> QED
    BY <2>1, <2>2, RegistrationsFramed
<1>8. ASSUME NEW id \in Ids, Idle(ForwarderEnds(id))
      PROVE  RegistrationInv'
  BY <1>8, ForwarderEndsKeeps DEF Idle
<1>9. CASE Restart
  BY <1>9, RestartKeeps
<1>10. CASE UNCHANGED httpAll
  BY <1>2, <1>10 DEF httpAll
<1> QED
  BY <1>2, <1>4, <1>5, <1>6, <1>7, <1>8, <1>9, <1>10 DEF HttpNext

(* Both invariants hold throughout. *)
LEMMA HttpInvariants == HttpSpec => [](CircuitInv /\ RegistrationInv)
  BY HttpInitEstablishes, HttpStepPreserves, PTL DEF HttpSpec

(* The circuit that the forwarders and the retry task share is closed exactly *)
(* while fewer than failure_threshold failures in a row have been recorded,   *)
(* through registrations, removals and restarts.                              *)
THEOREM TransportCircuitCorrect == HttpSpec => []ClosedIffBelowThreshold
  BY HttpInvariants, PTL DEF CircuitInv

(* What a client was told of its registration holds, for any number of        *)
(* requests at a time, any limits, faults and restarts: acknowledged and      *)
(* taken by no DELETE, not even one that came before the answer, it is stored *)
(* and served once the server is up unless it found no slot; acknowledged     *)
(* and then removed, it is neither stored nor mapped.                         *)
THEOREM RegistrationsKept == HttpSpec => []RegistrationsHonoured
<1>1. RegistrationInv => RegistrationsHonoured
  BY DEF RegistrationInv, AckedKept, RemovedGone, RegistrationsHonoured, Served
<1> QED
  BY <1>1, HttpInvariants, PTL

-----------------------------------------------------------------------------
(* The slots.                                                                *)

(* How often a handler in this state is counted, and for which counter. *)
Weight(x, kind, states) == IF x.kind = kind /\ x.st \in states THEN 1 ELSE 0
SubscriptionSlots(x) == Weight(x, "AsyncWebhook", {"subscribe", "track", "save"})
InterceptorSlots(x) == Weight(x, "SyncInterceptor", {"subscribe", "track", "unsubscribe"})

(* There are finitely many requests at a time. *)
LEMMA WaitingCounted ==
  ASSUME NEW kind, NEW states
  PROVE  IsFiniteSet(Waiting(kind, states)) /\ Cardinality(Waiting(kind, states)) \in Nat
<1>1. Waiting(kind, states) \subseteq Handlers
  BY DEF Waiting
<1> QED
  BY <1>1, HttpAssumption, FS_Subset, FS_CardinalityType

(* A handler that moves changes the counts by its own weight. *)
LEMMA WaitingMoves ==
  ASSUME handler \in [Handlers -> HandlerRecords], NEW h \in Handlers, NEW x \in HandlerRecords,
         handler' = [handler EXCEPT ![h] = x], NEW CONSTANT kind, NEW CONSTANT states
  PROVE  Cardinality(Waiting(kind, states)') =
           Cardinality(Waiting(kind, states)) + Weight(x, kind, states) - Weight(handler[h], kind, states)
<1>1. PICK old, new : old = Waiting(kind, states) /\ new = Waiting(kind, states)'
  OBVIOUS
<1>2. \A g \in Handlers \ {h} : handler'[g] = handler[g]
  OBVIOUS
<1>3. handler'[h] = x
  OBVIOUS
<1>4. h \in old <=> (handler[h].kind = kind /\ handler[h].st \in states)
  BY <1>1 DEF Waiting
<1>5. h \in new <=> (x.kind = kind /\ x.st \in states)
  BY <1>1, <1>3 DEF Waiting
<1>6. new = IF h \in new THEN old \cup {h} ELSE old \ {h}
  BY <1>1, <1>2 DEF Waiting
<1>7. IsFiniteSet(old) /\ Cardinality(old) \in Nat
  BY <1>1, WaitingCounted
<1>8. Cardinality(old \cup {h}) = IF h \in old THEN Cardinality(old) ELSE Cardinality(old) + 1
  BY <1>7, FS_AddElement
<1>9. Cardinality(old \ {h}) = IF h \in old THEN Cardinality(old) - 1 ELSE Cardinality(old)
  BY <1>7, FS_RemoveElement
<1>10. Weight(x, kind, states) = (IF h \in new THEN 1 ELSE 0)
  BY <1>5 DEF Weight
<1>11. Weight(handler[h], kind, states) = (IF h \in old THEN 1 ELSE 0)
  BY <1>4 DEF Weight
<1>12. Cardinality(new) = Cardinality(old) + (IF h \in new THEN 1 ELSE 0) - (IF h \in old THEN 1 ELSE 0)
  <2>1. CASE h \in new
    <3>1. Cardinality(new) = Cardinality(old \cup {h})
      BY <1>6, <2>1
    <3> QED
      BY <1>7, <1>8, <2>1, <3>1
  <2>2. CASE h \notin new
    <3>1. Cardinality(new) = Cardinality(old \ {h})
      BY <1>6, <2>2
    <3> QED
      BY <1>7, <1>9, <2>2, <3>1
  <2> QED
    BY <2>1, <2>2
<1> QED
  BY <1>1, <1>10, <1>11, <1>12

(* The four numbers that the counters are made of. *)
Subscribing == Cardinality(Waiting("AsyncWebhook", {"subscribe", "track", "save"}))
Intercepting == Cardinality(Waiting("SyncInterceptor", {"subscribe", "track", "unsubscribe"}))
Forwarders == Cardinality(tasks)
Interceptors == Cardinality(KnownInterceptors)

(* They are numbers, and the counters their sums. *)
LEMMA SlotsTyped ==
  ASSUME HttpTypeOK, SlotsBalanced
  PROVE  /\ Subscribing \in Nat /\ Intercepting \in Nat /\ Forwarders \in Nat /\ Interceptors \in Nat
         /\ history.lost["AsyncWebhook"] \in Nat /\ Unheld \in Int
         /\ count["AsyncWebhook"] = Forwarders + Subscribing + history.lost["AsyncWebhook"]
         /\ count["SyncInterceptor"] = Interceptors + Intercepting + Unheld
<1>1. Subscribing \in Nat /\ Intercepting \in Nat
  BY WaitingCounted DEF Subscribing, Intercepting
<1>2. Forwarders \in Nat /\ Interceptors \in Nat
  BY FS_CardinalityType DEF SlotsBalanced, Forwarders, Interceptors
<1>3. history.lost["AsyncWebhook"] \in Nat /\ Unheld \in Int
  BY DEF HttpTypeOK, HistoryRecords, Kinds, Unheld
<1> QED
  BY <1>1, <1>2, <1>3 DEF SlotsBalanced, Subscribing, Intercepting, Forwarders, Interceptors

(* How a handler's move changes the two numbers of handlers. *)
LEMMA HandlersCounted ==
  ASSUME HttpTypeOK, NEW h \in Handlers, NEW x \in HandlerRecords, handler' = [handler EXCEPT ![h] = x]
  PROVE  /\ Subscribing' = Subscribing + SubscriptionSlots(x) - SubscriptionSlots(handler[h])
         /\ Intercepting' = Intercepting + InterceptorSlots(x) - InterceptorSlots(handler[h])
<1>1. handler \in [Handlers -> HandlerRecords]
  BY DEF HttpTypeOK
<1>2. PICK S, T : S = {"subscribe", "track", "save"} /\ T = {"subscribe", "track", "unsubscribe"}
  OBVIOUS
<1>3. Cardinality(Waiting("AsyncWebhook", S)') =
        Cardinality(Waiting("AsyncWebhook", S)) + Weight(x, "AsyncWebhook", S) - Weight(handler[h], "AsyncWebhook", S)
  BY <1>1, WaitingMoves
<1>4. Cardinality(Waiting("SyncInterceptor", T)') =
        Cardinality(Waiting("SyncInterceptor", T)) + Weight(x, "SyncInterceptor", T) - Weight(handler[h], "SyncInterceptor", T)
  BY <1>1, WaitingMoves
<1> QED
  BY <1>2, <1>3, <1>4 DEF Subscribing, Intercepting, SubscriptionSlots, InterceptorSlots

(* A balance in which the four numbers and the lost slots add up is kept. *)
LEMMA BalanceFrom ==
  ASSUME IsFiniteSet(tasks'), IsFiniteSet(KnownInterceptors'),
         count'["AsyncWebhook"] = Forwarders' + Subscribing' + history'.lost["AsyncWebhook"],
         count'["SyncInterceptor"] = Interceptors' + Intercepting' + Unheld'
  PROVE  SlotsBalanced'
  BY DEF SlotsBalanced, Subscribing, Intercepting, Forwarders, Interceptors

(* One more id in the set of ids. *)
LEMMA KnownAdds ==
  ASSUME SlotsBalanced, NEW e, e \notin known, known' = known \cup {e}
  PROVE  /\ IsFiniteSet(KnownInterceptors')
         /\ Interceptors' = Interceptors + (IF e.kind = "SyncInterceptor" THEN 1 ELSE 0)
<1>1. PICK old, new : old = KnownInterceptors /\ new = KnownInterceptors'
  OBVIOUS
<1>2. IsFiniteSet(old) /\ Cardinality(old) \in Nat
  BY <1>1, FS_CardinalityType DEF SlotsBalanced
<1>3. CASE e.kind = "SyncInterceptor"
  <2>1. new = old \cup {e} /\ e \notin old
    BY <1>1, <1>3 DEF KnownInterceptors
  <2>2. IsFiniteSet(new) /\ Cardinality(new) = Cardinality(old) + 1
    BY <1>2, <2>1, FS_AddElement
  <2> QED
    BY <1>1, <1>3, <2>2 DEF Interceptors
<1>4. CASE e.kind # "SyncInterceptor"
  <2>1. new = old
    BY <1>1, <1>4 DEF KnownInterceptors
  <2> QED
    BY <1>1, <1>2, <1>4, <2>1 DEF Interceptors
<1> QED
  BY <1>3, <1>4

(* One id fewer. *)
LEMMA KnownDrops ==
  ASSUME SlotsBalanced, NEW e \in known, known' = known \ {e}
  PROVE  /\ IsFiniteSet(KnownInterceptors')
         /\ Interceptors' = Interceptors - (IF e.kind = "SyncInterceptor" THEN 1 ELSE 0)
<1>1. PICK old, new : old = KnownInterceptors /\ new = KnownInterceptors'
  OBVIOUS
<1>2. IsFiniteSet(old) /\ Cardinality(old) \in Nat
  BY <1>1, FS_CardinalityType DEF SlotsBalanced
<1>3. CASE e.kind = "SyncInterceptor"
  <2>1. new = old \ {e} /\ e \in old
    BY <1>1, <1>3 DEF KnownInterceptors
  <2>2. IsFiniteSet(new) /\ Cardinality(new) = Cardinality(old) - 1
    BY <1>2, <2>1, FS_RemoveElement
  <2> QED
    BY <1>1, <1>3, <2>2 DEF Interceptors
<1>4. CASE e.kind # "SyncInterceptor"
  <2>1. new = old
    BY <1>1, <1>4 DEF KnownInterceptors
  <2> QED
    BY <1>1, <1>2, <1>4, <2>1 DEF Interceptors
<1> QED
  BY <1>3, <1>4

(* One forwarder more, or one fewer. *)
LEMMA TasksChange ==
  ASSUME SlotsBalanced, NEW id
  PROVE  /\ id \notin tasks /\ tasks' = tasks \cup {id} => IsFiniteSet(tasks') /\ Forwarders' = Forwarders + 1
         /\ id \in tasks /\ tasks' = tasks \ {id} => IsFiniteSet(tasks') /\ Forwarders' = Forwarders - 1
<1>1. IsFiniteSet(tasks)
  BY DEF SlotsBalanced
<1>2. IsFiniteSet(tasks \cup {id}) /\ (id \notin tasks => Cardinality(tasks \cup {id}) = Cardinality(tasks) + 1)
  BY <1>1, FS_AddElement
<1>3. IsFiniteSet(tasks \ {id}) /\ (id \in tasks => Cardinality(tasks \ {id}) = Cardinality(tasks) - 1)
  BY <1>1, FS_RemoveElement
<1> QED
  BY <1>2, <1>3 DEF Forwarders

(* What is not touched is not recounted. *)
LEMMA Uncounted ==
  ASSUME SlotsBalanced
  PROVE  /\ tasks' = tasks => IsFiniteSet(tasks') /\ Forwarders' = Forwarders
         /\ known' = known => IsFiniteSet(KnownInterceptors') /\ Interceptors' = Interceptors
         /\ handler' = handler => Subscribing' = Subscribing /\ Intercepting' = Intercepting
  BY DEF SlotsBalanced, Forwarders, Interceptors, KnownInterceptors, Subscribing, Intercepting, Waiting

(* A counter is changed and the other is not. *)
LEMMA CountAdds ==
  ASSUME HttpTypeOK, NEW kind \in Kinds, NEW n \in Int, Adds(kind, n)
  PROVE  /\ count'["AsyncWebhook"] = count["AsyncWebhook"] + (IF kind = "AsyncWebhook" THEN n ELSE 0)
         /\ count'["SyncInterceptor"] = count["SyncInterceptor"] + (IF kind = "SyncInterceptor" THEN n ELSE 0)
  BY DEF HttpTypeOK, Adds, Kinds

(* The handlers' weights, state by state. *)
LEMMA Weights ==
  ASSUME NEW x
  PROVE  /\ SubscriptionSlots(x) \in {0, 1} /\ InterceptorSlots(x) \in {0, 1}
         /\ x.st \in {"idle", "unmap"} => SubscriptionSlots(x) = 0 /\ InterceptorSlots(x) = 0
         /\ x.st \in {"subscribe", "track"} =>
              /\ SubscriptionSlots(x) = (IF x.kind = "AsyncWebhook" THEN 1 ELSE 0)
              /\ InterceptorSlots(x) = (IF x.kind = "SyncInterceptor" THEN 1 ELSE 0)
         /\ x.st = "save" => /\ SubscriptionSlots(x) = (IF x.kind = "AsyncWebhook" THEN 1 ELSE 0)
                             /\ InterceptorSlots(x) = 0
         /\ x.st = "unsubscribe" => /\ SubscriptionSlots(x) = 0
                                    /\ InterceptorSlots(x) = (IF x.kind = "SyncInterceptor" THEN 1 ELSE 0)
  BY DEF Weight, SubscriptionSlots, InterceptorSlots

(* The counters change by what a handler, the two sets and the lost slots    *)
(* change by.                                                                *)
CountersFollow(h, x) ==
  /\ count'["AsyncWebhook"] = count["AsyncWebhook"] + (Forwarders' - Forwarders)
       + (SubscriptionSlots(x) - SubscriptionSlots(handler[h]))
       + (history'.lost["AsyncWebhook"] - history.lost["AsyncWebhook"])
  /\ count'["SyncInterceptor"] = count["SyncInterceptor"] + (Interceptors' - Interceptors)
       + (InterceptorSlots(x) - InterceptorSlots(handler[h]))
       + (Unheld' - Unheld)

(* Then a handler that moves keeps the balance. *)
LEMMA MoveBalances ==
  ASSUME RegistrationInv, SlotsBalanced,
         NEW h \in Handlers, NEW x \in HandlerRecords, handler' = [handler EXCEPT ![h] = x],
         IsFiniteSet(tasks'), Forwarders' \in Int, IsFiniteSet(KnownInterceptors'), Interceptors' \in Int,
         history'.lost["AsyncWebhook"] \in Int, Unheld' \in Int,
         CountersFollow(h, x)
  PROVE  SlotsBalanced'
<1>1. HttpTypeOK
  BY DEF RegistrationInv
<1>2. /\ SubscriptionSlots(x) \in Int /\ SubscriptionSlots(handler[h]) \in Int
      /\ InterceptorSlots(x) \in Int /\ InterceptorSlots(handler[h]) \in Int
  BY Weights
<1>3. /\ Subscribing \in Nat /\ Intercepting \in Nat /\ Forwarders \in Nat /\ Interceptors \in Nat
      /\ history.lost["AsyncWebhook"] \in Nat /\ Unheld \in Int
      /\ count["AsyncWebhook"] = Forwarders + Subscribing + history.lost["AsyncWebhook"]
      /\ count["SyncInterceptor"] = Interceptors + Intercepting + Unheld
  BY <1>1, SlotsTyped
<1>4. /\ Subscribing' = Subscribing + SubscriptionSlots(x) - SubscriptionSlots(handler[h])
      /\ Intercepting' = Intercepting + InterceptorSlots(x) - InterceptorSlots(handler[h])
  BY <1>1, HandlersCounted
<1>5. /\ count'["AsyncWebhook"] = Forwarders' + Subscribing' + history'.lost["AsyncWebhook"]
      /\ count'["SyncInterceptor"] = Interceptors' + Intercepting' + Unheld'
  BY <1>2, <1>3, <1>4 DEF CountersFollow
<1> QED
  BY <1>5, BalanceFrom

(* The two counters are integers, and a handler has a kind while it runs. *)
LEMMA SlotFacts ==
  ASSUME RegistrationInv, SlotsBalanced
  PROVE  /\ HttpTypeOK /\ handler \in [Handlers -> HandlerRecords]
         /\ count["AsyncWebhook"] \in Int /\ count["SyncInterceptor"] \in Int
         /\ history.lost["AsyncWebhook"] \in Int /\ Unheld \in Int
         /\ Forwarders \in Int /\ Interceptors \in Int
         /\ IdleHandler.st = "idle" /\ IdleHandler \in HandlerRecords
<1>1. HttpTypeOK
  BY DEF RegistrationInv
<1>2. Forwarders \in Int /\ Interceptors \in Int
  BY <1>1, SlotsTyped
<1>3. IdleHandler.st = "idle" /\ IdleHandler \in HandlerRecords
  BY IdleIsHandler DEF IdleHandler
<1> QED
  BY <1>1, <1>2, <1>3 DEF HttpTypeOK, HistoryRecords, Kinds, Unheld

(* A running handler has one of the two kinds. *)
LEMMA KindOfRunning ==
  ASSUME RegistrationInv, NEW h \in Handlers, handler[h].st # "idle"
  PROVE  handler[h].kind = "AsyncWebhook" \/ handler[h].kind = "SyncInterceptor"
  BY DEF RegistrationInv, HttpTypeOK, Kinds


(* A slot is reserved. *)
LEMMA AdmitBalances ==
  ASSUME RegistrationInv, SlotsBalanced, NEW h \in Handlers, NEW kind \in Kinds, Admit(h, kind)
  PROVE  SlotsBalanced'
<1>0. handler[h].st = "idle" /\ UNCHANGED <<known, tasks, history>>
  BY DEF Admit
<1>1. CASE UNCHANGED <<count, handler>>
  BY <1>0, <1>1 DEF SlotsBalanced, KnownInterceptors, Waiting, Unheld
<1>2. CASE Adds(kind, 1) /\ handler' = [handler EXCEPT ![h] = [IdleHandler EXCEPT !.st = "subscribe", !.kind = kind]]
  <2> DEFINE x == [IdleHandler EXCEPT !.st = "subscribe", !.kind = kind]
  <2>1. x \in HandlerRecords /\ x.st = "subscribe" /\ x.kind = kind
    BY DEF IdleHandler, HandlerRecords, HandlerStates
  <2>2. handler' = [handler EXCEPT ![h] = x]
    BY <1>2
  <2> HIDE DEF x
  <2>3. /\ SubscriptionSlots(x) = (IF kind = "AsyncWebhook" THEN 1 ELSE 0)
        /\ InterceptorSlots(x) = (IF kind = "SyncInterceptor" THEN 1 ELSE 0)
        /\ SubscriptionSlots(handler[h]) = 0 /\ InterceptorSlots(handler[h]) = 0
    BY <1>0, <2>1, Weights
  <2>4. /\ count'["AsyncWebhook"] = count["AsyncWebhook"] + (IF kind = "AsyncWebhook" THEN 1 ELSE 0)
        /\ count'["SyncInterceptor"] = count["SyncInterceptor"] + (IF kind = "SyncInterceptor" THEN 1 ELSE 0)
    BY <1>2, SlotFacts, CountAdds
  <2>5. IsFiniteSet(tasks') /\ Forwarders' = Forwarders /\ IsFiniteSet(KnownInterceptors') /\ Interceptors' = Interceptors
    BY <1>0, Uncounted
  <2>6. history'.lost = history.lost /\ Unheld' = Unheld
    BY <1>0 DEF Unheld
  <2>7. CountersFollow(h, x)
    BY <2>3, <2>4, <2>5, <2>6, SlotFacts DEF CountersFollow
  <2> QED
    BY <2>1, <2>2, <2>5, <2>6, <2>7, SlotFacts, MoveBalances
<1> QED
  BY <1>1, <1>2 DEF Admit

(* A refused registration gives its slot back. *)
LEMMA SubscribeFailsBalances ==
  ASSUME RegistrationInv, SlotsBalanced, NEW h \in Handlers, SubscribeFails(h)
  PROVE  SlotsBalanced'
<1>1. PICK kind : kind = handler[h].kind
  OBVIOUS
<1>2. /\ handler[h].st = "subscribe" /\ UNCHANGED <<known, tasks, history>> /\ Adds(kind, -1)
      /\ handler' = [handler EXCEPT ![h] = IdleHandler]
  BY <1>1 DEF SubscribeFails, Ends
<1>3. kind = "AsyncWebhook" \/ kind = "SyncInterceptor"
  BY <1>1, <1>2, KindOfRunning
<1>4. /\ SubscriptionSlots(handler[h]) = (IF kind = "AsyncWebhook" THEN 1 ELSE 0)
      /\ InterceptorSlots(handler[h]) = (IF kind = "SyncInterceptor" THEN 1 ELSE 0)
      /\ SubscriptionSlots(IdleHandler) = 0 /\ InterceptorSlots(IdleHandler) = 0
  BY <1>1, <1>2, Weights, SlotFacts
<1>5. /\ count'["AsyncWebhook"] = count["AsyncWebhook"] + (IF kind = "AsyncWebhook" THEN -1 ELSE 0)
      /\ count'["SyncInterceptor"] = count["SyncInterceptor"] + (IF kind = "SyncInterceptor" THEN -1 ELSE 0)
  <2>1. kind \in Kinds /\ -1 \in Int /\ HttpTypeOK
    BY <1>3, SlotFacts DEF Kinds
  <2> QED
    BY <1>2, <2>1, CountAdds
<1>6. IsFiniteSet(tasks') /\ Forwarders' = Forwarders /\ IsFiniteSet(KnownInterceptors') /\ Interceptors' = Interceptors
  BY <1>2, Uncounted
<1>7. history'.lost = history.lost /\ Unheld' = Unheld
  BY <1>2 DEF Unheld
<1>8. CountersFollow(h, IdleHandler)
  BY <1>3, <1>4, <1>5, <1>6, <1>7, SlotFacts DEF CountersFollow
<1> QED
  BY <1>2, <1>6, <1>7, <1>8, SlotFacts, MoveBalances

(* The handler keeps its slot. *)
LEMMA SubscribeBalances ==
  ASSUME RegistrationInv, SlotsBalanced, NEW h \in Handlers, Subscribe(h)
  PROVE  SlotsBalanced'
<1>1. PICK x : x = [handler[h] EXCEPT !.st = "track", !.id = fresh]
  OBVIOUS
<1>2. /\ handler[h].st = "subscribe" /\ UNCHANGED <<count, tasks, known, history>>
      /\ handler' = [handler EXCEPT ![h] = x]
  BY <1>1, SlotFacts DEF Subscribe
<1>3. x \in HandlerRecords /\ x.st = "track" /\ x.kind = handler[h].kind
  BY <1>1, SlotFacts DEF HandlerRecords, HandlerStates, RegistrationInv, HttpTypeOK
<1>4. SubscriptionSlots(x) = SubscriptionSlots(handler[h]) /\ InterceptorSlots(x) = InterceptorSlots(handler[h])
  BY <1>2, <1>3, Weights
<1>5. IsFiniteSet(tasks') /\ Forwarders' = Forwarders /\ IsFiniteSet(KnownInterceptors') /\ Interceptors' = Interceptors
  BY <1>2, Uncounted
<1>6. history'.lost = history.lost /\ Unheld' = Unheld /\ count' = count
  BY <1>2 DEF Unheld
<1>7. SubscriptionSlots(handler[h]) \in Int /\ InterceptorSlots(handler[h]) \in Int
  BY Weights
<1>8. CountersFollow(h, x)
  BY <1>4, <1>5, <1>6, <1>7, SlotFacts DEF CountersFollow
<1> QED
  BY <1>2, <1>3, <1>5, <1>6, <1>8, SlotFacts, MoveBalances

(* The slot of an interceptor goes over to its id. *)
LEMMA TrackBalances ==
  ASSUME RegistrationInv, SlotsBalanced, NEW h \in Handlers, Track(h)
  PROVE  SlotsBalanced'
<1>1. PICK kind, e, x : /\ kind = handler[h].kind /\ e = Entry(handler[h].id, kind)
                        /\ x = [handler[h] EXCEPT !.st = "save"]
  OBVIOUS
<1>2. /\ handler[h].st = "track" /\ UNCHANGED <<count, tasks, history>> /\ known' = known \cup {e}
      /\ handler' = [handler EXCEPT ![h] = x]
  BY <1>1, SlotFacts DEF Track, Goes
<1>3. kind = "AsyncWebhook" \/ kind = "SyncInterceptor"
  BY <1>1, <1>2, KindOfRunning
<1>4. x \in HandlerRecords /\ x.st = "save" /\ x.kind = kind
  BY <1>1, SlotFacts DEF HandlerRecords, HandlerStates, RegistrationInv, HttpTypeOK
<1>5. /\ SubscriptionSlots(handler[h]) = (IF kind = "AsyncWebhook" THEN 1 ELSE 0)
      /\ InterceptorSlots(handler[h]) = (IF kind = "SyncInterceptor" THEN 1 ELSE 0)
      /\ SubscriptionSlots(x) = (IF kind = "AsyncWebhook" THEN 1 ELSE 0) /\ InterceptorSlots(x) = 0
  BY <1>1, <1>2, <1>4, Weights
<1>6. e \notin known /\ e.kind = kind
  BY <1>1, <1>2 DEF Entry, RegistrationInv, HandlersInOrder, HoldsNewId
<1>7. /\ IsFiniteSet(KnownInterceptors')
      /\ Interceptors' = Interceptors + (IF kind = "SyncInterceptor" THEN 1 ELSE 0)
  BY <1>2, <1>6, KnownAdds
<1>8. IsFiniteSet(tasks') /\ Forwarders' = Forwarders
  BY <1>2, Uncounted
<1>9. history'.lost = history.lost /\ Unheld' = Unheld /\ count' = count
  BY <1>2 DEF Unheld
<1>10. CountersFollow(h, x) /\ Interceptors' \in Int
  BY <1>3, <1>5, <1>7, <1>8, <1>9, SlotFacts DEF CountersFollow
<1> QED
  BY <1>2, <1>4, <1>7, <1>8, <1>9, <1>10, SlotFacts, MoveBalances

(* The slot of a subscription goes over to its forwarder. *)
LEMMA SaveBalances ==
  ASSUME RegistrationInv, SlotsBalanced, NEW h \in Handlers, Save(h)
  PROVE  SlotsBalanced'
<1>1. PICK kind, id : kind = handler[h].kind /\ id = handler[h].id
  OBVIOUS
<1>2. /\ handler[h].st = "save" /\ UNCHANGED <<known, count>>
      /\ tasks' = IF kind = "AsyncWebhook" THEN tasks \cup {id} ELSE tasks
      /\ handler' = [handler EXCEPT ![h] = IdleHandler]
  BY <1>1 DEF Save, Ends
<1>3. id \notin tasks
  BY <1>1, <1>2 DEF RegistrationInv, HandlersInOrder, OwnsRegistration
<1>4. /\ SubscriptionSlots(handler[h]) = (IF kind = "AsyncWebhook" THEN 1 ELSE 0) /\ InterceptorSlots(handler[h]) = 0
      /\ SubscriptionSlots(IdleHandler) = 0 /\ InterceptorSlots(IdleHandler) = 0
  BY <1>1, <1>2, Weights, SlotFacts
<1>5. IsFiniteSet(tasks') /\ Forwarders' = Forwarders + (IF kind = "AsyncWebhook" THEN 1 ELSE 0)
  <2>1. CASE kind = "AsyncWebhook"
    BY <1>2, <1>3, <2>1, TasksChange
  <2>2. CASE kind # "AsyncWebhook"
    BY <1>2, <2>2, Uncounted, SlotFacts
  <2> QED
    BY <2>1, <2>2
<1>6. IsFiniteSet(KnownInterceptors') /\ Interceptors' = Interceptors
  BY <1>2, Uncounted
<1>7. history'.lost = history.lost /\ Unheld' = Unheld /\ count' = count
  <2>1. history \in HistoryRecords
    BY SlotFacts DEF HttpTypeOK
  <2>2. history' = [history EXCEPT !.acked = @ \cup {id}]
    BY <1>1 DEF Save
  <2> QED
    BY <1>2, <2>1, <2>2 DEF HistoryRecords, Unheld
<1>8. CountersFollow(h, IdleHandler) /\ Forwarders' \in Int
  BY <1>4, <1>5, <1>6, <1>7, SlotFacts DEF CountersFollow
<1> QED
  BY <1>2, <1>5, <1>6, <1>7, <1>8, SlotFacts, MoveBalances

(* The roll back gives a slot back: that of the registration it takes away,  *)
(* or one more for an interceptor that a DELETE has taken.                   *)
LEMMA SaveFailsBalances ==
  ASSUME RegistrationInv, SlotsBalanced, NEW h \in Handlers, SaveFails(h)
  PROVE  SlotsBalanced'
<1>1. PICK kind, id, e : kind = handler[h].kind /\ id = handler[h].id /\ e = Entry(id, kind)
  OBVIOUS
<1>2. /\ handler[h].st = "save" /\ UNCHANGED tasks /\ Adds(kind, -1)
      /\ known' = {f \in known : f.id # id}
      /\ history' = IF kind = "SyncInterceptor" /\ e \notin known THEN [history EXCEPT !.twice = @ + 1] ELSE history
      /\ handler' = [handler EXCEPT ![h] = IdleHandler]
  BY <1>1 DEF SaveFails, Ends, Taken
<1>3. kind = "AsyncWebhook" \/ kind = "SyncInterceptor"
  BY <1>1, <1>2, KindOfRunning
<1>4. e.id = id /\ e.kind = kind /\ \A f \in known : f.id = id => f = e
  <2>1. \A f \in known : f.id = id => f.kind = kind
    BY <1>1, <1>2 DEF RegistrationInv, HandlersInOrder, OwnsRegistration
  <2> QED
    BY <1>1, <2>1 DEF Entry, RegistrationInv, HttpTypeOK
<1>5. known' = known \ {e}
  BY <1>2, <1>4
<1>6. /\ IsFiniteSet(KnownInterceptors')
      /\ Interceptors' = Interceptors - (IF kind = "SyncInterceptor" /\ e \in known THEN 1 ELSE 0)
  <2>1. CASE e \in known
    BY <1>4, <1>5, <2>1, KnownDrops
  <2>2. CASE e \notin known
    <3>1. known' = known
      BY <1>5, <2>2
    <3> QED
      BY <2>2, <3>1, Uncounted, SlotFacts
  <2> QED
    BY <2>1, <2>2
<1>7. /\ SubscriptionSlots(handler[h]) = (IF kind = "AsyncWebhook" THEN 1 ELSE 0) /\ InterceptorSlots(handler[h]) = 0
      /\ SubscriptionSlots(IdleHandler) = 0 /\ InterceptorSlots(IdleHandler) = 0
  BY <1>1, <1>2, Weights, SlotFacts
<1>8. /\ count'["AsyncWebhook"] = count["AsyncWebhook"] + (IF kind = "AsyncWebhook" THEN -1 ELSE 0)
      /\ count'["SyncInterceptor"] = count["SyncInterceptor"] + (IF kind = "SyncInterceptor" THEN -1 ELSE 0)
  <2>1. kind \in Kinds /\ -1 \in Int /\ HttpTypeOK
    BY <1>3, SlotFacts DEF Kinds
  <2> QED
    BY <1>2, <2>1, CountAdds
<1>9. IsFiniteSet(tasks') /\ Forwarders' = Forwarders
  BY <1>2, Uncounted
<1>10. /\ history'.lost = history.lost
       /\ Unheld' = Unheld - (IF kind = "SyncInterceptor" /\ e \notin known THEN 1 ELSE 0)
  <2>1. history \in HistoryRecords
    BY SlotFacts DEF HttpTypeOK
  <2>2. history.lost["SyncInterceptor"] \in Nat /\ history.twice \in Int
    BY <2>1 DEF HistoryRecords, Kinds
  <2>3. /\ history'.lost = history.lost
        /\ history'.twice = history.twice + (IF kind = "SyncInterceptor" /\ e \notin known THEN 1 ELSE 0)
    BY <1>2, <2>1, <2>2 DEF HistoryRecords
  <2> QED
    BY <2>2, <2>3 DEF Unheld
<1>11. CountersFollow(h, IdleHandler) /\ Interceptors' \in Int /\ Unheld' \in Int
  <2>1. CASE e \in known
    BY <1>3, <1>6, <1>7, <1>8, <1>9, <1>10, <2>1, SlotFacts DEF CountersFollow
  <2>2. CASE e \notin known
    BY <1>3, <1>6, <1>7, <1>8, <1>9, <1>10, <2>2, SlotFacts DEF CountersFollow
  <2> QED
    BY <2>1, <2>2
<1> QED
  BY <1>2, <1>6, <1>9, <1>10, <1>11, SlotFacts, MoveBalances

(* The slot of an interceptor goes over to the handler that removes it. *)
LEMMA BeginRemoveBalances ==
  ASSUME RegistrationInv, SlotsBalanced, NEW h \in Handlers, NEW e \in known, BeginRemove(h, e)
  PROVE  SlotsBalanced'
<1>1. PICK x : x = [st |-> "unsubscribe", kind |-> e.kind, id |-> e.id]
  OBVIOUS
<1>2. /\ handler[h].st = "idle" /\ UNCHANGED <<count, tasks>> /\ known' = known \ {e}
      /\ handler' = [handler EXCEPT ![h] = x]
  BY <1>1 DEF BeginRemove
<1>3. x \in HandlerRecords /\ x.st = "unsubscribe" /\ x.kind = e.kind
  <2>1. e \in [id : Nat, kind : Kinds]
    BY DEF RegistrationInv, HttpTypeOK
  <2> QED
    BY <1>1, <2>1 DEF HandlerRecords, HandlerStates
<1>4. /\ SubscriptionSlots(handler[h]) = 0 /\ InterceptorSlots(handler[h]) = 0
      /\ SubscriptionSlots(x) = 0 /\ InterceptorSlots(x) = (IF e.kind = "SyncInterceptor" THEN 1 ELSE 0)
  BY <1>2, <1>3, Weights
<1>5. /\ IsFiniteSet(KnownInterceptors')
      /\ Interceptors' = Interceptors - (IF e.kind = "SyncInterceptor" THEN 1 ELSE 0)
  BY <1>2, KnownDrops
<1>6. IsFiniteSet(tasks') /\ Forwarders' = Forwarders
  BY <1>2, Uncounted
<1>7. history'.lost = history.lost /\ Unheld' = Unheld /\ count' = count
  <2>1. history \in HistoryRecords
    BY SlotFacts DEF HttpTypeOK
  <2> QED
    BY <1>2, <2>1 DEF HistoryRecords, BeginRemove, Unheld
<1>8. CountersFollow(h, x) /\ Interceptors' \in Int
  BY <1>4, <1>5, <1>6, <1>7, SlotFacts DEF CountersFollow
<1> QED
  BY <1>2, <1>3, <1>5, <1>6, <1>7, <1>8, SlotFacts, MoveBalances

(* The slot of an interceptor is given back; a counter at zero has had it    *)
(* back already.                                                             *)
LEMMA RemoveFromBusBalances ==
  ASSUME RegistrationInv, SlotsBalanced, NEW h \in Handlers, RemoveFromBus(h)
  PROVE  SlotsBalanced'
<1>1. PICK kind, x : kind = handler[h].kind /\ x = [handler[h] EXCEPT !.st = "unmap"]
  OBVIOUS
<1>2. /\ handler[h].st = "unsubscribe" /\ UNCHANGED <<known, tasks>>
      /\ handler' = [handler EXCEPT ![h] = x]
  BY <1>1, SlotFacts DEF RemoveFromBus, Goes
<1>3. kind = "AsyncWebhook" \/ kind = "SyncInterceptor"
  BY <1>1, <1>2, KindOfRunning
<1>4. x \in HandlerRecords /\ x.st = "unmap"
  BY <1>1, SlotFacts DEF HandlerRecords, HandlerStates
<1>5. /\ SubscriptionSlots(handler[h]) = 0
      /\ InterceptorSlots(handler[h]) = (IF kind = "SyncInterceptor" THEN 1 ELSE 0)
      /\ SubscriptionSlots(x) = 0 /\ InterceptorSlots(x) = 0
  BY <1>1, <1>2, <1>4, Weights
<1>6. history'.lost = history.lost /\ Unheld \in Int /\ Unheld' \in Int
  <2>1. history \in HistoryRecords
    BY SlotFacts DEF HttpTypeOK
  <2>2. history' \in HistoryRecords /\ history'.lost = history.lost
    BY <2>1 DEF RemoveFromBus, HistoryRecords
  <2> QED
    BY <2>1, <2>2 DEF HistoryRecords, Kinds, Unheld
<1>7. /\ count'["AsyncWebhook"] = count["AsyncWebhook"]
      /\ count'["SyncInterceptor"] = count["SyncInterceptor"] + (Unheld' - Unheld) - (IF kind = "SyncInterceptor" THEN 1 ELSE 0)
  <2>1. CASE kind = "SyncInterceptor" /\ count["SyncInterceptor"] # 0
    <3>1. Adds("SyncInterceptor", -1) /\ UNCHANGED history
      BY <1>1, <2>1 DEF RemoveFromBus
    <3>2. "SyncInterceptor" \in Kinds /\ -1 \in Int /\ HttpTypeOK
      BY SlotFacts DEF Kinds
    <3>3. count'["AsyncWebhook"] = count["AsyncWebhook"] + 0 /\ count'["SyncInterceptor"] = count["SyncInterceptor"] + -1
      BY <3>1, <3>2, CountAdds
    <3>4. Unheld' = Unheld
      BY <3>1 DEF Unheld
    <3> QED
      BY <1>6, <2>1, <3>3, <3>4, SlotFacts
  <2>2. CASE kind = "SyncInterceptor" /\ count["SyncInterceptor"] = 0
    <3>1. count' = count /\ history' = [history EXCEPT !.twice = @ - 1]
      BY <1>1, <2>2 DEF RemoveFromBus
    <3>2. history \in HistoryRecords
      BY SlotFacts DEF HttpTypeOK
    <3>3. history.lost["SyncInterceptor"] \in Nat /\ history.twice \in Int
      BY <3>2 DEF HistoryRecords, Kinds
    <3>4. history'.twice = history.twice - 1
      BY <3>1, <3>2 DEF HistoryRecords
    <3>5. Unheld' = Unheld + 1
      BY <1>6, <3>3, <3>4 DEF Unheld
    <3> QED
      BY <1>6, <2>2, <3>1, <3>5, SlotFacts
  <2>3. CASE kind # "SyncInterceptor"
    <3>1. count' = count /\ history' = history
      BY <1>1, <1>3, <2>3 DEF RemoveFromBus
    <3>2. Unheld' = Unheld
      BY <3>1 DEF Unheld
    <3> QED
      BY <1>6, <2>3, <3>1, <3>2, SlotFacts
  <2> QED
    BY <2>1, <2>2, <2>3
<1>8. IsFiniteSet(tasks') /\ Forwarders' = Forwarders /\ IsFiniteSet(KnownInterceptors') /\ Interceptors' = Interceptors
  BY <1>2, Uncounted
<1>9. CountersFollow(h, x)
  BY <1>3, <1>5, <1>6, <1>7, <1>8, SlotFacts DEF CountersFollow
<1> QED
  BY <1>2, <1>4, <1>6, <1>8, <1>9, SlotFacts, MoveBalances

(* The end of a removal holds no slot. *)
LEMMA RemoveEntryBalances ==
  ASSUME RegistrationInv, SlotsBalanced, NEW h \in Handlers, RemoveEntry(h)
  PROVE  SlotsBalanced'
<1>1. /\ handler[h].st = "unmap" /\ UNCHANGED <<known, tasks, count>>
      /\ handler' = [handler EXCEPT ![h] = IdleHandler]
  BY DEF RemoveEntry, Ends
<1>2. /\ SubscriptionSlots(handler[h]) = 0 /\ InterceptorSlots(handler[h]) = 0
      /\ SubscriptionSlots(IdleHandler) = 0 /\ InterceptorSlots(IdleHandler) = 0
  BY <1>1, Weights, SlotFacts
<1>3. IsFiniteSet(tasks') /\ Forwarders' = Forwarders /\ IsFiniteSet(KnownInterceptors') /\ Interceptors' = Interceptors
  BY <1>1, Uncounted
<1>4. history'.lost = history.lost /\ Unheld' = Unheld /\ count' = count
  <2>1. history \in HistoryRecords
    BY SlotFacts DEF HttpTypeOK
  <2> QED
    BY <1>1, <2>1 DEF HistoryRecords, RemoveEntry, Unheld
<1>5. CountersFollow(h, IdleHandler)
  BY <1>2, <1>3, <1>4, SlotFacts DEF CountersFollow
<1> QED
  BY <1>1, <1>3, <1>4, <1>5, SlotFacts, MoveBalances

(* The slot of a dropped handler is lost, unless its id or nobody holds it. *)
LEMMA AbandonedBalances ==
  ASSUME RegistrationInv, SlotsBalanced, NEW h \in Handlers, Abandoned(h)
  PROVE  SlotsBalanced'
<1>1. PICK kind, st : kind = handler[h].kind /\ st = handler[h].st
  OBVIOUS
<1>2. /\ st # "idle" /\ UNCHANGED <<known, tasks, count>>
      /\ handler' = [handler EXCEPT ![h] = IdleHandler]
  BY <1>1 DEF Abandoned, Ends
<1>3. kind = "AsyncWebhook" \/ kind = "SyncInterceptor"
  BY <1>1, <1>2, KindOfRunning
<1> DEFINE n == IF st \in {"subscribe", "track"} \/ st = (IF kind = "AsyncWebhook" THEN "save" ELSE "unsubscribe") THEN 1 ELSE 0
<1>4. history' = [history EXCEPT !.lost[kind] = @ + n]
  BY <1>1 DEF Abandoned
<1>5. history'.lost = [history.lost EXCEPT ![kind] = @ + n] /\ history.lost \in [Kinds -> Nat]
      /\ history'.twice = history.twice /\ history.twice \in Int
  <2>1. history \in HistoryRecords
    BY SlotFacts DEF HttpTypeOK
  <2> HIDE DEF n
  <2> QED
    BY <1>4, <2>1 DEF HistoryRecords
<1>6. /\ history'.lost["AsyncWebhook"] = history.lost["AsyncWebhook"] + (IF kind = "AsyncWebhook" THEN n ELSE 0)
      /\ history'.lost["SyncInterceptor"] = history.lost["SyncInterceptor"] + (IF kind = "SyncInterceptor" THEN n ELSE 0)
  <2> HIDE DEF n
  <2> QED
    BY <1>3, <1>5, SlotFacts DEF Kinds
<1>u. Unheld' = Unheld + (IF kind = "SyncInterceptor" THEN n ELSE 0)
  <2>1. history.lost["SyncInterceptor"] \in Int /\ n \in Int
    BY <1>5 DEF Kinds
  <2> HIDE DEF n
  <2> QED
    BY <1>5, <1>6, <2>1 DEF Unheld
<1>7. handler[h].st \in {"subscribe", "track", "save", "unsubscribe", "unmap"}
  BY <1>1, <1>2, SlotFacts DEF HandlerRecords, HandlerStates
<1>8. /\ SubscriptionSlots(IdleHandler) = 0 /\ InterceptorSlots(IdleHandler) = 0
      /\ SubscriptionSlots(handler[h]) = (IF kind = "AsyncWebhook" THEN n ELSE 0)
      /\ InterceptorSlots(handler[h]) = (IF kind = "SyncInterceptor" THEN n ELSE 0)
  BY <1>1, <1>3, <1>7, Weights, SlotFacts
<1>9. n \in Int
  OBVIOUS
<1>10. IsFiniteSet(tasks') /\ Forwarders' = Forwarders /\ IsFiniteSet(KnownInterceptors') /\ Interceptors' = Interceptors
  BY <1>2, Uncounted
<1> HIDE DEF n
<1>11. CountersFollow(h, IdleHandler) /\ history'.lost["AsyncWebhook"] \in Int /\ Unheld' \in Int
  BY <1>2, <1>6, <1>u, <1>8, <1>9, <1>10, SlotFacts DEF CountersFollow
<1> QED
  BY <1>2, <1>10, <1>11, SlotFacts, MoveBalances

(* A forwarder that ends gives its slot back. *)
LEMMA ForwarderEndsBalances ==
  ASSUME RegistrationInv, SlotsBalanced, NEW id \in Ids, ForwarderEnds(id)
  PROVE  SlotsBalanced'
<1>1. id \in tasks /\ tasks' = tasks \ {id} /\ Adds("AsyncWebhook", -1) /\ UNCHANGED <<known, handler, history>>
  BY DEF ForwarderEnds
<1>2. IsFiniteSet(tasks') /\ Forwarders' = Forwarders - 1
  BY <1>1, TasksChange
<1>3. /\ IsFiniteSet(KnownInterceptors') /\ Interceptors' = Interceptors
      /\ Subscribing' = Subscribing /\ Intercepting' = Intercepting
  BY <1>1, Uncounted
<1>4. count'["AsyncWebhook"] = count["AsyncWebhook"] + -1 /\ count'["SyncInterceptor"] = count["SyncInterceptor"] + 0
  <2>1. "AsyncWebhook" \in Kinds /\ -1 \in Int /\ HttpTypeOK
    BY SlotFacts DEF Kinds
  <2> QED
    BY <1>1, <2>1, CountAdds
<1>5. /\ count'["AsyncWebhook"] = Forwarders' + Subscribing' + history'.lost["AsyncWebhook"]
      /\ count'["SyncInterceptor"] = Interceptors' + Intercepting' + Unheld'
  <2>1. history'.lost = history.lost /\ Unheld' = Unheld
    BY <1>1 DEF Unheld
  <2> QED
    BY <1>2, <1>3, <1>4, <2>1, SlotFacts, SlotsTyped
<1> QED
  BY <1>2, <1>3, <1>5, BalanceFrom

(* What the start makes again takes a slot each. *)
LEMMA RecreateBalances ==
  ASSUME RegistrationInv, SlotsBalanced, Recreate
  PROVE  SlotsBalanced'
<1>1. PICK n : n = NextToMake
  OBVIOUS
<1>2. n.kind \in Kinds /\ handler' = handler
  <2>1. n \in [pid : Nat, kind : Kinds]
    BY <1>1, NextIsLeft, SlotFacts DEF Recreate, HttpTypeOK
  <2> QED
    BY <2>1 DEF Recreate
<1>3. Subscribing' = Subscribing /\ Intercepting' = Intercepting
  BY <1>2, Uncounted
<1>4. history'.lost = history.lost /\ Unheld' = Unheld
  <2>1. history \in HistoryRecords
    BY SlotFacts DEF HttpTypeOK
  <2> QED
    BY <2>1 DEF HistoryRecords, Recreate, Unheld
<1>5. CASE count[n.kind] >= Max(n.kind)
  <2>1. UNCHANGED <<known, tasks, count>>
    BY <1>1, <1>5 DEF Recreate
  <2>2. IsFiniteSet(tasks') /\ Forwarders' = Forwarders /\ IsFiniteSet(KnownInterceptors') /\ Interceptors' = Interceptors
    BY <2>1, Uncounted
  <2> QED
    BY <1>3, <1>4, <2>1, <2>2, SlotFacts, SlotsTyped, BalanceFrom
<1>6. CASE ~ (count[n.kind] >= Max(n.kind))
  <2>1. PICK e, id : e = Entry(fresh, n.kind) /\ id = fresh
    OBVIOUS
  <2>2. /\ known' = known \cup {e} /\ Adds(n.kind, 1)
        /\ tasks' = IF n.kind = "AsyncWebhook" THEN tasks \cup {id} ELSE tasks
    BY <1>1, <1>6, <2>1 DEF Recreate
  <2>3. e \notin known /\ e.kind = n.kind /\ id \notin tasks
    BY <2>1 DEF Entry, RegistrationInv, IdsBelowFresh, HttpTypeOK
  <2>4. /\ IsFiniteSet(KnownInterceptors')
        /\ Interceptors' = Interceptors + (IF n.kind = "SyncInterceptor" THEN 1 ELSE 0)
    BY <2>2, <2>3, KnownAdds
  <2>5. IsFiniteSet(tasks') /\ Forwarders' = Forwarders + (IF n.kind = "AsyncWebhook" THEN 1 ELSE 0)
    <3>1. CASE n.kind = "AsyncWebhook"
      BY <2>2, <2>3, <3>1, TasksChange
    <3>2. CASE n.kind # "AsyncWebhook"
      BY <2>2, <3>2, Uncounted, SlotFacts
    <3> QED
      BY <3>1, <3>2
  <2>6. /\ count'["AsyncWebhook"] = count["AsyncWebhook"] + (IF n.kind = "AsyncWebhook" THEN 1 ELSE 0)
        /\ count'["SyncInterceptor"] = count["SyncInterceptor"] + (IF n.kind = "SyncInterceptor" THEN 1 ELSE 0)
    BY <1>2, <2>2, SlotFacts, CountAdds
  <2>7. /\ count'["AsyncWebhook"] = Forwarders' + Subscribing' + history'.lost["AsyncWebhook"]
        /\ count'["SyncInterceptor"] = Interceptors' + Intercepting' + Unheld'
    <3>1. /\ Subscribing \in Nat /\ Intercepting \in Nat /\ Forwarders \in Nat /\ Interceptors \in Nat
          /\ history.lost["AsyncWebhook"] \in Nat /\ Unheld \in Int
          /\ count["AsyncWebhook"] = Forwarders + Subscribing + history.lost["AsyncWebhook"]
          /\ count["SyncInterceptor"] = Interceptors + Intercepting + Unheld
      BY SlotFacts, SlotsTyped
    <3> QED
      BY <1>3, <1>4, <2>4, <2>5, <2>6, <3>1
  <2> QED
    BY <2>4, <2>5, <2>7, BalanceFrom
<1> QED
  BY <1>5, <1>6

(* A step that touches neither the counters nor what they count. *)
LEMMA SlotsFramed ==
  ASSUME SlotsBalanced, UNCHANGED <<known, tasks, count, handler>>, history'.lost = history.lost, Unheld' = Unheld
  PROVE  SlotsBalanced'
  BY DEF SlotsBalanced, KnownInterceptors, Waiting

(* An entry that is refused had no slot. *)
LEMMA RecreateRefusedBalances ==
  ASSUME RegistrationInv, SlotsBalanced, RecreateRefused
  PROVE  SlotsBalanced'
<1>1. history \in HistoryRecords
  BY SlotFacts DEF HttpTypeOK
<1>2. history'.lost = history.lost /\ Unheld' = Unheld
  BY <1>1 DEF HistoryRecords, RecreateRefused, Unheld
<1> QED
  BY <1>2, SlotsFramed DEF RecreateRefused

(* Nothing registered, nothing counted: at the start of the first process. *)
LEMMA HttpInitBalances == HttpInit => SlotsBalanced
<1> SUFFICES ASSUME HttpInit
             PROVE  SlotsBalanced
  OBVIOUS
<1>1. history.lost["AsyncWebhook"] = 0 /\ Unheld = 0
  BY DEF HttpInit, NewHistory, Kinds, Unheld
<1>2. count["AsyncWebhook"] = 0 /\ count["SyncInterceptor"] = 0 /\ tasks = {}
  BY DEF HttpInit, Kinds
<1>3. KnownInterceptors = {}
  BY DEF HttpInit, KnownInterceptors
<1>4. /\ Waiting("AsyncWebhook", {"subscribe", "track", "save"}) = {}
      /\ Waiting("SyncInterceptor", {"subscribe", "track", "unsubscribe"}) = {}
  BY DEF HttpInit, IdleHandler, Waiting
<1>5. IsFiniteSet({}) /\ Cardinality({}) = 0
  BY FS_EmptySet
<1> QED
  BY <1>1, <1>2, <1>3, <1>4, <1>5 DEF SlotsBalanced

(* And at the start of every other. *)
LEMMA RestartBalances ==
  ASSUME RegistrationInv, Restart
  PROVE  SlotsBalanced'
<1>1. history'.lost["AsyncWebhook"] = 0 /\ Unheld' = 0
  <2>1. history'.lost = [x \in Kinds |-> 0] /\ history'.twice = 0
    BY DEF Restart, RegistrationInv, HttpTypeOK, HistoryRecords
  <2> QED
    BY <2>1 DEF Kinds, Unheld
<1>2. count'["AsyncWebhook"] = 0 /\ count'["SyncInterceptor"] = 0 /\ tasks' = {}
  BY DEF Restart, Forget, Kinds
<1>3. KnownInterceptors' = {}
  BY DEF Restart, Forget, KnownInterceptors
<1>4. /\ Waiting("AsyncWebhook", {"subscribe", "track", "save"})' = {}
      /\ Waiting("SyncInterceptor", {"subscribe", "track", "unsubscribe"})' = {}
  BY DEF Restart, Forget, IdleHandler, Waiting
<1>5. IsFiniteSet({}) /\ Cardinality({}) = 0
  BY FS_EmptySet
<1> QED
  BY <1>1, <1>2, <1>3, <1>4, <1>5 DEF SlotsBalanced

(* Every step keeps the balance. *)
LEMMA StepBalances ==
  ASSUME RegistrationInv, SlotsBalanced, [HttpNext]_httpAll
  PROVE  SlotsBalanced'
<1>1. ASSUME UNCHANGED httpVars
      PROVE  SlotsBalanced'
  BY <1>1, SlotsFramed DEF httpVars, serverVars, Unheld
<1>2. ASSUME NEW h \in Handlers, HandlerStep(h)
      PROVE  SlotsBalanced'
  BY <1>2, SubscribeBalances, SubscribeFailsBalances, TrackBalances, SaveBalances, SaveFailsBalances, RemoveFromBusBalances,
     RemoveEntryBalances DEF HandlerStep
<1>3. ASSUME NEW h \in Handlers,
             \/ Idle(\E kind \in Kinds : Admit(h, kind)) \/ Idle(\E e \in known : BeginRemove(h, e))
             \/ Idle(HandlerStep(h)) \/ Idle(Abandoned(h))
      PROVE  SlotsBalanced'
  BY <1>2, <1>3, AdmitBalances, BeginRemoveBalances, AbandonedBalances DEF Idle
<1>4. CASE Idle(NextWindow) \/ Idle(PublishEvent)
  BY <1>4, SlotsFramed DEF Idle, NextWindow, PublishEvent, Unheld
<1>5. CASE Idle(Recreate) \/ Idle(RecreateRefused)
  BY <1>5, RecreateBalances, RecreateRefusedBalances DEF Idle
<1>6. ASSUME NEW id \in Ids, Takes(id)
      PROVE  SlotsBalanced'
  BY <1>6, SlotsFramed DEF Takes, Unheld
<1>7. ASSUME NEW id \in Ids, Idle(ForwarderEnds(id))
      PROVE  SlotsBalanced'
  BY <1>7, ForwarderEndsBalances DEF Idle
<1>8. CASE Restart
  BY <1>8, RestartBalances
<1>9. CASE UNCHANGED httpAll
  BY <1>1, <1>9 DEF httpAll
<1> QED
  BY <1>1, <1>3, <1>4, <1>5, <1>6, <1>7, <1>8, <1>9 DEF HttpNext

(* For any number of requests at a time, any limits, faults and restarts,     *)
(* each forwarder that runs, each interceptor that can be removed and each    *)
(* request on its way holds exactly one slot, also when a removal races the   *)
(* request that registers; no other slot is held but those of clients that    *)
(* went away, and none is given back twice but that of an interceptor whose   *)
(* request fails after a removal has taken it.                                *)
THEOREM SlotsKept == HttpSpec => []SlotsAccounted
<1>1. RegistrationInv /\ SlotsBalanced => SlotsAccounted
  <2> SUFFICES ASSUME RegistrationInv, SlotsBalanced
               PROVE  SlotsAccounted
    OBVIOUS
  <2>1. count["AsyncWebhook"] = Cardinality(tasks) + Cardinality(Waiting("AsyncWebhook", {"subscribe", "track", "save"}))
                                + history.lost["AsyncWebhook"]
    BY DEF SlotsBalanced
  <2>2. count["SyncInterceptor"] = Cardinality(KnownInterceptors)
          + Cardinality(Waiting("SyncInterceptor", {"subscribe", "track", "unsubscribe"}))
          + history.lost["SyncInterceptor"] - history.twice
    <3>1. Interceptors \in Nat /\ Intercepting \in Nat
      BY SlotFacts, SlotsTyped
    <3>2. history.lost["SyncInterceptor"] \in Int /\ history.twice \in Int
      BY SlotFacts DEF HttpTypeOK, HistoryRecords, Kinds
    <3> QED
      BY <3>1, <3>2 DEF SlotsBalanced, Unheld, Interceptors, Intercepting
  <2> QED
    BY <2>1, <2>2 DEF SlotsAccounted, Waiting, KnownInterceptors
<1>2. (CircuitInv /\ RegistrationInv) /\ SlotsBalanced /\ [HttpNext]_httpAll => SlotsBalanced'
  BY StepBalances
<1>3. HttpSpec => []((CircuitInv /\ RegistrationInv) /\ SlotsBalanced)
  BY <1>2, HttpInitBalances, HttpInvariants, PTL DEF HttpSpec
<1> QED
  BY <1>1, <1>3, PTL
=============================================================================
