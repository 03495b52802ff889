------------------------------ MODULE Dispatch ------------------------------
(***************************************************************************)
(* The core of seidrum-eventbus: the publish pipeline (dispatch/engine.rs), *)
(* the retry task (delivery/retry.rs) and the compaction task               *)
(* (storage/compaction.rs), running concurrently over one event store.      *)
(*                                                                          *)
(* Each await point of the code is a step boundary: a store operation, an   *)
(* acquisition of the subscription lock, a try_send or an interceptor call  *)
(* is one action, and any other task may run between two of them.           *)
(*                                                                          *)
(* A payload is the set of interceptors that have modified it, {} being     *)
(* what the publisher sent and what the store keeps.                        *)
(***************************************************************************)
EXTENDS EventStore

CONSTANTS
  Publishers,        \* tasks that call publish or replay_dead_lettered
  Interceptors,      \* sync subscribers that have an interceptor
  SyncSubs,          \* sync subscribers that are served through a channel
  AsyncSubs,         \* async subscribers
  Rank,              \* subscriber -> its place in the order in which lookup() sorts
  Matches,           \* subject -> the subscribers whose pattern matches it
  Filtered,          \* the subscribers that have an EventFilter
  Channel,           \* subscriber -> its ChannelConfig
  ChannelCapacity,   \* DEFAULT_CHANNEL_CAPACITY
  Early,             \* the subscribers there are when the bus starts to be used
  Busy,              \* the subscribers whose channels also carry other events
  InterceptOutcomes, \* what an interceptor call may come to: "Pass" is Pass or Modified
  QueryLimit,        \* the retry task's query_limit
  StoreMayFail,      \* TRUE: a store write may return an error
  ReplayAllowed,     \* TRUE: an operator replays dead letters
  PurgeAllowed,      \* TRUE: an operator purges dead letters
  MaxCrashes         \* bound on the number of restarts

ASSUME DispatchAssumption ==
  /\ Interceptors \cup SyncSubs \cup AsyncSubs = Subscribers
  /\ IsFiniteSet(Subscribers)
  /\ Interceptors \cap SyncSubs = {} /\ (Interceptors \cup SyncSubs) \cap AsyncSubs = {}
  /\ Rank \in [Subscribers -> Nat] /\ \A s, t \in Subscribers : Rank[s] = Rank[t] => s = t
  /\ Matches \in [Subjects -> SUBSET Subscribers]
  /\ Filtered \subseteq Subscribers \ Interceptors
  /\ Early \subseteq Subscribers /\ Busy \subseteq Subscribers \ Interceptors
  /\ Channel \in [Subscribers -> {"InProcess", "Webhook", "Custom", "WebSocket"}]
  /\ \A i \in Interceptors : Channel[i] = "InProcess"
  /\ InterceptOutcomes \subseteq {"Pass", "Drop", "Abort"}
  /\ ChannelCapacity \in Nat /\ QueryLimit \in Nat
  /\ StoreMayFail \in BOOLEAN /\ ReplayAllowed \in BOOLEAN
  /\ MaxCrashes \in Nat

VARIABLES
  subs,      \* subscriber -> "new", "live" (in index, senders, interceptors), "gone"
  rxOpen,    \* subscriber -> its receiver has not been dropped
  chan,      \* subscriber -> number of events waiting in its channel
  pub,       \* publisher -> the state of its call
  retry,     \* the state of the retry task
  crashes,   \* number of restarts so far
  sent,      \* history: event -> subscriber -> the copies that got through
  owed,      \* history: event -> the subscribers left after the filters
  modified,  \* history: event -> the interceptors that changed it in time
  droppedBy, \* history: event -> the interceptors that dropped it
  reused     \* history: number -> "unused", "once", or "again" if given out twice

busVars == <<subs, rxOpen, chan, crashes>>
history == <<sent, owed, modified, droppedBy, reused>>
vars == <<events, clock, subs, rxOpen, chan, pub, retry, crashes,
          sent, owed, modified, droppedBy, reused>>

-----------------------------------------------------------------------------
(* Tasks                                                                    *)

\* A publisher between two calls.
IdlePub ==
  [pc |-> "idle", seq |-> 0, subj |-> "none", phase |-> "sync", todo |-> {},
   rest |-> {}, handles |-> {}, payload |-> {}, failed |-> FALSE,
   out |-> "None", dropped |-> FALSE]

\* The retry task between two polls.
IdleRetry == [pc |-> "idle", batch |-> <<>>, out |-> "None", final |-> "None"]

Live == {s \in Subscribers : subs[s] = "live"}

\* A store write whose error is only logged: it happens, or it is lost.
BestEffort(write) == write \/ (StoreMayFail /\ UNCHANGED events)

\* A list of entries is sorted by priority: it is its set, taken from the front.
First(entries) == CHOOSE s \in entries : \A t \in entries : Rank[s] <= Rank[t]
Rest(entries) == entries \ {First(entries)}

\* SubjectIndex::lookup: the live matching entries.
Lookup(subj) == Live \cap Matches[subj]

-----------------------------------------------------------------------------
(* Channels: a bounded mpsc channel per subscription                        *)

CanSend(s) == rxOpen[s] /\ chan[s] < ChannelCapacity

\* The subscribers outside the process, which the retry task reaches by an HTTP
\* request or over a WebSocket: their answer may be lost or come too late.
Remote == {s \in Subscribers : Channel[s] \in {"Webhook", "Custom"}}

\* Bound: the history keeps more copies of an event than its attempts can make.
SentKept == MaxAttempts + 1

\* A copy that got through: what it carried, who sent it, and what its sender was
\* answered, "Ok" or "Failed".
Through(q, s, payload, by, answer) ==
  sent' = [sent EXCEPT ![q][s] =
             IF Len(@) < SentKept
             THEN Append(@, [payload |-> payload, by |-> by, answer |-> answer]) ELSE @]

Enqueue(q, s, payload, by) ==
  /\ chan' = [chan EXCEPT ![s] = @ + 1]
  /\ Through(q, s, payload, by, "Ok")

-----------------------------------------------------------------------------
(* Subscriptions: each change takes the write lock once                     *)

\* subscribe and intercept: index, senders and interceptors change together.
Subscribe(s) ==
  /\ subs[s] = "new"
  /\ subs' = [subs EXCEPT ![s] = "live"]
  /\ UNCHANGED <<events, clock, rxOpen, chan, pub, retry, crashes, history>>

Unsubscribe(s) ==
  /\ subs[s] = "live"
  /\ subs' = [subs EXCEPT ![s] = "gone"]
  /\ UNCHANGED <<events, clock, rxOpen, chan, pub, retry, crashes, history>>

\* The subscriber takes an event from its channel.
Receive(s) ==
  /\ chan[s] > 0 /\ rxOpen[s]
  /\ chan' = [chan EXCEPT ![s] = @ - 1]
  /\ UNCHANGED <<events, clock, subs, rxOpen, pub, retry, crashes, history>>

\* The dispatch of an event outside the model, of another subject that the
\* pattern matches, puts it into the channel.
OtherEvent(s) ==
  /\ s \in Busy \cap Live /\ CanSend(s)
  /\ chan' = [chan EXCEPT ![s] = @ + 1]
  /\ UNCHANGED <<events, clock, subs, rxOpen, pub, retry, crashes, history>>

\* The subscriber drops its receiver without unsubscribing.
CloseReceiver(s) ==
  /\ s \notin Interceptors /\ subs[s] = "live" /\ rxOpen[s]
  /\ rxOpen' = [rxOpen EXCEPT ![s] = FALSE]
  /\ UNCHANGED <<events, clock, subs, chan, pub, retry, crashes, history>>

-----------------------------------------------------------------------------
(* The publish pipeline                                                     *)

\* A dispatch of the number starts.
FreshDispatch(q) ==
  /\ owed' = [owed EXCEPT ![q] = {}]
  /\ modified' = [modified EXCEPT ![q] = {}]
  /\ droppedBy' = [droppedBy EXCEPT ![q] = {}]

\* publish_event: 1. PERSIST.
Publish(p, subj) ==
  /\ pub[p].pc = "idle"
  /\ AppendEvent(subj)
  /\ pub' = [pub EXCEPT ![p] = [IdlePub EXCEPT !.pc = "resolve", !.seq = NextSeq,
                                               !.subj = subj]]
  /\ sent' = [sent EXCEPT ![NextSeq] = [s \in Subscribers |-> <<>>]]
  /\ reused' = [reused EXCEPT ![NextSeq] = IF @ = "unused" THEN "once" ELSE "again"]
  /\ FreshDispatch(NextSeq)
  /\ UNCHANGED <<clock, busVars, retry>>

\* replay_dead_lettered, first half: get the event and check its status.
ReplayGet(p, q) ==
  /\ ReplayAllowed
  /\ pub[p].pc = "idle"
  /\ q \in Stored /\ events[q].status = "DeadLettered"
  /\ pub' = [pub EXCEPT ![p] = [IdlePub EXCEPT !.pc = "requeue", !.seq = q,
                                               !.subj = events[q].subject]]
  /\ UNCHANGED <<events, clock, busVars, retry, history>>

\* replay_dead_lettered, second half: requeue it.  It is an error if the event
\* has changed since, or if the store fails.
ReplayRequeue(p) ==
  /\ pub[p].pc = "requeue"
  /\ LET q == pub[p].seq IN
       \/ /\ RequeueDeadLettered(q)
          /\ FreshDispatch(q)
          /\ pub' = [pub EXCEPT ![p].pc = "resolve"]
          /\ UNCHANGED <<sent, reused>>
       \/ /\ StoreMayFail \/ ~ (q \in Stored /\ events[q].status = "DeadLettered")
          /\ pub' = [pub EXCEPT ![p] = IdlePub]
          /\ UNCHANGED <<events, history>>
  /\ UNCHANGED <<clock, busVars, retry>>

\* 2. RESOLVE, under the read lock.
Resolve(p) ==
  /\ pub[p].pc = "resolve"
  /\ LET m == Lookup(pub[p].subj) IN
       pub' = [pub EXCEPT ![p].todo = m, ![p].pc = IF m = {} THEN "close" ELSE "open"]
  /\ UNCHANGED <<events, clock, busVars, retry, history>>

\* Mark the event Dispatching, then 3. FILTER the matches on the original
\* payload and split them by mode.
MarkDispatching(p) ==
  /\ pub[p].pc = "open"
  /\ BestEffort(UpdateStatus(pub[p].seq, "Dispatching"))
  /\ \E rejected \in SUBSET (Filtered \cap pub[p].todo) :
       LET kept == pub[p].todo \ rejected IN
       /\ pub' = [pub EXCEPT ![p].todo = kept \ AsyncSubs,
                             ![p].rest = kept \cap AsyncSubs,
                             ![p].pc = IF kept = {} THEN "close" ELSE "snapshot"]
       /\ owed' = [owed EXCEPT ![pub[p].seq] = kept]
  /\ UNCHANGED <<clock, busVars, retry, sent, modified, droppedBy, reused>>

\* 4. SYNC CHAIN and 5. ASYNC FAN-OUT both begin with a snapshot of the
\* handles of their entries, under the read lock.
SnapshotSync(p) ==
  /\ pub[p].pc = "snapshot"
  /\ pub' = [pub EXCEPT ![p].handles = Live \cap pub[p].todo, ![p].pc = "deliver"]
  /\ UNCHANGED <<events, clock, busVars, retry, history>>

SnapshotAsync(p) ==
  /\ pub[p].pc = "deliver" /\ pub[p].todo = {} /\ pub[p].phase = "sync"
  /\ pub' = [pub EXCEPT ![p].phase = "async", ![p].todo = pub[p].rest,
                        ![p].handles = Live \cap pub[p].rest]
  /\ UNCHANGED <<events, clock, busVars, retry, history>>

\* Mutant: the interceptor works on the payload itself, so that one that panics
\* half way leaves its changes behind.
InterceptInPlace(p) ==
  /\ pub[p].pc = "deliver" /\ pub[p].todo # {}
  /\ First(pub[p].todo) \in Interceptors \cap pub[p].handles
  /\ \E o \in InterceptOutcomes, mutates \in BOOLEAN :
       LET s == First(pub[p].todo)
           q == pub[p].seq
           changed == IF mutates THEN {s} ELSE {}
       IN  /\ pub' = [pub EXCEPT
                ![p].payload = @ \cup changed,
                ![p].out = IF o = "Abort" THEN "DeadLettered" ELSE "Delivered",
                ![p].failed = @ \/ o = "Abort",
                ![p].dropped = (o = "Drop"),
                ![p].pc = "record"]
           /\ modified' = [modified EXCEPT ![q] = IF o = "Abort" THEN @ ELSE @ \cup changed]
           /\ droppedBy' = [droppedBy EXCEPT ![q] = IF o = "Drop" THEN @ \cup {s} ELSE @]
  /\ UNCHANGED <<events, clock, busVars, retry, sent, owed, reused>>

\* Mutant: the interceptor is awaited without a timeout, and hangs.
InterceptNoTimeout(p) ==
  /\ pub[p].pc = "deliver" /\ pub[p].todo # {}
  /\ First(pub[p].todo) \in Interceptors \cap pub[p].handles
  /\ \/ pub' = [pub EXCEPT ![p].out = "Delivered", ![p].pc = "record"]
     \/ pub' = [pub EXCEPT ![p].pc = "hung"]
  /\ UNCHANGED <<events, clock, busVars, retry, history>>

\* An interceptor runs in a task of its own, on a copy of the payload and
\* under a timeout.  When it answers in time its copy replaces the payload,
\* whatever the answer; a panic, a cancellation or a timeout ("Abort") leaves
\* the payload as it was and is terminal for the delivery.
Intercept(p) ==
  /\ pub[p].pc = "deliver" /\ pub[p].todo # {}
  /\ First(pub[p].todo) \in Interceptors \cap pub[p].handles
  /\ \E o \in InterceptOutcomes, mutates \in BOOLEAN :
       LET s == First(pub[p].todo)
           q == pub[p].seq
           changed == IF o # "Abort" /\ mutates THEN {s} ELSE {}
       IN  /\ pub' = [pub EXCEPT
                ![p].payload = @ \cup changed,
                ![p].out = IF o = "Abort" THEN "DeadLettered" ELSE "Delivered",
                ![p].failed = @ \/ o = "Abort",
                ![p].dropped = (o = "Drop"),
                ![p].pc = "record"]
           /\ modified' = [modified EXCEPT ![q] = @ \cup changed]
           /\ droppedBy' = [droppedBy EXCEPT ![q] = IF o = "Drop" THEN @ \cup {s} ELSE @]
  /\ UNCHANGED <<events, clock, busVars, retry, sent, owed, reused>>

\* Mutant: the result of try_send is ignored.
SendUnchecked(p) ==
  /\ pub[p].pc = "deliver" /\ pub[p].todo # {}
  /\ LET s == First(pub[p].todo) IN
       /\ s \in pub[p].handles \ Interceptors
       /\ pub' = [pub EXCEPT ![p].out = "Delivered", ![p].pc = "record"]
       /\ IF CanSend(s) THEN Enqueue(pub[p].seq, s, pub[p].payload, "dispatch")
                        ELSE UNCHANGED <<chan, sent>>
  /\ UNCHANGED <<events, clock, subs, rxOpen, crashes, retry, owed, modified, droppedBy, reused>>

\* try_send through the sender of the snapshot: the subscription may have been
\* removed since.
SendToChannel(p) ==
  /\ pub[p].pc = "deliver" /\ pub[p].todo # {}
  /\ LET s == First(pub[p].todo) IN
       /\ s \in pub[p].handles \ Interceptors
       /\ pub' = [pub EXCEPT ![p].out = IF CanSend(s) THEN "Delivered" ELSE "Failed",
                             ![p].failed = @ \/ ~ CanSend(s),
                             ![p].pc = "record"]
       /\ IF CanSend(s) THEN Enqueue(pub[p].seq, s, pub[p].payload, "dispatch")
                        ELSE UNCHANGED <<chan, sent>>
  /\ UNCHANGED <<events, clock, subs, rxOpen, crashes, retry, owed, modified, droppedBy, reused>>

\* Mutant: a removed entry is passed over without a record.
HandleSkipped(p) ==
  /\ pub[p].pc = "deliver" /\ pub[p].todo # {}
  /\ First(pub[p].todo) \notin pub[p].handles
  /\ pub' = [pub EXCEPT ![p].todo = Rest(@)]
  /\ UNCHANGED <<events, clock, busVars, retry, history>>

\* The entry was removed between the lookup and the snapshot.
HandleMissing(p) ==
  /\ pub[p].pc = "deliver" /\ pub[p].todo # {}
  /\ First(pub[p].todo) \notin pub[p].handles
  /\ pub' = [pub EXCEPT ![p].out = "Failed", ![p].failed = TRUE, ![p].pc = "record"]
  /\ UNCHANGED <<events, clock, busVars, retry, history>>

\* try_record, and on to the next entry, or out of the chain after a Drop.
RecordOutcome(p) ==
  /\ pub[p].pc = "record"
  /\ BestEffort(RecordDelivery(pub[p].seq, First(pub[p].todo), pub[p].out,
                               IF pub[p].out = "Failed" THEN NextRetryAfter ELSE NoRetry))
  /\ pub' = [pub EXCEPT ![p].todo = Rest(@),
                        ![p].pc = IF pub[p].dropped THEN "close" ELSE "deliver"]
  /\ UNCHANGED <<clock, busVars, retry, history>>

\* No subscriber, all filtered, or dropped: mark the event Delivered, return.
CloseDelivered(p) ==
  /\ pub[p].pc = "close"
  /\ BestEffort(UpdateStatus(pub[p].seq, "Delivered"))
  /\ pub' = [pub EXCEPT ![p] = IdlePub]
  /\ UNCHANGED <<clock, busVars, retry, history>>

\* 6. FINALIZE
Finalize(p) ==
  /\ pub[p].pc = "deliver" /\ pub[p].todo = {} /\ pub[p].phase = "async"
  /\ BestEffort(UpdateStatus(pub[p].seq, IF pub[p].failed THEN "PartiallyDelivered"
                                                          ELSE "Delivered"))
  /\ pub' = [pub EXCEPT ![p] = IdlePub]
  /\ UNCHANGED <<clock, busVars, retry, history>>

-----------------------------------------------------------------------------
(* The retry task                                                           *)

\* The batch without the delivery just dealt with.
NextDelivery ==
  [IdleRetry EXCEPT !.batch = Tail(retry.batch),
                    !.pc = IF Tail(retry.batch) = <<>> THEN "idle" ELSE "attempt"]

\* poll_and_retry: the snapshot the whole batch is worked from.
PollRetryable ==
  /\ retry.pc = "idle"
  /\ \E b \in QueryRetryable(MaxAttempts, QueryLimit) :
       /\ b # <<>>
       /\ retry' = [IdleRetry EXCEPT
            !.pc = "attempt",
            !.batch = [i \in DOMAIN b |->
                         [seq |-> b[i][1], sub |-> b[i][2],
                          attempts |-> events[b[i][1]].deliveries[b[i][2]].attempts]]]
  /\ UNCHANGED <<events, clock, busVars, pub, history>>

\* retry_to_subscriber, by the kind of channel.  A subscriber that is gone, an
\* interceptor (it has no sender) and a WebSocket subscription are permanent
\* failures; a full or a closed in-process channel is a transient one; a
\* webhook or a custom channel may come to anything.  WebhookChannel::deliver
\* fails on a request that ran into its timeout and on every status but 2xx,
\* WsRemoteChannel::deliver on a reply that is late, lost or negative.
RetryResults(s) ==
  IF s \notin Live \/ s \in Interceptors \/ Channel[s] = "WebSocket" THEN {"Permanent"}
  ELSE IF s \in Remote THEN {"Ok", "Transient", "Permanent"}
  ELSE IF CanSend(s) THEN {"Ok"} ELSE {"Transient"}

\* Whether an attempt with this result got the event through.  A failure of a
\* remote channel leaves it open: the receiver may have taken the event before
\* the answer was lost, came too late or said otherwise.
GotThrough(s, result) ==
  IF result = "Ok" THEN {TRUE}
  ELSE IF s \in Live \cap Remote THEN BOOLEAN
  ELSE {FALSE}

\* Mutant: the last attempt is not recognised.
RetryOutcomeLate(result, attempts) ==
  IF result = "Ok" THEN "Delivered"
  ELSE IF result = "Permanent" \/ attempts + 1 > MaxAttempts THEN "DeadLettered" ELSE "Failed"

\* The delivery status the retry task records for a result: a transient
\* failure that uses up the last attempt is dead-lettered.
RetryOutcome(result, attempts) ==
  IF result = "Ok" THEN "Delivered"
  ELSE IF result = "Permanent" \/ attempts + 1 >= MaxAttempts THEN "DeadLettered" ELSE "Failed"

\* retry_delivery, up to the attempt: the payload sent is the stored one.
RetryAttempt ==
  /\ retry.pc = "attempt"
  /\ LET d == Head(retry.batch) IN
       \E result \in RetryResults(d.sub) : \E through \in GotThrough(d.sub, result) :
         /\ retry' = [retry EXCEPT !.out = RetryOutcome(result, d.attempts), !.pc = "record"]
         /\ IF ~ through THEN UNCHANGED <<chan, sent>>
            ELSE IF Channel[d.sub] = "InProcess" THEN Enqueue(d.seq, d.sub, {}, "retry")
            ELSE /\ Through(d.seq, d.sub, {}, "retry", IF result = "Ok" THEN "Ok" ELSE "Failed")
                 /\ UNCHANGED chan
  /\ UNCHANGED <<events, clock, subs, rxOpen, crashes, pub, owed, modified, droppedBy, reused>>

\* Record the outcome; a terminal one may settle the whole event.
RetryRecord ==
  /\ retry.pc = "record"
  /\ LET d == Head(retry.batch) IN
       BestEffort(RecordDelivery(d.seq, d.sub, retry.out,
                                 IF retry.out = "Failed" THEN NextRetryAfter ELSE NoRetry))
  /\ retry' = IF retry.out = "Failed" THEN NextDelivery ELSE [retry EXCEPT !.pc = "settle"]
  /\ UNCHANGED <<clock, busVars, pub, history>>

\* The status maybe_finalize_event would give the event, "None" for no change:
\* a record for every delivery made so far, each of them terminal.
SettledStatus(e) ==
  IF \E s \in Subscribers : e.deliveries[s].status = "Failed" THEN "None"
  ELSE IF \E s \in Subscribers : e.deliveries[s].status = "DeadLettered"
       THEN "DeadLettered" ELSE "Delivered"

\* maybe_finalize_event, first half: load the event and decide.
SettleGet ==
  /\ retry.pc = "settle"
  /\ LET q == Head(retry.batch).seq IN
       \/ /\ q \in Stored /\ SettledStatus(events[q]) # "None"
          /\ retry' = [retry EXCEPT !.pc = "put", !.final = SettledStatus(events[q])]
       \/ /\ StoreMayFail \/ ~ (q \in Stored /\ SettledStatus(events[q]) # "None")
          /\ retry' = NextDelivery
  /\ UNCHANGED <<events, clock, busVars, pub, history>>

\* maybe_finalize_event, second half: write what was decided.
SettlePut ==
  /\ retry.pc = "put"
  /\ BestEffort(UpdateStatus(Head(retry.batch).seq, retry.final))
  /\ retry' = NextDelivery
  /\ UNCHANGED <<clock, busVars, pub, history>>

-----------------------------------------------------------------------------
(* Compaction, the operator, time and restarts                              *)

CompactionTick == Compact /\ UNCHANGED <<clock, busVars, pub, retry, history>>

PurgeDeadLetter(q) ==
  /\ PurgeAllowed
  /\ PurgeDeadLettered(q)
  /\ UNCHANGED <<clock, busVars, pub, retry, history>>

TimePasses == Tick /\ UNCHANGED <<busVars, pub, retry, history>>

\* The process stops and starts again on the same store.  Every subscription
\* id of the old process is gone; the events and their status are as the last
\* write left them, and nothing looks for the ones that were not finished.
Crash ==
  /\ crashes < MaxCrashes
  /\ crashes' = crashes + 1
  /\ subs' = [s \in Subscribers |-> IF subs[s] = "live" THEN "gone" ELSE subs[s]]
  /\ chan' = [s \in Subscribers |-> 0]
  /\ pub' = [p \in Publishers |-> IdlePub]
  /\ retry' = IdleRetry
  /\ UNCHANGED <<events, clock, rxOpen, history>>

-----------------------------------------------------------------------------
Init ==
  /\ StoreInit
  /\ subs = [s \in Subscribers |-> IF s \in Early THEN "live" ELSE "new"]
  /\ rxOpen = [s \in Subscribers |-> TRUE]
  /\ chan = [s \in Subscribers |-> 0]
  /\ pub = [p \in Publishers |-> IdlePub]
  /\ retry = IdleRetry
  /\ crashes = 0
  /\ sent = [q \in Seqs |-> [s \in Subscribers |-> <<>>]]
  /\ owed = [q \in Seqs |-> {}]
  /\ modified = [q \in Seqs |-> {}]
  /\ droppedBy = [q \in Seqs |-> {}]
  /\ reused = [q \in Seqs |-> "unused"]

\* One step of the call a publisher has under way.
PublisherStep(p) ==
  \/ ReplayRequeue(p) \/ Resolve(p) \/ MarkDispatching(p)
  \/ SnapshotSync(p) \/ SnapshotAsync(p)
  \/ Intercept(p) \/ SendToChannel(p) \/ HandleMissing(p) \/ RecordOutcome(p)
  \/ CloseDelivered(p) \/ Finalize(p)

RetryStep ==
  PollRetryable \/ RetryAttempt \/ RetryRecord \/ SettleGet \/ SettlePut

Next ==
  \/ \E p \in Publishers, subj \in Subjects : Publish(p, subj)
  \/ \E p \in Publishers, q \in Seqs : ReplayGet(p, q)
  \/ \E p \in Publishers : PublisherStep(p)
  \/ RetryStep
  \/ \E s \in Subscribers :
       Subscribe(s) \/ Unsubscribe(s) \/ Receive(s) \/ OtherEvent(s) \/ CloseReceiver(s)
  \/ CompactionTick
  \/ \E q \in Seqs : PurgeDeadLetter(q)
  \/ TimePasses
  \/ Crash

Spec == Init /\ [][Next]_vars

\* The tokio scheduler runs every task that can make progress, the retry task
\* polls for ever on its interval, and time passes.  Nothing is assumed of the
\* publishers' callers, of the subscribers or of the operator.
Fairness ==
  /\ \A p \in Publishers : WF_vars(PublisherStep(p))
  /\ WF_vars(RetryStep)
  /\ WF_vars(TimePasses)

FairSpec == Spec /\ Fairness

-----------------------------------------------------------------------------
(* Properties                                                               *)

\* Every variable has its type; in particular a channel never holds more than
\* its capacity.
TypeOK ==
  /\ StoreTypeOK
  /\ subs \in [Subscribers -> {"new", "live", "gone"}]
  /\ rxOpen \in [Subscribers -> BOOLEAN]
  /\ chan \in [Subscribers -> 0..ChannelCapacity]
  /\ \A p \in Publishers :
       /\ pub[p].pc \in {"idle", "requeue", "resolve", "open", "snapshot",
                         "deliver", "record", "close"}
       /\ pub[p].pc # "idle" => pub[p].seq \in Seqs /\ pub[p].subj \in Subjects
       /\ pub[p].pc = "record" => pub[p].todo # {}
       /\ pub[p].handles \subseteq Subscribers /\ pub[p].payload \subseteq Interceptors
       /\ pub[p].todo \cup pub[p].rest \subseteq Subscribers
  /\ retry.pc \in {"idle", "attempt", "record", "settle", "put"}
  /\ retry.pc # "idle" => retry.batch # <<>>
  /\ \A i \in DOMAIN retry.batch :
       /\ retry.batch[i].seq \in Seqs /\ retry.batch[i].sub \in Subscribers
       /\ retry.batch[i].attempts \in Nat
  /\ crashes \in 0..MaxCrashes
  /\ owed \in [Seqs -> SUBSET Subscribers]
  /\ modified \in [Seqs -> SUBSET Interceptors] /\ droppedBy \in [Seqs -> SUBSET Interceptors]
  /\ reused \in [Seqs -> {"unused", "once", "again"}]

Delivery(q, s) == events[q].deliveries[s]

\* A publisher is dispatching the event.
InDispatch(q) == \E p \in Publishers : pub[p].pc \notin {"idle", "requeue"} /\ pub[p].seq = q

\* The retry task has made its attempt at this delivery and not yet recorded it.
InRetry(q, s) ==
  retry.pc = "record" /\ Head(retry.batch).seq = q /\ Head(retry.batch).sub = s

\* s comes after i in the order of delivery: the sync chain in priority order,
\* then the async subscribers.
After(i, s) ==
  \/ s \in AsyncSubs
  \/ Rank[i] < Rank[s]

\* The number has to be its event's own: once compaction or a purge has taken the
\* last event, append gives its number to the next one, and what is still under
\* way for the old event is recorded on the new one.
OwnNumber(q) == reused[q] = "once"

\* A copy went through, and its sender knows.
Acked(q, s) == \E i \in DOMAIN sent[q][s] : sent[q][s][i].answer = "Ok"

\* Nothing is lost and nothing is made up: once the dispatch of an event that
\* was not dropped is over, every channel subscriber it was meant for (the ones
\* that unsubscribed or stopped reading half way included) has a record, and
\* the record says Delivered exactly when a copy went through and the sender was
\* told so.  A record that says anything else means that no copy went through,
\* but for a webhook or a remote channel, which may have taken one and whose
\* answer did not arrive.  The dispatcher's copy is through once it is in the
\* channel of the subscription: what the task that reads it does with it, such as
\* the HTTP transport's POST to a webhook, whose failure is only logged, is not
\* on record.
NothingLost ==
  \A q \in Stored : \A s \in owed[q] \ Interceptors :
    OwnNumber(q) /\ droppedBy[q] = {} /\ ~ InDispatch(q) /\ ~ InRetry(q, s) =>
      /\ Delivery(q, s).status # "None"
      /\ Delivery(q, s).status = "Delivered" <=> Acked(q, s)
      /\ sent[q][s] # <<>> /\ s \notin Remote => Delivery(q, s).status = "Delivered"

\* A channel subscriber whose record says Delivered was sent the event, after
\* whatever store failures, restarts and replays.
DeliveredWasSent ==
  \A q \in Stored : \A s \in Subscribers \ Interceptors :
    OwnNumber(q) /\ Delivery(q, s).status = "Delivered" => sent[q][s] # <<>>

\* As long as every outcome can be recorded, dispatcher and retry task together
\* send a subscriber no copy of an event after one that was acknowledged, and
\* nobody inside the process a second one.  A webhook or a remote channel, which
\* fails when its answer is lost, is given no more copies than it has attempts.
NoDuplicateDelivery ==
  \A q \in Seqs, s \in Subscribers : OwnNumber(q) =>
    /\ \A i \in DOMAIN sent[q][s] : sent[q][s][i].answer = "Ok" => i = Len(sent[q][s])
    /\ Len(sent[q][s]) <= 1 \/ (s \in Remote /\ Len(sent[q][s]) < MaxAttempts)

\* The chain is kept, however many interceptors panic or time out half way: what
\* the dispatcher sends carries the changes of exactly the interceptors that come
\* before the subscriber and answered in time, and a dropped event reaches nobody
\* who comes after the interceptor that dropped it, neither from the dispatcher
\* nor from the retry task.
ChainOrder ==
  \A q \in Seqs, s \in Subscribers : OwnNumber(q) =>
    /\ \A i \in DOMAIN sent[q][s] :
         sent[q][s][i].by = "dispatch" =>
           sent[q][s][i].payload = {j \in modified[q] : After(j, s)}
    /\ q \in Stored /\ (\E i \in droppedBy[q] : After(i, s))
         => sent[q][s] = <<>> /\ Delivery(q, s).status = "None"

\* A write that arrives late, after compaction or a purge has removed its event,
\* is lost: a removed event comes back only as a new one.
NoResurrection ==
  [][\A q \in Seqs :
       events[q] = NoEvent /\ events'[q] # NoEvent =>
         \E subj \in Subjects : events'[q] = NewEvent(subj)]_vars

\* A failed delivery is not forgotten: the retry task delivers it or
\* dead-letters it, even if the subscriber never reads again.
FailedResolved ==
  \A q \in Seqs, s \in Subscribers :
    (q \in Stored /\ Delivery(q, s).status = "Failed")
      ~> (q \in Stored => Delivery(q, s).status # "Failed")

\* A publish call returns, whatever interceptors and subscribers do.
PublishReturns == \A p \in Publishers : (pub[p].pc # "idle") ~> (pub[p].pc = "idle")

=============================================================================
