----------------------------- MODULE EventStore -----------------------------
(***************************************************************************)
(* The durable event store of seidrum-eventbus: the EventStore trait        *)
(* (storage/mod.rs) as InMemoryEventStore (storage/memory_store.rs)         *)
(* implements it.  Each operation of the trait holds one lock, or one       *)
(* write transaction, for all of its reads and writes, so each one is one   *)
(* atomic action here.                                                      *)
(*                                                                          *)
(* The event table is a function of the sequence number: NoEvent where no   *)
(* event is stored.  The deliveries Vec holds at most one record for each   *)
(* subscriber_id (record_delivery looks for one before it pushes), so it    *)
(* is a function of the subscriber.  The payload, the reply subject and     *)
(* the error text are stored once and never read back by the store, and     *)
(* are left out; payloads are followed in module Dispatch.                  *)
(***************************************************************************)
EXTENDS Integers, FiniteSets, Sequences, FiniteSetsExt

CONSTANTS
  Subjects,      \* the subjects events are published to
  Subscribers,   \* subscription ids: ULIDs, never reused
  MaxSeq,        \* bound: the highest sequence number the model hands out
  MaxClock,      \* bound: the clock stops here, and every timer is then due
  Retention,     \* compaction removes terminal events older than this
  MaxAttempts    \* RetryConfig::max_attempts

ASSUME StoreAssumption ==
  /\ MaxSeq \in Nat
  /\ MaxClock \in Nat
  /\ Retention \in Nat
  /\ MaxAttempts \in Nat

VARIABLES
  events,        \* the events table
  clock          \* the wall clock that current_time_ms() reads

storeVars == <<events, clock>>

-----------------------------------------------------------------------------
(* Types: storage/types.rs                                                  *)

EventStatus ==
  {"Pending", "Dispatching", "Delivered", "PartiallyDelivered", "DeadLettered"}

\* DeliveryStatus::Pending is declared and never written; "None" stands for
\* "no record for this subscriber".
DeliveryStatus == {"Delivered", "Failed", "DeadLettered"}

Seqs == 1..MaxSeq

\* next_retry is None exactly when it is 0: is_retryable and the sort key of
\* query_retryable both treat None as the earliest instant.
NoRetry == 0

DeliveryRecord ==
  [status : DeliveryStatus \cup {"None"}, attempts : Nat, nextRetry : Nat]

NoDelivery == [status |-> "None", attempts |-> 0, nextRetry |-> NoRetry]

StoredEvent ==
  [subject : Subjects, storedAt : Nat, status : EventStatus,
   deliveries : [Subscribers -> DeliveryRecord]]

NoEvent == [status |-> "None"]

\* The sequence numbers an event is stored under.
Stored == {q \in Seqs : events[q] # NoEvent}

\* The store is typed: every slot holds a well-formed event or nothing.
StoreTypeOK ==
  /\ events \in [Seqs -> StoredEvent \cup {NoEvent}]
  /\ clock \in Nat

-----------------------------------------------------------------------------
(* What the operations read                                                 *)

\* append takes the number after the last stored one, or 1.
NextSeq == IF Stored = {} THEN 1 ELSE Max(Stored) + 1

NewEvent(subj) ==
  [subject |-> subj, storedAt |-> clock, status |-> "Pending",
   deliveries |-> [s \in Subscribers |-> NoDelivery]]

\* next_retry_after: now plus a backoff that is never 0 (the jitter is smaller
\* than the capped backoff), one tick of the clock here.
NextRetryAfter == IF clock < MaxClock THEN clock + 1 ELSE MaxClock

\* Mutant: a delivery is retried whatever became of it.
IsRetryableAnyStatus(d, maxAttempts) ==
  /\ d.status # "None"
  /\ d.attempts < maxAttempts
  /\ d.nextRetry <= clock

\* DeliveryRecord::is_retryable
IsRetryable(d, maxAttempts) ==
  /\ d.status = "Failed"
  /\ d.attempts < maxAttempts
  /\ d.nextRetry <= clock

TerminalEvent(e) == e.status \in {"Delivered", "DeadLettered"}

HasFailed(e) == \E s \in Subscribers : e.deliveries[s].status = "Failed"

\* The events compact(Retention) removes.
Expired ==
  {q \in Stored : TerminalEvent(events[q]) /\ events[q].storedAt < clock - Retention}

\* The delivery record after record_delivery(.., st, .., nextRetry).
Recorded(d, st, nextRetry) ==
  IF d.status = "None"
  THEN [status |-> st, attempts |-> IF st = "Failed" THEN 1 ELSE 0,
        nextRetry |-> nextRetry]
  ELSE [status |-> st,
        attempts |-> IF st \in {"Failed", "DeadLettered"}
                     THEN d.attempts + 1 ELSE d.attempts,
        nextRetry |-> nextRetry]

-----------------------------------------------------------------------------
(* The queries, as scans of the whole table                                 *)

\* The first n numbers of S, in ascending order: both stores scan in the order
\* of seq and stop at the limit.
FirstN(S, n) == {q \in S : Cardinality({r \in S : r < q}) < n}

QueryByStatus(st, limit) == FirstN({q \in Stored : events[q].status = st}, limit)

QueryBySubject(subj, since, limit) ==
  FirstN({q \in Stored : events[q].subject = subj /\ q >= since}, limit)

\* The (event, subscriber) pairs query_retryable finds before it sorts.
Retryables(maxAttempts) ==
  {r \in Stored \X Subscribers :
     IsRetryable(events[r[1]].deliveries[r[2]], maxAttempts)}

NextRetryOf(r) == events[r[1]].deliveries[r[2]].nextRetry

\* query_retryable: the due deliveries in the order of next_retry, cut off at
\* the limit.  Deliveries due at the same instant come in any order.
QueryRetryable(maxAttempts, limit) ==
  LET R == Retryables(maxAttempts)
      n == IF Cardinality(R) < limit THEN Cardinality(R) ELSE limit
  IN  {b \in [1..n -> R] :
         /\ \A i, j \in 1..n : i # j => b[i] # b[j]
         /\ \A i, j \in 1..n : i < j => NextRetryOf(b[i]) <= NextRetryOf(b[j])
         /\ \A r \in R : (\A i \in 1..n : b[i] # r)
                            => \A i \in 1..n : NextRetryOf(b[i]) <= NextRetryOf(r)}

-----------------------------------------------------------------------------
(* The operations.  An operation on a number that is not stored returns     *)
(* NotFound and changes nothing.                                            *)

AppendEvent(subj) ==
  /\ NextSeq \in Seqs
  /\ events' = [events EXCEPT ![NextSeq] = NewEvent(subj)]

\* Mutant: the status of an event that is gone is written all the same.
UpdateStatusUpsert(q, st) ==
  events' = [events EXCEPT ![q] =
    IF q \in Stored THEN [@ EXCEPT !.status = st]
    ELSE [NewEvent(CHOOSE subj \in Subjects : TRUE) EXCEPT !.status = st]]

UpdateStatus(q, st) ==
  events' = IF q \in Stored THEN [events EXCEPT ![q].status = st] ELSE events

RecordDelivery(q, s, st, nextRetry) ==
  events' = IF q \in Stored
            THEN [events EXCEPT ![q].deliveries[s] = Recorded(@, st, nextRetry)]
            ELSE events

Compact ==
  /\ Expired # {}
  /\ events' = [q \in Seqs |-> IF q \in Expired THEN NoEvent ELSE events[q]]

RequeueDeadLettered(q) ==
  /\ q \in Stored
  /\ events[q].status = "DeadLettered"
  /\ events' = [events EXCEPT
                  ![q].status = "Pending",
                  ![q].deliveries = [s \in Subscribers |-> NoDelivery]]

PurgeDeadLettered(q) ==
  /\ q \in Stored
  /\ events[q].status = "DeadLettered"
  /\ events' = [events EXCEPT ![q] = NoEvent]

Tick ==
  /\ clock < MaxClock
  /\ clock' = clock + 1
  /\ UNCHANGED events

StoreInit ==
  /\ events = [q \in Seqs |-> NoEvent]
  /\ clock = 0

=============================================================================
