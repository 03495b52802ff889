----------------------------- MODULE RedbStore ------------------------------
(***************************************************************************)
(* RedbEventStore (storage/redb_store.rs): the event table of module        *)
(* EventStore together with the three index tables that each write          *)
(* transaction keeps beside it.  The queries walk an index and not the      *)
(* table; an entry that is missing hides an event from its query for good   *)
(* (a failed delivery that is never retried), and one that is left behind   *)
(* outlives its event.                                                      *)
(*                                                                          *)
(* redb serialises write transactions and commits them atomically, so an    *)
(* operation is one step, and a restart finds the tables as the last        *)
(* commit left them.                                                        *)
(***************************************************************************)
EXTENDS EventStore

VARIABLES
  subjectIdx,    \* SUBJECT_IDX_TABLE: (subject, seq)
  statusIdx,     \* STATUS_IDX_TABLE: (status, seq)
  failedIdx      \* FAILED_DELIVERIES_IDX_TABLE: seq

idxVars == <<subjectIdx, statusIdx, failedIdx>>
redbVars == <<events, clock, subjectIdx, statusIdx, failedIdx>>

-----------------------------------------------------------------------------
(* The write transactions                                                   *)

RedbAppend(subj) ==
  /\ AppendEvent(subj)
  /\ subjectIdx' = subjectIdx \cup {<<subj, NextSeq>>}
  /\ statusIdx' = statusIdx \cup {<<"Pending", NextSeq>>}
  /\ UNCHANGED <<failedIdx, clock>>

\* Mutant: a terminal status purges the failed index, as an earlier version did.
RedbUpdateStatusPurging(q, st) ==
  /\ q \in Stored
  /\ UpdateStatus(q, st)
  /\ statusIdx' = (statusIdx \ {<<events[q].status, q>>}) \cup {<<st, q>>}
  /\ failedIdx' = IF st \in {"Delivered", "DeadLettered"} THEN failedIdx \ {q} ELSE failedIdx
  /\ UNCHANGED <<subjectIdx, clock>>

\* failedIdx is left alone on purpose: see the NOTE in update_status.
RedbUpdateStatus(q, st) ==
  /\ q \in Stored
  /\ UpdateStatus(q, st)
  /\ statusIdx' = (statusIdx \ {<<events[q].status, q>>}) \cup {<<st, q>>}
  /\ UNCHANGED <<subjectIdx, failedIdx, clock>>

RedbRecordDelivery(q, s, st, nextRetry) ==
  /\ q \in Stored
  /\ RecordDelivery(q, s, st, nextRetry)
  /\ failedIdx' = IF HasFailed(events'[q]) THEN failedIdx \cup {q} ELSE failedIdx \ {q}
  /\ UNCHANGED <<subjectIdx, statusIdx, clock>>

RedbCompact ==
  /\ Compact
  /\ subjectIdx' = subjectIdx \ {<<events[q].subject, q>> : q \in Expired}
  /\ statusIdx' = statusIdx \ {<<events[q].status, q>> : q \in Expired}
  /\ failedIdx' = failedIdx \ Expired
  /\ UNCHANGED clock

RedbRequeueDeadLettered(q) ==
  /\ RequeueDeadLettered(q)
  /\ statusIdx' = (statusIdx \ {<<"DeadLettered", q>>}) \cup {<<"Pending", q>>}
  /\ failedIdx' = failedIdx \ {q}
  /\ UNCHANGED <<subjectIdx, clock>>

\* Mutant: the purge forgets the subject index.
RedbPurgeKeepsSubject(q) ==
  /\ PurgeDeadLettered(q)
  /\ statusIdx' = statusIdx \ {<<"DeadLettered", q>>}
  /\ failedIdx' = failedIdx \ {q}
  /\ UNCHANGED <<subjectIdx, clock>>

RedbPurgeDeadLettered(q) ==
  /\ PurgeDeadLettered(q)
  /\ subjectIdx' = subjectIdx \ {<<events[q].subject, q>>}
  /\ statusIdx' = statusIdx \ {<<"DeadLettered", q>>}
  /\ failedIdx' = failedIdx \ {q}
  /\ UNCHANGED clock

-----------------------------------------------------------------------------
(* The index-driven queries                                                 *)

\* Walks the status range of the index and re-checks each event it finds.
RedbQueryByStatus(st, limit) ==
  FirstN({q \in Seqs : /\ <<st, q>> \in statusIdx
                       /\ q \in Stored
                       /\ events[q].status = st}, limit)

\* Walks the subject range; the subject of the event is not re-checked.
RedbQueryBySubject(subj, since, limit) ==
  FirstN({q \in Seqs : <<subj, q>> \in subjectIdx /\ q >= since /\ q \in Stored}, limit)

\* Walks failedIdx only: an event that is not in it is never retried.
RedbRetryables(maxAttempts) ==
  {r \in (failedIdx \cap Stored) \X Subscribers :
     IsRetryable(events[r[1]].deliveries[r[2]], maxAttempts)}

\* count_retryable walks the same index.
RedbCountRetryable(maxAttempts) == Cardinality(RedbRetryables(maxAttempts))

-----------------------------------------------------------------------------
(* The callers pass a next_retry exactly with a Failed outcome.             *)

RetryTime(st) == IF st = "Failed" THEN NextRetryAfter ELSE NoRetry

RedbInit ==
  /\ StoreInit
  /\ subjectIdx = {}
  /\ statusIdx = {}
  /\ failedIdx = {}

\* The discipline of the retry task (module Dispatch) keeps attempts bounded:
\* the failure that would use up the last attempt is recorded as DeadLettered.
AttemptAllowed(q, s, st) ==
  q \in Stored =>
    LET n == events[q].deliveries[s].attempts
    IN  /\ st = "Failed" => n + 1 < MaxAttempts
        /\ st = "DeadLettered" => n < MaxAttempts

RedbNext ==
  \/ \E subj \in Subjects : RedbAppend(subj)
  \/ \E q \in Seqs, st \in EventStatus : RedbUpdateStatus(q, st)
  \/ \E q \in Seqs, s \in Subscribers, st \in DeliveryStatus :
       AttemptAllowed(q, s, st) /\ RedbRecordDelivery(q, s, st, RetryTime(st))
  \/ RedbCompact
  \/ \E q \in Seqs : RedbRequeueDeadLettered(q)
  \/ \E q \in Seqs : RedbPurgeDeadLettered(q)
  \/ Tick /\ UNCHANGED idxVars

RedbSpec == RedbInit /\ [][RedbNext]_redbVars

-----------------------------------------------------------------------------
(* Properties                                                               *)

\* The tables hold well-formed keys and values.
RedbTypeOK ==
  /\ StoreTypeOK
  /\ subjectIdx \subseteq Subjects \X Seqs
  /\ statusIdx \subseteq EventStatus \X Seqs
  /\ failedIdx \subseteq Seqs

\* Each event is listed under its own subject and under no other, and no
\* entry outlives its event (append, compact, purge_dead_lettered).
SubjectIndexExact == subjectIdx = {<<events[q].subject, q>> : q \in Stored}

\* Each event is listed under its current status and under no other
\* (append, update_status, compact, requeue_ and purge_dead_lettered).
StatusIndexExact == statusIdx = {<<events[q].status, q>> : q \in Stored}

\* The invariant stated in update_status: a number is in the failed index if
\* and only if some delivery of its event is Failed, whatever status the
\* event itself has been moved to.
FailedIndexExact == failedIdx = {q \in Stored : HasFailed(events[q])}

\* The three indexes mirror the event table.
IndexesExact == SubjectIndexExact /\ StatusIndexExact /\ FailedIndexExact

\* Every query of the indexed store answers exactly what a scan of the whole
\* table, the memory store's way, would answer: no event is hidden, none is
\* stale, and the limit cuts at the same place.
QueriesAgree ==
  /\ \A st \in EventStatus, n \in 0..MaxSeq :
       RedbQueryByStatus(st, n) = QueryByStatus(st, n)
  /\ \A subj \in Subjects, since \in 0..MaxSeq, n \in 0..MaxSeq :
       RedbQueryBySubject(subj, since, n) = QueryBySubject(subj, since, n)
  /\ RedbRetryables(MaxAttempts) = Retryables(MaxAttempts)
  /\ RedbCountRetryable(MaxAttempts) = Cardinality(Retryables(MaxAttempts))

=============================================================================
