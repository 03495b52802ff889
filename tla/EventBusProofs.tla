--------------------------- MODULE EventBusProofs ---------------------------
(***************************************************************************)
(* Proofs about the event bus: the durable store and the dispatch over it.  *)
(*                                                                          *)
(* The store: for any number of subjects, subscribers and events the tables *)
(* stay well typed, the three indexes mirror the event table after every    *)
(* transaction, and so every query through an index answers what a scan of  *)
(* the table answers.                                                       *)
(*                                                                          *)
(* Dispatch: for any number of publishers, subscribers, events and          *)
(* attempts.  Its first part needs nothing: stores that fail, restarts,     *)
(* replays, purges and compaction are all there.  Its second part is about  *)
(* a bus whose writes succeed, that is not restarted and not replayed.      *)
(***************************************************************************)
EXTENDS RedbStore, Dispatch, TLAPS, FiniteSetTheorems, WellFoundedInduction

-----------------------------------------------------------------------------
(* The number append hands out                                              *)

\* A non-empty set of naturals below a bound has a greatest element.
LEMMA BoundedHasMax ==
  ASSUME NEW N \in Nat, NEW T \in SUBSET (0..N), T # {}
  PROVE  \E x \in T : \A y \in T : x >= y
<1> DEFINE D == {N - x : x \in T}
<1>0. \A x \in T : N - x \in Nat /\ x \in Nat
  OBVIOUS
<1>1. D \subseteq Nat /\ D # {}
  <2>1. D \subseteq Nat
    BY <1>0
  <2>2. PICK t \in T : TRUE
    OBVIOUS
  <2>3. N - t \in D
    OBVIOUS
  <2> QED
    BY <2>1, <2>3
<1>2. PICK d \in D : \A e \in D : ~ (<<e, d>> \in OpToRel(<, Nat))
  BY <1>1, NatLessThanWellFounded, WFMin
<1>3. \A e \in D : d <= e
  <2> SUFFICES ASSUME NEW e \in D PROVE d <= e
    OBVIOUS
  <2>1. d \in Nat /\ e \in Nat
    BY <1>1
  <2>2. ~ (<<e, d>> \in OpToRel(<, Nat))
    BY <1>2
  <2> QED
    BY <2>1, <2>2 DEF OpToRel
<1>4. PICK x \in T : d = N - x
  OBVIOUS
<1>5. \A y \in T : x >= y
  <2> SUFFICES ASSUME NEW y \in T PROVE x >= y
    OBVIOUS
  <2>1. N - y \in D
    OBVIOUS
  <2>2. N - x <= N - y
    BY <1>3, <1>4, <2>1
  <2> HIDE DEF D
  <2> QED
    BY <1>0, <2>2
<1> QED
  BY <1>5

\* append never hands out a number that is in use.
LEMMA NextSeqFresh == NextSeq \in Nat \ {0} /\ NextSeq \notin Stored
<1>1. Stored \in SUBSET (0..MaxSeq)
  BY StoreAssumption DEF Stored, Seqs
<1>2. CASE Stored = {}
  BY <1>2 DEF NextSeq
<1>3. CASE Stored # {}
  <2>1. \E x \in Stored : \A y \in Stored : x >= y
    BY <1>1, <1>3, BoundedHasMax, StoreAssumption
  <2>2. Max(Stored) \in Stored /\ \A y \in Stored : Max(Stored) >= y
    BY <2>1 DEF Max
  <2>3. PICK m : m = Max(Stored)
    OBVIOUS
  <2>4. NextSeq = m + 1
    BY <1>3, <2>3 DEF NextSeq
  <2>5. m \in 0..MaxSeq /\ \A y \in Stored : m >= y /\ y \in Nat
    <3>1. m \in Stored /\ \A y \in Stored : m >= y
      BY <2>2, <2>3 DEF Max
    <3> QED
      BY <1>1, <3>1, StoreAssumption
  <2>6. m + 1 \notin Stored
    BY <2>5, StoreAssumption
  <2> QED
    BY <2>4, <2>5, <2>6, StoreAssumption
<1> QED
  BY <1>2, <1>3

\* A slot that holds an event is well typed, and is told from an empty slot
\* by its status.
LEMMA StoredEventTyped ==
  ASSUME StoreTypeOK, NEW q \in Seqs
  PROVE  /\ q \in Stored => events[q] \in StoredEvent
         /\ q \in Stored <=> events[q] # NoEvent
BY DEF StoreTypeOK, Stored

\* A fresh event is a well-formed event that has no failed delivery.
LEMMA NewEventTyped ==
  ASSUME StoreTypeOK, NEW subj \in Subjects
  PROVE  /\ NewEvent(subj) \in StoredEvent
         /\ NewEvent(subj) # NoEvent
         /\ ~ HasFailed(NewEvent(subj))
<1>1. NewEvent(subj) \in StoredEvent
  BY DEF NewEvent, StoredEvent, StoreTypeOK, EventStatus, NoDelivery, NoRetry,
         DeliveryRecord
<1>2. NewEvent(subj).status = "Pending" /\ NoEvent.status = "None"
  BY DEF NewEvent, NoEvent
<1>3. ~ HasFailed(NewEvent(subj))
  BY DEF HasFailed, NewEvent, NoDelivery
<1> QED
  BY <1>1, <1>2, <1>3

\* record_delivery keeps a delivery record well formed.
LEMMA RecordedTyped ==
  ASSUME NEW d \in DeliveryRecord, NEW st \in DeliveryStatus, NEW t \in Nat
  PROVE  Recorded(d, st, t) \in DeliveryRecord
BY DEF Recorded, DeliveryRecord, DeliveryStatus

-----------------------------------------------------------------------------
(* The inductive invariant, with the indexes read entry by entry            *)

SubjectEntries ==
  \A subj \in Subjects, q \in Seqs :
    <<subj, q>> \in subjectIdx <=> (q \in Stored /\ events[q].subject = subj)

StatusEntries ==
  \A st \in EventStatus, q \in Seqs :
    <<st, q>> \in statusIdx <=> (q \in Stored /\ events[q].status = st)

FailedEntries ==
  \A q \in Seqs : q \in failedIdx <=> (q \in Stored /\ HasFailed(events[q]))

RedbInv == RedbTypeOK /\ SubjectEntries /\ StatusEntries /\ FailedEntries

\* Entry by entry or as a whole: the two readings say the same of the tables.
LEMMA EntriesExact == RedbInv => IndexesExact
<1> SUFFICES ASSUME RedbInv PROVE IndexesExact
  OBVIOUS
<1> USE DEF RedbInv
<1>0. \A q \in Stored : /\ q \in Seqs
                        /\ events[q].subject \in Subjects
                        /\ events[q].status \in EventStatus
  BY StoredEventTyped DEF Stored, StoredEvent, RedbTypeOK
<1>1. SubjectIndexExact
  BY <1>0 DEF SubjectEntries, SubjectIndexExact, RedbTypeOK
<1>2. StatusIndexExact
  BY <1>0 DEF StatusEntries, StatusIndexExact, RedbTypeOK
<1>3. FailedIndexExact
  BY <1>0 DEF FailedEntries, FailedIndexExact, RedbTypeOK
<1> QED
  BY <1>1, <1>2, <1>3 DEF IndexesExact

\* The empty tables agree.
LEMMA RedbInvInit == RedbInit => RedbInv
<1> SUFFICES ASSUME RedbInit PROVE RedbInv
  OBVIOUS
<1>1. RedbTypeOK
  BY DEF RedbInit, StoreInit, RedbTypeOK, StoreTypeOK
<1>2. Stored = {}
  BY DEF RedbInit, StoreInit, Stored
<1> QED
  BY <1>1, <1>2 DEF RedbInit, RedbInv, SubjectEntries, StatusEntries, FailedEntries

\* append writes a fresh slot and the two entries that name it.
LEMMA AppendPreserves ==
  ASSUME RedbInv, NEW subj \in Subjects, RedbAppend(subj)
  PROVE  RedbInv'
<1> DEFINE n == NextSeq
<1>1. n \in Seqs /\ n \notin Stored
  BY NextSeqFresh, StoreAssumption DEF RedbAppend, AppendEvent, Seqs
<1>2. /\ NewEvent(subj) \in StoredEvent
      /\ NewEvent(subj) # NoEvent
      /\ ~ HasFailed(NewEvent(subj))
      /\ NewEvent(subj).subject = subj
      /\ NewEvent(subj).status = "Pending"
  BY NewEventTyped DEF RedbInv, RedbTypeOK, NewEvent
<1> HIDE DEF n
<1>3. events' = [events EXCEPT ![n] = NewEvent(subj)]
  BY DEF RedbAppend, AppendEvent, n
<1>4. /\ subjectIdx' = subjectIdx \cup {<<subj, n>>}
      /\ statusIdx' = statusIdx \cup {<<"Pending", n>>}
      /\ failedIdx' = failedIdx /\ clock' = clock
  BY DEF RedbAppend, n
<1>5. /\ events'[n] = NewEvent(subj)
      /\ \A q \in Seqs : q # n => events'[q] = events[q]
  BY <1>1, <1>3 DEF RedbInv, RedbTypeOK, StoreTypeOK
<1>6. \A q \in Seqs : q \in Stored' <=> (q \in Stored \/ q = n)
  BY <1>1, <1>2, <1>5 DEF Stored
<1>7. RedbTypeOK'
  BY <1>1, <1>2, <1>3, <1>4 DEF RedbInv, RedbTypeOK, StoreTypeOK, EventStatus
<1>8. SubjectEntries'
  BY <1>1, <1>2, <1>4, <1>5, <1>6 DEF RedbInv, SubjectEntries
<1>9. StatusEntries'
  BY <1>1, <1>2, <1>4, <1>5, <1>6 DEF RedbInv, StatusEntries
<1>10. FailedEntries'
  BY <1>1, <1>2, <1>4, <1>5, <1>6 DEF RedbInv, FailedEntries
<1> QED
  BY <1>7, <1>8, <1>9, <1>10 DEF RedbInv

\* Changing the status of a stored event leaves it a well-formed event with
\* the deliveries it had.
LEMMA StatusChange ==
  ASSUME NEW e \in StoredEvent, NEW st \in EventStatus
  PROVE  /\ [e EXCEPT !.status = st] \in StoredEvent
         /\ [e EXCEPT !.status = st] # NoEvent
         /\ [e EXCEPT !.status = st].subject = e.subject
         /\ [e EXCEPT !.status = st].status = st
         /\ HasFailed([e EXCEPT !.status = st]) <=> HasFailed(e)
<1>1. [e EXCEPT !.status = st].status = st /\ st # "None"
  BY DEF StoredEvent, EventStatus
<1>2. [e EXCEPT !.status = st] # NoEvent
  BY <1>1 DEF NoEvent
<1> QED
  BY <1>1, <1>2 DEF StoredEvent, HasFailed

\* update_status moves the event from one status entry to another and leaves
\* the failed index alone: the deliveries have not changed.
LEMMA UpdateStatusPreserves ==
  ASSUME RedbInv, NEW q \in Seqs, NEW st \in EventStatus, RedbUpdateStatus(q, st)
  PROVE  RedbInv'
<1> DEFINE e == [events[q] EXCEPT !.status = st]
<1>1. q \in Stored /\ events[q] \in StoredEvent /\ events[q].status \in EventStatus
  BY StoredEventTyped DEF RedbUpdateStatus, RedbInv, RedbTypeOK, StoredEvent
<1>2. /\ e \in StoredEvent /\ e # NoEvent
      /\ e.subject = events[q].subject /\ e.status = st
      /\ HasFailed(e) <=> HasFailed(events[q])
  BY <1>1, StatusChange
<1>3. events' = [events EXCEPT ![q] = e]
  BY <1>1 DEF RedbUpdateStatus, UpdateStatus
<1> HIDE DEF e
<1>4. /\ statusIdx' = (statusIdx \ {<<events[q].status, q>>}) \cup {<<st, q>>}
      /\ UNCHANGED <<subjectIdx, failedIdx, clock>>
  BY DEF RedbUpdateStatus
<1>5. /\ events'[q] = e
      /\ \A r \in Seqs : r # q => events'[r] = events[r]
  BY <1>3 DEF RedbInv, RedbTypeOK, StoreTypeOK
<1>6. \A r \in Seqs : r \in Stored' <=> r \in Stored
  BY <1>1, <1>2, <1>5 DEF Stored
<1>7. RedbTypeOK'
  BY <1>2, <1>3, <1>4 DEF RedbInv, RedbTypeOK, StoreTypeOK
<1>8. SubjectEntries'
  BY <1>2, <1>4, <1>5, <1>6, ZenonT(40) DEF RedbInv, SubjectEntries
<1>9. StatusEntries'
  BY <1>1, <1>2, <1>4, <1>5, <1>6 DEF RedbInv, StatusEntries
<1>10. FailedEntries'
  BY <1>2, <1>4, <1>5, <1>6 DEF RedbInv, FailedEntries
<1> QED
  BY <1>7, <1>8, <1>9, <1>10 DEF RedbInv

\* record_delivery rewrites one delivery record and recomputes the failed
\* entry of that event from all of its records.
LEMMA RecordDeliveryPreserves ==
  ASSUME RedbInv, NEW q \in Seqs, NEW s \in Subscribers, NEW st \in DeliveryStatus,
         NEW t \in Nat, RedbRecordDelivery(q, s, st, t)
  PROVE  RedbInv'
<1> DEFINE d == Recorded(events[q].deliveries[s], st, t)
           e == [events[q] EXCEPT !.deliveries[s] = d]
<1>1. q \in Stored /\ events[q] \in StoredEvent
  BY StoredEventTyped DEF RedbRecordDelivery, RedbInv, RedbTypeOK
<1>2. d \in DeliveryRecord
  BY <1>1, RecordedTyped DEF StoredEvent
<1>3. events' = [events EXCEPT ![q] = e]
  BY <1>1 DEF RedbRecordDelivery, RecordDelivery
<1> HIDE DEF d
<1>4. /\ e \in StoredEvent
      /\ e.subject = events[q].subject /\ e.status = events[q].status
      /\ e.status # "None"
  BY <1>1, <1>2 DEF StoredEvent, EventStatus
<1>5. e # NoEvent
  BY <1>4 DEF NoEvent
<1> HIDE DEF e
<1>6. /\ events'[q] = e
      /\ \A r \in Seqs : r # q => events'[r] = events[r]
  BY <1>3 DEF RedbInv, RedbTypeOK, StoreTypeOK
<1>7. /\ failedIdx' = IF HasFailed(e) THEN failedIdx \cup {q} ELSE failedIdx \ {q}
      /\ UNCHANGED <<subjectIdx, statusIdx, clock>>
  BY <1>6 DEF RedbRecordDelivery
<1>8. \A r \in Seqs : r \in Stored' <=> r \in Stored
  BY <1>1, <1>5, <1>6 DEF Stored
<1>9. RedbTypeOK'
  BY <1>3, <1>4, <1>7 DEF RedbInv, RedbTypeOK, StoreTypeOK
<1>10. \A r \in Seqs : /\ events'[r].subject = events[r].subject
                      /\ events'[r].status = events[r].status
  BY <1>4, <1>6
<1>11. SubjectEntries' /\ StatusEntries'
  BY <1>7, <1>8, <1>10 DEF RedbInv, SubjectEntries, StatusEntries
<1>12. FailedEntries'
  BY <1>1, <1>6, <1>7, <1>8 DEF RedbInv, FailedEntries
<1> QED
  BY <1>9, <1>11, <1>12 DEF RedbInv

\* compact empties the slots of the expired events and drops every entry that
\* names one of them.
LEMMA CompactPreserves ==
  ASSUME RedbInv, RedbCompact
  PROVE  RedbInv'
<1>1. /\ events' = [q \in Seqs |-> IF q \in Expired THEN NoEvent ELSE events[q]]
      /\ subjectIdx' = subjectIdx \ {<<events[q].subject, q>> : q \in Expired}
      /\ statusIdx' = statusIdx \ {<<events[q].status, q>> : q \in Expired}
      /\ failedIdx' = failedIdx \ Expired
      /\ clock' = clock
  BY DEF RedbCompact, Compact
<1>2. Expired \subseteq Stored /\ Stored \subseteq Seqs
  BY DEF Expired, Stored
<1>3. \A q \in Seqs : events'[q] = IF q \in Expired THEN NoEvent ELSE events[q]
  BY <1>1
<1>4. \A q \in Seqs : q \in Stored' <=> (q \in Stored /\ q \notin Expired)
  BY <1>2, <1>3 DEF Stored
<1>5. RedbTypeOK'
  BY <1>1 DEF RedbInv, RedbTypeOK, StoreTypeOK
<1>6. SubjectEntries'
  BY <1>1, <1>3, <1>4 DEF RedbInv, SubjectEntries
<1>7. StatusEntries'
  BY <1>1, <1>3, <1>4 DEF RedbInv, StatusEntries
<1>8. FailedEntries'
  BY <1>1, <1>3, <1>4 DEF RedbInv, FailedEntries
<1> QED
  BY <1>5, <1>6, <1>7, <1>8 DEF RedbInv

\* requeue_dead_lettered clears the deliveries, so no failed one is left.
LEMMA RequeuePreserves ==
  ASSUME RedbInv, NEW q \in Seqs, RedbRequeueDeadLettered(q)
  PROVE  RedbInv'
<1> DEFINE blank == [s \in Subscribers |-> NoDelivery]
           e == [events[q] EXCEPT !.status = "Pending", !.deliveries = blank]
<1>1. q \in Stored /\ events[q] \in StoredEvent /\ events[q].status = "DeadLettered"
  BY StoredEventTyped
     DEF RedbRequeueDeadLettered, RequeueDeadLettered, RedbInv, RedbTypeOK
<1>2. blank \in [Subscribers -> DeliveryRecord]
      /\ \A s \in Subscribers : blank[s].status # "Failed"
  BY DEF NoDelivery, NoRetry, DeliveryRecord
<1>3. events' = [events EXCEPT ![q] = e]
  BY <1>1 DEF RedbRequeueDeadLettered, RequeueDeadLettered
<1> HIDE DEF blank
<1>4. /\ e \in StoredEvent
      /\ e.subject = events[q].subject /\ e.status = "Pending"
      /\ e.deliveries = blank
  BY <1>1, <1>2 DEF StoredEvent, EventStatus
<1>5. e # NoEvent /\ ~ HasFailed(e)
  BY <1>2, <1>4 DEF NoEvent, HasFailed
<1> HIDE DEF e
<1>6. /\ events'[q] = e
      /\ \A r \in Seqs : r # q => events'[r] = events[r]
  BY <1>3 DEF RedbInv, RedbTypeOK, StoreTypeOK
<1>7. /\ statusIdx' = (statusIdx \ {<<"DeadLettered", q>>}) \cup {<<"Pending", q>>}
      /\ failedIdx' = failedIdx \ {q}
      /\ UNCHANGED <<subjectIdx, clock>>
  BY DEF RedbRequeueDeadLettered
<1>8. \A r \in Seqs : r \in Stored' <=> r \in Stored
  BY <1>1, <1>5, <1>6 DEF Stored
<1>9. RedbTypeOK'
  BY <1>3, <1>4, <1>7 DEF RedbInv, RedbTypeOK, StoreTypeOK, EventStatus
<1>10. \A r \in Seqs : events'[r].subject = events[r].subject
  BY <1>4, <1>6
<1>11. SubjectEntries'
  BY <1>7, <1>8, <1>10 DEF RedbInv, SubjectEntries
<1>12. StatusEntries'
  <2>1. events'[q].status = "Pending"
    BY <1>4, <1>6
  <2>2. \A r \in Seqs : r # q => events'[r].status = events[r].status
    BY <1>6
  <2> SUFFICES ASSUME NEW st \in EventStatus, NEW r \in Seqs
               PROVE  <<st, r>> \in statusIdx'
                        <=> (r \in Stored' /\ events'[r].status = st)
    BY DEF StatusEntries
  <2>3. <<st, r>> \in statusIdx <=> (r \in Stored /\ events[r].status = st)
    BY DEF RedbInv, StatusEntries
  <2>4. CASE r = q
    BY <1>1, <1>7, <1>8, <2>1, <2>3, <2>4
  <2>5. CASE r # q
    BY <1>7, <1>8, <2>2, <2>3, <2>5
  <2> QED
    BY <2>4, <2>5
<1>13. FailedEntries'
  BY <1>5, <1>6, <1>7, <1>8 DEF RedbInv, FailedEntries
<1> QED
  BY <1>9, <1>11, <1>12, <1>13 DEF RedbInv

\* purge_dead_lettered removes the event and the entries that name it.
LEMMA PurgePreserves ==
  ASSUME RedbInv, NEW q \in Seqs, RedbPurgeDeadLettered(q)
  PROVE  RedbInv'
<1>1. /\ q \in Stored /\ events[q].status = "DeadLettered"
      /\ events' = [events EXCEPT ![q] = NoEvent]
      /\ subjectIdx' = subjectIdx \ {<<events[q].subject, q>>}
      /\ statusIdx' = statusIdx \ {<<"DeadLettered", q>>}
      /\ failedIdx' = failedIdx \ {q}
      /\ clock' = clock
  BY DEF RedbPurgeDeadLettered, PurgeDeadLettered
<1>2. /\ events'[q] = NoEvent
      /\ \A r \in Seqs : r # q => events'[r] = events[r]
  BY <1>1 DEF RedbInv, RedbTypeOK, StoreTypeOK
<1>3. \A r \in Seqs : r \in Stored' <=> (r \in Stored /\ r # q)
  BY <1>2 DEF Stored
<1>4. RedbTypeOK'
  BY <1>1 DEF RedbInv, RedbTypeOK, StoreTypeOK
<1>5. SubjectEntries'
  BY <1>1, <1>2, <1>3 DEF RedbInv, SubjectEntries
<1>6. StatusEntries'
  BY <1>1, <1>2, <1>3 DEF RedbInv, StatusEntries
<1>7. FailedEntries'
  BY <1>1, <1>2, <1>3 DEF RedbInv, FailedEntries
<1> QED
  BY <1>4, <1>5, <1>6, <1>7 DEF RedbInv

-----------------------------------------------------------------------------
(* The theorems                                                             *)

\* Every transaction preserves the inductive invariant.
LEMMA RedbInvStep == RedbInv /\ [RedbNext]_redbVars => RedbInv'
<1> SUFFICES ASSUME RedbInv, [RedbNext]_redbVars PROVE RedbInv'
  OBVIOUS
<1>1. ASSUME NEW subj \in Subjects, RedbAppend(subj) PROVE RedbInv'
  BY <1>1, AppendPreserves
<1>2. ASSUME NEW q \in Seqs, NEW st \in EventStatus, RedbUpdateStatus(q, st)
      PROVE  RedbInv'
  BY <1>2, UpdateStatusPreserves
<1>3. ASSUME NEW q \in Seqs, NEW s \in Subscribers, NEW st \in DeliveryStatus,
             RedbRecordDelivery(q, s, st, RetryTime(st))
      PROVE  RedbInv'
  <2>1. RetryTime(st) \in Nat
    BY StoreAssumption
       DEF RetryTime, NextRetryAfter, NoRetry, RedbInv, RedbTypeOK, StoreTypeOK
  <2> QED
    BY <1>3, <2>1, RecordDeliveryPreserves
<1>4. CASE RedbCompact
  BY <1>4, CompactPreserves
<1>5. ASSUME NEW q \in Seqs, RedbRequeueDeadLettered(q) PROVE RedbInv'
  BY <1>5, RequeuePreserves
<1>6. ASSUME NEW q \in Seqs, RedbPurgeDeadLettered(q) PROVE RedbInv'
  BY <1>6, PurgePreserves
<1>7. CASE Tick /\ UNCHANGED idxVars
  <2>1. events' = events /\ clock' \in Nat /\ UNCHANGED idxVars
    BY <1>7 DEF Tick, RedbInv, RedbTypeOK, StoreTypeOK
  <2>2. Stored' = Stored
    BY <2>1 DEF Stored
  <2> QED
    BY <2>1, <2>2 DEF RedbInv, RedbTypeOK, StoreTypeOK, SubjectEntries,
                      StatusEntries, FailedEntries, idxVars
<1>8. CASE UNCHANGED redbVars
  BY <1>8 DEF redbVars, RedbInv, RedbTypeOK, StoreTypeOK, SubjectEntries,
              StatusEntries, FailedEntries, Stored
<1> QED
  BY <1>1, <1>2, <1>3, <1>4, <1>5, <1>6, <1>7, <1>8 DEF RedbNext

\* With exact indexes, walking an index finds what scanning the table finds.
LEMMA ExactQueries == RedbInv => QueriesAgree
<1> SUFFICES ASSUME RedbInv PROVE QueriesAgree
  OBVIOUS
<1>0. Stored \subseteq Seqs
  BY DEF Stored
<1>1. ASSUME NEW st \in EventStatus, NEW n \in 0..MaxSeq
      PROVE  RedbQueryByStatus(st, n) = QueryByStatus(st, n)
  <2>1. {q \in Seqs : /\ <<st, q>> \in statusIdx
                      /\ q \in Stored
                      /\ events[q].status = st}
          = {q \in Stored : events[q].status = st}
    BY <1>0 DEF RedbInv, StatusEntries
  <2> QED
    BY <2>1 DEF RedbQueryByStatus, QueryByStatus
<1>2. ASSUME NEW subj \in Subjects, NEW since \in 0..MaxSeq, NEW n \in 0..MaxSeq
      PROVE  RedbQueryBySubject(subj, since, n) = QueryBySubject(subj, since, n)
  <2>1. {q \in Seqs : <<subj, q>> \in subjectIdx /\ q >= since /\ q \in Stored}
          = {q \in Stored : events[q].subject = subj /\ q >= since}
    BY <1>0 DEF RedbInv, SubjectEntries
  <2> QED
    BY <2>1 DEF RedbQueryBySubject, QueryBySubject
<1>3. RedbRetryables(MaxAttempts) = Retryables(MaxAttempts)
  <2>1. ASSUME NEW q \in Stored, NEW s \in Subscribers,
               IsRetryable(events[q].deliveries[s], MaxAttempts)
        PROVE  q \in failedIdx
    BY <1>0, <2>1 DEF IsRetryable, RedbInv, FailedEntries, HasFailed
  <2>2. ASSUME NEW r \in Stored \X Subscribers,
               IsRetryable(events[r[1]].deliveries[r[2]], MaxAttempts)
        PROVE  r \in (failedIdx \cap Stored) \X Subscribers
    BY <2>1, <2>2
  <2> QED
    BY <2>2 DEF RedbRetryables, Retryables
<1>4. RedbCountRetryable(MaxAttempts) = Cardinality(Retryables(MaxAttempts))
  BY <1>3 DEF RedbCountRetryable
<1> QED
  BY <1>1, <1>2, <1>3, <1>4 DEF QueriesAgree

\* The redb tables stay well typed through every transaction of
\* storage/redb_store.rs.
THEOREM RedbTypeCorrect == RedbSpec => []RedbTypeOK
<1>1. RedbInv => RedbTypeOK
  BY DEF RedbInv
<1> QED
  BY <1>1, RedbInvInit, RedbInvStep, PTL DEF RedbSpec

\* The subject, status and failed-delivery indexes mirror the event table in
\* every reachable state: in particular update_status may leave the failed
\* index alone, and a purge or a compaction strands no entry for the next
\* event that is given the same number.
THEOREM RedbIndexesExact == RedbSpec => []IndexesExact
BY RedbInvInit, RedbInvStep, EntriesExact, PTL DEF RedbSpec

\* Every index-driven query of the redb store answers what the memory store's
\* scan of the same events answers.
THEOREM RedbQueriesAgree == RedbSpec => []QueriesAgree
BY RedbInvInit, RedbInvStep, ExactQueries, PTL DEF RedbSpec

-----------------------------------------------------------------------------
(* Dispatch: what the tasks hold                                            *)

Outcomes == DeliveryStatus \cup {"None"}

PubRecord ==
  [pc : {"idle", "requeue", "resolve", "open", "snapshot", "deliver", "record", "close"},
   seq : Seqs \cup {0}, subj : Subjects \cup {"none"}, phase : {"sync", "async"},
   todo : SUBSET Subscribers, rest : SUBSET Subscribers, handles : SUBSET Subscribers,
   payload : SUBSET Interceptors, failed : BOOLEAN, out : Outcomes, dropped : BOOLEAN]

BatchEntry == [seq : Seqs, sub : Subscribers, attempts : Nat]

RetryRecordType ==
  [pc : {"idle", "attempt", "record", "settle", "put"}, batch : Seq(BatchEntry),
   out : Outcomes, final : EventStatus \cup {"None"}]

SentEntry == [payload : SUBSET Interceptors, by : {"dispatch", "retry"}, answer : {"Ok", "Failed"}]

BusTyped ==
  /\ StoreTypeOK
  /\ subs \in [Subscribers -> {"new", "live", "gone"}]
  /\ chan \in [Subscribers -> Int]
  /\ pub \in [Publishers -> PubRecord]
  /\ retry \in RetryRecordType
  /\ sent \in [Seqs -> [Subscribers -> Seq(SentEntry)]]
  /\ owed \in [Seqs -> SUBSET Subscribers]
  /\ modified \in [Seqs -> SUBSET Interceptors]
  /\ droppedBy \in [Seqs -> SUBSET Interceptors]
  /\ reused \in [Seqs -> {"unused", "once", "again"}]

\* What a task holds while it works.
TasksTyped ==
  /\ \A p \in Publishers :
       /\ pub[p].pc # "idle" => pub[p].seq \in Seqs /\ pub[p].subj \in Subjects
       /\ pub[p].pc = "record" => pub[p].todo # {} /\ pub[p].out # "None"
  /\ retry.pc # "idle" => retry.batch # <<>>
  /\ retry.pc \in {"record", "settle", "put"} => retry.out # "None"
  /\ retry.pc = "put" => retry.final # "None"

Typed == BusTyped /\ TasksTyped

St(q, s) == events[q].deliveries[s].status
Tries(q, s) == events[q].deliveries[s].attempts

\* A number that was never given out is not in the store and nobody works on it.
Unused(q) ==
  /\ q \notin Stored
  /\ \A p \in Publishers : pub[p].pc # "idle" => pub[p].seq # q
  /\ \A i \in DOMAIN retry.batch : retry.batch[i].seq # q

\* Whoever is about to record Delivered has sent the event.
PubTold(p) ==
  LET q == pub[p].seq
      s == First(pub[p].todo)
  IN  pub[p].pc = "record" /\ pub[p].out = "Delivered" /\ s \notin Interceptors /\ OwnNumber(q)
        => sent[q][s] # <<>>

RetryTold ==
  LET d == Head(retry.batch)
  IN  retry.pc = "record" /\ retry.out = "Delivered" /\ OwnNumber(d.seq) => sent[d.seq][d.sub] # <<>>

ToldInv ==
  /\ Typed
  /\ \A q \in Seqs : reused[q] = "unused" => Unused(q)
  /\ DeliveredWasSent
  /\ \A p \in Publishers : PubTold(p)
  /\ RetryTold

-----------------------------------------------------------------------------
(* The reliable bus                                                         *)

Reliable == ~StoreMayFail /\ ~ReplayAllowed /\ MaxCrashes = 0

\* A publisher is delivering, and its chain has been filtered.
Chaining(p) == pub[p].pc \in {"snapshot", "deliver", "record"}

\* The subscribers a publisher may still deliver to, the one at hand included.
Open(p) ==
  IF pub[p].pc \in {"resolve", "open"} THEN Subscribers
  ELSE IF ~Chaining(p) THEN {}
  ELSE IF pub[p].phase = "sync" THEN pub[p].todo \cup pub[p].rest ELSE pub[p].todo

\* The publisher has dealt with s and not recorded it yet.
AtHand(p, s) == pub[p].pc = "record" /\ s = First(pub[p].todo)

Works(p, q) == pub[p].pc # "idle" /\ pub[p].seq = q

\* The delivery is in the batch of the retry task, which has not attempted it yet.
Queued(q, s) ==
  \E i \in DOMAIN retry.batch :
    /\ retry.batch[i].seq = q /\ retry.batch[i].sub = s
    /\ i > 1 \/ retry.pc = "attempt"

\* Something has become of the delivery.
Touched(q, s) ==
  \/ sent[q][s] # <<>>
  \/ q \in Stored /\ St(q, s) # "None"
  \/ Queued(q, s) \/ InRetry(q, s)

\* Where the publisher is in the pipeline shows in the history of its event, and
\* whoever has changed the payload comes before the subscribers that are open.
Stage(p) ==
  LET q == pub[p].seq IN
  /\ pub[p].pc \in {"resolve", "open"} => owed[q] = {} /\ modified[q] = {} /\ droppedBy[q] = {}
  /\ pub[p].pc \in {"resolve", "open", "snapshot"} => pub[p].phase = "sync"
  /\ pub[p].dropped => pub[p].pc \in {"record", "close"}
  /\ pub[p].payload = modified[q]
  /\ Chaining(p) => droppedBy[q] = IF pub[p].dropped THEN {First(pub[p].todo)} ELSE {}
  /\ pub[p].pc = "close" => owed[q] = {} \/ droppedBy[q] # {}
  /\ Chaining(p) => IF pub[p].phase = "sync"
                    THEN pub[p].todo \cap AsyncSubs = {} /\ pub[p].rest \subseteq AsyncSubs
                    ELSE pub[p].todo \subseteq AsyncSubs
  /\ \A j \in modified[q] : \A s \in Open(p) \ {j} : After(j, s)

\* Nothing has become of a delivery that is open, unless it is at hand; and no open
\* interceptor comes before a subscriber of whom something has become.
OpenPair(p, s) ==
  LET q == pub[p].seq IN
  /\ s \in Open(p) =>
       /\ q \in Stored => St(q, s) = "None"
       /\ ~Queued(q, s) /\ ~InRetry(q, s)
       /\ sent[q][s] # <<>> <=> AtHand(p, s) /\ pub[p].out = "Delivered" /\ s \notin Interceptors
  /\ Touched(q, s) => \A u \in Open(p) \cap Interceptors : ~After(u, s)

\* A publisher is alone with its event.
OnEvent(p) ==
  /\ \A o \in Publishers : Works(o, pub[p].seq) => o = p
  /\ Stage(p)
  /\ \A s \in Subscribers : OpenPair(p, s)

PublisherInv(p) ==
  pub[p].pc # "idle" =>
    /\ pub[p].pc # "requeue"
    /\ OwnNumber(pub[p].seq) => OnEvent(p)

\* The batch holds each delivery once.
BatchDistinct ==
  \A i, j \in DOMAIN retry.batch :
    i # j => retry.batch[i].seq # retry.batch[j].seq \/ retry.batch[i].sub # retry.batch[j].sub

\* What the history of copies looks like: nothing follows one that was acknowledged,
\* and only a remote channel takes one without saying so.
Trail(q, s) ==
  /\ s \in Interceptors => sent[q][s] = <<>>
  /\ \A k \in DOMAIN sent[q][s] : sent[q][s][k].answer = "Ok" => k = Len(sent[q][s])
  /\ s \notin Remote => \A k \in DOMAIN sent[q][s] : sent[q][s][k].answer = "Ok"

\* The record of a delivery against what was sent: a delivery the retry task has
\* in its batch has failed, the one at hand may have got through just now.
Ledger(q, s) ==
  /\ Trail(q, s)
  /\ Queued(q, s) => ~Acked(q, s) /\ (q \in Stored => St(q, s) = "Failed")
  /\ InRetry(q, s) => /\ q \in Stored => St(q, s) = "Failed"
                      /\ Acked(q, s) <=> retry.out = "Delivered"
  /\ q \in Stored /\ s \notin Interceptors /\ St(q, s) # "None" /\ ~InRetry(q, s) =>
       (St(q, s) = "Delivered" <=> Acked(q, s))
  /\ q \in Stored /\ St(q, s) = "None" => sent[q][s] = <<>> \/ Acked(q, s)

\* A subscriber that is owed the event and has no record is still open; the chain.
Course(q, s) ==
  /\ q \in Stored /\ droppedBy[q] = {} /\ s \in owed[q] /\ St(q, s) = "None" =>
       \E p \in Publishers : Works(p, q) /\ s \in Open(p)
  /\ \A k \in DOMAIN sent[q][s] :
       sent[q][s][k].by = "dispatch" => sent[q][s][k].payload = {j \in modified[q] : After(j, s)}
  /\ (\E i \in droppedBy[q] : After(i, s)) => ~Touched(q, s)

\* The delivery waits in the batch with that number of attempts behind it.
QueuedAs(q, s, n) ==
  \E i \in DOMAIN retry.batch :
    /\ retry.batch[i] = [seq |-> q, sub |-> s, attempts |-> n]
    /\ i > 1 \/ retry.pc = "attempt"

\* A delivery that has failed has more attempts behind it than copies that got
\* through, the one at hand at least as many, and the batch knows how many.
Counts(q, s) ==
  /\ Len(sent[q][s]) <= 1 \/ Len(sent[q][s]) < MaxAttempts
  /\ q \in Stored /\ St(q, s) = "Failed" /\ ~InRetry(q, s) => Len(sent[q][s]) < Tries(q, s)
  /\ \A n \in Nat : QueuedAs(q, s, n) =>
       Len(sent[q][s]) < n /\ n < MaxAttempts /\ (q \in Stored => Tries(q, s) = n)
  /\ InRetry(q, s) => \E n \in Nat :
       /\ Head(retry.batch).attempts = n /\ Len(sent[q][s]) <= n /\ n < MaxAttempts
       /\ q \in Stored => Tries(q, s) = n

CountInv == \A q \in Seqs, s \in Subscribers : OwnNumber(q) => Counts(q, s)

ReliableInv ==
  /\ Reliable
  /\ ToldInv
  /\ BatchDistinct
  /\ \A p \in Publishers : PublisherInv(p)
  /\ \A q \in Seqs, s \in Subscribers : OwnNumber(q) => Ledger(q, s) /\ Course(q, s)

-----------------------------------------------------------------------------
(* The list of entries and the store                                        *)

\* The first of the entries is one of them, and none comes before it.
LEMMA FirstIs ==
  ASSUME NEW T \in SUBSET Subscribers, T # {}
  PROVE  First(T) \in T /\ \A t \in T \ {First(T)} : Rank[First(T)] < Rank[t]
<1> DEFINE R == {Rank[t] : t \in T}
<1>1. R \subseteq Nat /\ R # {}
  BY DispatchAssumption
<1>2. PICK r \in R : \A e \in R : ~ (<<e, r>> \in OpToRel(<, Nat))
  BY <1>1, NatLessThanWellFounded, WFMin
<1>3. \A e \in R : r <= e
  <2> SUFFICES ASSUME NEW e \in R PROVE r <= e
    OBVIOUS
  <2>1. r \in Nat /\ e \in Nat
    BY <1>1
  <2>2. ~ (<<e, r>> \in OpToRel(<, Nat))
    BY <1>2
  <2> QED
    BY <2>1, <2>2 DEF OpToRel
<1>4. \E s \in T : \A t \in T : Rank[s] <= Rank[t]
  BY <1>3
<1>5. First(T) \in T /\ \A t \in T : Rank[First(T)] <= Rank[t]
  BY <1>4 DEF First
<1>6. \A t \in T \ {First(T)} : Rank[First(T)] < Rank[t]
  BY <1>5, DispatchAssumption
<1> QED
  BY <1>5, <1>6

\* A slot of the table holds an event or nothing, and can tell.
LEMMA SlotIs ==
  ASSUME StoreTypeOK, NEW q \in Seqs
  PROVE  /\ q \in Stored <=> events[q] \in StoredEvent
         /\ q \notin Stored <=> events[q] = NoEvent
<1>1. NoEvent \notin StoredEvent
  BY DEF NoEvent, StoredEvent, EventStatus
<1> QED
  BY <1>1 DEF StoreTypeOK, Stored

\* Nothing is added to the store and no delivery record is changed.
Keeps ==
  /\ StoreTypeOK'
  /\ Stored' \subseteq Stored
  /\ \A q \in Stored', s \in Subscribers : St(q, s)' = St(q, s) /\ Tries(q, s)' = Tries(q, s)

\* So does a step that does not write to it.
LEMMA UnchangedKeeps ==
  ASSUME StoreTypeOK, events' = events, clock' = clock
  PROVE  Keeps
  BY DEF Keeps, StoreTypeOK, Stored, St, Tries

\* update_status leaves the delivery records alone.
LEMMA UpdateStatusKeeps ==
  ASSUME StoreTypeOK, NEW q \in Seqs, NEW st \in EventStatus, UpdateStatus(q, st), clock' = clock
  PROVE  Keeps
<1>1. CASE q \notin Stored
  BY <1>1, UnchangedKeeps DEF UpdateStatus
<1>2. CASE q \in Stored
  <2>1. events[q] \in StoredEvent /\ events' = [events EXCEPT ![q].status = st]
    BY <1>2, SlotIs DEF UpdateStatus
  <2>2. events'[q] \in StoredEvent /\ events'[q].deliveries = events[q].deliveries
    BY <2>1 DEF StoreTypeOK, StoredEvent
  <2>3. \A r \in Seqs \ {q} : events'[r] = events[r]
    BY <2>1 DEF StoreTypeOK
  <2>4. StoreTypeOK'
    BY <2>1, <2>2 DEF StoreTypeOK
  <2> QED
    BY <1>2, <2>2, <2>3, <2>4 DEF Keeps, Stored, St, Tries
<1> QED
  BY <1>1, <1>2

\* compact and purge remove events and leave the others alone.
LEMMA RemovalKeeps ==
  ASSUME StoreTypeOK, clock' = clock,
         \/ Compact \/ \E q \in Seqs : PurgeDeadLettered(q)
  PROVE  Keeps
<1>1. \A q \in Seqs : events'[q] \in {events[q], NoEvent}
  BY DEF Compact, PurgeDeadLettered, StoreTypeOK
<1>2. events' \in [Seqs -> StoredEvent \cup {NoEvent}]
  BY DEF Compact, PurgeDeadLettered, StoreTypeOK
<1> QED
  BY <1>1, <1>2 DEF Keeps, Stored, St, Tries, StoreTypeOK

\* record_delivery changes one record, if the event is there.
LEMMA RecordMakes ==
  ASSUME StoreTypeOK, NEW q \in Seqs, NEW s \in Subscribers, NEW st \in DeliveryStatus,
         NEW nr \in Nat, RecordDelivery(q, s, st, nr), clock' = clock
  PROVE  /\ StoreTypeOK' /\ Stored' = Stored
         /\ \A r \in Stored, t \in Subscribers :
              /\ St(r, t)' = IF r = q /\ t = s THEN st ELSE St(r, t)
              /\ r # q \/ t # s => Tries(r, t)' = Tries(r, t)
         /\ q \in Stored /\ st = "Failed" =>
              Tries(q, s)' = IF St(q, s) = "None" THEN 1 ELSE Tries(q, s) + 1
<1>1. CASE q \notin Stored
  BY <1>1, UnchangedKeeps DEF RecordDelivery, Keeps, Stored, St
<1>2. CASE q \in Stored
  <2> DEFINE d == events[q].deliveries[s]
             new == Recorded(d, st, nr)
  <2>1. events[q] \in StoredEvent /\ events' = [events EXCEPT ![q].deliveries[s] = new]
    BY <1>2, SlotIs DEF RecordDelivery
  <2>2. d \in DeliveryRecord
    BY <2>1 DEF StoredEvent
  <2>3. /\ new \in DeliveryRecord /\ new.status = st
        /\ st = "Failed" => new.attempts = IF d.status = "None" THEN 1 ELSE d.attempts + 1
    <3>1. CASE d.status = "None"
      BY <3>1 DEF Recorded, DeliveryRecord
    <3>2. CASE d.status # "None"
      BY <2>2, <3>2 DEF Recorded, DeliveryRecord
    <3> QED
      BY <3>1, <3>2
  <2>9. d.status = St(q, s) /\ d.attempts = Tries(q, s)
    BY DEF St, Tries
  <2> HIDE DEF d, new
  <2>4. /\ events'[q] \in StoredEvent
        /\ events'[q].deliveries = [events[q].deliveries EXCEPT ![s] = new]
    BY <2>1, <2>3 DEF StoreTypeOK, StoredEvent
  <2>5. \A r \in Seqs \ {q} : events'[r] = events[r]
    BY <2>1 DEF StoreTypeOK
  <2>6. StoreTypeOK'
    BY <2>1, <2>4 DEF StoreTypeOK
  <2>7. Stored' = Stored
    BY <1>2, <2>4, <2>5, <2>6, SlotIs DEF Stored, NoEvent, StoredEvent, EventStatus
  <2>8. \A t \in Subscribers : /\ St(q, t)' = IF t = s THEN st ELSE St(q, t)
                               /\ t # s => Tries(q, t)' = Tries(q, t)
    BY <2>1, <2>3, <2>4 DEF St, Tries, StoredEvent
  <2>10. st = "Failed" => Tries(q, s)' = IF St(q, s) = "None" THEN 1 ELSE Tries(q, s) + 1
    BY <2>1, <2>3, <2>4, <2>9 DEF Tries, StoredEvent
  <2> QED
    BY <2>5, <2>6, <2>7, <2>8, <2>10 DEF St, Tries, Stored
<1> QED
  BY <1>1, <1>2

\* append stores an event without records under the number it gives out.
LEMMA AppendMakes ==
  ASSUME StoreTypeOK, NEW subj \in Subjects, AppendEvent(subj), clock' = clock,
         NEW n, n = NextSeq
  PROVE  /\ StoreTypeOK' /\ n \in Seqs
         /\ Stored' = Stored \cup {n}
         /\ \A t \in Subscribers : St(n, t)' = "None"
         /\ \A r \in Stored \ {n}, t \in Subscribers : St(r, t)' = St(r, t) /\ Tries(r, t)' = Tries(r, t)
<1>1. n \in Seqs /\ events' = [events EXCEPT ![n] = NewEvent(subj)]
  BY DEF AppendEvent
<1>2. NewEvent(subj) \in StoredEvent /\ \A t \in Subscribers : NewEvent(subj).deliveries[t].status = "None"
  BY DEF NewEvent, StoredEvent, StoreTypeOK, EventStatus, NoDelivery, DeliveryRecord, NoRetry
<1>3. events'[n] = NewEvent(subj) /\ \A r \in Seqs \ {n} : events'[r] = events[r]
  BY <1>1 DEF StoreTypeOK
<1>4. StoreTypeOK'
  BY <1>1, <1>2 DEF StoreTypeOK
<1>5. NewEvent(subj) # NoEvent
  BY <1>2 DEF NoEvent, StoredEvent, EventStatus
<1>6. Stored' = Stored \cup {n}
  BY <1>1, <1>3, <1>5 DEF Stored
<1>7. \A t \in Subscribers : St(n, t)' = "None"
  BY <1>2, <1>3 DEF St
<1>8. \A r \in Stored \ {n} : events'[r] = events[r]
  BY <1>3 DEF Stored
<1>9. \A r \in Stored \ {n}, t \in Subscribers : St(r, t)' = St(r, t) /\ Tries(r, t)' = Tries(r, t)
  BY <1>8 DEF St, Tries
<1> QED
  BY <1>1, <1>4, <1>6, <1>7, <1>9

\* requeue_dead_lettered takes the records of one event away.
LEMMA RequeueMakes ==
  ASSUME StoreTypeOK, NEW q \in Seqs, RequeueDeadLettered(q), clock' = clock
  PROVE  /\ StoreTypeOK' /\ Stored' = Stored
         /\ \A r \in Stored, t \in Subscribers : St(r, t)' = IF r = q THEN "None" ELSE St(r, t)
<1>1. events[q] \in StoredEvent /\ q \in Stored
  BY SlotIs DEF RequeueDeadLettered
<1>2. events' = [events EXCEPT ![q].status = "Pending",
                               ![q].deliveries = [s \in Subscribers |-> NoDelivery]]
  BY DEF RequeueDeadLettered
<1>3. NoDelivery \in DeliveryRecord /\ NoDelivery.status = "None"
  BY DEF NoDelivery, DeliveryRecord, NoRetry
<1>4. events'[q] \in StoredEvent /\ events'[q].deliveries = [s \in Subscribers |-> NoDelivery]
  BY <1>1, <1>2, <1>3 DEF StoreTypeOK, StoredEvent, EventStatus
<1>5. \A r \in Seqs \ {q} : events'[r] = events[r]
  BY <1>2 DEF StoreTypeOK
<1>6. StoreTypeOK'
  BY <1>2, <1>4 DEF StoreTypeOK
<1>7. Stored' = Stored
  BY <1>1, <1>4, <1>5, <1>6, SlotIs DEF Stored, NoEvent, StoredEvent, EventStatus
<1> QED
  BY <1>3, <1>4, <1>5, <1>6, <1>7 DEF St, Stored

-----------------------------------------------------------------------------
(* Types                                                                    *)

\* What a publisher may become without a change of the other variables' types.
LEMMA PubTyped ==
  ASSUME pub \in [Publishers -> PubRecord], NEW p \in Publishers, NEW r \in PubRecord,
         pub' = [pub EXCEPT ![p] = r]
  PROVE  pub' \in [Publishers -> PubRecord] /\ pub'[p] = r
         /\ \A o \in Publishers \ {p} : pub'[o] = pub[o]
  OBVIOUS

\* A publisher between two calls, and one that begins.
LEMMA IdleTyped ==
  /\ IdlePub \in PubRecord /\ IdlePub.pc = "idle"
  /\ IdleRetry \in RetryRecordType /\ IdleRetry.pc = "idle" /\ IdleRetry.batch = <<>>
<1>1. IdlePub \in PubRecord /\ IdlePub.pc = "idle"
  BY DEF IdlePub, PubRecord, Outcomes
<1>2. <<>> \in Seq(BatchEntry)
  OBVIOUS
<1>3. IdleRetry \in RetryRecordType /\ IdleRetry.pc = "idle" /\ IdleRetry.batch = <<>>
  BY <1>2 DEF IdleRetry, RetryRecordType, Outcomes
<1> QED
  BY <1>1, <1>3

\* The batch without its head is a batch.
LEMMA NextDeliveryTyped ==
  ASSUME retry \in RetryRecordType, retry.batch # <<>>
  PROVE  /\ NextDelivery \in RetryRecordType
         /\ NextDelivery.pc # "idle" => NextDelivery.batch # <<>>
         /\ NextDelivery.pc \in {"idle", "attempt"}
         /\ NextDelivery.batch = Tail(retry.batch)
         /\ DOMAIN NextDelivery.batch = 1..(Len(retry.batch) - 1)
         /\ \A i \in DOMAIN NextDelivery.batch :
              i + 1 \in DOMAIN retry.batch /\ NextDelivery.batch[i] = retry.batch[i + 1]
<1>1. retry.batch \in Seq(BatchEntry)
  BY DEF RetryRecordType
<1>2. /\ Tail(retry.batch) \in Seq(BatchEntry) /\ Len(retry.batch) \in Nat \ {0}
      /\ DOMAIN retry.batch = 1..Len(retry.batch)
      /\ DOMAIN Tail(retry.batch) = 1..(Len(retry.batch) - 1)
      /\ \A i \in 1..(Len(retry.batch) - 1) : Tail(retry.batch)[i] = retry.batch[i + 1]
  BY <1>1
<1>3. /\ NextDelivery.pc = IF Tail(retry.batch) = <<>> THEN "idle" ELSE "attempt"
      /\ NextDelivery.batch = Tail(retry.batch)
  BY DEF NextDelivery, IdleRetry
<1>4. NextDelivery \in RetryRecordType
  BY <1>2, IdleTyped DEF NextDelivery, RetryRecordType
<1> QED
  BY <1>2, <1>3, <1>4, SMTT(40)

\* The head of the batch.
LEMMA HeadOf ==
  ASSUME retry \in RetryRecordType, retry.batch # <<>>
  PROVE  /\ Head(retry.batch) = retry.batch[1] /\ 1 \in DOMAIN retry.batch
         /\ Head(retry.batch) \in BatchEntry
         /\ DOMAIN retry.batch = 1..Len(retry.batch) /\ Len(retry.batch) \in Nat
         /\ \A i \in DOMAIN retry.batch : retry.batch[i] \in BatchEntry
<1>1. retry.batch \in Seq(BatchEntry)
  BY DEF RetryRecordType
<1> QED
  BY <1>1

\* The snapshot of a poll: deliveries that have failed, each once.
LEMMA PollIs ==
  ASSUME StoreTypeOK, NEW b \in QueryRetryable(MaxAttempts, QueryLimit)
  PROVE  /\ b \in Seq(Stored \X Subscribers)
         /\ \A i \in DOMAIN b : /\ St(b[i][1], b[i][2]) = "Failed"
                              /\ Tries(b[i][1], b[i][2]) < MaxAttempts
         /\ \A i, j \in DOMAIN b : i # j => b[i] # b[j]
<1> DEFINE R == Retryables(MaxAttempts)
           n == IF Cardinality(R) < QueryLimit THEN Cardinality(R) ELSE QueryLimit
<1>1. IsFiniteSet(R)
  <2>1. IsFiniteSet(Seqs)
    BY StoreAssumption, FS_Interval DEF Seqs
  <2>2. IsFiniteSet(Stored)
    BY <2>1, FS_Subset DEF Stored
  <2>3. IsFiniteSet(Stored \X Subscribers)
    BY <2>2, FS_Product, DispatchAssumption
  <2>4. R \subseteq Stored \X Subscribers
    BY DEF Retryables
  <2> QED
    BY <2>3, <2>4, FS_Subset
<1>2. n \in Nat
  BY <1>1, FS_CardinalityType, DispatchAssumption
<1>3. b \in [1..n -> R] /\ \A i, j \in 1..n : i # j => b[i] # b[j]
  BY DEF QueryRetryable
<1> HIDE DEF n
<1>4. b \in Seq(R) /\ DOMAIN b = 1..n
  BY <1>2, <1>3
<1>5. \A r \in R : /\ r \in Stored \X Subscribers /\ St(r[1], r[2]) = "Failed"
                   /\ Tries(r[1], r[2]) < MaxAttempts
  BY DEF Retryables, IsRetryable, St, Tries
<1> QED
  BY <1>3, <1>4, <1>5

\* The copy e is added to the history.
Copied(q, s, e) == sent' = [sent EXCEPT ![q][s] = IF Len(@) < SentKept THEN Append(@, e) ELSE @]

\* A copy is one more entry of the history, as long as there is room.
LEMMA CopyMakes ==
  ASSUME BusTyped, NEW q \in Seqs, NEW s \in Subscribers, NEW e \in SentEntry, Copied(q, s, e)
  PROVE  /\ sent' \in [Seqs -> [Subscribers -> Seq(SentEntry)]]
         /\ sent'[q][s] # <<>>
         /\ sent[q][s] = <<>> => sent'[q][s] = <<e>>
         /\ Len(sent[q][s]) <= MaxAttempts => sent'[q][s] = Append(sent[q][s], e)
         /\ \A r \in Seqs, t \in Subscribers : r # q \/ t # s => sent'[r][t] = sent[r][t]
<1> DEFINE new == IF Len(sent[q][s]) < SentKept THEN Append(sent[q][s], e) ELSE sent[q][s]
<1>0. SentKept \in Nat /\ SentKept >= 1
  BY StoreAssumption DEF SentKept
<1>2. sent[q][s] \in Seq(SentEntry) /\ sent \in [Seqs -> [Subscribers -> Seq(SentEntry)]]
  BY DEF BusTyped
<1>3. sent' = [sent EXCEPT ![q][s] = new]
  BY DEF Copied
<1>4. new \in Seq(SentEntry) /\ new # <<>>
  <2>1. Append(sent[q][s], e) \in Seq(SentEntry) /\ Append(sent[q][s], e) # <<>>
    <3>1. PICK x \in Seq(SentEntry) : x = sent[q][s]
      BY <1>2
    <3>2. Append(x, e) \in Seq(SentEntry) /\ Len(Append(x, e)) = Len(x) + 1 /\ Len(x) \in Nat
      OBVIOUS
    <3> QED
      BY <3>1, <3>2
  <2>2. Len(sent[q][s]) >= SentKept => sent[q][s] # <<>>
    BY <1>2, <1>0
  <2>3. Len(sent[q][s]) \in Nat
    BY <1>2
  <2> QED
    BY <1>0, <1>2, <2>1, <2>2, <2>3
<1>5. sent[q][s] = <<>> => new = <<e>>
  BY <1>0
<1>6. Len(sent[q][s]) <= MaxAttempts => new = Append(sent[q][s], e)
  <2>1. Len(sent[q][s]) \in Nat
    BY <1>2
  <2> QED
    BY <1>0, <2>1, StoreAssumption DEF SentKept
<1> HIDE DEF new
<1> QED
  BY <1>2, <1>3, <1>4, <1>5, <1>6

\* A copy that got through, with what it carried, who sent it, what was answered.
LEMMA ThroughMakes ==
  ASSUME BusTyped, NEW q \in Seqs, NEW s \in Subscribers, NEW payload \in SUBSET Interceptors,
         NEW by \in {"dispatch", "retry"}, NEW answer \in {"Ok", "Failed"}, Through(q, s, payload, by, answer)
  PROVE  /\ sent' \in [Seqs -> [Subscribers -> Seq(SentEntry)]]
         /\ sent'[q][s] # <<>>
         /\ sent[q][s] = <<>> => sent'[q][s] = <<[payload |-> payload, by |-> by, answer |-> answer]>>
         /\ Len(sent[q][s]) <= MaxAttempts =>
              sent'[q][s] = Append(sent[q][s], [payload |-> payload, by |-> by, answer |-> answer])
         /\ \A r \in Seqs, t \in Subscribers : r # q \/ t # s => sent'[r][t] = sent[r][t]
<1> DEFINE e == [payload |-> payload, by |-> by, answer |-> answer]
<1>1. e \in SentEntry
  BY DEF SentEntry
<1>2. Copied(q, s, e)
  BY DEF Through, Copied
<1> HIDE DEF e
<1>3. /\ sent' \in [Seqs -> [Subscribers -> Seq(SentEntry)]]
      /\ sent'[q][s] # <<>>
      /\ sent[q][s] = <<>> => sent'[q][s] = <<e>>
      /\ Len(sent[q][s]) <= MaxAttempts => sent'[q][s] = Append(sent[q][s], e)
      /\ \A r \in Seqs, t \in Subscribers : r # q \/ t # s => sent'[r][t] = sent[r][t]
  BY <1>1, <1>2, CopyMakes
<1> QED
  BY <1>3 DEF e

\* publish_event begins with a number of its own.
LEMMA PublishTyped ==
  ASSUME Typed, NEW p \in Publishers, NEW subj \in Subjects, Publish(p, subj)
  PROVE  Typed'
<1> USE DEF Typed
<1>1. PICK n : n = NextSeq
  OBVIOUS
<1>2. StoreTypeOK' /\ n \in Seqs
  BY <1>1, AppendMakes DEF Publish, BusTyped
<1>3. pub' = [pub EXCEPT ![p] = [IdlePub EXCEPT !.pc = "resolve", !.seq = n, !.subj = subj]]
  BY <1>1 DEF Publish
<1>4. [IdlePub EXCEPT !.pc = "resolve", !.seq = n, !.subj = subj] \in PubRecord
  BY <1>2, IdleTyped DEF PubRecord
<1>5. /\ pub' \in [Publishers -> PubRecord]
      /\ pub'[p].pc = "resolve" /\ pub'[p].seq = n /\ pub'[p].subj = subj
      /\ \A o \in Publishers \ {p} : pub'[o] = pub[o]
  BY <1>3, <1>4 DEF BusTyped, PubRecord
<1>6. sent' = [sent EXCEPT ![n] = [s \in Subscribers |-> <<>>]]
  BY <1>1 DEF Publish
<1>7. sent' \in [Seqs -> [Subscribers -> Seq(SentEntry)]]
  <2>1. <<>> \in Seq(SentEntry)
    OBVIOUS
  <2> QED
    BY <1>6, <2>1 DEF BusTyped
<1>8. /\ owed' \in [Seqs -> SUBSET Subscribers] /\ modified' \in [Seqs -> SUBSET Interceptors]
      /\ droppedBy' \in [Seqs -> SUBSET Interceptors]
      /\ reused' \in [Seqs -> {"unused", "once", "again"}]
  BY DEF Publish, FreshDispatch, BusTyped
<1>9. UNCHANGED <<subs, chan, retry>>
  BY DEF Publish, busVars
<1>10. BusTyped'
  BY <1>2, <1>5, <1>7, <1>8, <1>9 DEF BusTyped
<1>11. TasksTyped'
  BY <1>2, <1>5, <1>9 DEF TasksTyped
<1> QED
  BY <1>10, <1>11

\* The fields that a step of a publisher leaves to be typed.
LEMMA PublisherStepTyped ==
  ASSUME Typed, NEW p \in Publishers, pub' \in [Publishers -> PubRecord],
         \A o \in Publishers \ {p} : pub'[o] = pub[o],
         pub'[p].pc # "idle" => pub'[p].seq \in Seqs /\ pub'[p].subj \in Subjects,
         pub'[p].pc = "record" => pub'[p].todo # {} /\ pub'[p].out # "None",
         StoreTypeOK', chan' \in [Subscribers -> Int], UNCHANGED <<subs, retry, reused>>,
         sent' \in [Seqs -> [Subscribers -> Seq(SentEntry)]],
         owed' \in [Seqs -> SUBSET Subscribers], modified' \in [Seqs -> SUBSET Interceptors],
         droppedBy' \in [Seqs -> SUBSET Interceptors]
  PROVE  Typed'
  BY DEF Typed, BusTyped, TasksTyped

\* Steps of a publisher that change nothing else than its own state.
LEMMA OwnStepTyped ==
  ASSUME Typed, NEW p \in Publishers, pub' \in [Publishers -> PubRecord],
         \A o \in Publishers \ {p} : pub'[o] = pub[o],
         pub'[p].pc # "idle" => pub'[p].seq \in Seqs /\ pub'[p].subj \in Subjects,
         pub'[p].pc = "record" => pub'[p].todo # {} /\ pub'[p].out # "None",
         StoreTypeOK', UNCHANGED <<subs, chan, retry, history>>
  PROVE  Typed'
  BY PublisherStepTyped DEF Typed, BusTyped, history

\* An interceptor call with outcome o that changed the payload by c, the
\* interceptor or nobody.
InterceptMakes(p, o, c) ==
  LET s == First(pub[p].todo)
      q == pub[p].seq
  IN  /\ o = "Abort" => c = {}
      /\ pub' \in [Publishers -> PubRecord] /\ \A x \in Publishers \ {p} : pub'[x] = pub[x]
      /\ pub'[p].pc = "record" /\ pub'[p].payload = pub[p].payload \cup c
      /\ pub'[p].out = IF o = "Abort" THEN "DeadLettered" ELSE "Delivered"
      /\ pub'[p].dropped <=> o = "Drop"
      /\ pub'[p].seq = pub[p].seq /\ pub'[p].subj = pub[p].subj /\ pub'[p].phase = pub[p].phase
      /\ pub'[p].todo = pub[p].todo /\ pub'[p].rest = pub[p].rest
      /\ modified' = [modified EXCEPT ![q] = modified[q] \cup c]
      /\ droppedBy' = [droppedBy EXCEPT ![q] = IF o = "Drop" THEN droppedBy[q] \cup {s}
                                                             ELSE droppedBy[q]]

\* What an interceptor call does, field by field.
LEMMA InterceptIs ==
  ASSUME pub \in [Publishers -> PubRecord], NEW p \in Publishers, Intercept(p)
  PROVE  \E o \in InterceptOutcomes, c \in SUBSET {First(pub[p].todo)} : InterceptMakes(p, o, c)
<1>1. PICK o \in InterceptOutcomes, mutates \in BOOLEAN :
        LET s == First(pub[p].todo)
            q == pub[p].seq
            changed == IF o # "Abort" /\ mutates THEN {s} ELSE {}
        IN  /\ pub' = [pub EXCEPT
                 ![p].payload = @ \cup changed,
                 ![p].out = IF o = "Abort" THEN "DeadLettered" ELSE "Delivered",
                 ![p].failed = @ \/ o = "Abort",
                 ![p].dropped = (o = "Drop"),
                 ![p].pc = "record"]
            /\ modified' = [modified EXCEPT ![q] = @ \cup changed]
            /\ droppedBy' = [droppedBy EXCEPT ![q] = IF o = "Drop" THEN @ \cup {s} ELSE @]
  BY DEF Intercept
<1> DEFINE s == First(pub[p].todo)
           c == IF o # "Abort" /\ mutates THEN {s} ELSE {}
           out == IF o = "Abort" THEN "DeadLettered" ELSE "Delivered"
           failed == pub[p].failed \/ o = "Abort"
           dropped == (o = "Drop")
<1>2. /\ pub' = [pub EXCEPT ![p].payload = pub[p].payload \cup c, ![p].out = out,
                            ![p].failed = failed, ![p].dropped = dropped, ![p].pc = "record"]
      /\ modified' = [modified EXCEPT ![pub[p].seq] = modified[pub[p].seq] \cup c]
      /\ droppedBy' = [droppedBy EXCEPT ![pub[p].seq] =
                         IF o = "Drop" THEN droppedBy[pub[p].seq] \cup {s} ELSE droppedBy[pub[p].seq]]
  BY <1>1
<1>3. /\ c \in SUBSET {s} /\ c \in SUBSET Interceptors /\ (o = "Abort" => c = {})
      /\ out \in Outcomes
  BY DEF Intercept, Outcomes, DeliveryStatus
<1>4. failed \in BOOLEAN /\ dropped \in BOOLEAN
  OBVIOUS
<1> HIDE DEF c, out, failed, dropped
<1>5. pub[p] \in PubRecord
  OBVIOUS
<1>6. /\ pub' \in [Publishers -> PubRecord] /\ \A x \in Publishers \ {p} : pub'[x] = pub[x]
      /\ pub'[p].pc = "record" /\ pub'[p].payload = pub[p].payload \cup c
      /\ pub'[p].out = out /\ pub'[p].dropped = dropped
      /\ pub'[p].seq = pub[p].seq /\ pub'[p].subj = pub[p].subj /\ pub'[p].phase = pub[p].phase
      /\ pub'[p].todo = pub[p].todo /\ pub'[p].rest = pub[p].rest
  BY <1>2, <1>3, <1>4, <1>5 DEF PubRecord
<1>7. InterceptMakes(p, o, c)
  BY <1>2, <1>3, <1>6 DEF InterceptMakes, out, dropped
<1> QED
  BY <1>3, <1>7

\* The rest of the pipeline.
LEMMA PublisherTyped ==
  ASSUME Typed, NEW p \in Publishers, PublisherStep(p)
  PROVE  Typed'
<1> USE DEF Typed
<1>0. /\ pub \in [Publishers -> PubRecord] /\ pub[p] \in PubRecord /\ StoreTypeOK
      /\ pub[p].pc # "idle" => pub[p].seq \in Seqs /\ pub[p].subj \in Subjects
  BY DEF BusTyped, TasksTyped
<1>1. CASE ReplayRequeue(p)
  <2> DEFINE q == pub[p].seq
  <2>0. pub[p].pc = "requeue" /\ UNCHANGED <<clock, busVars, retry>>
    BY <1>1 DEF ReplayRequeue
  <2>1. CASE /\ RequeueDeadLettered(q)
             /\ FreshDispatch(q)
             /\ pub' = [pub EXCEPT ![p].pc = "resolve"]
             /\ UNCHANGED <<sent, reused>>
    <3>1. StoreTypeOK'
      BY <1>0, <2>0, <2>1, RequeueMakes
    <3>2. /\ pub' \in [Publishers -> PubRecord] /\ \A o \in Publishers \ {p} : pub'[o] = pub[o]
          /\ pub'[p].pc = "resolve" /\ pub'[p].seq = pub[p].seq /\ pub'[p].subj = pub[p].subj
      BY <1>0, <2>1 DEF PubRecord
    <3>3. /\ owed' \in [Seqs -> SUBSET Subscribers] /\ modified' \in [Seqs -> SUBSET Interceptors]
          /\ droppedBy' \in [Seqs -> SUBSET Interceptors]
      BY <2>1 DEF FreshDispatch, BusTyped
    <3> QED
      BY <1>0, <2>0, <2>1, <3>1, <3>2, <3>3, PublisherStepTyped DEF busVars, BusTyped
  <2>2. CASE pub' = [pub EXCEPT ![p] = IdlePub] /\ UNCHANGED <<events, history>>
    BY <1>0, <2>0, <2>2, OwnStepTyped, PubTyped, IdleTyped, UnchangedKeeps DEF busVars, Keeps
  <2> QED
    BY <1>1, <2>1, <2>2 DEF ReplayRequeue
<1>2. CASE Resolve(p)
  <2>1. Lookup(pub[p].subj) \in SUBSET Subscribers
    BY DEF Lookup, Live
  <2>2. /\ pub' \in [Publishers -> PubRecord] /\ \A o \in Publishers \ {p} : pub'[o] = pub[o]
        /\ pub'[p].pc \in {"close", "open"} /\ pub'[p].seq = pub[p].seq /\ pub'[p].subj = pub[p].subj
    BY <1>0, <1>2, <2>1 DEF Resolve, PubRecord
  <2> QED
    BY <1>0, <1>2, <2>2, OwnStepTyped, UnchangedKeeps DEF Resolve, busVars, Keeps
<1>3. CASE MarkDispatching(p)
  <2>0. pub[p].pc = "open" /\ UNCHANGED <<clock, busVars, retry, sent, modified, droppedBy, reused>>
    BY <1>3 DEF MarkDispatching
  <2>1. StoreTypeOK'
    BY <1>0, <1>3, <2>0, UpdateStatusKeeps, UnchangedKeeps
       DEF MarkDispatching, BestEffort, EventStatus, Keeps
  <2>2. PICK rejected \in SUBSET (Filtered \cap pub[p].todo) :
          /\ pub' = [pub EXCEPT ![p].todo = (pub[p].todo \ rejected) \ AsyncSubs,
                                ![p].rest = (pub[p].todo \ rejected) \cap AsyncSubs,
                                ![p].pc = IF pub[p].todo \ rejected = {} THEN "close" ELSE "snapshot"]
          /\ owed' = [owed EXCEPT ![pub[p].seq] = pub[p].todo \ rejected]
    BY <1>3 DEF MarkDispatching
  <2>3. /\ pub' \in [Publishers -> PubRecord] /\ \A o \in Publishers \ {p} : pub'[o] = pub[o]
        /\ pub'[p].pc \in {"close", "snapshot"} /\ pub'[p].seq = pub[p].seq /\ pub'[p].subj = pub[p].subj
    BY <1>0, <2>2 DEF PubRecord
  <2>4. owed' \in [Seqs -> SUBSET Subscribers]
    BY <1>0, <2>2 DEF BusTyped, PubRecord
  <2> QED
    BY <1>0, <2>0, <2>1, <2>3, <2>4, PublisherStepTyped DEF busVars, BusTyped
<1>4. CASE SnapshotSync(p)
  <2>1. /\ pub' \in [Publishers -> PubRecord] /\ \A o \in Publishers \ {p} : pub'[o] = pub[o]
        /\ pub'[p].pc = "deliver" /\ pub'[p].seq = pub[p].seq /\ pub'[p].subj = pub[p].subj
    BY <1>0, <1>4 DEF SnapshotSync, PubRecord, Live
  <2> QED
    BY <1>0, <1>4, <2>1, OwnStepTyped, UnchangedKeeps DEF SnapshotSync, busVars, Keeps
<1>5. CASE SnapshotAsync(p)
  <2>1. /\ pub' \in [Publishers -> PubRecord] /\ \A o \in Publishers \ {p} : pub'[o] = pub[o]
        /\ pub'[p].pc = "deliver" /\ pub'[p].seq = pub[p].seq /\ pub'[p].subj = pub[p].subj
    BY <1>0, <1>5 DEF SnapshotAsync, PubRecord, Live
  <2> QED
    BY <1>0, <1>5, <2>1, OwnStepTyped, UnchangedKeeps DEF SnapshotAsync, busVars, Keeps
<1>6. CASE Intercept(p)
  <2>0. /\ pub[p].pc = "deliver" /\ pub[p].todo # {}
        /\ UNCHANGED <<events, clock, busVars, retry, sent, owed, reused>>
    BY <1>6 DEF Intercept
  <2>1. PICK o \in InterceptOutcomes, c \in SUBSET {First(pub[p].todo)} : InterceptMakes(p, o, c)
    BY <1>0, <1>6, InterceptIs
  <2>2. First(pub[p].todo) \in Interceptors
    BY <1>6 DEF Intercept
  <2>3. /\ pub' \in [Publishers -> PubRecord] /\ \A x \in Publishers \ {p} : pub'[x] = pub[x]
        /\ pub'[p].seq = pub[p].seq /\ pub'[p].subj = pub[p].subj
        /\ pub'[p].todo = pub[p].todo /\ pub'[p].out # "None"
    BY <2>1 DEF InterceptMakes
  <2>4. modified' \in [Seqs -> SUBSET Interceptors] /\ droppedBy' \in [Seqs -> SUBSET Interceptors]
    BY <1>0, <2>0, <2>1, <2>2 DEF BusTyped, InterceptMakes
  <2> QED
    BY <1>0, <2>0, <2>3, <2>4, PublisherStepTyped, UnchangedKeeps DEF busVars, BusTyped, Keeps
<1>7. CASE SendToChannel(p)
  <2> DEFINE s == First(pub[p].todo)
  <2>0. /\ pub[p].pc = "deliver" /\ pub[p].todo # {} /\ s \in pub[p].handles
        /\ pub' = [pub EXCEPT ![p].out = IF CanSend(s) THEN "Delivered" ELSE "Failed",
                              ![p].failed = @ \/ ~ CanSend(s),
                              ![p].pc = "record"]
        /\ UNCHANGED <<events, clock, subs, retry, owed, modified, droppedBy, reused>>
    BY <1>7 DEF SendToChannel
  <2>1. s \in Subscribers
    BY <1>0, <2>0 DEF PubRecord
  <2>2. /\ pub' \in [Publishers -> PubRecord] /\ \A o \in Publishers \ {p} : pub'[o] = pub[o]
        /\ pub'[p].seq = pub[p].seq /\ pub'[p].subj = pub[p].subj
        /\ pub'[p].todo = pub[p].todo /\ pub'[p].out # "None"
    BY <1>0, <2>0 DEF PubRecord, Outcomes, DeliveryStatus
  <2>3. sent' \in [Seqs -> [Subscribers -> Seq(SentEntry)]] /\ chan' \in [Subscribers -> Int]
    <3>1. CASE CanSend(s)
      <4>1. Enqueue(pub[p].seq, s, pub[p].payload, "dispatch")
        BY <1>7, <3>1 DEF SendToChannel
      <4>2. pub[p].payload \in SUBSET Interceptors
        BY <1>0 DEF PubRecord
      <4>3. Through(pub[p].seq, s, pub[p].payload, "dispatch", "Ok") /\ chan' = [chan EXCEPT ![s] = @ + 1]
        BY <4>1 DEF Enqueue
      <4>4. sent' \in [Seqs -> [Subscribers -> Seq(SentEntry)]]
        BY <1>0, <2>0, <2>1, <4>2, <4>3, ThroughMakes
      <4>5. chan' \in [Subscribers -> Int]
        BY <2>1, <4>3 DEF BusTyped
      <4> QED
        BY <4>4, <4>5
    <3>2. CASE ~CanSend(s)
      BY <1>7, <3>2 DEF SendToChannel, BusTyped
    <3> QED
      BY <3>1, <3>2
  <2> QED
    BY <1>0, <2>0, <2>2, <2>3, PublisherStepTyped, UnchangedKeeps DEF BusTyped, Keeps
<1>8. CASE HandleMissing(p)
  <2>1. /\ pub' \in [Publishers -> PubRecord] /\ \A o \in Publishers \ {p} : pub'[o] = pub[o]
        /\ pub'[p].seq = pub[p].seq /\ pub'[p].subj = pub[p].subj
        /\ pub'[p].todo # {} /\ pub'[p].out # "None"
    BY <1>0, <1>8 DEF HandleMissing, PubRecord, Outcomes, DeliveryStatus
  <2> QED
    BY <1>0, <1>8, <2>1, OwnStepTyped, UnchangedKeeps DEF HandleMissing, busVars, Keeps
<1>9. CASE RecordOutcome(p)
  <2>0. pub[p].pc = "record" /\ pub[p].todo # {} /\ pub[p].out \in DeliveryStatus
    BY <1>0, <1>9 DEF RecordOutcome, TasksTyped, PubRecord, Outcomes
  <2>1. First(pub[p].todo) \in Subscribers
    BY <1>0, <2>0, FirstIs DEF PubRecord
  <2>2. StoreTypeOK'
    <3>1. NextRetryAfter \in Nat /\ NoRetry \in Nat
      BY <1>0, StoreAssumption DEF NextRetryAfter, NoRetry, StoreTypeOK
    <3> QED
      BY <1>0, <1>9, <2>0, <2>1, <3>1, RecordMakes, UnchangedKeeps DEF RecordOutcome, BestEffort, Keeps
  <2>3. /\ pub' \in [Publishers -> PubRecord] /\ \A o \in Publishers \ {p} : pub'[o] = pub[o]
        /\ pub'[p].seq = pub[p].seq /\ pub'[p].subj = pub[p].subj /\ pub'[p].pc \in {"close", "deliver"}
    BY <1>0, <1>9 DEF RecordOutcome, PubRecord, Rest
  <2> QED
    BY <1>0, <1>9, <2>0, <2>2, <2>3, OwnStepTyped DEF RecordOutcome, busVars
<1>10. CASE CloseDelivered(p)
  <2>1. StoreTypeOK'
    BY <1>0, <1>10, UpdateStatusKeeps, UnchangedKeeps
       DEF CloseDelivered, BestEffort, EventStatus, Keeps
  <2> QED
    BY <1>0, <1>10, <2>1, OwnStepTyped, PubTyped, IdleTyped DEF CloseDelivered, busVars
<1>11. CASE Finalize(p)
  <2>1. StoreTypeOK'
    BY <1>0, <1>11, UpdateStatusKeeps, UnchangedKeeps
       DEF Finalize, BestEffort, EventStatus, Keeps
  <2> QED
    BY <1>0, <1>11, <2>1, OwnStepTyped, PubTyped, IdleTyped DEF Finalize, busVars
<1> QED
  BY <1>1, <1>2, <1>3, <1>4, <1>5, <1>6, <1>7, <1>8, <1>9, <1>10, <1>11 DEF PublisherStep

\* The batch of a poll, entry by entry.
LEMMA PollMakes ==
  ASSUME StoreTypeOK, PollRetryable
  PROVE  /\ retry' \in RetryRecordType /\ retry'.pc = "attempt" /\ retry'.batch # <<>>
         /\ \A i \in DOMAIN retry'.batch :
              LET d == retry'.batch[i]
              IN  /\ d.seq \in Stored /\ d.sub \in Subscribers /\ St(d.seq, d.sub) = "Failed"
                  /\ d.attempts = Tries(d.seq, d.sub) /\ d.attempts < MaxAttempts
         /\ \A i, j \in DOMAIN retry'.batch :
              i # j => retry'.batch[i].seq # retry'.batch[j].seq \/ retry'.batch[i].sub # retry'.batch[j].sub
<1> DEFINE Entry(r) == [seq |-> r[1], sub |-> r[2], attempts |-> events[r[1]].deliveries[r[2]].attempts]
<1>1. PICK b \in QueryRetryable(MaxAttempts, QueryLimit) :
        /\ b # <<>>
        /\ retry' = [IdleRetry EXCEPT !.pc = "attempt", !.batch = [i \in DOMAIN b |-> Entry(b[i])]]
  BY DEF PollRetryable
<1>2. /\ b \in Seq(Stored \X Subscribers)
      /\ \A i \in DOMAIN b : /\ St(b[i][1], b[i][2]) = "Failed"
                           /\ Tries(b[i][1], b[i][2]) < MaxAttempts
      /\ \A i, j \in DOMAIN b : i # j => b[i] # b[j]
  BY PollIs
<1>3. DOMAIN b = 1..Len(b) /\ Len(b) \in Nat \ {0}
  BY <1>1, <1>2
<1>4. \A r \in Stored \X Subscribers : /\ Entry(r) \in BatchEntry /\ Entry(r).seq = r[1]
                                        /\ Entry(r).sub = r[2] /\ Entry(r).attempts = Tries(r[1], r[2])
  <2> SUFFICES ASSUME NEW r \in Stored \X Subscribers
               PROVE  /\ Entry(r) \in BatchEntry /\ Entry(r).seq = r[1] /\ Entry(r).sub = r[2]
                      /\ Entry(r).attempts = Tries(r[1], r[2])
    OBVIOUS
  <2>1. r[1] \in Seqs /\ r[1] \in Stored /\ r[2] \in Subscribers
    BY DEF Stored
  <2>2. events[r[1]] \in StoredEvent
    BY <2>1, SlotIs
  <2>3. events[r[1]].deliveries[r[2]].attempts \in Nat
    BY <2>1, <2>2 DEF StoredEvent, DeliveryRecord
  <2> QED
    BY <2>1, <2>3 DEF BatchEntry, Tries
<1> HIDE DEF Entry
<1>5. PICK B : B = [i \in DOMAIN b |-> Entry(b[i])]
  OBVIOUS
<1>6. /\ B \in Seq(BatchEntry) /\ DOMAIN B = 1..Len(b)
      /\ \A i \in 1..Len(b) : B[i] = Entry(b[i]) /\ b[i] \in Stored \X Subscribers
  <2>1. \A i \in 1..Len(b) : b[i] \in Stored \X Subscribers
    BY <1>2, <1>3
  <2>2. B \in [1..Len(b) -> BatchEntry]
    BY <1>3, <1>4, <1>5, <2>1
  <2>3. B \in Seq(BatchEntry)
    BY <1>3, <2>2
  <2> QED
    BY <1>3, <1>5, <2>1, <2>2, <2>3
<1>7. B # <<>>
  BY <1>3, <1>6
<1>8. retry' \in RetryRecordType /\ retry'.pc = "attempt" /\ retry'.batch = B
  BY <1>1, <1>5, <1>6, IdleTyped DEF RetryRecordType
<1>9. \A i \in 1..Len(b) : /\ B[i].seq = b[i][1] /\ B[i].sub = b[i][2]
                           /\ B[i].attempts = Tries(b[i][1], b[i][2])
                           /\ b[i][1] \in Stored /\ b[i][2] \in Subscribers /\ b[i] = <<b[i][1], b[i][2]>>
  BY <1>4, <1>6
<1>10. \A i \in DOMAIN B : /\ B[i].seq \in Stored /\ B[i].sub \in Subscribers
                           /\ St(B[i].seq, B[i].sub) = "Failed"
                           /\ B[i].attempts = Tries(B[i].seq, B[i].sub) /\ B[i].attempts < MaxAttempts
  BY <1>2, <1>3, <1>6, <1>9
<1>11. \A i, j \in DOMAIN B : i # j => B[i].seq # B[j].seq \/ B[i].sub # B[j].sub
  <2> SUFFICES ASSUME NEW i \in DOMAIN B, NEW j \in DOMAIN B, i # j,
                      B[i].seq = B[j].seq, B[i].sub = B[j].sub
               PROVE  FALSE
    OBVIOUS
  <2>1. b[i] # b[j] /\ i \in 1..Len(b) /\ j \in 1..Len(b)
    BY <1>2, <1>3, <1>6
  <2>2. b[i] = <<B[i].seq, B[i].sub>> /\ b[j] = <<B[j].seq, B[j].sub>>
    BY <1>9, <2>1
  <2> QED
    BY <2>1, <2>2
<1> QED
  BY <1>7, <1>8, <1>10, <1>11

\* An attempt by the retry task, field by field.
LEMMA AttemptMakes ==
  ASSUME Typed, RetryAttempt
  PROVE  /\ retry.pc = "attempt" /\ retry.batch # <<>>
         /\ retry' \in RetryRecordType /\ retry'.pc = "record" /\ retry'.batch = retry.batch
         /\ retry'.out \in DeliveryStatus
         /\ UNCHANGED <<events, clock, subs, rxOpen, crashes, pub, owed, modified, droppedBy, reused>>
         /\ chan' \in [Subscribers -> Int]
         /\ LET d == Head(retry.batch) IN
              \/ /\ retry'.out = "Delivered" /\ d.sub \notin Interceptors
                 /\ Through(d.seq, d.sub, {}, "retry", "Ok")
              \/ /\ retry'.out # "Delivered" /\ d.sub \in Remote \ Interceptors
                 /\ Through(d.seq, d.sub, {}, "retry", "Failed")
              \/ retry'.out # "Delivered" /\ UNCHANGED sent
<1> DEFINE d == Head(retry.batch)
<1>1. retry.pc = "attempt" /\ retry.batch # <<>> /\ retry \in RetryRecordType
  BY DEF RetryAttempt, Typed, TasksTyped, BusTyped
<1>2. d \in BatchEntry
  BY <1>1, HeadOf
<1> HIDE DEF d
<1>11. PICK result \in RetryResults(d.sub) : \E through \in GotThrough(d.sub, result) :
        /\ retry' = [retry EXCEPT !.out = RetryOutcome(result, d.attempts), !.pc = "record"]
        /\ IF ~through THEN UNCHANGED <<chan, sent>>
           ELSE IF Channel[d.sub] = "InProcess" THEN Enqueue(d.seq, d.sub, {}, "retry")
           ELSE Through(d.seq, d.sub, {}, "retry", IF result = "Ok" THEN "Ok" ELSE "Failed") /\ UNCHANGED chan
  BY DEF RetryAttempt, d
<1>3. PICK through \in GotThrough(d.sub, result) :
        /\ retry' = [retry EXCEPT !.out = RetryOutcome(result, d.attempts), !.pc = "record"]
        /\ IF ~through THEN UNCHANGED <<chan, sent>>
           ELSE IF Channel[d.sub] = "InProcess" THEN Enqueue(d.seq, d.sub, {}, "retry")
           ELSE Through(d.seq, d.sub, {}, "retry", IF result = "Ok" THEN "Ok" ELSE "Failed") /\ UNCHANGED chan
  BY <1>11
<1>9. /\ result = "Ok" => through
      /\ result # "Ok" /\ through => d.sub \in Remote \ Interceptors /\ Channel[d.sub] # "InProcess"
  BY <1>3, DispatchAssumption DEF GotThrough, Remote
<1>4. /\ result = "Ok" => d.sub \notin Interceptors
      /\ (RetryOutcome(result, d.attempts) = "Delivered") <=> (result = "Ok")
      /\ RetryOutcome(result, d.attempts) \in DeliveryStatus
  BY DEF RetryResults, RetryOutcome, DeliveryStatus
<1>5. /\ retry' \in RetryRecordType /\ retry'.pc = "record" /\ retry'.batch = retry.batch
      /\ retry'.out = RetryOutcome(result, d.attempts)
  BY <1>1, <1>3, <1>4 DEF RetryRecordType, Outcomes
<1>6. chan' \in [Subscribers -> Int]
  <2>1. chan' = chan \/ chan' = [chan EXCEPT ![d.sub] = @ + 1]
    BY <1>3, Zenon DEF Enqueue
  <2>2. chan \in [Subscribers -> Int] /\ d.sub \in Subscribers
    BY <1>2 DEF Typed, BusTyped, BatchEntry
  <2> QED
    BY <2>1, <2>2
<1>7. IF through THEN Through(d.seq, d.sub, {}, "retry", IF result = "Ok" THEN "Ok" ELSE "Failed") ELSE UNCHANGED sent
  <2>1. CASE ~through
    BY <1>3, <2>1
  <2>2. CASE through /\ Channel[d.sub] = "InProcess"
    <3>1. result = "Ok" /\ Through(d.seq, d.sub, {}, "retry", "Ok")
      BY <1>3, <1>9, <2>2 DEF Enqueue
    <3> QED
      BY <2>2, <3>1
  <2>3. CASE through /\ Channel[d.sub] # "InProcess"
    BY <1>3, <2>3
  <2>4. through \in BOOLEAN
    BY DEF GotThrough
  <2> QED
    BY <2>1, <2>2, <2>3, <2>4
<1>10. \/ result = "Ok" /\ Through(d.seq, d.sub, {}, "retry", "Ok")
       \/ result # "Ok" /\ d.sub \in Remote \ Interceptors /\ Through(d.seq, d.sub, {}, "retry", "Failed")
       \/ result # "Ok" /\ UNCHANGED sent
  <2>1. CASE result = "Ok"
    <3>1. (IF result = "Ok" THEN "Ok" ELSE "Failed") = "Ok"
      BY <2>1
    <3> QED
      BY <1>7, <1>9, <2>1, <3>1
  <2>2. CASE result # "Ok"
    <3>1. (IF result = "Ok" THEN "Ok" ELSE "Failed") = "Failed"
      BY <2>2
    <3> QED
      BY <1>7, <1>9, <2>2, <3>1
  <2> QED
    BY <2>1, <2>2
<1>8. UNCHANGED <<events, clock, subs, rxOpen, crashes, pub, owed, modified, droppedBy, reused>>
  BY DEF RetryAttempt
<1> QED
  BY <1>1, <1>4, <1>5, <1>6, <1>8, <1>10 DEF d

\* What the retry task writes with a record.
LEMMA RetryRecordMakes ==
  ASSUME Typed, RetryRecord
  PROVE  /\ retry.pc = "record" /\ retry.batch # <<>> /\ retry.out \in DeliveryStatus
         /\ StoreTypeOK' /\ Stored' = Stored
         /\ LET d == Head(retry.batch) IN
            \/ /\ \A r \in Stored, t \in Subscribers :
                    St(r, t)' = IF r = d.seq /\ t = d.sub THEN retry.out ELSE St(r, t)
            \/ /\ StoreMayFail
               /\ \A r \in Stored, t \in Subscribers : St(r, t)' = St(r, t)
         /\ LET d == Head(retry.batch) IN ~StoreMayFail =>
              /\ \A r \in Stored, t \in Subscribers : r # d.seq \/ t # d.sub => Tries(r, t)' = Tries(r, t)
              /\ \A r \in Stored, t \in Subscribers : r = d.seq /\ t = d.sub /\ retry.out = "Failed" =>
                   Tries(r, t)' = IF St(r, t) = "None" THEN 1 ELSE Tries(r, t) + 1
         /\ retry' \in RetryRecordType
         /\ \/ retry' = NextDelivery
            \/ /\ retry'.pc = "settle" /\ retry'.batch = retry.batch /\ retry'.out = retry.out
         /\ UNCHANGED <<clock, busVars, pub, history>>
<1> DEFINE d == Head(retry.batch)
<1>1. retry.pc = "record" /\ retry.batch # <<>> /\ retry \in RetryRecordType
      /\ retry.out \in DeliveryStatus /\ StoreTypeOK
  BY DEF RetryRecord, Typed, TasksTyped, BusTyped, RetryRecordType, Outcomes
<1>2. d \in BatchEntry
  BY <1>1, HeadOf
<1>3. NextRetryAfter \in Nat /\ NoRetry \in Nat
  BY <1>1, StoreAssumption DEF NextRetryAfter, NoRetry, StoreTypeOK
<1>4. PICK nr \in Nat : BestEffort(RecordDelivery(d.seq, d.sub, retry.out, nr))
  BY <1>3 DEF RetryRecord
<1>5. UNCHANGED <<clock, busVars, pub, history>>
  BY DEF RetryRecord
<1> HIDE DEF d
<1>8. /\ retry' \in RetryRecordType
      /\ \/ retry' = NextDelivery
         \/ retry'.pc = "settle" /\ retry'.batch = retry.batch /\ retry'.out = retry.out
  <2>1. CASE retry.out = "Failed"
    BY <1>1, <2>1, NextDeliveryTyped DEF RetryRecord
  <2>2. CASE retry.out # "Failed"
    <3>1. retry' = [retry EXCEPT !.pc = "settle"]
      BY <2>2 DEF RetryRecord
    <3> QED
      BY <1>1, <3>1 DEF RetryRecordType
  <2> QED
    BY <2>1, <2>2
<1>9. /\ StoreTypeOK' /\ Stored' = Stored
      /\ \/ \A r \in Stored, t \in Subscribers :
              St(r, t)' = IF r = d.seq /\ t = d.sub THEN retry.out ELSE St(r, t)
         \/ StoreMayFail /\ \A r \in Stored, t \in Subscribers : St(r, t)' = St(r, t)
  <2>1. CASE RecordDelivery(d.seq, d.sub, retry.out, nr)
    BY <1>1, <1>2, <1>5, <2>1, RecordMakes DEF BatchEntry
  <2>2. CASE StoreMayFail /\ UNCHANGED events
    BY <1>1, <1>5, <2>2, UnchangedKeeps DEF Keeps, Stored, St
  <2> QED
    BY <1>4, <2>1, <2>2 DEF BestEffort
<1>10. ~StoreMayFail =>
         /\ \A r \in Stored, t \in Subscribers : r # d.seq \/ t # d.sub => Tries(r, t)' = Tries(r, t)
         /\ \A r \in Stored, t \in Subscribers : r = d.seq /\ t = d.sub /\ retry.out = "Failed" =>
              Tries(r, t)' = IF St(r, t) = "None" THEN 1 ELSE Tries(r, t) + 1
  <2>1. d.seq \in Seqs /\ d.sub \in Subscribers
    BY <1>2 DEF BatchEntry
  <2>2. ASSUME RecordDelivery(d.seq, d.sub, retry.out, nr)
        PROVE  /\ \A r \in Stored, t \in Subscribers : r # d.seq \/ t # d.sub => Tries(r, t)' = Tries(r, t)
               /\ \A r \in Stored, t \in Subscribers : r = d.seq /\ t = d.sub /\ retry.out = "Failed" =>
                    Tries(r, t)' = IF St(r, t) = "None" THEN 1 ELSE Tries(r, t) + 1
    <3>1. clock' = clock
      BY <1>5
    <3> QED
      BY <1>1, <2>1, <2>2, <3>1, RecordMakes
  <2> QED
    BY <1>4, <2>2 DEF BestEffort
<1> QED
  BY <1>1, <1>5, <1>8, <1>9, <1>10 DEF d

\* What settling an event does: a status at most, and on to the next delivery.
LEMMA SettleMakes ==
  ASSUME Typed, SettleGet \/ SettlePut
  PROVE  /\ Keeps /\ retry.pc \in {"settle", "put"} /\ retry.batch # <<>>
         /\ retry' \in RetryRecordType
         /\ \/ retry' = NextDelivery
            \/ /\ retry'.pc = "put" /\ retry'.batch = retry.batch /\ retry'.out = retry.out
               /\ retry'.final # "None"
         /\ UNCHANGED <<clock, busVars, pub, history>>
<1>1. /\ retry \in RetryRecordType /\ StoreTypeOK
      /\ retry.pc \in {"settle", "put"} /\ retry.batch # <<>>
      /\ retry.pc = "put" => retry.final \in EventStatus
  BY DEF SettleGet, SettlePut, Typed, TasksTyped, BusTyped, RetryRecordType
<1>2. NextDelivery \in RetryRecordType
  BY <1>1, NextDeliveryTyped
<1>3. Head(retry.batch).seq \in Seqs
  BY <1>1, HeadOf DEF BatchEntry
<1>4. CASE SettleGet
  <2>1. Keeps
    BY <1>1, <1>4, UnchangedKeeps DEF SettleGet
  <2>2. SettledStatus(events[Head(retry.batch).seq]) \in {"None", "DeadLettered", "Delivered"}
    BY DEF SettledStatus
  <2>3. \/ retry' = NextDelivery
        \/ /\ retry' = [retry EXCEPT !.pc = "put", !.final = SettledStatus(events[Head(retry.batch).seq])]
           /\ SettledStatus(events[Head(retry.batch).seq]) # "None"
    BY <1>4 DEF SettleGet
  <2>4. UNCHANGED <<clock, busVars, pub, history>>
    BY <1>4 DEF SettleGet
  <2> HIDE DEF SettledStatus
  <2> QED
    BY <1>1, <1>2, <2>1, <2>2, <2>3, <2>4 DEF RetryRecordType, EventStatus
<1>5. CASE SettlePut
  <2>1. Keeps
    BY <1>1, <1>3, <1>5, UpdateStatusKeeps, UnchangedKeeps DEF SettlePut, BestEffort
  <2> QED
    BY <1>1, <1>2, <1>5, <2>1 DEF SettlePut
<1> QED
  BY <1>4, <1>5

\* The retry task.
LEMMA RetryTyped ==
  ASSUME Typed, RetryStep
  PROVE  Typed'
<1>1. CASE PollRetryable
  <2>1. StoreTypeOK' /\ UNCHANGED <<events, clock, busVars, pub, history>>
    BY <1>1, UnchangedKeeps DEF PollRetryable, Typed, BusTyped, Keeps
  <2>2. retry' \in RetryRecordType /\ retry'.pc = "attempt" /\ retry'.batch # <<>>
    BY <1>1, PollMakes DEF Typed, BusTyped
  <2> QED
    BY <2>1, <2>2 DEF Typed, BusTyped, TasksTyped, busVars, history
<1>2. CASE RetryAttempt
  <2>1. retry \in RetryRecordType /\ retry.batch # <<>> /\ BusTyped
    BY <1>2, AttemptMakes DEF Typed, BusTyped
  <2>2. Head(retry.batch).seq \in Seqs /\ Head(retry.batch).sub \in Subscribers
    BY <2>1, HeadOf DEF BatchEntry
  <2>3. sent' \in [Seqs -> [Subscribers -> Seq(SentEntry)]]
    <3>1. ASSUME NEW a \in {"Ok", "Failed"}, Through(Head(retry.batch).seq, Head(retry.batch).sub, {}, "retry", a)
          PROVE  sent' \in [Seqs -> [Subscribers -> Seq(SentEntry)]]
      BY <2>1, <2>2, <3>1, ThroughMakes
    <3>2. CASE UNCHANGED sent
      BY <2>1, <3>2 DEF BusTyped
    <3> QED
      BY <1>2, <3>1, <3>2, AttemptMakes
  <2>4. StoreTypeOK'
    BY <1>2, AttemptMakes, UnchangedKeeps DEF Typed, BusTyped, Keeps
  <2>5. BusTyped'
    BY <1>2, <2>1, <2>3, <2>4, AttemptMakes DEF BusTyped
  <2>6. TasksTyped'
    BY <1>2, AttemptMakes DEF Typed, TasksTyped, DeliveryStatus
  <2> QED
    BY <2>5, <2>6 DEF Typed
<1>3. CASE RetryRecord
  <2>1. BusTyped'
    BY <1>3, RetryRecordMakes DEF Typed, BusTyped, busVars, history
  <2>2. retry.batch # <<>> /\ retry \in RetryRecordType
    BY <1>3, RetryRecordMakes DEF Typed, BusTyped
  <2>3. TasksTyped'
    BY <1>3, <2>2, RetryRecordMakes, NextDeliveryTyped DEF Typed, TasksTyped, DeliveryStatus
  <2> QED
    BY <2>1, <2>3 DEF Typed
<1>4. CASE SettleGet \/ SettlePut
  <2>1. BusTyped'
    BY <1>4, SettleMakes DEF Typed, BusTyped, busVars, history, Keeps
  <2>2. retry.batch # <<>> /\ retry \in RetryRecordType
    BY <1>4, SettleMakes DEF Typed, BusTyped
  <2>3. TasksTyped'
    BY <1>4, <2>2, SettleMakes, NextDeliveryTyped DEF Typed, TasksTyped
  <2> QED
    BY <2>1, <2>3 DEF Typed
<1> QED
  BY <1>1, <1>2, <1>3, <1>4 DEF RetryStep

\* The steps that neither publish nor retry.
OtherStep ==
  \/ \E s \in Subscribers :
       Subscribe(s) \/ Unsubscribe(s) \/ Receive(s) \/ OtherEvent(s) \/ CloseReceiver(s)
  \/ CompactionTick
  \/ \E q \in Seqs : PurgeDeadLetter(q)
  \/ TimePasses
  \/ Crash

\* They write no record and send nothing.
LEMMA OtherMakes ==
  ASSUME Typed, OtherStep
  PROVE  /\ Keeps /\ UNCHANGED history
         /\ \/ UNCHANGED <<pub, retry>>
            \/ Crash /\ pub' = [p \in Publishers |-> IdlePub] /\ retry' = IdleRetry
         /\ subs' \in [Subscribers -> {"new", "live", "gone"}]
         /\ chan' \in [Subscribers -> Int]
<1>0. /\ StoreTypeOK /\ subs \in [Subscribers -> {"new", "live", "gone"}]
      /\ chan \in [Subscribers -> Int]
  BY DEF Typed, BusTyped
<1>1. ASSUME NEW s \in Subscribers,
             Subscribe(s) \/ Unsubscribe(s) \/ Receive(s) \/ OtherEvent(s) \/ CloseReceiver(s)
      PROVE  /\ UNCHANGED <<events, clock, history, pub, retry>>
             /\ subs' \in [Subscribers -> {"new", "live", "gone"}]
             /\ chan' \in [Subscribers -> Int]
  BY <1>0, <1>1 DEF Subscribe, Unsubscribe, Receive, OtherEvent, CloseReceiver
<1>2. CASE CompactionTick \/ \E q \in Seqs : PurgeDeadLetter(q)
  <2>1. Keeps
    BY <1>0, <1>2, RemovalKeeps DEF CompactionTick, PurgeDeadLetter
  <2> QED
    BY <1>0, <1>2, <2>1 DEF CompactionTick, PurgeDeadLetter, busVars
<1>3. CASE TimePasses
  <2>1. Keeps
    BY <1>0, <1>3 DEF TimePasses, Tick, Keeps, StoreTypeOK, Stored, St, Tries
  <2> QED
    BY <1>0, <1>3, <2>1 DEF TimePasses, busVars
<1>4. CASE Crash
  BY <1>0, <1>4, UnchangedKeeps DEF Crash
<1> QED
  BY <1>0, <1>1, <1>2, <1>3, <1>4, UnchangedKeeps DEF OtherStep

\* Every step keeps the types.
LEMMA NextTyped ==
  ASSUME Typed, Next
  PROVE  Typed'
<1>1. ASSUME NEW p \in Publishers, NEW q \in Seqs, ReplayGet(p, q)
      PROVE  Typed'
  <2>1. events[q] \in StoredEvent /\ pub \in [Publishers -> PubRecord]
    BY <1>1, SlotIs DEF ReplayGet, Typed, BusTyped
  <2>2. [IdlePub EXCEPT !.pc = "requeue", !.seq = q, !.subj = events[q].subject] \in PubRecord
    BY <2>1, IdleTyped DEF PubRecord, StoredEvent
  <2>3. /\ pub' \in [Publishers -> PubRecord] /\ \A o \in Publishers \ {p} : pub'[o] = pub[o]
        /\ pub'[p].pc = "requeue" /\ pub'[p].seq = q /\ pub'[p].subj \in Subjects
    BY <1>1, <2>1, <2>2 DEF ReplayGet, PubRecord, StoredEvent, IdlePub
  <2>4. StoreTypeOK'
    BY <1>1, UnchangedKeeps DEF ReplayGet, Typed, BusTyped, Keeps
  <2> QED
    BY <1>1, <2>3, <2>4, OwnStepTyped DEF ReplayGet, busVars
<1>2. CASE OtherStep
  <2>1. pub' \in [Publishers -> PubRecord] /\ retry' \in RetryRecordType
    BY <1>2, OtherMakes, IdleTyped DEF Typed, BusTyped
  <2>2. BusTyped'
    BY <1>2, <2>1, OtherMakes DEF Typed, BusTyped, history, Keeps
  <2>3. TasksTyped'
    BY <1>2, OtherMakes, IdleTyped DEF Typed, TasksTyped
  <2> QED
    BY <2>2, <2>3 DEF Typed
<1> QED
  BY <1>1, <1>2, PublishTyped, PublisherTyped, RetryTyped DEF Next, OtherStep

-----------------------------------------------------------------------------
(* The steps of a publisher, field by field                                 *)

\* Only this publisher moves, and it stays with its event.
Moves(p) ==
  /\ pub' \in [Publishers -> PubRecord] /\ \A o \in Publishers \ {p} : pub'[o] = pub[o]
  /\ pub[p].pc # "idle" /\ pub'[p].seq = pub[p].seq

\* The lookup.
LEMMA ResolveMakes ==
  ASSUME Typed, NEW p \in Publishers, Resolve(p)
  PROVE  /\ Moves(p) /\ pub[p].pc = "resolve" /\ pub'[p].pc \in {"close", "open"}
         /\ pub'[p].phase = pub[p].phase /\ pub'[p].payload = pub[p].payload
         /\ pub'[p].dropped = pub[p].dropped
         /\ Keeps /\ UNCHANGED <<events, clock, busVars, retry, history>>
<1>1. pub \in [Publishers -> PubRecord] /\ pub[p] \in PubRecord /\ StoreTypeOK
  BY DEF Typed, BusTyped
<1>2. Lookup(pub[p].subj) \in SUBSET Subscribers
  BY DEF Lookup, Live
<1>3. Moves(p) /\ pub'[p].pc \in {"close", "open"} /\ pub'[p].phase = pub[p].phase
      /\ pub'[p].payload = pub[p].payload /\ pub'[p].dropped = pub[p].dropped
  BY <1>1, <1>2 DEF Resolve, PubRecord, Moves
<1> QED
  BY <1>1, <1>3, UnchangedKeeps DEF Resolve

\* The filters: what they keep is split by mode.
LEMMA MarkMakes ==
  ASSUME Typed, NEW p \in Publishers, MarkDispatching(p)
  PROVE  /\ Moves(p) /\ pub[p].pc = "open"
         /\ pub'[p].phase = pub[p].phase /\ pub'[p].payload = pub[p].payload
         /\ pub'[p].dropped = pub[p].dropped
         /\ \E kept \in SUBSET Subscribers :
              /\ pub'[p].pc = IF kept = {} THEN "close" ELSE "snapshot"
              /\ pub'[p].todo = kept \ AsyncSubs /\ pub'[p].rest = kept \cap AsyncSubs
              /\ owed' = [owed EXCEPT ![pub[p].seq] = kept]
         /\ Keeps /\ UNCHANGED <<clock, busVars, retry, sent, modified, droppedBy, reused>>
<1>1. /\ pub \in [Publishers -> PubRecord] /\ pub[p] \in PubRecord /\ StoreTypeOK
      /\ pub[p].pc = "open" /\ pub[p].seq \in Seqs
  BY DEF Typed, BusTyped, TasksTyped, MarkDispatching
<1>2. UNCHANGED <<clock, busVars, retry, sent, modified, droppedBy, reused>>
  BY DEF MarkDispatching
<1>3. Keeps
  BY <1>1, <1>2, UpdateStatusKeeps, UnchangedKeeps DEF MarkDispatching, BestEffort, EventStatus
<1>4. PICK rejected \in SUBSET (Filtered \cap pub[p].todo) :
        /\ pub' = [pub EXCEPT ![p].todo = (pub[p].todo \ rejected) \ AsyncSubs,
                              ![p].rest = (pub[p].todo \ rejected) \cap AsyncSubs,
                              ![p].pc = IF pub[p].todo \ rejected = {} THEN "close" ELSE "snapshot"]
        /\ owed' = [owed EXCEPT ![pub[p].seq] = pub[p].todo \ rejected]
  BY DEF MarkDispatching
<1>5. PICK kept : kept = pub[p].todo \ rejected
  OBVIOUS
<1>6. kept \in SUBSET Subscribers
  BY <1>1, <1>5 DEF PubRecord
<1>7. pub' = [pub EXCEPT ![p].todo = kept \ AsyncSubs, ![p].rest = kept \cap AsyncSubs,
                         ![p].pc = IF kept = {} THEN "close" ELSE "snapshot"]
  BY <1>4, <1>5
<1>8. /\ Moves(p) /\ pub'[p].phase = pub[p].phase /\ pub'[p].payload = pub[p].payload
      /\ pub'[p].dropped = pub[p].dropped
      /\ pub'[p].pc = IF kept = {} THEN "close" ELSE "snapshot"
      /\ pub'[p].todo = kept \ AsyncSubs /\ pub'[p].rest = kept \cap AsyncSubs
  BY <1>1, <1>6, <1>7 DEF PubRecord, Moves
<1> QED
  BY <1>1, <1>2, <1>3, <1>4, <1>5, <1>6, <1>8

\* The two snapshots.
LEMMA SnapshotMakes ==
  ASSUME Typed, NEW p \in Publishers, SnapshotSync(p) \/ SnapshotAsync(p)
  PROVE  /\ Moves(p) /\ pub'[p].pc = "deliver"
         /\ pub'[p].payload = pub[p].payload /\ pub'[p].dropped = pub[p].dropped
         /\ \/ /\ pub[p].pc = "snapshot" /\ pub'[p].phase = pub[p].phase
               /\ pub'[p].todo = pub[p].todo /\ pub'[p].rest = pub[p].rest
            \/ /\ pub[p].pc = "deliver" /\ pub[p].todo = {} /\ pub[p].phase = "sync"
               /\ pub'[p].phase = "async" /\ pub'[p].todo = pub[p].rest
         /\ Keeps /\ UNCHANGED <<events, clock, busVars, retry, history>>
<1>1. pub \in [Publishers -> PubRecord] /\ pub[p] \in PubRecord /\ StoreTypeOK
  BY DEF Typed, BusTyped
<1>2. Keeps /\ UNCHANGED <<events, clock, busVars, retry, history>>
  BY <1>1, UnchangedKeeps DEF SnapshotSync, SnapshotAsync
<1>3. CASE SnapshotSync(p)
  BY <1>1, <1>2, <1>3 DEF SnapshotSync, PubRecord, Live, Moves
<1>4. CASE SnapshotAsync(p)
  BY <1>1, <1>2, <1>4 DEF SnapshotAsync, PubRecord, Live, Moves
<1> QED
  BY <1>3, <1>4

\* A delivery attempt through a channel, or of an entry that is gone.
LEMMA SendMakes ==
  ASSUME Typed, NEW p \in Publishers, SendToChannel(p) \/ HandleMissing(p)
  PROVE  LET s == First(pub[p].todo) IN
         /\ Moves(p) /\ pub[p].pc = "deliver" /\ pub'[p].pc = "record"
         /\ pub[p].todo # {} /\ s \in pub[p].todo /\ s \in Subscribers
         /\ pub'[p].payload = pub[p].payload /\ pub'[p].dropped = pub[p].dropped
         /\ pub'[p].phase = pub[p].phase /\ pub'[p].todo = pub[p].todo /\ pub'[p].rest = pub[p].rest
         /\ \/ /\ pub'[p].out = "Delivered" /\ s \notin Interceptors
               /\ Through(pub[p].seq, s, pub[p].payload, "dispatch", "Ok")
            \/ pub'[p].out = "Failed" /\ UNCHANGED sent
         /\ Keeps /\ UNCHANGED <<events, clock, subs, rxOpen, crashes, retry, owed, modified, droppedBy, reused>>
<1> DEFINE s == First(pub[p].todo)
<1>1. /\ pub \in [Publishers -> PubRecord] /\ pub[p] \in PubRecord /\ StoreTypeOK
      /\ pub[p].pc = "deliver" /\ pub[p].todo # {}
  BY DEF Typed, BusTyped, SendToChannel, HandleMissing
<1>2. s \in pub[p].todo /\ s \in Subscribers
  BY <1>1, FirstIs DEF PubRecord
<1>3. UNCHANGED <<events, clock, subs, rxOpen, crashes, retry, owed, modified, droppedBy, reused>>
  BY DEF SendToChannel, HandleMissing, busVars, history
<1>4. Keeps
  BY <1>1, <1>3, UnchangedKeeps
<1> HIDE DEF s
<1>5. CASE SendToChannel(p)
  <2>1. /\ pub' = [pub EXCEPT ![p].out = IF CanSend(s) THEN "Delivered" ELSE "Failed",
                              ![p].failed = @ \/ ~ CanSend(s),
                              ![p].pc = "record"]
        /\ s \notin Interceptors
    BY <1>5 DEF SendToChannel, s
  <2>2. /\ Moves(p) /\ pub'[p].pc = "record"
        /\ pub'[p].payload = pub[p].payload /\ pub'[p].dropped = pub[p].dropped
        /\ pub'[p].phase = pub[p].phase /\ pub'[p].todo = pub[p].todo /\ pub'[p].rest = pub[p].rest
        /\ pub'[p].out = IF CanSend(s) THEN "Delivered" ELSE "Failed"
    BY <1>1, <2>1 DEF PubRecord, Moves, Outcomes, DeliveryStatus
  <2>3. IF CanSend(s) THEN Through(pub[p].seq, s, pub[p].payload, "dispatch", "Ok") ELSE UNCHANGED sent
    BY <1>5 DEF SendToChannel, Enqueue, s
  <2> QED
    BY <1>1, <1>2, <1>3, <1>4, <2>1, <2>2, <2>3 DEF s
<1>6. CASE HandleMissing(p)
  <2>1. /\ pub' = [pub EXCEPT ![p].out = "Failed", ![p].failed = TRUE, ![p].pc = "record"]
        /\ UNCHANGED sent
    BY <1>6 DEF HandleMissing, history
  <2>2. /\ Moves(p) /\ pub'[p].pc = "record"
        /\ pub'[p].payload = pub[p].payload /\ pub'[p].dropped = pub[p].dropped
        /\ pub'[p].phase = pub[p].phase /\ pub'[p].todo = pub[p].todo /\ pub'[p].rest = pub[p].rest
        /\ pub'[p].out = "Failed"
    BY <1>1, <2>1 DEF PubRecord, Moves, Outcomes, DeliveryStatus
  <2> QED
    BY <1>1, <1>2, <1>3, <1>4, <2>1, <2>2 DEF s
<1> QED
  BY <1>5, <1>6

\* The record of an outcome.
LEMMA OutcomeMakes ==
  ASSUME Typed, NEW p \in Publishers, RecordOutcome(p)
  PROVE  LET s == First(pub[p].todo) IN
         /\ Moves(p) /\ pub[p].pc = "record" /\ pub[p].todo # {} /\ pub[p].out \in DeliveryStatus
         /\ s \in pub[p].todo /\ s \in Subscribers
         /\ pub'[p].todo = pub[p].todo \ {s} /\ pub'[p].rest = pub[p].rest
         /\ pub'[p].phase = pub[p].phase /\ pub'[p].payload = pub[p].payload
         /\ pub'[p].dropped = pub[p].dropped
         /\ pub'[p].pc = IF pub[p].dropped THEN "close" ELSE "deliver"
         /\ StoreTypeOK' /\ Stored' = Stored
         /\ \/ \A r \in Stored, t \in Subscribers :
                 St(r, t)' = IF r = pub[p].seq /\ t = s THEN pub[p].out ELSE St(r, t)
            \/ StoreMayFail /\ \A r \in Stored, t \in Subscribers : St(r, t)' = St(r, t)
         /\ ~StoreMayFail =>
              /\ \A r \in Stored, t \in Subscribers : r # pub[p].seq \/ t # s => Tries(r, t)' = Tries(r, t)
              /\ \A r \in Stored, t \in Subscribers : r = pub[p].seq /\ t = s /\ pub[p].out = "Failed" =>
                   Tries(r, t)' = IF St(r, t) = "None" THEN 1 ELSE Tries(r, t) + 1
         /\ UNCHANGED <<clock, busVars, retry, history>>
<1> DEFINE s == First(pub[p].todo)
<1>1. /\ pub \in [Publishers -> PubRecord] /\ pub[p] \in PubRecord /\ StoreTypeOK
      /\ pub[p].pc = "record" /\ pub[p].todo # {} /\ pub[p].seq \in Seqs
      /\ pub[p].out \in DeliveryStatus
  BY DEF Typed, BusTyped, TasksTyped, RecordOutcome, PubRecord, Outcomes
<1>2. s \in pub[p].todo /\ s \in Subscribers
  BY <1>1, FirstIs DEF PubRecord
<1>3. UNCHANGED <<clock, busVars, retry, history>>
  BY DEF RecordOutcome
<1> HIDE DEF s
<1>4. pub' = [pub EXCEPT ![p].todo = @ \ {s}, ![p].pc = IF pub[p].dropped THEN "close" ELSE "deliver"]
  BY DEF RecordOutcome, Rest, s
<1>5. /\ Moves(p) /\ pub'[p].todo = pub[p].todo \ {s} /\ pub'[p].rest = pub[p].rest
      /\ pub'[p].phase = pub[p].phase /\ pub'[p].payload = pub[p].payload
      /\ pub'[p].dropped = pub[p].dropped
      /\ pub'[p].pc = IF pub[p].dropped THEN "close" ELSE "deliver"
  BY <1>1, <1>4 DEF PubRecord, Moves
<1>6. NextRetryAfter \in Nat /\ NoRetry \in Nat
  BY <1>1, StoreAssumption DEF NextRetryAfter, NoRetry, StoreTypeOK
<1>7. PICK nr \in Nat : BestEffort(RecordDelivery(pub[p].seq, s, pub[p].out, nr))
  BY <1>6 DEF RecordOutcome, s
<1>8. /\ StoreTypeOK' /\ Stored' = Stored
      /\ \/ \A r \in Stored, t \in Subscribers :
              St(r, t)' = IF r = pub[p].seq /\ t = s THEN pub[p].out ELSE St(r, t)
         \/ StoreMayFail /\ \A r \in Stored, t \in Subscribers : St(r, t)' = St(r, t)
  <2>1. CASE RecordDelivery(pub[p].seq, s, pub[p].out, nr)
    BY <1>1, <1>2, <1>3, <2>1, RecordMakes
  <2>2. CASE StoreMayFail /\ UNCHANGED events
    BY <1>1, <1>3, <2>2, UnchangedKeeps DEF Keeps, Stored, St
  <2> QED
    BY <1>7, <2>1, <2>2 DEF BestEffort
<1>9. ~StoreMayFail =>
        /\ \A r \in Stored, t \in Subscribers : r # pub[p].seq \/ t # s => Tries(r, t)' = Tries(r, t)
        /\ \A r \in Stored, t \in Subscribers : r = pub[p].seq /\ t = s /\ pub[p].out = "Failed" =>
             Tries(r, t)' = IF St(r, t) = "None" THEN 1 ELSE Tries(r, t) + 1
  <2>1. ASSUME RecordDelivery(pub[p].seq, s, pub[p].out, nr)
        PROVE  /\ \A r \in Stored, t \in Subscribers : r # pub[p].seq \/ t # s => Tries(r, t)' = Tries(r, t)
               /\ \A r \in Stored, t \in Subscribers : r = pub[p].seq /\ t = s /\ pub[p].out = "Failed" =>
                    Tries(r, t)' = IF St(r, t) = "None" THEN 1 ELSE Tries(r, t) + 1
    <3>1. clock' = clock
      BY <1>3
    <3> QED
      BY <1>1, <1>2, <2>1, <3>1, RecordMakes
  <2> QED
    BY <1>7, <2>1 DEF BestEffort
<1> QED
  BY <1>1, <1>2, <1>3, <1>5, <1>8, <1>9 DEF s

\* The end of a call.
LEMMA EndMakes ==
  ASSUME Typed, NEW p \in Publishers, CloseDelivered(p) \/ Finalize(p)
  PROVE  /\ pub' \in [Publishers -> PubRecord] /\ \A o \in Publishers \ {p} : pub'[o] = pub[o]
         /\ pub'[p].pc = "idle"
         /\ \/ pub[p].pc = "close"
            \/ pub[p].pc = "deliver" /\ pub[p].todo = {} /\ pub[p].phase = "async"
         /\ Keeps /\ UNCHANGED <<clock, busVars, retry, history>>
<1>1. /\ pub \in [Publishers -> PubRecord] /\ pub[p].seq \in Seqs /\ StoreTypeOK
      /\ pub' = [pub EXCEPT ![p] = IdlePub] /\ UNCHANGED <<clock, busVars, retry, history>>
      /\ \/ pub[p].pc = "close"
         \/ pub[p].pc = "deliver" /\ pub[p].todo = {} /\ pub[p].phase = "async"
  BY DEF Typed, BusTyped, TasksTyped, CloseDelivered, Finalize
<1>2. PICK st \in EventStatus : BestEffort(UpdateStatus(pub[p].seq, st))
  BY DEF CloseDelivered, Finalize, EventStatus
<1>3. Keeps
  BY <1>1, <1>2, UpdateStatusKeeps, UnchangedKeeps DEF BestEffort
<1>4. pub' \in [Publishers -> PubRecord] /\ pub'[p] = IdlePub /\ \A o \in Publishers \ {p} : pub'[o] = pub[o]
  BY <1>1, IdleTyped, PubTyped
<1> QED
  BY <1>1, <1>3, <1>4, IdleTyped

-----------------------------------------------------------------------------
(* A record of a delivery was preceded by the delivery                      *)

\* A number at work, in the store, with a publisher or in the batch, was given out.
LEMMA InUse ==
  ASSUME ToldInv
  PROVE  /\ \A q \in Stored : q \in Seqs /\ reused[q] # "unused"
         /\ \A p \in Publishers : pub[p].pc # "idle" => pub[p].seq \in Seqs /\ reused[pub[p].seq] # "unused"
         /\ \A i \in DOMAIN retry.batch : /\ retry.batch[i].seq \in Seqs /\ retry.batch[i].sub \in Subscribers
                                          /\ reused[retry.batch[i].seq] # "unused"
<1>1. \A q \in Seqs : reused[q] = "unused" => Unused(q)
  BY DEF ToldInv
<1>2. \A p \in Publishers : pub[p].pc # "idle" => pub[p].seq \in Seqs
  BY DEF ToldInv, Typed, TasksTyped
<1>3. \A i \in DOMAIN retry.batch : retry.batch[i].seq \in Seqs /\ retry.batch[i].sub \in Subscribers
  <2>1. retry.batch \in Seq(BatchEntry)
    BY DEF ToldInv, Typed, BusTyped, RetryRecordType
  <2>2. \A i \in DOMAIN retry.batch : retry.batch[i] \in BatchEntry
    BY <2>1
  <2> QED
    BY <2>2 DEF BatchEntry
<1> QED
  BY <1>1, <1>2, <1>3 DEF Unused, Stored

\* What a step that gives out no number has to do to keep the invariant.
LEMMA ToldStep ==
  ASSUME ToldInv, Typed', reused' = reused, Stored' \subseteq Stored,
         \A q \in Seqs, s \in Subscribers : sent[q][s] # <<>> => sent'[q][s] # <<>>,
         \A q \in Stored', s \in Subscribers \ Interceptors :
           OwnNumber(q) /\ St(q, s)' = "Delivered" => St(q, s) = "Delivered" \/ sent'[q][s] # <<>>,
         \A p \in Publishers :
           \/ pub'[p] = pub[p] \/ pub'[p].pc = "idle"
           \/ reused[pub'[p].seq] # "unused" /\ PubTold(p)',
         \/ retry' = retry
         \/ /\ \A i \in DOMAIN retry'.batch : reused[retry'.batch[i].seq] # "unused"
            /\ RetryTold'
  PROVE  ToldInv'
<1>1. \A q \in Seqs : reused'[q] = "unused" => Unused(q)'
  <2> SUFFICES ASSUME NEW q \in Seqs, reused[q] = "unused"
               PROVE  Unused(q)'
    OBVIOUS
  <2>1. Unused(q)
    BY DEF ToldInv
  <2>2. \A p \in Publishers : pub'[p].pc # "idle" => pub'[p].seq # q
    BY <2>1 DEF Unused
  <2>3. \A i \in DOMAIN retry'.batch : retry'.batch[i].seq # q
    BY <2>1 DEF Unused
  <2> QED
    BY <2>1, <2>2, <2>3 DEF Unused
<1>2. DeliveredWasSent'
  <2> SUFFICES ASSUME NEW q \in Stored', NEW s \in Subscribers \ Interceptors,
                      OwnNumber(q)', St(q, s)' = "Delivered"
               PROVE  sent'[q][s] # <<>>
    BY DEF DeliveredWasSent, Delivery, St
  <2>1. q \in Stored /\ q \in Seqs /\ OwnNumber(q)
    BY DEF Stored, OwnNumber
  <2>2. St(q, s) = "Delivered" => sent[q][s] # <<>>
    BY <2>1 DEF ToldInv, DeliveredWasSent, Delivery, St
  <2> QED
    BY <2>1, <2>2
<1>3. \A p \in Publishers : PubTold(p)'
  <2> SUFFICES ASSUME NEW p \in Publishers PROVE PubTold(p)'
    OBVIOUS
  <2>1. CASE pub'[p] = pub[p]
    <3>1. PubTold(p) /\ (pub[p].pc = "record" => pub[p].seq \in Seqs /\ pub[p].todo # {} /\ pub[p].todo \in SUBSET Subscribers)
      BY DEF ToldInv, Typed, TasksTyped, BusTyped, PubRecord
    <3>2. pub[p].pc = "record" => First(pub[p].todo) \in Subscribers
      BY <3>1, FirstIs
    <3> QED
      BY <2>1, <3>1, <3>2 DEF PubTold, OwnNumber
  <2>2. CASE pub'[p].pc = "idle"
    BY <2>2 DEF PubTold
  <2> QED
    BY <2>1, <2>2
<1>4. RetryTold'
  <2>1. CASE retry' = retry
    <3>1. RetryTold /\ (retry.pc = "record" => Head(retry.batch) \in BatchEntry)
      BY HeadOf DEF ToldInv, Typed, TasksTyped, BusTyped
    <3> QED
      BY <2>1, <3>1 DEF RetryTold, OwnNumber, BatchEntry
  <2> QED
    BY <2>1
<1> QED
  BY <1>1, <1>2, <1>3, <1>4 DEF ToldInv

\* append gives out a number: an unused one, that nobody works on, or one of
\* which nothing is claimed from now on.
LEMMA PublishTold ==
  ASSUME ToldInv, NEW p \in Publishers, NEW subj \in Subjects, Publish(p, subj)
  PROVE  ToldInv'
<1>1. PICK n : n = NextSeq
  OBVIOUS
<1>2. /\ StoreTypeOK' /\ n \in Seqs /\ Stored' = Stored \cup {n}
      /\ \A t \in Subscribers : St(n, t)' = "None"
      /\ \A r \in Stored \ {n}, t \in Subscribers : St(r, t)' = St(r, t)
  BY <1>1, AppendMakes DEF Publish, ToldInv, Typed, BusTyped
<1>3. /\ pub \in [Publishers -> PubRecord] /\ sent \in [Seqs -> [Subscribers -> Seq(SentEntry)]]
      /\ reused \in [Seqs -> {"unused", "once", "again"}]
  BY DEF ToldInv, Typed, BusTyped
<1>4. /\ pub'[p].pc = "resolve" /\ pub'[p].seq = n
      /\ \A o \in Publishers \ {p} : pub'[o] = pub[o]
  BY <1>1, <1>3 DEF Publish, IdlePub
<1>5. \A r \in Seqs \ {n} : sent'[r] = sent[r] /\ reused'[r] = reused[r]
  BY <1>1, <1>3 DEF Publish
<1>6. reused'[n] = IF reused[n] = "unused" THEN "once" ELSE "again"
  BY <1>1, <1>2, <1>3 DEF Publish
<1>7. retry' = retry
  BY DEF Publish
<1>8. Typed'
  BY PublishTyped DEF ToldInv
<1>9. reused'[n] = "once" => Unused(n)
  BY <1>2, <1>6 DEF ToldInv
<1>10. \A q \in Seqs : reused'[q] = "unused" => Unused(q)'
  <2> SUFFICES ASSUME NEW q \in Seqs, reused'[q] = "unused" PROVE Unused(q)'
    OBVIOUS
  <2>1. q # n /\ reused[q] = "unused"
    BY <1>5, <1>6
  <2>2. Unused(q)
    BY <2>1 DEF ToldInv
  <2> QED
    BY <1>2, <1>4, <1>7, <2>1, <2>2 DEF Unused
<1>11. DeliveredWasSent'
  <2> SUFFICES ASSUME NEW q \in Stored', NEW s \in Subscribers \ Interceptors,
                      OwnNumber(q)', St(q, s)' = "Delivered"
               PROVE  sent'[q][s] # <<>>
    BY DEF DeliveredWasSent, Delivery, St
  <2>1. q # n /\ q \in Stored /\ q \in Seqs /\ St(q, s) = "Delivered"
    BY <1>2 DEF Stored
  <2>2. OwnNumber(q)
    BY <1>5, <2>1 DEF OwnNumber
  <2> QED
    BY <1>5, <2>1, <2>2 DEF ToldInv, DeliveredWasSent, Delivery, St
<1>12. \A o \in Publishers : PubTold(o)'
  <2> SUFFICES ASSUME NEW o \in Publishers, o # p, pub[o].pc = "record", pub'[o].seq = n => reused'[n] # "once"
               PROVE  PubTold(o)'
    BY <1>4, <1>9 DEF PubTold, Unused, OwnNumber
  <2>1. pub'[o] = pub[o] /\ PubTold(o) /\ pub[o].seq \in Seqs
    BY <1>4 DEF ToldInv, Typed, TasksTyped
  <2> QED
    BY <1>5, <2>1 DEF PubTold, OwnNumber
<1>13. RetryTold'
  <2>1. CASE retry.pc = "record"
    <3>1. /\ RetryTold /\ Head(retry.batch) \in BatchEntry
          /\ 1 \in DOMAIN retry.batch /\ Head(retry.batch) = retry.batch[1]
      BY <2>1, HeadOf DEF ToldInv, Typed, TasksTyped, BusTyped
    <3>2. Head(retry.batch).seq = n => reused'[n] # "once"
      BY <1>9, <3>1 DEF Unused
    <3> QED
      BY <1>5, <1>7, <3>1, <3>2 DEF RetryTold, OwnNumber, BatchEntry
  <2> QED
    BY <1>7, <2>1 DEF RetryTold
<1> QED
  BY <1>8, <1>10, <1>11, <1>12, <1>13 DEF ToldInv

\* The other steps of a publisher.
LEMMA PublisherTold ==
  ASSUME ToldInv, NEW p \in Publishers, PublisherStep(p)
  PROVE  ToldInv'
<1>0. /\ Typed /\ Typed' /\ StoreTypeOK /\ BusTyped
      /\ pub[p].pc # "idle" => pub[p].seq \in Seqs /\ reused[pub[p].seq] # "unused"
  BY PublisherTyped, InUse DEF ToldInv, Typed, BusTyped
<1>1. CASE ReplayRequeue(p)
  <2>0. pub[p].pc = "requeue" /\ UNCHANGED <<clock, busVars, retry>> /\ pub \in [Publishers -> PubRecord]
    BY <1>0, <1>1 DEF ReplayRequeue, BusTyped
  <2>1. CASE /\ RequeueDeadLettered(pub[p].seq)
             /\ pub' = [pub EXCEPT ![p].pc = "resolve"]
             /\ UNCHANGED <<sent, reused>>
    <3>1. Stored' = Stored /\ \A r \in Stored, t \in Subscribers : St(r, t)' = "Delivered" => St(r, t) = "Delivered"
      BY <1>0, <2>0, <2>1, RequeueMakes
    <3>2. \A o \in Publishers : pub'[o] = pub[o] \/ (reused[pub'[o].seq] # "unused" /\ PubTold(o)')
      BY <1>0, <2>0, <2>1 DEF PubTold, PubRecord
    <3> QED
      BY <1>0, <2>0, <2>1, <3>1, <3>2, ToldStep
  <2>2. CASE pub' = [pub EXCEPT ![p] = IdlePub] /\ UNCHANGED <<events, history>>
    <3>1. Keeps
      BY <1>0, <2>0, <2>2, UnchangedKeeps
    <3>2. \A o \in Publishers : pub'[o] = pub[o] \/ pub'[o].pc = "idle"
      BY <2>0, <2>2, IdleTyped
    <3> QED
      BY <1>0, <2>0, <2>2, <3>1, <3>2, ToldStep DEF Keeps, history
  <2> QED
    BY <1>1, <2>1, <2>2 DEF ReplayRequeue
<1>2. CASE Resolve(p)
  <2>1. /\ Keeps /\ UNCHANGED <<retry, history>>
        /\ \A o \in Publishers : pub'[o] = pub[o] \/ (reused[pub'[o].seq] # "unused" /\ PubTold(o)')
    BY <1>0, <1>2, ResolveMakes DEF Moves, PubTold
  <2> QED
    BY <1>0, <2>1, ToldStep DEF Keeps, history
<1>3. CASE MarkDispatching(p)
  <2>1. /\ Keeps /\ UNCHANGED <<retry, sent, reused>>
        /\ \A o \in Publishers : pub'[o] = pub[o] \/ (reused[pub'[o].seq] # "unused" /\ PubTold(o)')
    BY <1>0, <1>3, MarkMakes DEF Moves, PubTold
  <2> QED
    BY <1>0, <2>1, ToldStep DEF Keeps
<1>4. CASE SnapshotSync(p) \/ SnapshotAsync(p)
  <2>1. /\ Keeps /\ UNCHANGED <<retry, history>>
        /\ \A o \in Publishers : pub'[o] = pub[o] \/ (reused[pub'[o].seq] # "unused" /\ PubTold(o)')
    BY <1>0, <1>4, SnapshotMakes DEF Moves, PubTold
  <2> QED
    BY <1>0, <2>1, ToldStep DEF Keeps, history
<1>5. CASE Intercept(p)
  <2>0. pub[p].pc = "deliver" /\ UNCHANGED <<events, clock, retry, sent, reused>>
        /\ First(pub[p].todo) \in Interceptors
    BY <1>5 DEF Intercept
  <2>1. PICK o \in InterceptOutcomes, c \in SUBSET {First(pub[p].todo)} : InterceptMakes(p, o, c)
    BY <1>0, <1>5, InterceptIs DEF BusTyped
  <2>2. pub'[p].todo = pub[p].todo /\ pub'[p].seq = pub[p].seq /\ \A x \in Publishers \ {p} : pub'[x] = pub[x]
    BY <2>1 DEF InterceptMakes
  <2>3. \A x \in Publishers : pub'[x] = pub[x] \/ (reused[pub'[x].seq] # "unused" /\ PubTold(x)')
    BY <1>0, <2>0, <2>2 DEF PubTold
  <2>4. Keeps
    BY <1>0, <2>0, UnchangedKeeps
  <2> QED
    BY <1>0, <2>0, <2>3, <2>4, ToldStep DEF Keeps
<1>6. CASE SendToChannel(p) \/ HandleMissing(p)
  <2> DEFINE s == First(pub[p].todo)
  <2>1. /\ Moves(p) /\ pub[p].pc = "deliver" /\ pub'[p].todo = pub[p].todo /\ s \in Subscribers
        /\ \/ pub'[p].out = "Delivered" /\ Through(pub[p].seq, s, pub[p].payload, "dispatch", "Ok")
           \/ pub'[p].out = "Failed" /\ UNCHANGED sent
        /\ Keeps /\ UNCHANGED <<retry, reused>>
    BY <1>0, <1>6, SendMakes
  <2>2. pub[p].payload \in SUBSET Interceptors /\ pub[p].seq \in Seqs
    BY <1>0, <2>1 DEF BusTyped, PubRecord
  <2>3. /\ pub'[p].out = "Delivered" => sent'[pub[p].seq][s] # <<>>
        /\ \A q \in Seqs, t \in Subscribers : sent[q][t] # <<>> => sent'[q][t] # <<>>
    <3>1. CASE Through(pub[p].seq, s, pub[p].payload, "dispatch", "Ok")
      <4>1. /\ sent'[pub[p].seq][s] # <<>>
            /\ \A q \in Seqs, t \in Subscribers : q # pub[p].seq \/ t # s => sent'[q][t] = sent[q][t]
        BY <1>0, <2>1, <2>2, <3>1, ThroughMakes
      <4> QED
        BY <4>1
    <3> QED
      BY <2>1, <3>1
  <2>4. \A x \in Publishers : pub'[x] = pub[x] \/ (reused[pub'[x].seq] # "unused" /\ PubTold(x)')
    BY <1>0, <2>1, <2>3 DEF PubTold, Moves
  <2> QED
    BY <1>0, <2>1, <2>3, <2>4, ToldStep DEF Keeps
<1>7. CASE RecordOutcome(p)
  <2> DEFINE s == First(pub[p].todo)
  <2>1. /\ Moves(p) /\ pub[p].pc = "record" /\ pub'[p].pc \in {"close", "deliver"} /\ Stored' = Stored
        /\ UNCHANGED <<retry, history>>
        /\ \A r \in Stored, t \in Subscribers :
             St(r, t)' = St(r, t) \/ (r = pub[p].seq /\ t = s /\ St(r, t)' = pub[p].out)
    BY <1>0, <1>7, OutcomeMakes
  <2>2. PubTold(p)
    BY DEF ToldInv
  <2>3. \A q \in Stored', t \in Subscribers \ Interceptors :
          OwnNumber(q) /\ St(q, t)' = "Delivered" => St(q, t) = "Delivered" \/ sent'[q][t] # <<>>
    BY <2>1, <2>2 DEF PubTold, history
  <2>4. \A x \in Publishers : pub'[x] = pub[x] \/ (reused[pub'[x].seq] # "unused" /\ PubTold(x)')
    BY <1>0, <2>1 DEF PubTold, Moves
  <2> QED
    BY <1>0, <2>1, <2>3, <2>4, ToldStep DEF history
<1>8. CASE CloseDelivered(p) \/ Finalize(p)
  <2>1. /\ Keeps /\ UNCHANGED <<retry, history>>
        /\ \A o \in Publishers : pub'[o] = pub[o] \/ pub'[o].pc = "idle"
    BY <1>0, <1>8, EndMakes
  <2> QED
    BY <1>0, <2>1, ToldStep DEF Keeps, history
<1> QED
  BY <1>1, <1>2, <1>3, <1>4, <1>5, <1>6, <1>7, <1>8 DEF PublisherStep

\* The retry task, and everything else.
LEMMA OthersTold ==
  ASSUME ToldInv, RetryStep \/ OtherStep \/ \E p \in Publishers, q \in Seqs : ReplayGet(p, q)
  PROVE  ToldInv'
<1>0. /\ Typed /\ StoreTypeOK /\ BusTyped /\ retry \in RetryRecordType
      /\ retry.pc # "idle" => retry.batch # <<>>
      /\ \A i \in DOMAIN retry.batch : /\ retry.batch[i].seq \in Seqs /\ retry.batch[i].sub \in Subscribers
                                       /\ reused[retry.batch[i].seq] # "unused"
  BY InUse DEF ToldInv, Typed, TasksTyped, BusTyped
<1>01. Typed'
  BY <1>0, NextTyped DEF Next, OtherStep
<1>02. ASSUME retry.batch # <<>>, retry' = NextDelivery
       PROVE  /\ \A i \in DOMAIN retry'.batch : reused[retry'.batch[i].seq] # "unused"
              /\ RetryTold'
  BY <1>0, <1>02, NextDeliveryTyped DEF RetryTold
<1>1. CASE PollRetryable
  <2>1. Keeps /\ UNCHANGED <<pub, history>>
    BY <1>0, <1>1, UnchangedKeeps DEF PollRetryable
  <2>2. retry'.pc = "attempt" /\ \A i \in DOMAIN retry'.batch : retry'.batch[i].seq \in Stored
    BY <1>0, <1>1, PollMakes
  <2>3. /\ \A i \in DOMAIN retry'.batch : reused[retry'.batch[i].seq] # "unused"
        /\ RetryTold'
    BY <2>2, InUse DEF RetryTold
  <2> QED
    BY <1>01, <2>1, <2>3, ToldStep DEF Keeps, history
<1>2. CASE RetryAttempt
  <2> DEFINE d == Head(retry.batch)
  <2>1. /\ retry.batch # <<>> /\ retry'.batch = retry.batch
        /\ UNCHANGED <<events, clock, pub, reused>>
        /\ \/ \E a \in {"Ok", "Failed"} : Through(d.seq, d.sub, {}, "retry", a)
           \/ retry'.out # "Delivered" /\ UNCHANGED sent
    BY <1>0, <1>2, AttemptMakes
  <2>2. d.seq \in Seqs /\ d.sub \in Subscribers
    BY <1>0, <2>1, HeadOf DEF BatchEntry
  <2>3. /\ retry'.out = "Delivered" => sent'[d.seq][d.sub] # <<>>
        /\ \A q \in Seqs, t \in Subscribers : sent[q][t] # <<>> => sent'[q][t] # <<>>
    <3>1. ASSUME NEW a \in {"Ok", "Failed"}, Through(d.seq, d.sub, {}, "retry", a)
          PROVE  /\ sent'[d.seq][d.sub] # <<>>
                 /\ \A q \in Seqs, t \in Subscribers : q # d.seq \/ t # d.sub => sent'[q][t] = sent[q][t]
      <4>1. PICK e \in SentEntry : Copied(d.seq, d.sub, e)
        BY <3>1 DEF Through, Copied, SentEntry
      <4> QED
        BY <1>0, <2>2, <4>1, CopyMakes
    <3> QED
      BY <2>1, <3>1
  <2>4. RetryTold' /\ \A i \in DOMAIN retry'.batch : reused[retry'.batch[i].seq] # "unused"
    BY <1>0, <2>1, <2>3 DEF RetryTold
  <2>5. Keeps
    BY <1>0, <2>1, UnchangedKeeps
  <2> QED
    BY <1>01, <2>1, <2>3, <2>4, <2>5, ToldStep DEF Keeps
<1>3. CASE RetryRecord
  <2> DEFINE d == Head(retry.batch)
  <2>1. /\ retry.pc = "record" /\ retry.batch # <<>> /\ Stored' = Stored
        /\ \A r \in Stored, t \in Subscribers :
             St(r, t)' = St(r, t) \/ (r = d.seq /\ t = d.sub /\ St(r, t)' = retry.out)
        /\ retry' = NextDelivery \/ (retry'.pc = "settle" /\ retry'.batch = retry.batch)
        /\ UNCHANGED <<pub, history>>
    BY <1>0, <1>3, RetryRecordMakes
  <2>2. \A q \in Stored', t \in Subscribers \ Interceptors :
          OwnNumber(q) /\ St(q, t)' = "Delivered" => St(q, t) = "Delivered" \/ sent'[q][t] # <<>>
    BY <2>1 DEF ToldInv, RetryTold, history
  <2>3. RetryTold' /\ \A i \in DOMAIN retry'.batch : reused[retry'.batch[i].seq] # "unused"
    BY <1>0, <1>02, <2>1 DEF RetryTold
  <2> QED
    BY <1>01, <2>1, <2>2, <2>3, ToldStep DEF history
<1>4. CASE SettleGet \/ SettlePut
  <2>1. /\ Keeps /\ retry.batch # <<>> /\ UNCHANGED <<pub, history>>
        /\ retry' = NextDelivery \/ (retry'.pc = "put" /\ retry'.batch = retry.batch)
    BY <1>0, <1>4, SettleMakes
  <2>2. RetryTold' /\ \A i \in DOMAIN retry'.batch : reused[retry'.batch[i].seq] # "unused"
    BY <1>0, <1>02, <2>1 DEF RetryTold
  <2> QED
    BY <1>01, <2>1, <2>2, ToldStep DEF Keeps, history
<1>5. CASE OtherStep
  <2>1. /\ Keeps /\ UNCHANGED history
        /\ \/ UNCHANGED <<pub, retry>>
           \/ pub' = [p \in Publishers |-> IdlePub] /\ retry' = IdleRetry
    BY <1>0, <1>5, OtherMakes
  <2>2. \A p \in Publishers : pub'[p] = pub[p] \/ pub'[p].pc = "idle"
    BY <2>1, IdleTyped
  <2>3. retry' = retry \/ (RetryTold' /\ \A i \in DOMAIN retry'.batch : reused[retry'.batch[i].seq] # "unused")
    BY <2>1, IdleTyped DEF RetryTold
  <2> QED
    BY <1>01, <2>1, <2>2, <2>3, ToldStep DEF Keeps, history
<1>6. ASSUME NEW p \in Publishers, NEW q \in Seqs, ReplayGet(p, q)
      PROVE  ToldInv'
  <2>1. /\ q \in Stored /\ pub \in [Publishers -> PubRecord] /\ UNCHANGED <<events, clock, retry, history>>
        /\ pub' = [pub EXCEPT ![p] = [IdlePub EXCEPT !.pc = "requeue", !.seq = q, !.subj = events[q].subject]]
    BY <1>0, <1>6 DEF ReplayGet, BusTyped
  <2>2. pub'[p].pc = "requeue" /\ pub'[p].seq = q /\ \A o \in Publishers \ {p} : pub'[o] = pub[o]
    BY <2>1 DEF IdlePub
  <2>3. \A o \in Publishers : pub'[o] = pub[o] \/ (reused[pub'[o].seq] # "unused" /\ PubTold(o)')
    BY <2>1, <2>2, InUse DEF PubTold
  <2>4. Keeps
    BY <1>0, <2>1, UnchangedKeeps
  <2> QED
    BY <1>01, <2>1, <2>3, <2>4, ToldStep DEF Keeps, history
<1> QED
  BY <1>1, <1>2, <1>3, <1>4, <1>5, <1>6 DEF RetryStep

\* The invariant holds in the beginning.
LEMMA InitTold == Init => ToldInv
<1> SUFFICES ASSUME Init PROVE ToldInv
  OBVIOUS
<1>1. StoreTypeOK /\ Stored = {}
  BY DEF Init, StoreInit, StoreTypeOK, Stored
<1>2. <<>> \in Seq(SentEntry)
  OBVIOUS
<1>3. /\ subs \in [Subscribers -> {"new", "live", "gone"}] /\ chan \in [Subscribers -> Int]
      /\ owed \in [Seqs -> SUBSET Subscribers] /\ modified \in [Seqs -> SUBSET Interceptors]
      /\ droppedBy \in [Seqs -> SUBSET Interceptors]
      /\ reused \in [Seqs -> {"unused", "once", "again"}]
      /\ sent \in [Seqs -> [Subscribers -> Seq(SentEntry)]]
  BY <1>2 DEF Init
<1>4. /\ pub \in [Publishers -> PubRecord] /\ \A p \in Publishers : pub[p].pc = "idle"
      /\ retry \in RetryRecordType /\ retry.pc = "idle" /\ retry.batch = <<>>
  BY IdleTyped DEF Init
<1>5. Typed
  BY <1>1, <1>3, <1>4 DEF Typed, BusTyped, TasksTyped
<1> QED
  BY <1>1, <1>4, <1>5 DEF ToldInv, Unused, DeliveredWasSent, PubTold, RetryTold

\* Nothing read by the invariant changes in a stuttering step.
LEMMA ToldStutters ==
  ASSUME ToldInv, UNCHANGED vars
  PROVE  ToldInv'
<1>1. UNCHANGED <<events, clock, subs, chan, pub, retry, sent, owed, modified, droppedBy, reused>>
  BY DEF vars
<1>2. Typed'
  BY <1>1 DEF ToldInv, Typed, BusTyped, TasksTyped, StoreTypeOK
<1>3. Keeps
  BY <1>1, UnchangedKeeps DEF ToldInv, Typed, BusTyped
<1> QED
  BY <1>1, <1>2, <1>3, ToldStep DEF Keeps

\* The inductive invariant: types, numbers and who has told what.
LEMMA ToldInvariant == Spec => []ToldInv
<1>1. ToldInv /\ [Next]_vars => ToldInv'
  BY PublishTold, PublisherTold, OthersTold, ToldStutters DEF Next, OtherStep
<1> QED
  BY InitTold, <1>1, PTL DEF Spec

\* Whatever fails, restarts, is replayed, purged or compacted: a record that says
\* Delivered is never a lie (dispatch/engine.rs try_record, delivery/retry.rs
\* retry_delivery).
THEOREM DeliveredIsTrue == Spec => []DeliveredWasSent
<1>1. ToldInv => DeliveredWasSent
  BY DEF ToldInv
<1> QED
  BY <1>1, ToldInvariant, PTL

\* An event comes back to an empty slot only through append: update_status,
\* record_delivery and requeue_dead_lettered do nothing to an event that
\* compaction or a purge has removed.
THEOREM NothingResurrected == Spec => NoResurrection
<1> DEFINE Back(q) == events[q] = NoEvent /\ events'[q] # NoEvent =>
                        \E subj \in Subjects : events'[q] = NewEvent(subj)
<1>1. ASSUME ToldInv, [Next]_vars, NEW q \in Seqs, events[q] = NoEvent, events'[q] # NoEvent
      PROVE  \E subj \in Subjects : events'[q] = NewEvent(subj)
  <2>1. q \notin Stored /\ q \in Stored' /\ Typed
    BY <1>1 DEF Stored, ToldInv
  <2>2. ASSUME NEW p \in Publishers, NEW subj \in Subjects, Publish(p, subj)
        PROVE  events'[q] = NewEvent(subj)
    BY <1>1, <2>1, <2>2 DEF Publish, AppendEvent, Typed, BusTyped, StoreTypeOK
  <2>3. ASSUME NEW p \in Publishers, PublisherStep(p)
        PROVE  Stored' \subseteq Stored
    <3>1. CASE ReplayRequeue(p)
      <4>1. CASE RequeueDeadLettered(pub[p].seq)
        BY <2>1, <3>1, <4>1, RequeueMakes DEF ReplayRequeue, Typed, BusTyped, TasksTyped
      <4>2. CASE UNCHANGED events
        BY <4>2 DEF Stored
      <4> QED
        BY <3>1, <4>1, <4>2 DEF ReplayRequeue, history
    <3>2. CASE Intercept(p)
      BY <3>2 DEF Intercept, Stored
    <3> QED
      BY <2>1, <2>3, <3>1, <3>2, ResolveMakes, MarkMakes, SnapshotMakes, SendMakes, OutcomeMakes, EndMakes
         DEF PublisherStep, Keeps
  <2>4. CASE RetryStep
    BY <2>1, <2>4, AttemptMakes, RetryRecordMakes, SettleMakes DEF RetryStep, PollRetryable, Keeps, Stored
  <2>5. CASE OtherStep
    BY <2>1, <2>5, OtherMakes DEF Keeps
  <2>6. ASSUME NEW p \in Publishers, NEW r \in Seqs, ReplayGet(p, r)
        PROVE  Stored' \subseteq Stored
    BY <2>6 DEF ReplayGet, Stored
  <2> QED
    BY <1>1, <2>1, <2>2, <2>3, <2>4, <2>5, <2>6 DEF Next, OtherStep, vars, Stored
<1>2. ToldInv /\ [Next]_vars => [\A q \in Seqs : Back(q)]_vars
  BY <1>1
<1> QED
  BY <1>2, ToldInvariant, PTL DEF Spec, NoResurrection

-----------------------------------------------------------------------------
(* The reliable bus: what a step has to do to keep the invariant            *)

\* What a publisher may be at, by its place in the pipeline.
LEMMA OpenIs ==
  ASSUME NEW p \in Publishers
  PROVE  /\ pub[p].pc \in {"resolve", "open"} => Open(p) = Subscribers
         /\ pub[p].pc \in {"idle", "requeue", "close"} => Open(p) = {}
         /\ Chaining(p) /\ pub[p].phase = "sync" => Open(p) = pub[p].todo \cup pub[p].rest
         /\ Chaining(p) /\ pub[p].phase # "sync" => Open(p) = pub[p].todo
  BY DEF Open, Chaining

\* The history of copies is judged by the copies alone.
LEMMA SameTrail ==
  ASSUME NEW q, NEW s, sent'[q][s] = sent[q][s]
  PROVE  (Trail(q, s)' <=> Trail(q, s)) /\ (Acked(q, s)' <=> Acked(q, s))
<1>1. s \in Remote' <=> s \in Remote
  BY DEF Remote
<1> QED
  BY <1>1 DEF Trail, Acked

\* Without copies there is none that was acknowledged.
LEMMA NoTrail ==
  ASSUME NEW q, NEW s, sent[q][s] = <<>>
  PROVE  Trail(q, s) /\ ~Acked(q, s)
  BY DEF Trail, Acked

\* A delivery in the batch is there with a number of attempts.
LEMMA QueuedIs ==
  ASSUME retry \in RetryRecordType, NEW q \in Seqs, NEW s \in Subscribers
  PROVE  Queued(q, s) <=> \E n \in Nat : QueuedAs(q, s, n)
<1>1. retry.batch \in Seq(BatchEntry)
  BY DEF RetryRecordType
<1>2. \A i \in DOMAIN retry.batch : retry.batch[i] \in BatchEntry
  BY <1>1
<1>3. \A e \in BatchEntry : e = [seq |-> e.seq, sub |-> e.sub, attempts |-> e.attempts] /\ e.attempts \in Nat
  BY DEF BatchEntry
<1> QED
  BY <1>2, <1>3 DEF Queued, QueuedAs

\* A publisher and its event are as they were for the invariant's purposes.
LEMMA SamePublisher ==
  ASSUME NEW p \in Publishers, NEW q \in Seqs, q = pub[p].seq, pub'[p] = pub[p], OnEvent(p),
         \A o \in Publishers : Works(o, q)' => Works(o, q),
         owed'[q] = owed[q], modified'[q] = modified[q], droppedBy'[q] = droppedBy[q],
         \A s \in Subscribers :
           /\ Touched(q, s)' => Touched(q, s)
           /\ s \in Open(p) => /\ sent'[q][s] = sent[q][s]
                               /\ Queued(q, s)' => Queued(q, s)
                               /\ InRetry(q, s)' => InRetry(q, s)
                               /\ q \in Stored' => q \in Stored /\ St(q, s)' = St(q, s)
  PROVE  OnEvent(p)'
<1>1. Open(p)' = Open(p) /\ Chaining(p)' = Chaining(p) /\ pub'[p].seq = q
      /\ \A s \in Subscribers : AtHand(p, s)' = AtHand(p, s)
  BY DEF Open, Chaining, AtHand
<1>2. \A o \in Publishers : Works(o, pub[p].seq)' => o = p
  BY <1>1 DEF OnEvent, Works
<1>3. Stage(p)'
  BY <1>1 DEF OnEvent, Stage, After
<1>4. ASSUME NEW s \in Subscribers PROVE OpenPair(p, s)'
  <2>1. OpenPair(p, s)
    BY DEF OnEvent
  <2> QED
    BY <1>1, <2>1 DEF OpenPair, After
<1> QED
  BY <1>1, <1>2, <1>3, <1>4 DEF OnEvent

\* A step of one publisher has only its own event to answer for.
LEMMA PublisherKeeps ==
  ASSUME ReliableInv, ToldInv', NEW p \in Publishers, NEW q \in Seqs, Works(p, q),
         \A o \in Publishers \ {p} : pub'[o] = pub[o],
         pub'[p].pc # "idle" => pub'[p].seq = q /\ pub'[p].pc # "requeue",
         UNCHANGED <<retry, reused>>, Stored' \subseteq Stored,
         \A r \in Seqs \ {q} :
           /\ sent'[r] = sent[r] /\ owed'[r] = owed[r]
           /\ modified'[r] = modified[r] /\ droppedBy'[r] = droppedBy[r]
           /\ r \in Stored' => \A t \in Subscribers : St(r, t)' = St(r, t),
         OwnNumber(q) =>
           /\ pub'[p].pc # "idle" => Stage(p)' /\ \A s \in Subscribers : OpenPair(p, s)'
           /\ \A s \in Subscribers : Ledger(q, s)' /\ Course(q, s)'
  PROVE  ReliableInv'
<1>1. \A r \in Seqs : OwnNumber(r)' <=> OwnNumber(r)
  BY DEF OwnNumber
<1>2. \A r \in Seqs, s \in Subscribers : (Queued(r, s)' <=> Queued(r, s)) /\ (InRetry(r, s)' <=> InRetry(r, s))
  BY DEF Queued, InRetry
<1>3. ASSUME NEW r \in Seqs \ {q}, NEW s \in Subscribers PROVE Touched(r, s)' => Touched(r, s)
  BY <1>2 DEF Touched
<1>4. ASSUME NEW r \in Seqs, NEW o \in Publishers, Works(o, r)' PROVE Works(o, r)
  BY <1>4 DEF Works
<1>5. ASSUME NEW o \in Publishers PROVE PublisherInv(o)'
  <2>0. PublisherInv(o)
    BY DEF ReliableInv
  <2>1. CASE o = p
    <3> SUFFICES ASSUME pub'[p].pc # "idle", OwnNumber(q) PROVE OnEvent(p)'
      BY <2>1 DEF PublisherInv, OwnNumber
    <3>1. \A x \in Publishers : Works(x, q) => x = p
      BY DEF ReliableInv, PublisherInv, OnEvent, Works
    <3> QED
      BY <1>4, <3>1 DEF OnEvent, Works
  <2>2. CASE o # p
    <3> SUFFICES ASSUME pub[o].pc # "idle", OwnNumber(pub[o].seq) PROVE OnEvent(o)'
      BY <2>0, <2>2 DEF PublisherInv, OwnNumber
    <3>1. PICK r \in Seqs : r = pub[o].seq
      BY DEF ReliableInv, ToldInv, Typed, TasksTyped
    <3>2. OnEvent(o) /\ pub'[o] = pub[o]
      BY <2>0, <2>2 DEF PublisherInv
    <3>3. r # q
      BY <2>2, <3>1, <3>2 DEF OnEvent, Works
    <3> QED
      BY <1>2, <1>3, <1>4, <3>1, <3>2, <3>3, SamePublisher
  <2> QED
    BY <2>1, <2>2
<1>6. ASSUME NEW r \in Seqs, NEW s \in Subscribers, OwnNumber(r), r # q PROVE Ledger(r, s)' /\ Course(r, s)'
  <2>1. Ledger(r, s) /\ Course(r, s)
    BY <1>6 DEF ReliableInv
  <2>2. Ledger(r, s)'
    BY <1>2, <1>6, <2>1, SameTrail DEF Ledger
  <2>3. \A o \in Publishers : Works(o, r) /\ s \in Open(o) => Works(o, r)' /\ s \in Open(o)'
    BY <1>6 DEF Works, Open, Chaining
  <2>4. Course(r, s)'
    BY <1>3, <1>6, <2>1, <2>3 DEF Course, After
  <2> QED
    BY <2>2, <2>4
<1>7. Reliable' /\ BatchDistinct'
  BY DEF ReliableInv, Reliable, BatchDistinct
<1> QED
  BY <1>1, <1>5, <1>6, <1>7 DEF ReliableInv

\* What the retry task may do to a delivery.
Turns(q, s) ==
  /\ \/ sent'[q][s] = sent[q][s]
     \/ /\ Queued(q, s)
        /\ \A k \in DOMAIN sent'[q][s] :
             sent'[q][s][k].by = "retry" \/ (k \in DOMAIN sent[q][s] /\ sent'[q][s][k] = sent[q][s][k])
  /\ Queued(q, s)' => Queued(q, s) \/ (q \in Stored /\ St(q, s) # "None")
  /\ InRetry(q, s)' => InRetry(q, s) \/ Queued(q, s)
  /\ q \in Stored' => St(q, s)' = St(q, s) \/ (InRetry(q, s) /\ St(q, s)' # "None")

\* A step of any other task has only the ledger to answer for.
LEMMA TasksKeep ==
  ASSUME ReliableInv, ToldInv', BatchDistinct', UNCHANGED <<pub, owed, modified, droppedBy, reused>>,
         Stored' \subseteq Stored,
         \A q \in Seqs, s \in Subscribers : OwnNumber(q) => Ledger(q, s)' /\ Turns(q, s)
  PROVE  ReliableInv'
<1>1. \A r \in Seqs : OwnNumber(r)' <=> OwnNumber(r)
  BY DEF OwnNumber
<1>2. ASSUME NEW q \in Seqs, NEW s \in Subscribers, OwnNumber(q), Touched(q, s)' PROVE Touched(q, s)
  BY <1>2 DEF Touched, Turns
<1>3. ASSUME NEW o \in Publishers PROVE PublisherInv(o)'
  <2>0. PublisherInv(o)
    BY DEF ReliableInv
  <2> SUFFICES ASSUME pub[o].pc # "idle", OwnNumber(pub[o].seq) PROVE OnEvent(o)'
    BY <2>0 DEF PublisherInv, OwnNumber
  <2>1. PICK q \in Seqs : q = pub[o].seq
    BY DEF ReliableInv, ToldInv, Typed, TasksTyped
  <2>2. OnEvent(o) /\ OwnNumber(q)
    BY <2>0, <2>1 DEF PublisherInv
  <2>3. \A x \in Publishers : Works(x, q)' => Works(x, q)
    BY DEF Works
  <2>4. ASSUME NEW s \in Subscribers, s \in Open(o)
        PROVE  /\ sent'[q][s] = sent[q][s] /\ ~Queued(q, s)' /\ ~InRetry(q, s)'
               /\ q \in Stored' => q \in Stored /\ St(q, s)' = St(q, s)
    <3>1. Turns(q, s) /\ ~Queued(q, s) /\ ~InRetry(q, s) /\ (q \in Stored => St(q, s) = "None")
      BY <2>1, <2>2, <2>4 DEF OnEvent, OpenPair
    <3> QED
      BY <3>1 DEF Turns
  <2> QED
    BY <1>2, <2>1, <2>2, <2>3, <2>4, SamePublisher
<1>4. ASSUME NEW q \in Seqs, NEW s \in Subscribers, OwnNumber(q) PROVE Course(q, s)'
  <2>1. Course(q, s) /\ Turns(q, s)
    BY <1>4 DEF ReliableInv
  <2>2. \A o \in Publishers : Works(o, q) /\ s \in Open(o) => Works(o, q)' /\ s \in Open(o)'
    BY DEF Works, Open, Chaining
  <2>3. q \in Stored' /\ St(q, s)' = "None" => q \in Stored /\ St(q, s) = "None"
    BY <2>1 DEF Turns
  <2>4. \A k \in DOMAIN sent'[q][s] :
          sent'[q][s][k].by = "dispatch" => sent'[q][s][k].payload = {j \in modified[q] : After(j, s)}
    BY <2>1 DEF Turns, Course
  <2> QED
    BY <1>2, <1>4, <2>1, <2>2, <2>3, <2>4 DEF Course, After
<1>5. Reliable'
  BY DEF ReliableInv, Reliable
<1> QED
  BY <1>1, <1>3, <1>4, <1>5 DEF ReliableInv

-----------------------------------------------------------------------------
(* The reliable bus: the retry task and the rest                            *)

\* The retry task leaves the delivery at hand behind.
LEMMA AdvanceIs ==
  ASSUME retry \in RetryRecordType, retry.batch # <<>>, BatchDistinct,
         \/ retry' = NextDelivery
         \/ retry'.pc \in {"settle", "put"} /\ retry'.batch = retry.batch
  PROVE  /\ BatchDistinct'
         /\ \A q \in Seqs, s \in Subscribers : (Queued(q, s)' => Queued(q, s)) /\ ~InRetry(q, s)'
         /\ \A q \in Seqs, s \in Subscribers :
              q = Head(retry.batch).seq /\ s = Head(retry.batch).sub => ~Queued(q, s)'
<1>0. /\ Head(retry.batch) = retry.batch[1] /\ 1 \in DOMAIN retry.batch
      /\ DOMAIN retry.batch = 1..Len(retry.batch) /\ Len(retry.batch) \in Nat
  BY HeadOf
<1>1. CASE retry' = NextDelivery
  <2>1. /\ retry'.pc \in {"idle", "attempt"} /\ DOMAIN retry'.batch = 1..(Len(retry.batch) - 1)
        /\ \A i \in DOMAIN retry'.batch : i + 1 \in DOMAIN retry.batch /\ retry'.batch[i] = retry.batch[i + 1]
    BY <1>1, NextDeliveryTyped
  <2>2. \A i \in DOMAIN retry'.batch : i \in Nat \ {0}
    BY <1>0, <2>1
  <2>3. BatchDistinct'
    <3> SUFFICES ASSUME NEW i \in DOMAIN retry'.batch, NEW j \in DOMAIN retry'.batch, i # j
                 PROVE  retry'.batch[i].seq # retry'.batch[j].seq \/ retry'.batch[i].sub # retry'.batch[j].sub
      BY DEF BatchDistinct
    <3>1. i + 1 # j + 1 /\ i + 1 \in DOMAIN retry.batch /\ j + 1 \in DOMAIN retry.batch
      BY <2>1, <2>2
    <3>2. retry'.batch[i] = retry.batch[i + 1] /\ retry'.batch[j] = retry.batch[j + 1]
      BY <2>1
    <3> QED
      BY <3>1, <3>2 DEF BatchDistinct
  <2>4. ASSUME NEW q \in Seqs, NEW s \in Subscribers, Queued(q, s)'
        PROVE  \E i \in DOMAIN retry.batch : i > 1 /\ retry.batch[i].seq = q /\ retry.batch[i].sub = s
    <3>1. PICK i \in DOMAIN retry'.batch : retry'.batch[i].seq = q /\ retry'.batch[i].sub = s
      BY <2>4 DEF Queued
    <3>2. i + 1 > 1
      BY <2>2
    <3> QED
      BY <2>1, <3>1, <3>2
  <2>5. \A q \in Seqs, s \in Subscribers : (Queued(q, s)' => Queued(q, s)) /\ ~InRetry(q, s)'
    BY <2>1, <2>4 DEF Queued, InRetry
  <2> QED
    BY <1>0, <2>3, <2>4, <2>5 DEF BatchDistinct
<1>2. CASE retry'.pc \in {"settle", "put"} /\ retry'.batch = retry.batch
  BY <1>0, <1>2 DEF BatchDistinct, Queued, InRetry
<1> QED
  BY <1>1, <1>2

\* The retry task of a reliable bus.
LEMMA RetryReliable ==
  ASSUME ReliableInv, CountInv, RetryStep
  PROVE  ReliableInv'
<1>0. /\ Typed /\ BusTyped /\ StoreTypeOK /\ retry \in RetryRecordType /\ ToldInv' /\ BatchDistinct
      /\ ~StoreMayFail
  BY OthersTold DEF ReliableInv, Reliable, ToldInv, Typed, BusTyped
<1>1. CASE PollRetryable
  <2>1. Keeps /\ retry.pc = "idle" /\ UNCHANGED <<events, pub, history>>
    BY <1>0, <1>1, UnchangedKeeps DEF PollRetryable
  <2>2. /\ retry'.pc = "attempt" /\ BatchDistinct'
        /\ \A i \in DOMAIN retry'.batch :
             LET d == retry'.batch[i] IN d.seq \in Stored /\ St(d.seq, d.sub) = "Failed"
    BY <1>0, <1>1, PollMakes DEF BatchDistinct
  <2>3. \A q \in Seqs, s \in Subscribers :
          /\ ~InRetry(q, s) /\ ~InRetry(q, s)'
          /\ Queued(q, s)' => q \in Stored /\ St(q, s) = "Failed"
    BY <2>1, <2>2 DEF InRetry, Queued
  <2>4. ASSUME NEW q \in Seqs, NEW s \in Subscribers, OwnNumber(q) PROVE Ledger(q, s)' /\ Turns(q, s)
    <3>1. /\ Ledger(q, s) /\ sent'[q][s] = sent[q][s]
          /\ q \in Stored' => q \in Stored /\ St(q, s)' = St(q, s)
      BY <2>1, <2>4 DEF ReliableInv, Keeps, history
    <3>2. Trail(q, s) /\ (Queued(q, s)' => ~Acked(q, s))
      <4>1. CASE s \in Interceptors
        BY <3>1, <4>1 DEF Ledger, Trail, Acked
      <4>2. CASE s \notin Interceptors
        BY <2>3, <3>1, <4>2 DEF Ledger
      <4> QED
        BY <4>1, <4>2
    <3>3. Trail(q, s)' /\ (Acked(q, s)' <=> Acked(q, s))
      BY <3>1, <3>2, SameTrail
    <3> QED
      BY <2>3, <3>1, <3>2, <3>3 DEF Ledger, Turns
  <2> QED
    BY <1>0, <2>1, <2>2, <2>4, TasksKeep DEF Keeps, history
<1>2. CASE RetryAttempt
  <2> DEFINE d == Head(retry.batch)
  <2>1. /\ retry.pc = "attempt" /\ retry.batch # <<>> /\ retry'.pc = "record" /\ retry'.batch = retry.batch
        /\ UNCHANGED <<events, clock, pub, owed, modified, droppedBy, reused>>
        /\ \/ retry'.out # "Delivered" /\ UNCHANGED sent
           \/ \E a \in {"Ok", "Failed"} : /\ a = "Ok" <=> retry'.out = "Delivered"
                                /\ d.sub \notin Interceptors /\ (a # "Ok" => d.sub \in Remote)
                                /\ Through(d.seq, d.sub, {}, "retry", a)
    BY <1>0, <1>2, AttemptMakes
  <2>2. /\ d = retry.batch[1] /\ 1 \in DOMAIN retry.batch /\ d.seq \in Seqs /\ d.sub \in Subscribers
        /\ DOMAIN retry.batch = 1..Len(retry.batch) /\ Len(retry.batch) \in Nat
    BY <1>0, <2>1, HeadOf DEF BatchEntry
  <2>3. BatchDistinct' /\ Queued(d.seq, d.sub)
    BY <1>0, <2>1, <2>2 DEF BatchDistinct, Queued
  <2>4. ASSUME NEW q \in Seqs, NEW s \in Subscribers
        PROVE  /\ ~InRetry(q, s) /\ (InRetry(q, s)' <=> q = d.seq /\ s = d.sub)
               /\ Queued(q, s)' => Queued(q, s)
               /\ q = d.seq /\ s = d.sub => ~Queued(q, s)'
    BY <1>0, <2>1, <2>2 DEF InRetry, Queued, BatchDistinct
  <2>5. Keeps
    BY <1>0, <2>1, UnchangedKeeps
  <2>7. ASSUME NEW a \in {"Ok", "Failed"}, Through(d.seq, d.sub, {}, "retry", a)
        PROVE  /\ Len(sent[d.seq][d.sub]) <= MaxAttempts =>
                    sent'[d.seq][d.sub] = Append(sent[d.seq][d.sub], [payload |-> {}, by |-> "retry", answer |-> a])
               /\ \A q \in Seqs, t \in Subscribers : q # d.seq \/ t # d.sub => sent'[q][t] = sent[q][t]
    <3>1. PICK e \in SentEntry : /\ e = [payload |-> {}, by |-> "retry", answer |-> a]
                                 /\ Copied(d.seq, d.sub, e)
      BY <2>7 DEF Through, Copied, SentEntry
    <3>2. /\ Len(sent[d.seq][d.sub]) <= MaxAttempts => sent'[d.seq][d.sub] = Append(sent[d.seq][d.sub], e)
          /\ \A q \in Seqs, t \in Subscribers : q # d.seq \/ t # d.sub => sent'[q][t] = sent[q][t]
      BY <1>0, <2>2, <3>1, CopyMakes
    <3> QED
      BY <3>1, <3>2
  <2> HIDE DEF d
  <2>6. ASSUME NEW q \in Seqs, NEW s \in Subscribers, OwnNumber(q) PROVE Ledger(q, s)' /\ Turns(q, s)
    <3>1. Ledger(q, s) /\ (q \in Stored' => q \in Stored /\ St(q, s)' = St(q, s))
      BY <2>5, <2>6 DEF ReliableInv, Keeps
    <3>2. CASE q # d.seq \/ s # d.sub
      <4>1. sent'[q][s] = sent[q][s]
        BY <2>1, <2>7, <3>2
      <4> QED
        BY <2>4, <3>1, <3>2, <4>1, SameTrail DEF Ledger, Turns
    <3>3. CASE q = d.seq /\ s = d.sub
      <4>1. ~Acked(q, s) /\ Queued(q, s) /\ Trail(q, s) /\ sent[q][s] \in Seq(SentEntry)
        BY <1>0, <2>3, <3>1, <3>3 DEF Ledger, BusTyped
      <4>2. Len(sent[q][s]) <= MaxAttempts
        <5>1. PICK n \in Nat : QueuedAs(q, s, n)
          BY <1>0, <4>1, QueuedIs
        <5>2. Len(sent[q][s]) < n /\ n < MaxAttempts
          BY <2>6, <5>1 DEF CountInv, Counts
        <5> QED
          BY <4>1, <5>2, StoreAssumption
      <4>3. /\ Trail(q, s)' /\ (Acked(q, s)' <=> retry'.out = "Delivered")
            /\ \A k \in DOMAIN sent'[q][s] :
                 sent'[q][s][k].by = "retry" \/ (k \in DOMAIN sent[q][s] /\ sent'[q][s][k] = sent[q][s][k])
        <5>1. CASE retry'.out # "Delivered" /\ UNCHANGED sent
          BY <4>1, <5>1 DEF Trail, Acked
        <5>2. ASSUME NEW a \in {"Ok", "Failed"}, a = "Ok" <=> retry'.out = "Delivered", s \notin Interceptors,
                     a # "Ok" => s \in Remote, Through(d.seq, d.sub, {}, "retry", a)
              PROVE  /\ Trail(q, s)' /\ (Acked(q, s)' <=> retry'.out = "Delivered")
                     /\ \A k \in DOMAIN sent'[q][s] :
                          sent'[q][s][k].by = "retry"
                            \/ (k \in DOMAIN sent[q][s] /\ sent'[q][s][k] = sent[q][s][k])
          <6>1. sent'[q][s] = Append(sent[q][s], [payload |-> {}, by |-> "retry", answer |-> a])
            BY <2>7, <3>3, <4>2, <5>2
          <6>2. /\ DOMAIN sent[q][s] = 1..Len(sent[q][s]) /\ Len(sent[q][s]) \in Nat
                /\ Len(sent'[q][s]) = Len(sent[q][s]) + 1 /\ DOMAIN sent'[q][s] = 1..(Len(sent[q][s]) + 1)
                /\ \A k \in 1..Len(sent[q][s]) : sent'[q][s][k] = sent[q][s][k]
                /\ sent'[q][s][Len(sent[q][s]) + 1].answer = a
                /\ sent'[q][s][Len(sent[q][s]) + 1].by = "retry"
            BY <4>1, <6>1
          <6>3. \A k \in DOMAIN sent'[q][s] : k = Len(sent[q][s]) + 1 \/ k \in 1..Len(sent[q][s])
            BY <6>2
          <6>4. \A k \in 1..Len(sent[q][s]) : sent'[q][s][k].answer # "Ok"
            BY <4>1, <6>2 DEF Acked
          <6>5. Acked(q, s)' <=> a = "Ok"
            <7>1. \A k \in DOMAIN sent'[q][s] : sent'[q][s][k].answer = "Ok" => k = Len(sent[q][s]) + 1
              BY <6>3, <6>4
            <7>2. Len(sent[q][s]) + 1 \in DOMAIN sent'[q][s]
              BY <6>2
            <7> QED
              BY <6>2, <7>1, <7>2, Zenon DEF Acked
          <6>6. s \notin Remote => Len(sent[q][s]) = 0
            BY <4>1, <6>2 DEF Trail, Acked
          <6>7. Trail(q, s)'
            <7>1. Remote' = Remote
              BY DEF Remote
            <7>2. \A k \in DOMAIN sent'[q][s] : sent'[q][s][k].answer = "Ok" => k = Len(sent'[q][s])
              BY <6>2, <6>3, <6>4
            <7>3. s \notin Remote => \A k \in DOMAIN sent'[q][s] : sent'[q][s][k].answer = "Ok"
              <8>1. ASSUME s \notin Remote, NEW k \in DOMAIN sent'[q][s] PROVE k = Len(sent[q][s]) + 1
                BY <6>2, <6>3, <6>6, <8>1
              <8>2. s \notin Remote => sent'[q][s][Len(sent[q][s]) + 1].answer = "Ok"
                BY <5>2, <6>2
              <8> QED
                BY <8>1, <8>2, Zenon
            <7> QED
              BY <5>2, <7>1, <7>2, <7>3, Zenon DEF Trail
          <6> QED
            BY <5>2, <6>2, <6>3, <6>5, <6>7
        <5> QED
          BY <2>1, <3>3, <5>1, <5>2
      <4> QED
        BY <2>4, <3>1, <3>3, <4>1, <4>3 DEF Ledger, Turns
    <3> QED
      BY <3>2, <3>3
  <2> QED
    BY <1>0, <2>1, <2>3, <2>5, <2>6, TasksKeep DEF Keeps
<1>3. CASE RetryRecord
  <2> DEFINE d == Head(retry.batch)
  <2>1. /\ retry.pc = "record" /\ retry.batch # <<>> /\ Stored' = Stored /\ retry.out \in DeliveryStatus
        /\ \A r \in Stored, t \in Subscribers :
             St(r, t)' = IF r = d.seq /\ t = d.sub THEN retry.out ELSE St(r, t)
        /\ retry' = NextDelivery \/ (retry'.pc = "settle" /\ retry'.batch = retry.batch)
        /\ UNCHANGED <<pub, history>>
    BY <1>0, <1>3, RetryRecordMakes
  <2>2. /\ BatchDistinct'
        /\ \A q \in Seqs, s \in Subscribers :
             /\ Queued(q, s)' => Queued(q, s)
             /\ q = d.seq /\ s = d.sub => ~Queued(q, s)'
             /\ ~InRetry(q, s)' /\ (InRetry(q, s) <=> q = d.seq /\ s = d.sub)
    BY <1>0, <2>1, AdvanceIs DEF InRetry
  <2> HIDE DEF d
  <2>3. ASSUME NEW q \in Seqs, NEW s \in Subscribers, OwnNumber(q) PROVE Ledger(q, s)' /\ Turns(q, s)
    <3>1. Ledger(q, s) /\ sent'[q][s] = sent[q][s]
      BY <2>1, <2>3 DEF ReliableInv, history
    <3>2. CASE q # d.seq \/ s # d.sub
      BY <2>1, <2>2, <3>1, <3>2, SameTrail DEF Ledger, Turns
    <3>3. CASE q = d.seq /\ s = d.sub
      BY <2>1, <2>2, <3>1, <3>3, SameTrail DEF Ledger, Turns, DeliveryStatus
    <3> QED
      BY <3>2, <3>3
  <2> QED
    BY <1>0, <2>1, <2>2, <2>3, TasksKeep DEF history
<1>4. CASE SettleGet \/ SettlePut
  <2>1. /\ Keeps /\ retry.pc \in {"settle", "put"} /\ retry.batch # <<>> /\ UNCHANGED <<pub, history>>
        /\ retry' = NextDelivery \/ (retry'.pc = "put" /\ retry'.batch = retry.batch)
    BY <1>0, <1>4, SettleMakes
  <2>2. /\ BatchDistinct'
        /\ \A q \in Seqs, s \in Subscribers :
             (Queued(q, s)' => Queued(q, s)) /\ ~InRetry(q, s)' /\ ~InRetry(q, s)
    BY <1>0, <2>1, AdvanceIs DEF InRetry
  <2>3. ASSUME NEW q \in Seqs, NEW s \in Subscribers, OwnNumber(q) PROVE Ledger(q, s)' /\ Turns(q, s)
    <3>1. /\ Ledger(q, s) /\ sent'[q][s] = sent[q][s]
          /\ q \in Stored' => q \in Stored /\ St(q, s)' = St(q, s)
      BY <2>1, <2>3 DEF ReliableInv, Keeps, history
    <3> QED
      BY <2>2, <3>1, SameTrail DEF Ledger, Turns
  <2> QED
    BY <1>0, <2>1, <2>2, <2>3, TasksKeep DEF Keeps, history
<1> QED
  BY <1>1, <1>2, <1>3, <1>4 DEF RetryStep

\* Subscriptions, compaction and time leave the ledger alone.
LEMMA OtherReliable ==
  ASSUME ReliableInv, OtherStep, crashes \in Nat
  PROVE  ReliableInv'
<1>0. Typed /\ ToldInv' /\ ~Crash
  BY OthersTold DEF ReliableInv, Reliable, ToldInv, Crash
<1>1. Keeps /\ UNCHANGED <<pub, retry, history>>
  BY <1>0, OtherMakes
<1>2. ASSUME NEW q \in Seqs, NEW s \in Subscribers, OwnNumber(q) PROVE Ledger(q, s)' /\ Turns(q, s)
  <2>1. /\ Ledger(q, s) /\ sent'[q][s] = sent[q][s]
        /\ q \in Stored' => q \in Stored /\ St(q, s)' = St(q, s)
        /\ (Queued(q, s)' <=> Queued(q, s)) /\ (InRetry(q, s)' <=> InRetry(q, s))
    BY <1>1, <1>2 DEF ReliableInv, Keeps, history, Queued, InRetry
  <2> QED
    BY <1>1, <2>1, SameTrail DEF Ledger, Turns
<1>3. BatchDistinct'
  BY <1>1 DEF ReliableInv, BatchDistinct
<1> QED
  BY <1>0, <1>1, <1>2, <1>3, TasksKeep DEF Keeps, history

-----------------------------------------------------------------------------
(* The reliable bus: the publishers                                         *)

\* A new event under a number that was not used before: nothing has become of it.
LEMMA PublishReliable ==
  ASSUME ReliableInv, NEW p \in Publishers, NEW subj \in Subjects, Publish(p, subj)
  PROVE  ReliableInv'
<1>0. ToldInv /\ ToldInv' /\ Typed
  BY PublishTold DEF ReliableInv, ToldInv
<1>1. PICK n : n = NextSeq
  OBVIOUS
<1>2. /\ n \in Seqs /\ Stored' = Stored \cup {n}
      /\ \A t \in Subscribers : St(n, t)' = "None"
      /\ \A r \in Stored \ {n}, t \in Subscribers : St(r, t)' = St(r, t)
  BY <1>0, <1>1, AppendMakes DEF Publish, Typed, BusTyped
<1>3. /\ pub \in [Publishers -> PubRecord] /\ sent \in [Seqs -> [Subscribers -> Seq(SentEntry)]]
      /\ reused \in [Seqs -> {"unused", "once", "again"}]
      /\ owed \in [Seqs -> SUBSET Subscribers] /\ modified \in [Seqs -> SUBSET Interceptors]
      /\ droppedBy \in [Seqs -> SUBSET Interceptors]
  BY <1>0 DEF Typed, BusTyped
<1>4. /\ pub[p].pc = "idle" /\ pub'[p].pc = "resolve" /\ pub'[p].seq = n /\ pub'[p].phase = "sync"
      /\ pub'[p].payload = {} /\ pub'[p].dropped = FALSE
      /\ \A o \in Publishers \ {p} : pub'[o] = pub[o]
  BY <1>1, <1>3 DEF Publish, IdlePub
<1>5. \A r \in Seqs \ {n} : /\ sent'[r] = sent[r] /\ reused'[r] = reused[r] /\ owed'[r] = owed[r]
                            /\ modified'[r] = modified[r] /\ droppedBy'[r] = droppedBy[r]
  BY <1>1, <1>3 DEF Publish, FreshDispatch
<1>6. /\ reused'[n] = IF reused[n] = "unused" THEN "once" ELSE "again"
      /\ owed'[n] = {} /\ modified'[n] = {} /\ droppedBy'[n] = {}
      /\ \A s \in Subscribers : sent'[n][s] = <<>>
  BY <1>1, <1>2, <1>3 DEF Publish, FreshDispatch
<1>7. retry' = retry
  BY DEF Publish
<1>8. \A r \in Seqs, s \in Subscribers : (Queued(r, s)' <=> Queued(r, s)) /\ (InRetry(r, s)' <=> InRetry(r, s))
  BY <1>7 DEF Queued, InRetry
<1>9. ASSUME OwnNumber(n)'
      PROVE  /\ \A o \in Publishers : ~Works(o, n)
             /\ \A s \in Subscribers : ~Queued(n, s) /\ ~InRetry(n, s)
  <2>1. Unused(n)
    BY <1>0, <1>2, <1>6, <1>9 DEF OwnNumber, ToldInv
  <2>2. retry.pc = "record" => Head(retry.batch) = retry.batch[1] /\ 1 \in DOMAIN retry.batch
    BY <1>0, HeadOf DEF Typed, BusTyped, TasksTyped
  <2> QED
    BY <2>1, <2>2 DEF Unused, Works, Queued, InRetry
<1>10. ASSUME NEW r \in Seqs \ {n} PROVE OwnNumber(r)' <=> OwnNumber(r)
  BY <1>5 DEF OwnNumber
<1>11. ASSUME NEW r \in Seqs \ {n}, NEW s \in Subscribers PROVE Touched(r, s)' => Touched(r, s)
  BY <1>2, <1>5, <1>8 DEF Touched
<1>12. ASSUME NEW o \in Publishers PROVE PublisherInv(o)'
  <2>1. CASE o = p
    <3> SUFFICES ASSUME OwnNumber(n)' PROVE OnEvent(p)'
      BY <1>4, <2>1 DEF PublisherInv, OwnNumber
    <3>1. \A x \in Publishers : Works(x, pub[p].seq)' => x = p
      BY <1>4, <1>9 DEF Works
    <3>2. Stage(p)'
      BY <1>4, <1>6 DEF Stage, Chaining
    <3>3. ASSUME NEW s \in Subscribers PROVE OpenPair(p, s)'
      BY <1>2, <1>4, <1>6, <1>8, <1>9 DEF OpenPair, Touched, AtHand
    <3> QED
      BY <3>1, <3>2, <3>3 DEF OnEvent
  <2>2. CASE o # p
    <3>0. PublisherInv(o) /\ pub'[o] = pub[o]
      BY <1>4, <2>2 DEF ReliableInv
    <3> SUFFICES ASSUME pub[o].pc # "idle", OwnNumber(pub[o].seq)' PROVE OnEvent(o)'
      BY <3>0 DEF PublisherInv
    <3>1. PICK r \in Seqs : r = pub[o].seq
      BY <1>0 DEF Typed, TasksTyped
    <3>2. r # n
      BY <1>9, <3>0, <3>1 DEF Works, OwnNumber
    <3>3. OnEvent(o)
      BY <1>10, <3>0, <3>1, <3>2 DEF PublisherInv, OwnNumber
    <3>4. \A x \in Publishers : Works(x, r)' => Works(x, r)
      BY <1>4, <3>2 DEF Works
    <3> QED
      BY <1>2, <1>5, <1>8, <1>11, <3>0, <3>1, <3>2, <3>3, <3>4, SamePublisher
  <2> QED
    BY <2>1, <2>2
<1>13. ASSUME NEW r \in Seqs, NEW s \in Subscribers, OwnNumber(r)' PROVE Ledger(r, s)' /\ Course(r, s)'
  <2>1. CASE r = n
    <3>1. ~Queued(r, s)' /\ ~InRetry(r, s)' /\ sent'[r][s] = <<>> /\ St(r, s)' = "None"
          /\ owed'[r] = {} /\ droppedBy'[r] = {}
      BY <1>2, <1>6, <1>8, <1>9, <1>13, <2>1
    <3>2. DOMAIN sent'[r][s] = {}
      BY <3>1
    <3>3. Ledger(r, s)'
      BY <3>1, <3>2 DEF Ledger, Trail, Acked
    <3>4. Course(r, s)'
      BY <3>1, <3>2 DEF Course
    <3> QED
      BY <3>3, <3>4
  <2>2. CASE r # n
    <3>1. Ledger(r, s) /\ Course(r, s)
      BY <1>10, <1>13, <2>2 DEF ReliableInv
    <3>2. Ledger(r, s)'
      BY <1>2, <1>5, <1>7, <1>8, <2>2, <3>1, SameTrail DEF Ledger
    <3>3. \A o \in Publishers : Works(o, r) /\ s \in Open(o) => Works(o, r)' /\ s \in Open(o)'
      BY <1>4 DEF Works, Open, Chaining
    <3>4. Course(r, s)'
      BY <1>2, <1>5, <1>11, <2>2, <3>1, <3>3 DEF Course, After
    <3> QED
      BY <3>2, <3>4
  <2> QED
    BY <2>1, <2>2
<1>14. Reliable' /\ BatchDistinct'
  BY <1>7 DEF ReliableInv, Reliable, BatchDistinct
<1> QED
  BY <1>0, <1>12, <1>13, <1>14 DEF ReliableInv

\* What the invariant says of a publisher at work on an event with a number of its own.
LEMMA AtWork ==
  ASSUME ReliableInv, NEW p \in Publishers, NEW q \in Seqs, Works(p, q), OwnNumber(q)
  PROVE  /\ Stage(p) /\ \A o \in Publishers : Works(o, q) => o = p
         /\ \A s \in Subscribers : OpenPair(p, s) /\ Ledger(q, s) /\ Course(q, s)
  BY DEF ReliableInv, PublisherInv, OnEvent, Works

\* Steps of a publisher that send and record nothing.
LEMMA QuietMove ==
  ASSUME ReliableInv, ToldInv', NEW p \in Publishers, NEW q \in Seqs, Works(p, q), Moves(p),
         pub[p].pc # "record", pub'[p].pc \notin {"idle", "requeue"},
         Keeps, UNCHANGED <<retry, reused, sent>>,
         \A r \in Seqs \ {q} : /\ owed'[r] = owed[r] /\ modified'[r] = modified[r]
                               /\ droppedBy'[r] = droppedBy[r],
         OwnNumber(q) =>
           /\ Stage(p)' /\ Open(p)' \subseteq Open(p)
           /\ \A s \in Subscribers :
                /\ AtHand(p, s)' => s \in Interceptors \/ pub'[p].out # "Delivered"
                /\ Course(q, s)'
  PROVE  ReliableInv'
<1>1. \A r \in Seqs, s \in Subscribers :
        /\ (Queued(r, s)' <=> Queued(r, s)) /\ (InRetry(r, s)' <=> InRetry(r, s))
        /\ r \in Stored' => r \in Stored /\ St(r, s)' = St(r, s)
  BY DEF Queued, InRetry, Keeps
<1>2. pub'[p].seq = q /\ \A o \in Publishers \ {p} : pub'[o] = pub[o]
  BY DEF Moves, Works
<1>3. ASSUME OwnNumber(q), NEW s \in Subscribers PROVE OpenPair(p, s)' /\ Ledger(q, s)'
  <2>1. OpenPair(p, s) /\ Ledger(q, s) /\ pub[p].seq = q
    BY <1>3, AtWork DEF Works
  <2>2. Touched(q, s)' => Touched(q, s)
    BY <1>1 DEF Touched
  <2>3. Ledger(q, s)'
    BY <1>1, <2>1, SameTrail DEF Ledger
  <2>4. ~AtHand(p, s) /\ Open(p)' \subseteq Open(p)
    BY <1>3 DEF AtHand
  <2>5. OpenPair(p, s)'
    BY <1>1, <1>2, <1>3, <2>1, <2>2, <2>4 DEF OpenPair, After
  <2> QED
    BY <2>3, <2>5
<1> QED
  BY <1>1, <1>2, <1>3, PublisherKeeps DEF Keeps

\* Lookup, filters and snapshots.
LEMMA PipelineReliable ==
  ASSUME ReliableInv, NEW p \in Publishers,
         Resolve(p) \/ MarkDispatching(p) \/ SnapshotSync(p) \/ SnapshotAsync(p)
  PROVE  ReliableInv'
<1>0. ToldInv' /\ Typed /\ BusTyped /\ BusTyped' /\ pub[p].pc # "idle"
  BY PublisherTold DEF ReliableInv, ToldInv, Typed, PublisherStep, Resolve, MarkDispatching, SnapshotSync, SnapshotAsync
<1>1. PICK q \in Seqs : Works(p, q)
  BY <1>0 DEF Typed, TasksTyped, Works
<1>2. ASSUME OwnNumber(q)
      PROVE  /\ Stage(p) /\ \A o \in Publishers : Works(o, q) => o = p
             /\ \A s \in Subscribers : OpenPair(p, s) /\ Ledger(q, s) /\ Course(q, s)
  BY <1>1, <1>2, AtWork
<1>3. pub[p].seq = q
  BY <1>1 DEF Works
<1>4. ASSUME UNCHANGED <<retry, sent>>, Keeps, NEW s \in Subscribers
      PROVE  Touched(q, s)' => Touched(q, s)
  BY <1>4 DEF Touched, Keeps, Queued, InRetry
<1>5. CASE Resolve(p)
  <2>1. /\ Moves(p) /\ pub[p].pc = "resolve" /\ pub'[p].pc \in {"close", "open"}
        /\ pub'[p].phase = pub[p].phase /\ pub'[p].payload = pub[p].payload
        /\ pub'[p].dropped = pub[p].dropped /\ pub'[p].seq = q
        /\ Keeps /\ UNCHANGED <<retry, history>>
    BY <1>0, <1>3, <1>5, ResolveMakes DEF Moves
  <2>2. Open(p)' \subseteq Open(p) /\ ~Chaining(p)' /\ \A s \in Subscribers : ~AtHand(p, s)'
    BY <2>1 DEF Open, Chaining, AtHand
  <2>3. ASSUME OwnNumber(q) PROVE Stage(p)' /\ owed[q] = {} /\ droppedBy[q] = {} /\ modified[q] = {}
    <3>1. Stage(p)
      BY <1>2, <2>3
    <3> QED
      BY <1>3, <2>1, <2>2, <3>1 DEF Stage, history
  <2>4. ASSUME OwnNumber(q), NEW s \in Subscribers PROVE Course(q, s)'
    <3>1. Course(q, s)
      BY <1>2, <2>4
    <3> QED
      BY <2>1, <2>3, <2>4, <3>1 DEF Course, history, After
  <2> QED
    BY <1>0, <1>1, <2>1, <2>2, <2>3, <2>4, QuietMove DEF history
<1>6. CASE MarkDispatching(p)
  <2>1. /\ Moves(p) /\ pub[p].pc = "open" /\ pub'[p].phase = pub[p].phase /\ pub'[p].payload = pub[p].payload
        /\ pub'[p].dropped = pub[p].dropped /\ pub'[p].seq = q
        /\ Keeps /\ UNCHANGED <<retry, sent, modified, droppedBy, reused>>
    BY <1>0, <1>3, <1>6, MarkMakes DEF Moves
  <2>2. PICK kept \in SUBSET Subscribers :
          /\ pub'[p].pc = IF kept = {} THEN "close" ELSE "snapshot"
          /\ pub'[p].todo = kept \ AsyncSubs /\ pub'[p].rest = kept \cap AsyncSubs
          /\ owed' = [owed EXCEPT ![q] = kept]
    BY <1>0, <1>3, <1>6, MarkMakes
  <2>3. owed'[q] = kept /\ \A r \in Seqs \ {q} : owed'[r] = owed[r]
    BY <1>0, <2>2 DEF BusTyped
  <2>4. Open(p) = Subscribers /\ \A s \in Subscribers : ~AtHand(p, s)'
    BY <2>1, <2>2 DEF Open, AtHand
  <2>5. ASSUME OwnNumber(q)
        PROVE  Stage(p)' /\ Open(p)' = kept /\ droppedBy[q] = {} /\ modified[q] = {}
    <3>1. Stage(p)
      BY <1>2, <2>5
    <3>2. /\ droppedBy'[q] = {} /\ modified'[q] = {} /\ pub'[p].phase = "sync" /\ ~pub'[p].dropped
          /\ pub'[p].payload = {}
      BY <1>3, <2>1, <3>1 DEF Stage
    <3>3. Open(p)' = kept
      BY <2>2, <3>2 DEF Open, Chaining
    <3>4. Stage(p)'
      BY <2>1, <2>2, <2>3, <3>2 DEF Stage, Chaining
    <3> QED
      BY <2>1, <3>2, <3>3, <3>4
  <2>6. ASSUME OwnNumber(q), NEW s \in Subscribers PROVE Course(q, s)'
    <3>1. Course(q, s)
      BY <1>2, <2>6
    <3>2. s \in kept => Works(p, q)' /\ s \in Open(p)'
      BY <2>1, <2>2, <2>5, <2>6 DEF Works
    <3> QED
      BY <2>1, <2>3, <2>5, <2>6, <3>1, <3>2 DEF Course, After
  <2>7. pub'[p].pc \in {"close", "snapshot"}
    BY <2>2
  <2> QED
    BY <1>0, <1>1, <2>1, <2>3, <2>4, <2>5, <2>6, <2>7, QuietMove
<1>7. CASE SnapshotSync(p) \/ SnapshotAsync(p)
  <2>1. /\ Moves(p) /\ pub'[p].pc = "deliver" /\ pub[p].pc \in {"snapshot", "deliver"}
        /\ pub'[p].payload = pub[p].payload /\ pub'[p].dropped = pub[p].dropped /\ pub'[p].seq = q
        /\ Keeps /\ UNCHANGED <<retry, history>>
        /\ \/ /\ pub'[p].phase = pub[p].phase
              /\ pub'[p].todo = pub[p].todo /\ pub'[p].rest = pub[p].rest
           \/ /\ pub[p].pc = "deliver" /\ pub[p].todo = {} /\ pub[p].phase = "sync"
              /\ pub'[p].phase = "async" /\ pub'[p].todo = pub[p].rest
    BY <1>0, <1>3, <1>7, SnapshotMakes DEF Moves
  <2>2. Open(p)' = Open(p) /\ Chaining(p) /\ Chaining(p)' /\ \A s \in Subscribers : ~AtHand(p, s)'
    BY <2>1 DEF Open, Chaining, AtHand
  <2>3. ASSUME OwnNumber(q) PROVE Stage(p)'
    <3>1. Stage(p)
      BY <1>2, <2>3
    <3>2. ~pub[p].dropped
      BY <2>1, <3>1 DEF Stage
    <3> QED
      BY <1>3, <2>1, <2>2, <3>1, <3>2 DEF Stage, history, After
  <2>4. ASSUME OwnNumber(q), NEW s \in Subscribers PROVE Course(q, s)'
    <3>1. Course(q, s)
      BY <1>2, <2>4
    <3>2. \A o \in Publishers : Works(o, q) /\ s \in Open(o) => Works(p, q)' /\ s \in Open(p)'
      BY <1>2, <2>1, <2>2, <2>4 DEF Works
    <3>3. Touched(q, s)' => Touched(q, s)
      BY <1>4, <2>1 DEF history
    <3>4. q \in Stored' => q \in Stored /\ St(q, s)' = St(q, s)
      BY <2>1 DEF Keeps
    <3> QED
      BY <2>1, <3>1, <3>2, <3>3, <3>4 DEF Course, history, After
  <2> QED
    BY <1>0, <1>1, <2>1, <2>2, <2>3, <2>4, QuietMove DEF history
<1> QED
  BY <1>5, <1>6, <1>7

\* An interceptor call: what it changes and what it drops comes after it.
LEMMA InterceptReliable ==
  ASSUME ReliableInv, NEW p \in Publishers, Intercept(p)
  PROVE  ReliableInv'
<1>0. /\ ToldInv' /\ Typed /\ BusTyped /\ pub[p].pc = "deliver" /\ pub[p].todo # {}
      /\ First(pub[p].todo) \in Interceptors
      /\ UNCHANGED <<events, clock, retry, sent, owed, reused>>
  BY PublisherTold DEF ReliableInv, ToldInv, Typed, PublisherStep, Intercept
<1>1. PICK q \in Seqs : q = pub[p].seq
  BY <1>0 DEF Typed, TasksTyped
<1>2. PICK u \in Interceptors : u = First(pub[p].todo)
  BY <1>0
<1>3. PICK o \in InterceptOutcomes, c \in SUBSET {u} : InterceptMakes(p, o, c)
  BY <1>0, <1>2, InterceptIs DEF BusTyped
<1>4. /\ Moves(p) /\ pub'[p].pc = "record" /\ pub'[p].seq = q /\ pub'[p].phase = pub[p].phase
      /\ pub'[p].todo = pub[p].todo /\ pub'[p].rest = pub[p].rest
      /\ pub'[p].payload = pub[p].payload \cup c
      /\ pub'[p].dropped <=> o = "Drop"
      /\ First(pub'[p].todo) = u
  BY <1>0, <1>1, <1>2, <1>3 DEF InterceptMakes, Moves
<1>5. /\ modified'[q] = modified[q] \cup c
      /\ droppedBy'[q] = IF o = "Drop" THEN droppedBy[q] \cup {u} ELSE droppedBy[q]
      /\ \A r \in Seqs \ {q} : modified'[r] = modified[r] /\ droppedBy'[r] = droppedBy[r]
  BY <1>0, <1>1, <1>2, <1>3 DEF InterceptMakes, BusTyped
<1>6. /\ Open(p)' = Open(p) /\ Chaining(p) /\ Chaining(p)' /\ Works(p, q) /\ Works(p, q)'
      /\ \A s \in Subscribers : AtHand(p, s)' => s = u
  BY <1>0, <1>1, <1>4 DEF Open, Chaining, Works, AtHand
<1>7. pub[p].todo \in SUBSET Subscribers /\ u \in pub[p].todo /\ \A t \in pub[p].todo \ {u} : Rank[u] < Rank[t]
  BY <1>0, <1>2, FirstIs DEF BusTyped, PubRecord
<1>8. Keeps
  BY <1>0, UnchangedKeeps DEF BusTyped
<1>9. ASSUME OwnNumber(q)
      PROVE  /\ Stage(p) /\ \A x \in Publishers : Works(x, q) => x = p
             /\ \A s \in Subscribers : OpenPair(p, s) /\ Ledger(q, s) /\ Course(q, s)
  BY <1>6, <1>9, AtWork
<1>10. ASSUME OwnNumber(q)
       PROVE  /\ u \in Open(p) /\ \A s \in Open(p) \ {u} : After(u, s)
              /\ droppedBy[q] = {} /\ pub[p].payload = modified[q]
  <2>1. Stage(p)
    BY <1>9, <1>10
  <2>2. u \notin AsyncSubs
    BY <1>2, DispatchAssumption
  <2>3. pub[p].phase = "sync"
    BY <1>6, <1>7, <2>1, <2>2 DEF Stage
  <2>4. Open(p) = pub[p].todo \cup pub[p].rest /\ pub[p].rest \subseteq AsyncSubs
    BY <1>6, <2>1, <2>3, OpenIs DEF Stage
  <2>5. droppedBy[q] = {} /\ pub[p].payload = modified[q]
    BY <1>0, <1>1, <1>6, <2>1 DEF Stage
  <2> QED
    BY <1>7, <2>4, <2>5 DEF After
<1>11. ASSUME OwnNumber(q) PROVE Stage(p)'
  <2>1. Stage(p) /\ pub'[p].payload = modified'[q]
    BY <1>4, <1>5, <1>9, <1>10, <1>11
  <2>2. droppedBy'[q] = IF pub'[p].dropped THEN {First(pub'[p].todo)} ELSE {}
    BY <1>4, <1>5, <1>10, <1>11
  <2>3. \A j \in modified'[q] : \A s \in Open(p)' \ {j} : After(j, s)
    BY <1>1, <1>3, <1>5, <1>6, <1>10, <1>11, <2>1 DEF Stage
  <2> QED
    BY <1>1, <1>4, <1>6, <2>1, <2>2, <2>3 DEF Stage, After
<1>12. ASSUME OwnNumber(q), NEW s \in Subscribers PROVE Course(q, s)'
  <2>1. Course(q, s) /\ OpenPair(p, s)
    BY <1>9, <1>12
  <2>2. Touched(q, s)' => Touched(q, s)
    BY <1>0, <1>8 DEF Touched, Keeps, Queued, InRetry
  <2>3. Touched(q, s) => ~After(u, s)
    BY <1>1, <1>2, <1>10, <1>12, <2>1 DEF OpenPair
  <2>4. \A k \in DOMAIN sent'[q][s] :
          sent'[q][s][k].by = "dispatch" => sent'[q][s][k].payload = {j \in modified'[q] : After(j, s)}
    <3> SUFFICES ASSUME NEW k \in DOMAIN sent[q][s], sent[q][s][k].by = "dispatch"
                 PROVE  sent[q][s][k].payload = {j \in modified'[q] : After(j, s)}
      BY <1>0
    <3>1. sent[q][s][k].payload = {j \in modified[q] : After(j, s)}
      BY <2>1 DEF Course
    <3>2. sent[q][s] # <<>>
      OBVIOUS
    <3>3. ~After(u, s)
      BY <2>3, <3>2 DEF Touched
    <3>4. \A j \in modified'[q] : j \in modified[q] \/ j = u
      BY <1>3, <1>5
    <3>5. {j \in modified'[q] : After(j, s)} = {j \in modified[q] : After(j, s)}
      BY <1>5, <3>3, <3>4
    <3> QED
      BY <3>1, <3>5
  <2>5. \A x \in Publishers : Works(x, q) /\ s \in Open(x) => Works(p, q)' /\ s \in Open(p)'
    BY <1>6, <1>9, <1>12
  <2>6. droppedBy'[q] = {} => droppedBy[q] = {}
    BY <1>5
  <2>7. (\E i \in droppedBy'[q] : After(i, s)) => ~Touched(q, s)
    BY <1>5, <1>10, <1>12, <2>3
  <2>8. q \in Stored' => q \in Stored /\ St(q, s)' = St(q, s)
    BY <1>8 DEF Keeps
  <2>9. q \in Stored' /\ droppedBy'[q] = {} /\ s \in owed'[q] /\ St(q, s)' = "None" =>
          \E x \in Publishers : Works(x, q)' /\ s \in Open(x)'
    BY <1>0, <2>1, <2>5, <2>6, <2>8 DEF Course
  <2> QED
    BY <2>2, <2>4, <2>7, <2>9 DEF Course, After
<1> QED
  BY <1>0, <1>2, <1>4, <1>5, <1>6, <1>8, <1>11, <1>12, QuietMove

\* An attempt at a delivery: one event, or nothing, through to one subscriber.
LEMMA SendReliable ==
  ASSUME ReliableInv, NEW p \in Publishers, SendToChannel(p) \/ HandleMissing(p)
  PROVE  ReliableInv'
<1>0. ToldInv' /\ Typed /\ BusTyped
  BY PublisherTold DEF ReliableInv, ToldInv, Typed, PublisherStep
<1>1. PICK s \in Subscribers : s = First(pub[p].todo)
  BY <1>0, SendMakes
<1>2. /\ Moves(p) /\ pub[p].pc = "deliver" /\ pub'[p].pc = "record"
      /\ pub[p].todo # {} /\ s \in pub[p].todo
      /\ pub'[p].payload = pub[p].payload /\ pub'[p].dropped = pub[p].dropped
      /\ pub'[p].phase = pub[p].phase /\ pub'[p].todo = pub[p].todo /\ pub'[p].rest = pub[p].rest
      /\ \/ /\ pub'[p].out = "Delivered" /\ s \notin Interceptors
            /\ Through(pub[p].seq, s, pub[p].payload, "dispatch", "Ok")
         \/ pub'[p].out = "Failed" /\ UNCHANGED sent
      /\ Keeps /\ UNCHANGED <<events, clock, retry, owed, modified, droppedBy, reused>>
  BY <1>0, <1>1, SendMakes
<1>3. PICK q \in Seqs : q = pub[p].seq
  BY <1>0, <1>2 DEF Typed, TasksTyped
<1>4. /\ Open(p)' = Open(p) /\ Chaining(p) /\ Chaining(p)' /\ Works(p, q) /\ Works(p, q)'
      /\ \A t \in Subscribers : ~AtHand(p, t) /\ (AtHand(p, t)' <=> t = s)
      /\ s \in Open(p) /\ pub'[p].seq = q
  BY <1>1, <1>2, <1>3 DEF Open, Chaining, Works, AtHand, Moves
<1>5. /\ \A t \in pub[p].todo \ {s} : Rank[s] < Rank[t]
      /\ pub[p].todo \in SUBSET Subscribers /\ pub[p].payload \in SUBSET Interceptors
  BY <1>0, <1>1, <1>2, FirstIs DEF BusTyped, PubRecord
<1>6. \A r \in Seqs, t \in Subscribers :
        /\ (Queued(r, t)' <=> Queued(r, t)) /\ (InRetry(r, t)' <=> InRetry(r, t))
        /\ r \in Stored' => r \in Stored /\ St(r, t)' = St(r, t)
  BY <1>2 DEF Queued, InRetry, Keeps
<1>7. ASSUME Through(q, s, pub[p].payload, "dispatch", "Ok")
      PROVE  /\ sent[q][s] = <<>> =>
                  sent'[q][s] = <<[payload |-> pub[p].payload, by |-> "dispatch", answer |-> "Ok"]>>
             /\ \A r \in Seqs, t \in Subscribers : r # q \/ t # s => sent'[r][t] = sent[r][t]
  <2>1. PICK c \in SUBSET Interceptors, b \in {"dispatch", "retry"}, a \in {"Ok", "Failed"} :
          c = pub[p].payload /\ b = "dispatch" /\ a = "Ok" /\ Through(q, s, c, b, a)
    BY <1>5, <1>7
  <2>2. /\ sent[q][s] = <<>> => sent'[q][s] = <<[payload |-> c, by |-> b, answer |-> a]>>
        /\ \A r \in Seqs, t \in Subscribers : r # q \/ t # s => sent'[r][t] = sent[r][t]
    BY <1>0, <2>1, ThroughMakes
  <2> QED
    BY <2>1, <2>2
<1>8. \A r \in Seqs, t \in Subscribers : r # q \/ t # s => sent'[r][t] = sent[r][t]
  BY <1>2, <1>3, <1>7
<1>9. \A r \in Seqs \ {q} : sent'[r] = sent[r]
  <2>1. sent' \in [Seqs -> [Subscribers -> Seq(SentEntry)]] /\ sent \in [Seqs -> [Subscribers -> Seq(SentEntry)]]
    BY <1>0 DEF ToldInv, Typed, BusTyped
  <2> QED
    BY <1>8, <2>1
<1>10. ASSUME OwnNumber(q)
       PROVE  /\ Stage(p) /\ \A x \in Publishers : Works(x, q) => x = p
              /\ \A t \in Subscribers : OpenPair(p, t) /\ Ledger(q, t) /\ Course(q, t)
  BY <1>4, <1>10, AtWork
<1>11. ASSUME OwnNumber(q)
       PROVE  /\ sent[q][s] = <<>> /\ ~Queued(q, s) /\ ~InRetry(q, s) /\ (q \in Stored => St(q, s) = "None")
              /\ droppedBy[q] = {} /\ ~pub[p].dropped
              /\ \A u \in Open(p) \cap Interceptors : ~After(u, s)
              /\ s \notin Interceptors => pub[p].payload = {j \in modified[q] : After(j, s)}
  <2>1. OpenPair(p, s) /\ Stage(p)
    BY <1>10, <1>11
  <2>2. sent[q][s] = <<>> /\ ~Queued(q, s) /\ ~InRetry(q, s) /\ (q \in Stored => St(q, s) = "None")
    BY <1>3, <1>4, <2>1 DEF OpenPair
  <2>3. droppedBy[q] = {} /\ ~pub[p].dropped /\ pub[p].payload = modified[q]
        /\ \A j \in modified[q] : \A t \in Open(p) \ {j} : After(j, t)
    BY <1>2, <1>3, <1>4, <2>1 DEF Stage
  <2>4. \A j \in modified[q] : j \in Interceptors
    BY <1>5, <2>3
  <2>5. s \notin Interceptors => pub[p].payload = {j \in modified[q] : After(j, s)}
    BY <1>4, <2>3, <2>4
  <2>6. ASSUME NEW u \in Open(p) \cap Interceptors PROVE ~After(u, s)
    <3>1. u \notin AsyncSubs /\ u \in Subscribers
      BY DispatchAssumption
    <3>2. pub[p].phase = "sync" /\ u \in pub[p].todo /\ s \notin AsyncSubs
      BY <1>2, <1>4, <2>1, <2>6, <3>1, OpenIs DEF Stage
    <3>3. Rank[u] \in Nat /\ Rank[s] \in Nat /\ (u = s \/ Rank[s] < Rank[u])
      BY <1>5, <3>1, <3>2, DispatchAssumption
    <3> QED
      BY <3>2, <3>3 DEF After
  <2> QED
    BY <2>2, <2>3, <2>5, <2>6
<1>12. ASSUME OwnNumber(q)
       PROVE  /\ Trail(q, s)' /\ (sent'[q][s] = <<>> \/ Acked(q, s)')
              /\ sent'[q][s] # <<>> <=> pub'[p].out = "Delivered" /\ s \notin Interceptors
              /\ \A k \in DOMAIN sent'[q][s] : s \notin Interceptors /\ sent'[q][s][k].payload = pub[p].payload
  <2>1. sent[q][s] = <<>>
    BY <1>11, <1>12
  <2>2. CASE Through(q, s, pub[p].payload, "dispatch", "Ok") /\ pub'[p].out = "Delivered" /\ s \notin Interceptors
    <3>1. sent'[q][s] = <<[payload |-> pub[p].payload, by |-> "dispatch", answer |-> "Ok"]>>
      BY <1>7, <2>1, <2>2
    <3>2. Trail(q, s)' /\ Acked(q, s)'
      <4>1. /\ DOMAIN sent'[q][s] = {1} /\ Len(sent'[q][s]) = 1 /\ sent'[q][s] # <<>>
            /\ sent'[q][s][1].answer = "Ok"
        BY <3>1
      <4> QED
        BY <2>2, <4>1 DEF Trail, Acked
    <3> QED
      BY <2>2, <3>1, <3>2
  <2>3. CASE UNCHANGED sent /\ pub'[p].out = "Failed"
    <3>1. Trail(q, s)'
      BY <2>1, <2>3, NoTrail, SameTrail
    <3> QED
      BY <2>1, <2>3, <3>1
  <2> QED
    BY <1>2, <1>3, <2>2, <2>3
<1>13. ASSUME OwnNumber(q) PROVE Stage(p)'
  <2>1. Stage(p) /\ ~pub[p].dropped
    BY <1>10, <1>11, <1>13
  <2> QED
    BY <1>2, <1>3, <1>4, <2>1 DEF Stage, After
<1>14. ASSUME OwnNumber(q), NEW t \in Subscribers PROVE OpenPair(p, t)'
  <2>1. OpenPair(p, t)
    BY <1>10, <1>14
  <2>2. CASE t = s
    BY <1>3, <1>4, <1>6, <1>11, <1>12, <1>14, <2>2 DEF OpenPair, After
  <2>3. CASE t # s
    <3>1. sent'[q][t] = sent[q][t] /\ (Touched(q, t)' => Touched(q, t))
      BY <1>6, <1>8, <2>3 DEF Touched
    <3> QED
      BY <1>3, <1>4, <1>6, <2>1, <2>3, <3>1 DEF OpenPair, After
  <2> QED
    BY <2>2, <2>3
<1>15. ASSUME OwnNumber(q), NEW t \in Subscribers PROVE Ledger(q, t)' /\ Course(q, t)'
  <2>1. Ledger(q, t) /\ Course(q, t)
    BY <1>10, <1>15
  <2>2. Ledger(q, t)'
    <3>1. CASE t = s
      <4>1. ~Queued(q, t)' /\ ~InRetry(q, t)' /\ (q \in Stored' => St(q, t)' = "None")
        BY <1>6, <1>11, <1>15, <3>1
      <4>2. Trail(q, t)' /\ (sent'[q][t] = <<>> \/ Acked(q, t)')
        BY <1>12, <1>15, <3>1
      <4> QED
        BY <4>1, <4>2 DEF Ledger
    <3>2. CASE t # s
      BY <1>2, <1>6, <1>8, <2>1, <3>2, SameTrail DEF Ledger
    <3> QED
      BY <3>1, <3>2
  <2>3. \A k \in DOMAIN sent'[q][t] :
          sent'[q][t][k].by = "dispatch" => sent'[q][t][k].payload = {j \in modified'[q] : After(j, t)}
    <3>1. CASE t = s
      BY <1>2, <1>11, <1>12, <1>15, <3>1
    <3>2. CASE t # s
      BY <1>2, <1>8, <2>1, <3>2 DEF Course
    <3> QED
      BY <3>1, <3>2
  <2>4. \A x \in Publishers : Works(x, q) /\ t \in Open(x) => Works(p, q)' /\ t \in Open(p)'
    BY <1>4, <1>10, <1>15
  <2>5. droppedBy'[q] = {}
    BY <1>2, <1>11, <1>15
  <2>6. q \in Stored' /\ droppedBy'[q] = {} /\ t \in owed'[q] /\ St(q, t)' = "None" =>
          \E x \in Publishers : Works(x, q)' /\ t \in Open(x)'
    BY <1>2, <1>6, <2>1, <2>4 DEF Course
  <2> QED
    BY <2>2, <2>3, <2>5, <2>6 DEF Course, After
<1>16. \A o \in Publishers \ {p} : pub'[o] = pub[o]
  BY <1>2 DEF Moves
<1> QED
  BY <1>0, <1>2, <1>4, <1>6, <1>9, <1>13, <1>14, <1>15, <1>16, PublisherKeeps DEF Keeps

\* The record of an outcome says what happened, and closes the delivery.
LEMMA OutcomeReliable ==
  ASSUME ReliableInv, NEW p \in Publishers, RecordOutcome(p)
  PROVE  ReliableInv'
<1>0. ToldInv' /\ Typed /\ BusTyped /\ ~StoreMayFail
  BY PublisherTold DEF ReliableInv, Reliable, ToldInv, Typed, PublisherStep
<1>1. PICK s \in Subscribers : s = First(pub[p].todo)
  BY <1>0, OutcomeMakes
<1>2. /\ Moves(p) /\ pub[p].pc = "record" /\ pub[p].todo # {} /\ pub[p].out \in DeliveryStatus
      /\ s \in pub[p].todo
      /\ pub'[p].todo = pub[p].todo \ {s} /\ pub'[p].rest = pub[p].rest
      /\ pub'[p].phase = pub[p].phase /\ pub'[p].payload = pub[p].payload
      /\ pub'[p].dropped = pub[p].dropped
      /\ pub'[p].pc = IF pub[p].dropped THEN "close" ELSE "deliver"
      /\ Stored' = Stored
      /\ UNCHANGED <<retry, history>>
  BY <1>0, <1>1, OutcomeMakes
<1>3. PICK q \in Seqs : q = pub[p].seq
  BY <1>0, <1>2 DEF Typed, TasksTyped
<1>4. \A r \in Stored, t \in Subscribers : St(r, t)' = IF r = q /\ t = s THEN pub[p].out ELSE St(r, t)
  BY <1>0, <1>1, <1>3, OutcomeMakes
<1>5. /\ \A t \in pub[p].todo \ {s} : Rank[s] < Rank[t]
      /\ pub[p].todo \in SUBSET Subscribers
  BY <1>0, <1>1, <1>2, FirstIs DEF BusTyped, PubRecord
<1>6. \A r \in Seqs, t \in Subscribers :
        (Queued(r, t)' <=> Queued(r, t)) /\ (InRetry(r, t)' <=> InRetry(r, t))
  BY <1>2 DEF Queued, InRetry
<1>7. /\ Works(p, q) /\ Works(p, q)' /\ pub'[p].seq = q /\ Chaining(p) /\ s \in Open(p)
      /\ Open(p)' \subseteq Open(p) /\ (~pub[p].dropped => Open(p) \ {s} \subseteq Open(p)')
      /\ \A t \in Subscribers : ~AtHand(p, t)' /\ (AtHand(p, t) <=> t = s)
  BY <1>1, <1>2, <1>3 DEF Open, Chaining, Works, AtHand, Moves
<1>8. ASSUME OwnNumber(q)
      PROVE  /\ Stage(p) /\ \A x \in Publishers : Works(x, q) => x = p
             /\ \A t \in Subscribers : OpenPair(p, t) /\ Ledger(q, t) /\ Course(q, t)
  BY <1>7, <1>8, AtWork
<1>9. ASSUME OwnNumber(q)
      PROVE  /\ s \notin Open(p)' /\ \A u \in Open(p)' \cap Interceptors : ~After(u, s)
             /\ ~Queued(q, s) /\ ~InRetry(q, s)
             /\ sent[q][s] # <<>> <=> pub[p].out = "Delivered" /\ s \notin Interceptors
  <2>1. Stage(p) /\ OpenPair(p, s)
    BY <1>8, <1>9
  <2>2. ~Queued(q, s) /\ ~InRetry(q, s) /\ (sent[q][s] # <<>> <=> pub[p].out = "Delivered" /\ s \notin Interceptors)
    BY <1>3, <1>7, <2>1 DEF OpenPair
  <2>3. s \notin Open(p)'
    <3>1. CASE pub[p].phase = "sync"
      <4>1. s \notin pub[p].rest
        BY <1>2, <1>7, <2>1, <3>1 DEF Stage
      <4> QED
        BY <1>2, <3>1, <4>1 DEF Open, Chaining
    <3>2. CASE pub[p].phase # "sync"
      BY <1>2, <3>2 DEF Open, Chaining
    <3> QED
      BY <3>1, <3>2
  <2>4. ASSUME NEW u \in Open(p)' \cap Interceptors PROVE ~After(u, s)
    <3>1. u \notin AsyncSubs /\ u \in Subscribers /\ u \in Open(p)
      BY <1>7, DispatchAssumption
    <3>2. pub[p].phase = "sync" /\ u \in pub[p].todo /\ s \notin AsyncSubs
      BY <1>2, <1>7, <2>1, <3>1, OpenIs DEF Stage
    <3>3. Rank[u] \in Nat /\ Rank[s] \in Nat /\ Rank[s] < Rank[u]
      BY <1>5, <2>3, <2>4, <3>1, <3>2, DispatchAssumption
    <3> QED
      BY <3>2, <3>3 DEF After
  <2> QED
    BY <2>2, <2>3, <2>4
<1>10. ASSUME OwnNumber(q) PROVE Stage(p)'
  <2>1. Stage(p)
    BY <1>8, <1>10
  <2>2. CASE pub[p].dropped
    <3>1. droppedBy[q] # {} /\ pub'[p].pc = "close" /\ Open(p)' = {} /\ ~Chaining(p)'
      BY <1>1, <1>2, <1>3, <1>7, <2>1, <2>2 DEF Stage, Open, Chaining
    <3> QED
      BY <1>2, <1>3, <1>7, <2>1, <3>1 DEF Stage, history
  <2>3. CASE ~pub[p].dropped
    <3>1. droppedBy[q] = {} /\ pub'[p].pc = "deliver"
      BY <1>2, <1>3, <1>7, <2>1, <2>3 DEF Stage
    <3>2. \A j \in modified[q] : \A t \in Open(p)' \ {j} : After(j, t)
      BY <1>3, <1>7, <2>1 DEF Stage
    <3> QED
      BY <1>2, <1>3, <1>7, <2>1, <2>3, <3>1, <3>2 DEF Stage, history, After, Chaining
  <2> QED
    BY <2>2, <2>3
<1>11. ASSUME NEW t \in Subscribers, t # s PROVE Touched(q, t)' => Touched(q, t)
  BY <1>2, <1>4, <1>6, <1>11 DEF Touched, history
<1>12. ASSUME OwnNumber(q), NEW t \in Subscribers PROVE OpenPair(p, t)'
  <2>1. OpenPair(p, t)
    BY <1>8, <1>12
  <2>2. CASE t = s
    BY <1>7, <1>9, <1>12, <2>2 DEF OpenPair, After
  <2>3. CASE t # s
    BY <1>2, <1>3, <1>4, <1>6, <1>7, <1>11, <2>1, <2>3 DEF OpenPair, After, history
  <2> QED
    BY <2>2, <2>3
<1>13. ASSUME OwnNumber(q), NEW t \in Subscribers PROVE Ledger(q, t)' /\ Course(q, t)'
  <2>1. Ledger(q, t) /\ Course(q, t) /\ Stage(p)
    BY <1>8, <1>13
  <2>2. sent'[q][t] = sent[q][t] /\ owed'[q] = owed[q] /\ modified'[q] = modified[q] /\ droppedBy'[q] = droppedBy[q]
        /\ retry' = retry
    BY <1>2 DEF history
  <2>3. CASE t = s
    <3>1. ~Queued(q, t)' /\ ~InRetry(q, t)' /\ (q \in Stored' => St(q, t)' = pub[p].out) /\ pub[p].out # "None"
      BY <1>2, <1>4, <1>6, <1>9, <1>13, <2>3 DEF DeliveryStatus
    <3>2. Ledger(q, t)'
      <4>1. Trail(q, t) /\ Trail(q, t)' /\ (Acked(q, t)' <=> Acked(q, t))
        BY <2>1, <2>2, SameTrail DEF Ledger
      <4>2. q \in Stored /\ t \notin Interceptors => (pub[p].out = "Delivered" <=> Acked(q, t))
        <5>1. q \in Stored => St(q, t) = "None"
          BY <1>3, <1>7, <1>8, <1>13, <2>3 DEF OpenPair
        <5>2. Acked(q, t) => sent[q][t] # <<>>
          BY DEF Acked
        <5> QED
          BY <1>9, <1>13, <2>1, <2>3, <5>1, <5>2 DEF Ledger
      <4> QED
        BY <1>2, <3>1, <4>1, <4>2 DEF Ledger
    <3>3. ~ \E i \in droppedBy[q] : After(i, t)
      <4>1. \A i \in droppedBy[q] : i = s /\ i \in Interceptors
        BY <1>0, <1>1, <1>3, <1>7, <2>1 DEF Stage, BusTyped
      <4>2. \A i \in Interceptors : i \notin AsyncSubs /\ Rank[i] \in Nat
        BY DispatchAssumption
      <4> QED
        BY <2>3, <4>1, <4>2 DEF After
    <3>4. Course(q, t)'
      BY <2>1, <2>2, <3>1, <3>3 DEF Course, After
    <3> QED
      BY <3>2, <3>4
  <2>4. CASE t # s
    <3>1. q \in Stored' => q \in Stored /\ St(q, t)' = St(q, t)
      BY <1>2, <1>4, <2>4
    <3>2. Ledger(q, t)'
      BY <1>6, <2>1, <2>2, <3>1, SameTrail DEF Ledger
    <3>3. droppedBy[q] = {} => ~pub[p].dropped
      BY <1>3, <1>7, <2>1 DEF Stage
    <3>4. \A x \in Publishers : droppedBy[q] = {} /\ Works(x, q) /\ t \in Open(x) => Works(p, q)' /\ t \in Open(p)'
      BY <1>7, <1>8, <1>13, <2>4, <3>3
    <3>5. Course(q, t)'
      BY <1>11, <2>1, <2>2, <2>4, <3>1, <3>4 DEF Course, After
    <3> QED
      BY <3>2, <3>5
  <2> QED
    BY <2>3, <2>4
<1>14. \A o \in Publishers \ {p} : pub'[o] = pub[o]
  BY <1>2 DEF Moves
<1>15. \A r \in Seqs \ {q} : r \in Stored' => \A t \in Subscribers : St(r, t)' = St(r, t)
  BY <1>2, <1>4
<1>16. pub'[p].pc \in {"close", "deliver"}
  BY <1>2
<1> QED
  BY <1>0, <1>2, <1>7, <1>10, <1>12, <1>13, <1>14, <1>15, <1>16, PublisherKeeps DEF history

\* The end of a call leaves nobody open.
LEMMA EndReliable ==
  ASSUME ReliableInv, NEW p \in Publishers, CloseDelivered(p) \/ Finalize(p)
  PROVE  ReliableInv'
<1>0. ToldInv' /\ Typed
  BY PublisherTold DEF ReliableInv, ToldInv, PublisherStep
<1>1. /\ \A o \in Publishers \ {p} : pub'[o] = pub[o]
      /\ pub'[p].pc = "idle"
      /\ \/ pub[p].pc = "close"
         \/ pub[p].pc = "deliver" /\ pub[p].todo = {} /\ pub[p].phase = "async"
      /\ Keeps /\ UNCHANGED <<retry, history>>
  BY <1>0, EndMakes
<1>2. PICK q \in Seqs : q = pub[p].seq
  BY <1>0, <1>1 DEF Typed, TasksTyped
<1>3. Works(p, q) /\ Open(p) = {}
  BY <1>1, <1>2 DEF Works, Open, Chaining
<1>4. \A r \in Seqs, t \in Subscribers :
        /\ (Queued(r, t)' <=> Queued(r, t)) /\ (InRetry(r, t)' <=> InRetry(r, t))
        /\ r \in Stored' => r \in Stored /\ St(r, t)' = St(r, t)
        /\ Touched(r, t)' => Touched(r, t)
  BY <1>1 DEF Queued, InRetry, Keeps, Touched, history
<1>5. ASSUME OwnNumber(q), NEW t \in Subscribers PROVE Ledger(q, t)' /\ Course(q, t)'
  <2>1. Ledger(q, t) /\ Course(q, t) /\ \A x \in Publishers : Works(x, q) => x = p
    BY <1>3, <1>5, AtWork
  <2>2. sent'[q][t] = sent[q][t] /\ owed'[q] = owed[q] /\ modified'[q] = modified[q] /\ droppedBy'[q] = droppedBy[q]
        /\ retry' = retry
    BY <1>1 DEF history
  <2>3. ~ (q \in Stored /\ droppedBy[q] = {} /\ t \in owed[q] /\ St(q, t) = "None")
    BY <1>3, <2>1 DEF Course
  <2> QED
    BY <1>4, <2>1, <2>2, <2>3, SameTrail DEF Ledger, Course, After
<1> QED
  BY <1>0, <1>1, <1>3, <1>5, PublisherKeeps DEF Keeps, history

Counted == crashes \in Nat

\* The number of restarts is a number.
LEMMA CrashesCounted == Spec => []Counted
<1>1. Init => Counted
  BY DEF Init, Counted
<1>2. ASSUME crashes \in Nat, [Next]_vars PROVE crashes' \in Nat
  <2>1. ASSUME NEW p \in Publishers, PublisherStep(p) PROVE UNCHANGED crashes
    BY <2>1 DEF PublisherStep, ReplayRequeue, Resolve, MarkDispatching, SnapshotSync, SnapshotAsync,
                Intercept, SendToChannel, HandleMissing, RecordOutcome, CloseDelivered, Finalize, busVars
  <2>2. CASE RetryStep
    BY <1>2, <2>2 DEF RetryStep, PollRetryable, RetryAttempt, RetryRecord, SettleGet, SettlePut, busVars
  <2>3. CASE OtherStep
    BY <1>2, <2>3 DEF OtherStep, Subscribe, Unsubscribe, Receive, OtherEvent, CloseReceiver, CompactionTick,
                      PurgeDeadLetter, TimePasses, Crash, busVars
  <2>4. ASSUME NEW p \in Publishers, NEW subj \in Subjects, Publish(p, subj) PROVE UNCHANGED crashes
    BY <2>4 DEF Publish, busVars
  <2>5. ASSUME NEW p \in Publishers, NEW q \in Seqs, ReplayGet(p, q) PROVE UNCHANGED crashes
    BY <2>5 DEF ReplayGet, busVars
  <2> QED
    BY <1>2, <2>1, <2>2, <2>3, <2>4, <2>5 DEF Next, OtherStep, vars
<1>3. Counted /\ [Next]_vars => Counted'
  BY <1>2 DEF Counted
<1> QED
  BY <1>1, <1>3, PTL DEF Spec

-----------------------------------------------------------------------------
(* The reliable bus: how many copies there may be                           *)

\* The numbers count as before if nothing was sent or recorded, and whatever waits
\* in the batch waited there before.
LEMMA SameCounts ==
  ASSUME NEW q \in Seqs, NEW s \in Subscribers, Counts(q, s), sent'[q][s] = sent[q][s],
         q \in Stored' => q \in Stored /\ St(q, s)' = St(q, s) /\ Tries(q, s)' = Tries(q, s),
         \A n \in Nat : QueuedAs(q, s, n)' => QueuedAs(q, s, n),
         InRetry(q, s)' <=> InRetry(q, s),
         InRetry(q, s) => Head(retry'.batch) = Head(retry.batch)
  PROVE  Counts(q, s)'
  BY DEF Counts

\* Nothing waits in the batch under another number of attempts once the retry task
\* has moved on, and the delivery at hand is gone.
LEMMA AdvanceQueue ==
  ASSUME retry \in RetryRecordType, retry.batch # <<>>,
         \/ retry' = NextDelivery
         \/ retry'.pc \in {"settle", "put"} /\ retry'.batch = retry.batch
  PROVE  \A q \in Seqs, s \in Subscribers, n \in Nat : QueuedAs(q, s, n)' => QueuedAs(q, s, n)
<1>1. CASE retry' = NextDelivery
  <2>1. /\ DOMAIN retry.batch = 1..Len(retry.batch) /\ Len(retry.batch) \in Nat
        /\ DOMAIN retry'.batch = 1..(Len(retry.batch) - 1)
        /\ \A i \in DOMAIN retry'.batch : i + 1 \in DOMAIN retry.batch /\ retry'.batch[i] = retry.batch[i + 1]
    BY <1>1, HeadOf, NextDeliveryTyped
  <2>2. \A i \in DOMAIN retry'.batch : i + 1 > 1
    BY <2>1
  <2> QED
    BY <2>1, <2>2 DEF QueuedAs
<1>2. CASE retry'.pc \in {"settle", "put"} /\ retry'.batch = retry.batch
  BY <1>2 DEF QueuedAs
<1> QED
  BY <1>1, <1>2

\* The retry task counts.
LEMMA RetryCounts ==
  ASSUME ReliableInv, CountInv, RetryStep
  PROVE  CountInv'
<1>0. /\ Typed /\ BusTyped /\ StoreTypeOK /\ retry \in RetryRecordType /\ BatchDistinct /\ ~StoreMayFail
      /\ sent \in [Seqs -> [Subscribers -> Seq(SentEntry)]]
  BY DEF ReliableInv, Reliable, ToldInv, Typed, BusTyped
<1>1. CASE PollRetryable
  <2>1. Keeps /\ retry.pc = "idle" /\ UNCHANGED <<events, pub, history>>
    BY <1>0, <1>1, UnchangedKeeps DEF PollRetryable
  <2>2. /\ retry'.pc = "attempt"
        /\ \A i \in DOMAIN retry'.batch :
             LET d == retry'.batch[i]
             IN  /\ d.seq \in Stored /\ St(d.seq, d.sub) = "Failed"
                 /\ d.attempts = Tries(d.seq, d.sub) /\ d.attempts < MaxAttempts
    BY <1>0, <1>1, PollMakes
  <2>3. ASSUME NEW q \in Seqs, NEW s \in Subscribers, OwnNumber(q)' PROVE Counts(q, s)'
    <3>1. /\ Counts(q, s) /\ sent'[q][s] = sent[q][s] /\ ~InRetry(q, s) /\ ~InRetry(q, s)'
          /\ Stored' = Stored /\ St(q, s)' = St(q, s) /\ Tries(q, s)' = Tries(q, s)
      BY <2>1, <2>2, <2>3 DEF CountInv, OwnNumber, history, InRetry, Stored, St, Tries
    <3>2. ASSUME NEW n \in Nat, QueuedAs(q, s, n)'
          PROVE  q \in Stored /\ St(q, s) = "Failed" /\ n = Tries(q, s) /\ n < MaxAttempts
      <4>1. PICK i \in DOMAIN retry'.batch : retry'.batch[i] = [seq |-> q, sub |-> s, attempts |-> n]
        BY <3>2 DEF QueuedAs
      <4> QED
        BY <2>2, <4>1
    <3> QED
      BY <3>1, <3>2 DEF Counts
  <2> QED
    BY <2>3 DEF CountInv
<1>2. CASE RetryAttempt
  <2> DEFINE d == Head(retry.batch)
  <2>1. /\ retry.pc = "attempt" /\ retry.batch # <<>> /\ retry'.pc = "record" /\ retry'.batch = retry.batch
        /\ UNCHANGED <<events, clock, pub, owed, modified, droppedBy, reused>>
        /\ UNCHANGED sent \/ \E a \in {"Ok", "Failed"} : Through(d.seq, d.sub, {}, "retry", a)
    BY <1>0, <1>2, AttemptMakes
  <2>2. /\ d = retry.batch[1] /\ 1 \in DOMAIN retry.batch /\ d \in BatchEntry
        /\ DOMAIN retry.batch = 1..Len(retry.batch) /\ Len(retry.batch) \in Nat
        /\ \A i \in DOMAIN retry.batch : retry.batch[i] \in BatchEntry
    BY <1>0, <2>1, HeadOf
  <2>3. /\ d.seq \in Seqs /\ d.sub \in Subscribers /\ d.attempts \in Nat
        /\ d = [seq |-> d.seq, sub |-> d.sub, attempts |-> d.attempts]
    BY <2>2 DEF BatchEntry
  <2>4. QueuedAs(d.seq, d.sub, d.attempts)
    BY <2>1, <2>2, <2>3 DEF QueuedAs
  <2>5. ASSUME NEW a \in {"Ok", "Failed"}, Through(d.seq, d.sub, {}, "retry", a)
        PROVE  /\ Len(sent[d.seq][d.sub]) <= MaxAttempts =>
                    \E e \in SentEntry : sent'[d.seq][d.sub] = Append(sent[d.seq][d.sub], e)
               /\ \A q \in Seqs, t \in Subscribers : q # d.seq \/ t # d.sub => sent'[q][t] = sent[q][t]
    <3>1. PICK e \in SentEntry : Copied(d.seq, d.sub, e)
      BY <2>5 DEF Through, Copied, SentEntry
    <3> QED
      BY <1>0, <2>3, <3>1, CopyMakes
  <2> HIDE DEF d
  <2>6. ASSUME NEW q \in Seqs, NEW s \in Subscribers, OwnNumber(q)' PROVE Counts(q, s)'
    <3>1. /\ Counts(q, s) /\ Stored' = Stored /\ St(q, s)' = St(q, s) /\ Tries(q, s)' = Tries(q, s)
      BY <2>1, <2>6 DEF CountInv, OwnNumber, Stored, St, Tries
    <3>2. ASSUME NEW n \in Nat, QueuedAs(q, s, n)'
          PROVE  QueuedAs(q, s, n) /\ (q # d.seq \/ s # d.sub)
      <4>1. PICK i \in DOMAIN retry.batch : retry.batch[i] = [seq |-> q, sub |-> s, attempts |-> n] /\ i > 1
        BY <2>1, <3>2 DEF QueuedAs
      <4>2. QueuedAs(q, s, n)
        BY <2>1, <4>1 DEF QueuedAs
      <4>3. i # 1 /\ retry.batch[i].seq = q /\ retry.batch[i].sub = s
        BY <2>2, <4>1
      <4> QED
        BY <1>0, <2>2, <4>2, <4>3 DEF BatchDistinct
    <3>3. ~InRetry(q, s) /\ (InRetry(q, s)' <=> q = d.seq /\ s = d.sub) /\ Head(retry'.batch) = d
      BY <2>1 DEF InRetry, d
    <3>4. CASE q # d.seq \/ s # d.sub
      <4>1. sent'[q][s] = sent[q][s]
        BY <2>1, <2>5, <3>4
      <4> QED
        BY <3>1, <3>2, <3>3, <3>4, <4>1, SameCounts
    <3>5. CASE q = d.seq /\ s = d.sub
      <4>1. /\ Len(sent[q][s]) \in Nat /\ Len(sent[q][s]) < d.attempts /\ d.attempts < MaxAttempts
            /\ q \in Stored => Tries(q, s) = d.attempts
        BY <1>0, <2>3, <2>4, <3>1, <3>5 DEF Counts
      <4>2. Len(sent'[q][s]) \in Nat /\ Len(sent'[q][s]) <= Len(sent[q][s]) + 1
        <5>1. CASE UNCHANGED sent
          BY <4>1, <5>1
        <5>2. CASE \E a \in {"Ok", "Failed"} : Through(d.seq, d.sub, {}, "retry", a)
          <6>1. PICK e \in SentEntry : sent'[q][s] = Append(sent[q][s], e)
            BY <2>3, <2>5, <3>5, <4>1, <5>2, StoreAssumption
          <6>2. sent[q][s] \in Seq(SentEntry)
            BY <1>0
          <6> QED
            BY <4>1, <6>1, <6>2
        <5> QED
          BY <2>1, <5>1, <5>2
      <4>3. Len(sent'[q][s]) <= d.attempts /\ Len(sent'[q][s]) < MaxAttempts
        BY <2>3, <4>1, <4>2, StoreAssumption
      <4> QED
        BY <2>3, <3>1, <3>2, <3>3, <3>5, <4>1, <4>3 DEF Counts
    <3> QED
      BY <3>4, <3>5
  <2> QED
    BY <2>6 DEF CountInv
<1>3. CASE RetryRecord
  <2> DEFINE d == Head(retry.batch)
  <2>1. /\ retry.pc = "record" /\ retry.batch # <<>> /\ Stored' = Stored /\ retry.out \in DeliveryStatus
        /\ \A r \in Stored, t \in Subscribers :
             St(r, t)' = IF r = d.seq /\ t = d.sub THEN retry.out ELSE St(r, t)
        /\ \A r \in Stored, t \in Subscribers : r # d.seq \/ t # d.sub => Tries(r, t)' = Tries(r, t)
        /\ \A r \in Stored, t \in Subscribers : r = d.seq /\ t = d.sub /\ retry.out = "Failed" =>
             Tries(r, t)' = IF St(r, t) = "None" THEN 1 ELSE Tries(r, t) + 1
        /\ retry' = NextDelivery \/ (retry'.pc = "settle" /\ retry'.batch = retry.batch)
        /\ UNCHANGED <<pub, history>>
    BY <1>0, <1>3, RetryRecordMakes
  <2>2. \A q \in Seqs, s \in Subscribers :
          /\ \A n \in Nat : QueuedAs(q, s, n)' => QueuedAs(q, s, n)
          /\ q = d.seq /\ s = d.sub => ~Queued(q, s)'
          /\ ~InRetry(q, s)' /\ (InRetry(q, s) <=> q = d.seq /\ s = d.sub)
    BY <1>0, <2>1, AdvanceIs, AdvanceQueue DEF InRetry
  <2>3. retry' \in RetryRecordType
    BY <1>0, <1>3, RetryRecordMakes
  <2> HIDE DEF d
  <2>4. ASSUME NEW q \in Seqs, NEW s \in Subscribers, OwnNumber(q)' PROVE Counts(q, s)'
    <3>1. Counts(q, s) /\ sent'[q][s] = sent[q][s] /\ OwnNumber(q)
      BY <2>1, <2>4 DEF CountInv, OwnNumber, history
    <3>2. CASE q # d.seq \/ s # d.sub
      BY <2>1, <2>2, <3>1, <3>2, SameCounts
    <3>3. CASE q = d.seq /\ s = d.sub
      <4>1. \A n \in Nat : ~QueuedAs(q, s, n)'
        <5>1. ~Queued(q, s)'
          BY <2>2, <3>3
        <5> QED
          BY <5>1 DEF Queued, QueuedAs
      <4>2. PICK n \in Nat : /\ Len(sent[q][s]) <= n /\ n < MaxAttempts
                             /\ q \in Stored => Tries(q, s) = n
        BY <2>2, <3>1, <3>3 DEF Counts
      <4>3. q \in Stored => St(q, s) = "Failed"
        BY <2>2, <3>1, <3>3 DEF ReliableInv, Ledger
      <4>4. Len(sent[q][s]) \in Nat
        BY <1>0
      <4>5. q \in Stored' /\ St(q, s)' = "Failed" => Len(sent'[q][s]) < Tries(q, s)'
        BY <2>1, <3>1, <3>3, <4>2, <4>3, <4>4
      <4> QED
        BY <2>2, <3>1, <4>1, <4>5 DEF Counts
    <3> QED
      BY <3>2, <3>3
  <2> QED
    BY <2>4 DEF CountInv
<1>4. CASE SettleGet \/ SettlePut
  <2>1. /\ Keeps /\ retry.pc \in {"settle", "put"} /\ retry.batch # <<>> /\ UNCHANGED <<pub, history>>
        /\ retry' = NextDelivery \/ (retry'.pc = "put" /\ retry'.batch = retry.batch)
    BY <1>0, <1>4, SettleMakes
  <2>2. \A q \in Seqs, s \in Subscribers :
          /\ \A n \in Nat : QueuedAs(q, s, n)' => QueuedAs(q, s, n)
          /\ ~InRetry(q, s)' /\ ~InRetry(q, s)
    BY <1>0, <2>1, AdvanceIs, AdvanceQueue DEF InRetry
  <2>3. ASSUME NEW q \in Seqs, NEW s \in Subscribers, OwnNumber(q)' PROVE Counts(q, s)'
    <3>1. /\ Counts(q, s) /\ sent'[q][s] = sent[q][s]
          /\ q \in Stored' => q \in Stored /\ St(q, s)' = St(q, s) /\ Tries(q, s)' = Tries(q, s)
      BY <2>1, <2>3 DEF CountInv, OwnNumber, history, Keeps
    <3> QED
      BY <2>2, <3>1, SameCounts
  <2> QED
    BY <2>3 DEF CountInv
<1> QED
  BY <1>1, <1>2, <1>3, <1>4 DEF RetryStep

\* Whatever else happens leaves the numbers alone.
LEMMA QuietCounts ==
  ASSUME CountInv, Keeps, UNCHANGED <<retry, sent, reused>>
  PROVE  CountInv'
<1>1. ASSUME NEW q \in Seqs, NEW s \in Subscribers, OwnNumber(q)' PROVE Counts(q, s)'
  <2>1. /\ Counts(q, s) /\ sent'[q][s] = sent[q][s]
        /\ q \in Stored' => q \in Stored /\ St(q, s)' = St(q, s) /\ Tries(q, s)' = Tries(q, s)
    BY <1>1 DEF CountInv, OwnNumber, Keeps
  <2>2. (InRetry(q, s)' <=> InRetry(q, s)) /\ \A n \in Nat : QueuedAs(q, s, n)' => QueuedAs(q, s, n)
    BY DEF InRetry, QueuedAs
  <2> QED
    BY <2>1, <2>2, SameCounts
<1> QED
  BY <1>1 DEF CountInv

\* A publisher sends a subscriber that is open its first copy, and its record is
\* the first.
LEMMA PublisherCounts ==
  ASSUME ReliableInv, CountInv, NEW p \in Publishers, PublisherStep(p)
  PROVE  CountInv'
<1>0. /\ Typed /\ BusTyped /\ StoreTypeOK /\ ~StoreMayFail
      /\ sent \in [Seqs -> [Subscribers -> Seq(SentEntry)]]
  BY DEF ReliableInv, Reliable, ToldInv, Typed, BusTyped
<1>1. CASE Resolve(p) \/ MarkDispatching(p) \/ SnapshotSync(p) \/ SnapshotAsync(p)
  <2>1. Keeps /\ UNCHANGED <<retry, sent, reused>>
    BY <1>0, <1>1, ResolveMakes, MarkMakes, SnapshotMakes DEF history
  <2> QED
    BY <2>1, QuietCounts
<1>2. CASE Intercept(p)
  <2>1. UNCHANGED <<events, clock, retry, sent, reused>>
    BY <1>2 DEF Intercept, busVars
  <2> QED
    BY <1>0, <2>1, UnchangedKeeps, QuietCounts
<1>3. CASE SendToChannel(p) \/ HandleMissing(p)
  <2>1. PICK s \in Subscribers : s = First(pub[p].todo)
    BY <1>0, <1>3, SendMakes
  <2>2. /\ pub[p].pc = "deliver" /\ s \in pub[p].todo
        /\ \/ Through(pub[p].seq, s, pub[p].payload, "dispatch", "Ok")
           \/ UNCHANGED sent
        /\ Keeps /\ UNCHANGED <<retry, reused>>
    BY <1>0, <1>3, <2>1, SendMakes
  <2>3. PICK q \in Seqs : q = pub[p].seq
    BY <1>0, <2>2 DEF Typed, TasksTyped
  <2>4. CASE UNCHANGED sent
    BY <2>2, <2>4, QuietCounts
  <2>5. CASE Through(pub[p].seq, s, pub[p].payload, "dispatch", "Ok")
    <3>1. PICK e \in SentEntry : Copied(q, s, e)
      <4>1. pub[p].payload \in SUBSET Interceptors
        BY <1>0 DEF BusTyped, PubRecord
      <4>2. [payload |-> pub[p].payload, by |-> "dispatch", answer |-> "Ok"] \in SentEntry
        BY <4>1 DEF SentEntry
      <4>3. Copied(q, s, [payload |-> pub[p].payload, by |-> "dispatch", answer |-> "Ok"])
        BY <2>3, <2>5 DEF Through, Copied
      <4> QED
        BY <4>2, <4>3, Zenon
    <3>2. /\ sent[q][s] = <<>> => sent'[q][s] = <<e>>
          /\ \A r \in Seqs, t \in Subscribers : r # q \/ t # s => sent'[r][t] = sent[r][t]
      BY <1>0, <3>1, CopyMakes
    <3>3. ASSUME NEW r \in Seqs, NEW t \in Subscribers, OwnNumber(r)' PROVE Counts(r, t)'
      <4>1. /\ Counts(r, t) /\ OwnNumber(r)
            /\ r \in Stored' => r \in Stored /\ St(r, t)' = St(r, t) /\ Tries(r, t)' = Tries(r, t)
        BY <2>2, <3>3 DEF CountInv, OwnNumber, Keeps
      <4>2. (InRetry(r, t)' <=> InRetry(r, t)) /\ \A n \in Nat : QueuedAs(r, t, n)' => QueuedAs(r, t, n)
        BY <2>2 DEF InRetry, QueuedAs
      <4>3. CASE r # q \/ t # s
        BY <2>2, <3>2, <4>1, <4>2, <4>3, SameCounts
      <4>4. CASE r = q /\ t = s
        <5>1. Works(p, q) /\ OpenPair(p, s) /\ s \in Open(p) /\ ~AtHand(p, s)
          <6>1. Works(p, q)
            BY <2>2, <2>3 DEF Works
          <6>2. s \in Open(p) /\ ~AtHand(p, s)
            BY <2>2 DEF Open, Chaining, AtHand
          <6> QED
            BY <4>1, <4>4, <6>1, <6>2, AtWork
        <5>2. /\ ~Queued(q, s) /\ ~InRetry(q, s) /\ (q \in Stored => St(q, s) = "None")
              /\ sent[q][s] = <<>>
          BY <2>3, <5>1 DEF OpenPair
        <5>3. Len(sent'[q][s]) = 1
          <6>1. sent'[q][s] = <<e>>
            BY <3>2, <5>2
          <6>2. Len(<<e>>) = 1
            OBVIOUS
          <6> QED
            BY <6>1, <6>2, Zenon
        <5>4. \A n \in Nat : ~QueuedAs(q, s, n)
          BY <1>0, <5>2, QueuedIs DEF BusTyped
        <5> QED
          BY <4>1, <4>2, <4>4, <5>2, <5>3, <5>4 DEF Counts
      <4> QED
        BY <4>3, <4>4
    <3> QED
      BY <3>3 DEF CountInv
  <2> QED
    BY <2>2, <2>4, <2>5
<1>4. CASE RecordOutcome(p)
  <2>1. PICK s \in Subscribers : s = First(pub[p].todo)
    BY <1>0, <1>4, OutcomeMakes
  <2>2. /\ pub[p].pc = "record" /\ s \in pub[p].todo /\ Stored' = Stored
        /\ \A r \in Stored, t \in Subscribers :
             St(r, t)' = IF r = pub[p].seq /\ t = s THEN pub[p].out ELSE St(r, t)
        /\ \A r \in Stored, t \in Subscribers : r # pub[p].seq \/ t # s => Tries(r, t)' = Tries(r, t)
        /\ \A r \in Stored, t \in Subscribers : r = pub[p].seq /\ t = s /\ pub[p].out = "Failed" =>
             Tries(r, t)' = IF St(r, t) = "None" THEN 1 ELSE Tries(r, t) + 1
        /\ UNCHANGED <<retry, history>>
    BY <1>0, <1>4, <2>1, OutcomeMakes
  <2>3. PICK q \in Seqs : q = pub[p].seq
    BY <1>0, <2>2 DEF Typed, TasksTyped
  <2>4. ASSUME NEW r \in Seqs, NEW t \in Subscribers, OwnNumber(r)' PROVE Counts(r, t)'
    <3>1. /\ Counts(r, t) /\ OwnNumber(r) /\ sent'[r][t] = sent[r][t]
      BY <2>2, <2>4 DEF CountInv, OwnNumber, history
    <3>2. (InRetry(r, t)' <=> InRetry(r, t)) /\ \A n \in Nat : QueuedAs(r, t, n)' => QueuedAs(r, t, n)
      BY <2>2 DEF InRetry, QueuedAs
    <3>3. CASE r # q \/ t # s
      BY <2>2, <2>3, <3>1, <3>2, <3>3, SameCounts
    <3>4. CASE r = q /\ t = s
      <4>1. /\ OpenPair(p, s) /\ s \in Open(p) /\ AtHand(p, s)
        <5>1. Works(p, q) /\ s \in Open(p) /\ AtHand(p, s)
          BY <2>1, <2>2, <2>3 DEF Works, Open, Chaining, AtHand
        <5> QED
          BY <3>1, <3>4, <5>1, AtWork
      <4>2. /\ ~Queued(q, s) /\ ~InRetry(q, s) /\ (q \in Stored => St(q, s) = "None")
            /\ pub[p].out = "Failed" => sent[q][s] = <<>>
        BY <2>3, <4>1 DEF OpenPair
      <4>3. \A n \in Nat : ~QueuedAs(q, s, n)
        BY <1>0, <4>2, QueuedIs DEF BusTyped
      <4>4. q \in Stored' /\ St(q, s)' = "Failed" => Len(sent'[q][s]) < Tries(q, s)'
        BY <2>2, <2>3, <3>1, <3>4, <4>2
      <4> QED
        BY <3>1, <3>2, <3>4, <4>2, <4>3, <4>4 DEF Counts
    <3> QED
      BY <3>3, <3>4
  <2> QED
    BY <2>4 DEF CountInv
<1>5. CASE CloseDelivered(p) \/ Finalize(p)
  <2>1. Keeps /\ UNCHANGED <<retry, history>>
    BY <1>0, <1>5, EndMakes
  <2> QED
    BY <2>1, QuietCounts DEF history
<1>6. ~ReplayRequeue(p)
  BY DEF ReplayRequeue, ReliableInv, PublisherInv
<1> QED
  BY <1>1, <1>2, <1>3, <1>4, <1>5, <1>6 DEF PublisherStep

\* A new event has no copies.
LEMMA PublishCounts ==
  ASSUME ReliableInv, CountInv, NEW p \in Publishers, NEW subj \in Subjects, Publish(p, subj)
  PROVE  CountInv'
<1>0. Typed /\ ToldInv
  BY DEF ReliableInv, ToldInv
<1>1. PICK n : n = NextSeq
  OBVIOUS
<1>2. /\ n \in Seqs /\ Stored' = Stored \cup {n} /\ retry' = retry
      /\ \A t \in Subscribers : St(n, t)' = "None"
      /\ \A r \in Stored \ {n}, t \in Subscribers : St(r, t)' = St(r, t) /\ Tries(r, t)' = Tries(r, t)
  BY <1>0, <1>1, AppendMakes DEF Publish, Typed, BusTyped
<1>3. /\ \A r \in Seqs \ {n} : sent'[r] = sent[r] /\ reused'[r] = reused[r]
      /\ reused'[n] = IF reused[n] = "unused" THEN "once" ELSE "again"
      /\ \A s \in Subscribers : sent'[n][s] = <<>>
  BY <1>0, <1>1, <1>2 DEF Publish, Typed, BusTyped
<1>4. ASSUME NEW q \in Seqs, NEW s \in Subscribers, OwnNumber(q)' PROVE Counts(q, s)'
  <2>1. (InRetry(q, s)' <=> InRetry(q, s)) /\ \A i \in Nat : QueuedAs(q, s, i)' <=> QueuedAs(q, s, i)
    BY <1>2 DEF InRetry, QueuedAs
  <2>2. CASE q = n
    <3>1. Unused(n)
      BY <1>0, <1>2, <1>3, <1>4, <2>2 DEF OwnNumber, ToldInv
    <3>2. retry.pc = "record" => Head(retry.batch) = retry.batch[1] /\ 1 \in DOMAIN retry.batch
      BY <1>0, HeadOf DEF Typed, BusTyped, TasksTyped
    <3>3. ~InRetry(n, s) /\ ~Queued(n, s)
      BY <3>1, <3>2 DEF Unused, Queued, InRetry
    <3>4. \A i \in Nat : ~QueuedAs(n, s, i)
      BY <1>0, <1>2, <3>3, QueuedIs DEF Typed, BusTyped
    <3>5. Len(sent'[n][s]) = 0
      BY <1>3
    <3> QED
      BY <1>2, <2>1, <2>2, <3>3, <3>4, <3>5 DEF Counts
  <2>3. CASE q # n
    <3>1. Counts(q, s) /\ sent'[q][s] = sent[q][s]
      BY <1>3, <1>4, <2>3 DEF CountInv, OwnNumber
    <3> QED
      BY <1>2, <2>1, <2>3, <3>1, SameCounts
  <2> QED
    BY <2>2, <2>3
<1> QED
  BY <1>4 DEF CountInv

\* A step of a reliable bus counts.
LEMMA CountStep ==
  ASSUME ReliableInv, CountInv, crashes \in Nat, [Next]_vars
  PROVE  CountInv'
<1>1. ASSUME NEW p \in Publishers, NEW q \in Seqs, ReplayGet(p, q) PROVE FALSE
  BY <1>1 DEF ReplayGet, ReliableInv, Reliable
<1>2. CASE UNCHANGED vars
  <2>1. UNCHANGED <<events, clock, retry, sent, reused>>
    BY <1>2 DEF vars
  <2> QED
    BY <2>1, UnchangedKeeps, QuietCounts DEF ReliableInv, ToldInv, Typed, BusTyped
<1>3. CASE OtherStep
  <2>1. Typed /\ ~Crash
    BY DEF ReliableInv, Reliable, ToldInv, Crash
  <2>2. Keeps /\ UNCHANGED <<pub, retry, history>>
    BY <1>3, <2>1, OtherMakes
  <2> QED
    BY <2>2, QuietCounts DEF history
<1> QED
  BY <1>1, <1>2, <1>3, PublishCounts, PublisherCounts, RetryCounts DEF Next, OtherStep

\* A step of a reliable bus.
LEMMA ReliableStep ==
  ASSUME ReliableInv, CountInv, crashes \in Nat, [Next]_vars
  PROVE  ReliableInv'
<1>1. ASSUME NEW p \in Publishers, PublisherStep(p) PROVE ReliableInv'
  <2>1. ~ReplayRequeue(p)
    BY DEF ReplayRequeue, ReliableInv, PublisherInv
  <2> QED
    BY <1>1, <2>1, PipelineReliable, InterceptReliable, SendReliable, OutcomeReliable, EndReliable DEF PublisherStep
<1>2. ASSUME NEW p \in Publishers, NEW q \in Seqs, ReplayGet(p, q) PROVE FALSE
  BY <1>2 DEF ReplayGet, ReliableInv, Reliable
<1>3. CASE UNCHANGED vars
  <2>1. UNCHANGED <<events, clock, pub, retry, history>>
    BY <1>3 DEF vars, history
  <2>2. ToldInv'
    BY <1>3, ToldStutters DEF ReliableInv
  <2>3. Keeps
    BY <2>1, UnchangedKeeps DEF ReliableInv, ToldInv, Typed, BusTyped
  <2>4. ASSUME NEW q \in Seqs, NEW s \in Subscribers, OwnNumber(q) PROVE Ledger(q, s)' /\ Turns(q, s)
    <3>1. /\ Ledger(q, s) /\ sent'[q][s] = sent[q][s] /\ retry' = retry
          /\ q \in Stored' => q \in Stored /\ St(q, s)' = St(q, s)
          /\ (Queued(q, s)' <=> Queued(q, s)) /\ (InRetry(q, s)' <=> InRetry(q, s))
      BY <2>1, <2>3, <2>4 DEF ReliableInv, Keeps, history, Queued, InRetry
    <3> QED
      BY <3>1, SameTrail DEF Ledger, Turns
  <2>5. BatchDistinct'
    BY <2>1 DEF ReliableInv, BatchDistinct
  <2> QED
    BY <2>1, <2>2, <2>3, <2>4, <2>5, TasksKeep DEF Keeps, history
<1> QED
  BY <1>1, <1>2, <1>3, PublishReliable, RetryReliable, OtherReliable DEF Next, OtherStep

\* A reliable bus starts as one.
LEMMA InitReliable == Init /\ Reliable => ReliableInv /\ CountInv
<1> SUFFICES ASSUME Init, Reliable PROVE ReliableInv /\ CountInv
  OBVIOUS
<1>1. ToldInv /\ (\A p \in Publishers : pub[p].pc = "idle") /\ retry.batch = <<>>
  BY InitTold, IdleTyped DEF Init
<1>2. \A q \in Seqs : ~OwnNumber(q)
  BY DEF Init, OwnNumber
<1>3. BatchDistinct
  BY <1>1 DEF BatchDistinct
<1> QED
  BY <1>1, <1>2, <1>3 DEF ReliableInv, PublisherInv, CountInv

\* The inductive invariant of the reliable bus, with the numbers of copies.
LEMMA ReliableInvariant == Reliable /\ Spec => [](ReliableInv /\ CountInv)
<1>1. ReliableInv /\ CountInv /\ Counted /\ [Next]_vars => ReliableInv' /\ CountInv'
  BY ReliableStep, CountStep DEF Counted
<1> QED
  BY <1>1, InitReliable, CrashesCounted, PTL DEF Spec

\* Nothing is lost: on a reliable bus the dispatcher and the retry task, racing each
\* other and compaction, leave every subscriber an event was meant for with a
\* record, and the record says Delivered exactly when a copy went through and its
\* sender was told so.
THEOREM NothingIsLost == Reliable /\ Spec => []NothingLost
<1>1. ASSUME ReliableInv, NEW q \in Stored, NEW s \in owed[q] \ Interceptors, OwnNumber(q),
             droppedBy[q] = {}, ~InDispatch(q), ~InRetry(q, s)
      PROVE  /\ St(q, s) # "None" /\ (St(q, s) = "Delivered" <=> Acked(q, s))
             /\ sent[q][s] # <<>> /\ s \notin Remote => St(q, s) = "Delivered"
  <2>1. q \in Seqs /\ s \in Subscribers
    BY <1>1 DEF Stored, ReliableInv, ToldInv, Typed, BusTyped
  <2>2. Ledger(q, s) /\ Course(q, s)
    BY <1>1, <2>1 DEF ReliableInv
  <2>3. St(q, s) # "None"
    <3> SUFFICES ASSUME St(q, s) = "None" PROVE FALSE
      OBVIOUS
    <3>1. PICK p \in Publishers : Works(p, q)
      BY <1>1, <2>2 DEF Course
    <3>2. pub[p].pc # "requeue"
      BY <1>1, <3>1 DEF ReliableInv, PublisherInv, Works
    <3> QED
      BY <1>1, <3>1, <3>2 DEF InDispatch, Works
  <2>4. St(q, s) = "Delivered" <=> Acked(q, s)
    BY <1>1, <2>2, <2>3 DEF Ledger
  <2>5. sent[q][s] # <<>> /\ s \notin Remote => Acked(q, s)
    <3>1. sent[q][s] \in Seq(SentEntry)
      BY <1>1, <2>1 DEF ReliableInv, ToldInv, Typed, BusTyped
    <3>2. sent[q][s] # <<>> => 1 \in DOMAIN sent[q][s]
      BY <3>1
    <3> QED
      BY <2>2, <3>2 DEF Ledger, Trail, Acked
  <2> QED
    BY <2>3, <2>4, <2>5
<1>2. ReliableInv => NothingLost
  BY <1>1 DEF NothingLost, Delivery, St
<1> QED
  BY <1>2, ReliableInvariant, PTL

\* Dispatcher and retry task together send nothing after a copy that was
\* acknowledged, nobody inside the process a second copy, and a remote channel
\* fewer copies than it has attempts.
THEOREM DeliveredOnce == Reliable /\ Spec => []NoDuplicateDelivery
<1>1. ASSUME ReliableInv, CountInv, NEW q \in Seqs, NEW s \in Subscribers, OwnNumber(q)
      PROVE  /\ \A i \in DOMAIN sent[q][s] : sent[q][s][i].answer = "Ok" => i = Len(sent[q][s])
             /\ Len(sent[q][s]) <= 1 \/ (s \in Remote /\ Len(sent[q][s]) < MaxAttempts)
  <2>1. Trail(q, s) /\ Counts(q, s) /\ sent[q][s] \in Seq(SentEntry)
    BY <1>1 DEF ReliableInv, CountInv, Ledger, ToldInv, Typed, BusTyped
  <2>2. s \notin Remote => Len(sent[q][s]) <= 1
    <3>1. Len(sent[q][s]) \in Nat /\ DOMAIN sent[q][s] = 1..Len(sent[q][s])
      BY <2>1
    <3>2. s \notin Remote => \A k \in 1..Len(sent[q][s]) : k = Len(sent[q][s])
      BY <2>1, <3>1 DEF Trail
    <3> QED
      BY <3>1, <3>2
  <2> QED
    BY <2>1, <2>2 DEF Trail, Counts
<1>2. ReliableInv /\ CountInv => NoDuplicateDelivery
  BY <1>1 DEF NoDuplicateDelivery
<1> QED
  BY <1>2, ReliableInvariant, PTL

\* The priority chain is kept: a subscriber gets the changes of the interceptors
\* before it that answered in time and of no other, and nobody after an interceptor
\* that dropped the event gets it, from the dispatcher or from the retry task.
THEOREM ChainIsKept == Reliable /\ Spec => []ChainOrder
<1>1. ASSUME ReliableInv, NEW q \in Seqs, NEW s \in Subscribers, OwnNumber(q)
      PROVE  /\ \A i \in DOMAIN sent[q][s] :
                  sent[q][s][i].by = "dispatch" =>
                    sent[q][s][i].payload = {j \in modified[q] : After(j, s)}
             /\ q \in Stored /\ (\E i \in droppedBy[q] : After(i, s))
                  => sent[q][s] = <<>> /\ Delivery(q, s).status = "None"
  <2>1. Course(q, s)
    BY <1>1 DEF ReliableInv
  <2> QED
    BY <2>1 DEF Course, Touched, Delivery, St
<1>2. ReliableInv => ChainOrder
  BY <1>1 DEF ChainOrder
<1> QED
  BY <1>2, ReliableInvariant, PTL

=============================================================================
