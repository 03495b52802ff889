---------------------------- MODULE SystemProofs ----------------------------
(***************************************************************************)
(* Theorems about the plugins around the brain: the rate limit of the      *)
(* gateway, by itself and in the system; current facts; where everything   *)
(* that the pipeline stores comes from; what clients were told of their    *)
(* accounts; and the way of an answer back to where its message came from. *)
(***************************************************************************)
EXTENDS PluginSystem, TLAPS

(* Products are monotone. *)
LEMMA TimesMonotone ==
  ASSUME NEW a \in Nat, NEW b \in Nat, NEW c \in Nat, b <= c
  PROVE  a * b <= a * c
  OBVIOUS

(* A minute's refill distributes over the time it takes. *)
LEMMA TimesSplit ==
  ASSUME NEW a \in Int, NEW b \in Int, NEW r \in Int
  PROVE  (a + b) * r = a * r + b * r
  OBVIOUS

(* A bucket that a request has refilled holds no more than its rate allows, *)
(* and no more than it held before and what has come in since.              *)
LEMMA RefilledBounds ==
  ASSUME RateTypeOK, NEW s \in Names, NEW rpm \in Rates
  PROVE  /\ Refilled(s, rpm) \in Bucket
         /\ Refilled(s, rpm).known /\ Refilled(s, rpm).last_refill = clock
         /\ Refilled(s, rpm).tokens <= MaxRate * Minute
         /\ buckets[s].known =>
              Refilled(s, rpm).tokens <= buckets[s].tokens + (clock - buckets[s].last_refill) * MaxRate
<1>1. /\ rpm \in Nat /\ MaxRate \in Nat /\ Minute \in Nat /\ rpm <= MaxRate
  BY RateAssumption
<1>2. rpm * Minute \in Nat /\ MaxRate * Minute \in Nat /\ rpm * Minute <= MaxRate * Minute
  BY <1>1
<1>3. CASE buckets[s].known
  <2>1. clock - buckets[s].last_refill \in Nat /\ buckets[s].tokens \in Nat
    BY DEF RateTypeOK, Bucket
  <2> DEFINE d == clock - buckets[s].last_refill
  <2>2. d * rpm \in Nat /\ d * MaxRate \in Nat /\ d * rpm <= d * MaxRate
    <3>1. d \in Nat
      BY <2>1
    <3> HIDE DEF d
    <3> QED
      BY <1>1, <3>1, TimesMonotone
  <2>3. Refilled(s, rpm) = [known |-> TRUE, last_refill |-> clock,
          tokens |-> IF buckets[s].tokens + d * rpm <= rpm * Minute
                     THEN buckets[s].tokens + d * rpm ELSE rpm * Minute]
    BY <1>3 DEF Refilled
  <2>4. clock \in Nat
    BY DEF RateTypeOK
  <2> HIDE DEF d
  <2>5. /\ Refilled(s, rpm) \in Bucket
        /\ Refilled(s, rpm).known /\ Refilled(s, rpm).last_refill = clock
        /\ Refilled(s, rpm).tokens <= MaxRate * Minute
        /\ Refilled(s, rpm).tokens <= buckets[s].tokens + d * MaxRate
    BY <1>2, <2>1, <2>2, <2>3, <2>4 DEF Bucket
  <2> QED
    BY <2>5 DEF d
<1>4. CASE ~buckets[s].known
  <2>1. clock \in Nat
    BY DEF RateTypeOK
  <2>2. (clock - clock) * rpm = 0
    BY <1>1, <2>1
  <2>3. rpm * Minute + (clock - clock) * rpm = rpm * Minute /\ rpm * Minute <= rpm * Minute
    BY <1>2, <2>2
  <2>4. Refilled(s, rpm) = [known |-> TRUE, last_refill |-> clock,
          tokens |-> IF rpm * Minute + (clock - clock) * rpm <= rpm * Minute
                     THEN rpm * Minute + (clock - clock) * rpm ELSE rpm * Minute]
    BY <1>4 DEF Refilled, FullBucket
  <2> QED
    BY <1>2, <1>4, <2>1, <2>3, <2>4 DEF Bucket
<1> QED
  BY <1>3, <1>4

(* The strengthening is inductive: one case per operation of the limiter.   *)
LEMMA RateInvInductive ==
  RateInv /\ [RateNext]_rateVars => RateInv'
<1> SUFFICES ASSUME RateInv, [RateNext]_rateVars PROVE RateInv'
  OBVIOUS
<1>0. /\ MaxRate \in Nat /\ Minute \in Nat /\ Minute > 0 /\ StaleAfter \in Nat
      /\ Minute <= StaleAfter /\ MaxRate * Minute \in Nat
  BY RateAssumption
<1> USE DEF RateInv
<1>1. ASSUME NEW s \in Names, NEW rpm \in Rates, check_rate_limit(s, rpm) PROVE RateInv'
  <2>1. /\ Refilled(s, rpm) \in Bucket
        /\ Refilled(s, rpm).known /\ Refilled(s, rpm).last_refill = clock
        /\ Refilled(s, rpm).tokens <= MaxRate * Minute
        /\ buckets[s].known =>
             Refilled(s, rpm).tokens <= buckets[s].tokens + (clock - buckets[s].last_refill) * MaxRate
    BY RefilledBounds
  <2> DEFINE r == Refilled(s, rpm)
  <2>2. /\ UNCHANGED <<clock, saved, started>>
        /\ buckets' = [buckets EXCEPT ![s] = IF r.tokens >= Minute THEN [r EXCEPT !.tokens = @ - Minute] ELSE r]
        /\ granted' = [granted EXCEPT ![s] = IF r.tokens >= Minute THEN @ + 1 ELSE @]
    BY <1>1 DEF check_rate_limit, Allowed
  <2>3. /\ r \in Bucket /\ r.known /\ r.last_refill = clock /\ r.tokens <= MaxRate * Minute
        /\ buckets[s].known => r.tokens <= buckets[s].tokens + (clock - buckets[s].last_refill) * MaxRate
    BY <2>1
  <2> HIDE DEF r
  <2>4. RateTypeOK'
    BY <1>0, <2>2, <2>3 DEF RateTypeOK, Bucket
  <2>5. granted[s] * Minute + r.tokens <= MaxRate * Minute + (clock - started) * MaxRate
    <3>0. /\ clock \in Nat /\ started \in Nat /\ started <= clock /\ granted[s] \in Nat
          /\ buckets[s] \in Bucket /\ buckets[s].last_refill <= clock /\ r.tokens \in Nat
      BY <2>3 DEF RateTypeOK, Bucket
    <3>1. CASE ~buckets[s].known
      BY <1>0, <2>3, <3>0, <3>1 DEF BucketBounded
    <3>2. CASE buckets[s].known /\ buckets[s].last_refill < started
      <4>1. granted[s] * Minute = 0 /\ (clock - started) * MaxRate >= 0
        BY <1>0, <3>0, <3>2 DEF BucketBounded
      <4> QED
        BY <1>0, <2>3, <3>0, <4>1
    <3>3. CASE buckets[s].known /\ ~(buckets[s].last_refill < started)
      <4> DEFINE l == buckets[s].last_refill
                 t == buckets[s].tokens
                 g == granted[s] * Minute
      <4>1. g + t <= MaxRate * Minute + (l - started) * MaxRate
        BY <3>3 DEF BucketBounded
      <4>2. r.tokens <= t + (clock - l) * MaxRate
        BY <2>3, <3>3
      <4>3. (clock - started) * MaxRate = (clock - l) * MaxRate + (l - started) * MaxRate
        <5>1. l \in Nat
          BY <3>0 DEF Bucket
        <5> HIDE DEF l
        <5>2. clock - l \in Int /\ l - started \in Int /\ clock - started = (clock - l) + (l - started)
          BY <3>0, <5>1
        <5> QED
          BY <1>0, <5>2, TimesSplit
      <4>4. /\ g \in Nat /\ t \in Nat /\ l \in Nat /\ (clock - l) * MaxRate \in Int
            /\ (l - started) * MaxRate \in Int
        BY <1>0, <3>0 DEF Bucket
      <4> HIDE DEF l, t, g
      <4>5. g + r.tokens <= MaxRate * Minute + (clock - started) * MaxRate
        BY <1>0, <3>0, <4>1, <4>2, <4>3, <4>4
      <4> QED
        BY <4>5 DEF g
    <3> QED
      BY <3>1, <3>2, <3>3
  <2>6. BucketBounded(s)'
    <3>0. /\ clock \in Nat /\ started \in Nat /\ started <= clock /\ granted[s] \in Nat
          /\ s \in DOMAIN buckets /\ s \in DOMAIN granted /\ r.tokens \in Nat
      BY <2>3 DEF RateTypeOK, Bucket
    <3>1. CASE r.tokens >= Minute
      <4>1. /\ buckets'[s].known /\ buckets'[s].last_refill = clock
            /\ buckets'[s].tokens = r.tokens - Minute /\ granted'[s] = granted[s] + 1
        BY <2>2, <2>3, <3>0, <3>1 DEF Bucket
      <4>2. (granted[s] + 1) * Minute = granted[s] * Minute + Minute
        BY <1>0, <3>0
      <4>3. /\ granted[s] * Minute \in Nat /\ (clock - started) * MaxRate \in Int
        BY <1>0, <3>0
      <4>4. granted'[s] * Minute + buckets'[s].tokens <= MaxRate * Minute + (clock - started) * MaxRate
        BY <1>0, <2>5, <3>0, <4>1, <4>2, <4>3
      <4> QED
        BY <2>2, <3>0, <4>1, <4>4 DEF BucketBounded
    <3>2. CASE ~(r.tokens >= Minute)
      <4>1. buckets'[s] = r /\ granted'[s] = granted[s]
        BY <2>2, <3>0, <3>2
      <4> QED
        BY <2>2, <2>3, <2>5, <3>0, <4>1 DEF BucketBounded
    <3> QED
      BY <3>1, <3>2
  <2>7. ASSUME NEW o \in Names, o # s PROVE BucketBounded(o)'
    <3>1. buckets'[o] = buckets[o] /\ granted'[o] = granted[o]
      BY <2>2, <2>7 DEF RateTypeOK
    <3> QED
      BY <2>2, <3>1 DEF BucketBounded
  <2> QED
    BY <2>4, <2>6, <2>7
<1>2. CASE Maintain
  <2>0. /\ NoBucket \in Bucket /\ ~NoBucket.known /\ NoBucket.tokens = 0 /\ NoBucket.last_refill = 0
    BY DEF NoBucket, Bucket
  <2>1. RateTypeOK'
    <3>1. /\ cleanup_stale_entries \in [Names -> Bucket]
          /\ \A s \in Names : cleanup_stale_entries[s] \in {buckets[s], NoBucket}
      BY <2>0 DEF cleanup_stale_entries, RateTypeOK
    <3>2. /\ buckets' = cleanup_stale_entries /\ saved' \in {cleanup_stale_entries, saved}
          /\ UNCHANGED <<clock, started, granted>>
      BY <1>2 DEF Maintain, save_state
    <3> HIDE DEF cleanup_stale_entries
    <3> QED
      BY <1>0, <2>0, <3>1, <3>2 DEF RateTypeOK
  <2>2. ASSUME NEW s \in Names PROVE BucketBounded(s)'
    <3>0. /\ clock \in Nat /\ started \in Nat /\ started <= clock /\ granted[s] \in Nat
          /\ buckets[s] \in Bucket /\ buckets[s].last_refill <= clock
      BY DEF RateTypeOK, Bucket
    <3>1. CASE buckets[s].known /\ Stale(buckets[s])
      <4> DEFINE l == buckets[s].last_refill
                 g == granted[s] * Minute
      <4>1. ~buckets'[s].known /\ granted' = granted /\ clock' = clock /\ started' = started
        BY <1>2, <3>1 DEF Maintain, cleanup_stale_entries, NoBucket
      <4>2. l \in Nat /\ g \in Nat /\ clock - l \in Nat /\ Minute <= clock - l /\ buckets[s].tokens \in Nat
        BY <1>0, <3>0, <3>1 DEF Stale, Bucket
      <4>3. MaxRate * Minute <= MaxRate * (clock - l) /\ MaxRate * (clock - l) = (clock - l) * MaxRate
        <5> HIDE DEF l
        <5> DEFINE d == clock - l
        <5>1. d \in Nat /\ Minute <= d
          BY <4>2
        <5> HIDE DEF d
        <5>2. MaxRate * Minute <= MaxRate * d /\ MaxRate * d = d * MaxRate
          BY <1>0, <5>1, TimesMonotone
        <5> QED
          BY <5>2 DEF d
      <4>4. g <= (clock - started) * MaxRate
        <5>1. CASE l < started
          <6>1. g = 0
            BY <1>0, <3>1, <5>1 DEF BucketBounded
          <6>2. (clock - started) * MaxRate >= 0
            BY <1>0, <3>0
          <6> QED
            BY <6>1, <6>2
        <5>2. CASE ~(l < started)
          <6>1. g + buckets[s].tokens <= MaxRate * Minute + (l - started) * MaxRate
            BY <3>1, <5>2 DEF BucketBounded
          <6>2. (clock - started) * MaxRate = (clock - l) * MaxRate + (l - started) * MaxRate
            <7> HIDE DEF l
            <7>1. clock - l \in Int /\ l - started \in Int /\ clock - started = (clock - l) + (l - started)
              BY <3>0, <4>2
            <7> QED
              BY <1>0, <7>1, TimesSplit
          <6>3. (clock - l) * MaxRate \in Int /\ (l - started) * MaxRate \in Int
            BY <1>0, <3>0, <4>2
          <6> HIDE DEF l, g
          <6> QED
            BY <1>0, <3>0, <4>2, <4>3, <6>1, <6>2, <6>3
        <5> QED
          BY <5>1, <5>2
      <4> QED
        BY <4>1, <4>4 DEF BucketBounded
    <3>2. CASE ~(buckets[s].known /\ Stale(buckets[s]))
      <4>1. buckets'[s] = buckets[s] /\ granted' = granted /\ clock' = clock /\ started' = started
        BY <1>2, <3>2 DEF Maintain, cleanup_stale_entries
      <4> QED
        BY <4>1 DEF BucketBounded
    <3> QED
      BY <3>1, <3>2
  <2> QED
    BY <2>1, <2>2
<1>3. CASE restore_state
  <2>0. /\ NoBucket \in Bucket /\ ~NoBucket.known /\ NoBucket.tokens = 0 /\ NoBucket.last_refill = 0
    BY DEF NoBucket, Bucket
  <2>1. RateTypeOK'
    <3>1. /\ buckets' \in [Names -> Bucket]
          /\ \A s \in Names : buckets'[s] \in {saved[s], NoBucket}
      BY <1>3, <2>0 DEF restore_state, RateTypeOK
    <3>2. /\ clock' = clock /\ saved' = saved /\ started' = clock /\ granted' = [s \in Names |-> 0]
      BY <1>3 DEF restore_state
    <3> QED
      BY <1>0, <2>0, <3>1, <3>2 DEF RateTypeOK
  <2>2. ASSUME NEW s \in Names PROVE BucketBounded(s)'
    <3>1. /\ granted'[s] = 0 /\ started' = clock /\ clock' = clock /\ clock \in Nat
          /\ buckets'[s] = saved[s] \/ ~buckets'[s].known
          /\ saved[s] \in Bucket /\ saved[s].last_refill <= clock /\ saved[s].tokens <= MaxRate * Minute
      BY <1>3, <2>0 DEF restore_state, RateTypeOK
    <3>2. 0 * Minute = 0 /\ (clock - clock) * MaxRate = 0
      BY <1>0, <3>1
    <3>3. CASE ~buckets'[s].known
      BY <3>1, <3>2, <3>3 DEF BucketBounded
    <3>4. CASE buckets'[s] = saved[s] /\ saved[s].last_refill < clock
      BY <1>0, <3>1, <3>2, <3>4 DEF BucketBounded
    <3>5. CASE buckets'[s] = saved[s] /\ saved[s].last_refill = clock
      <4>1. saved[s].tokens \in Nat
        BY <3>1 DEF Bucket
      <4>2. granted'[s] * Minute + buckets'[s].tokens
              <= MaxRate * Minute + (buckets'[s].last_refill - started') * MaxRate
        BY <1>0, <3>1, <3>2, <3>5, <4>1
      <4>3. ~(buckets'[s].last_refill < started')
        BY <3>1, <3>5
      <4> QED
        BY <3>1, <3>3, <4>2, <4>3 DEF BucketBounded
    <3> QED
      BY <3>1, <3>3, <3>4, <3>5 DEF Bucket
  <2> QED
    BY <2>1, <2>2
<1>4. CASE ClockTick
  <2>1. RateTypeOK'
    BY <1>4 DEF ClockTick, RateTypeOK, Bucket
  <2>2. ASSUME NEW s \in Names PROVE BucketBounded(s)'
    <3>1. /\ clock' = clock + 1 /\ UNCHANGED <<buckets, started, granted>>
          /\ clock \in Nat /\ started \in Nat /\ started <= clock /\ granted[s] \in Nat
      BY <1>4 DEF ClockTick, RateTypeOK
    <3>2. (clock - started) * MaxRate <= (clock + 1 - started) * MaxRate
      <4> DEFINE d == clock - started
      <4>1. d \in Nat /\ clock + 1 - started = d + 1
        BY <3>1
      <4> HIDE DEF d
      <4>2. (d + 1) * MaxRate = d * MaxRate + MaxRate /\ d * MaxRate \in Nat
        BY <1>0, <4>1
      <4>3. d * MaxRate <= (d + 1) * MaxRate
        BY <1>0, <4>2
      <4> QED
        BY <4>1, <4>3 DEF d
    <3>3. /\ granted[s] * Minute \in Nat /\ (clock - started) * MaxRate \in Int
          /\ (clock + 1 - started) * MaxRate \in Int
      BY <1>0, <3>1
    <3> QED
      BY <3>1, <3>2, <3>3 DEF BucketBounded
  <2> QED
    BY <2>1, <2>2
<1>5. CASE UNCHANGED rateVars
  <2>1. RateTypeOK'
    BY <1>5 DEF rateVars, RateTypeOK
  <2>2. \A s \in Names : BucketBounded(s)'
    BY <1>5 DEF rateVars, BucketBounded
  <2> QED
    BY <2>1, <2>2
<1> QED
  BY <1>1, <1>2, <1>3, <1>4, <1>5 DEF RateNext

(* The bound follows: the tokens a bucket still holds only strengthen it.   *)
LEMMA RateInvBounds ==
  RateInv => RateBounded
<1> SUFFICES ASSUME RateInv, NEW s \in Names
             PROVE  granted[s] * Minute <= MaxRate * Minute + (clock - started) * MaxRate
  BY DEF RateBounded
<1>0. /\ MaxRate \in Nat /\ Minute \in Nat /\ MaxRate * Minute \in Nat
      /\ clock \in Nat /\ started \in Nat /\ started <= clock /\ granted[s] \in Nat
      /\ buckets[s] \in Bucket /\ buckets[s].last_refill <= clock /\ BucketBounded(s)
  BY RateAssumption DEF RateInv, RateTypeOK
<1>1. (clock - started) * MaxRate \in Nat /\ granted[s] * Minute \in Nat
  BY <1>0
<1>2. CASE ~buckets[s].known
  BY <1>0, <1>1, <1>2 DEF BucketBounded
<1>3. CASE buckets[s].known /\ buckets[s].last_refill < started
  <2>1. granted[s] * Minute = 0
    BY <1>0, <1>3 DEF BucketBounded
  <2> QED
    BY <1>0, <1>1, <2>1
<1>4. CASE buckets[s].known /\ ~(buckets[s].last_refill < started)
  <2> DEFINE a == buckets[s].last_refill - started
             b == clock - started
  <2>1. a \in Nat /\ b \in Nat /\ a <= b
    BY <1>0, <1>4 DEF Bucket
  <2>2. granted[s] * Minute + buckets[s].tokens <= MaxRate * Minute + a * MaxRate
    BY <1>0, <1>4 DEF BucketBounded
  <2>3. a * MaxRate <= b * MaxRate /\ a * MaxRate \in Nat /\ b * MaxRate \in Nat
    <3> HIDE DEF a, b
    <3>1. MaxRate * a <= MaxRate * b
      BY <1>0, <2>1, TimesMonotone
    <3> QED
      BY <1>0, <2>1, <3>1
  <2>4. buckets[s].tokens \in Nat
    BY <1>0 DEF Bucket
  <2> HIDE DEF a
  <2>5. granted[s] * Minute <= MaxRate * Minute + b * MaxRate
    <3> HIDE DEF b
    <3> QED
      BY <1>0, <1>1, <2>2, <2>3, <2>4
  <2> QED
    BY <2>5
<1> QED
  BY <1>2, <1>3, <1>4

(* Full buckets, and nobody let through. *)
LEMMA RateStart ==
  RateInit => RateInv
<1> SUFFICES ASSUME RateInit PROVE RateInv
  OBVIOUS
<1>1. MaxRate \in Nat /\ Minute \in Nat /\ MaxRate * Minute \in Nat
  BY RateAssumption
<1>2. RateTypeOK
  BY <1>1 DEF RateInit, RateTypeOK, NoBucket, Bucket
<1>3. 0 * Minute = 0 /\ (0 - 0) * MaxRate = 0
  BY <1>1
<1>4. ASSUME NEW s \in Names PROVE BucketBounded(s)
  <2>1. ~buckets[s].known /\ granted[s] = 0 /\ clock = 0 /\ started = 0
    BY DEF RateInit, NoBucket
  <2> QED
    BY <1>3, <2>1 DEF BucketBounded
<1> QED
  BY <1>2, <1>4 DEF RateInv

(* For every set of subjects and rates, a subject is let through no more    *)
(* often than check_rate_limit's bucket and its refill allow, whatever      *)
(* cleanup_stale_entries, save_state and restore_state do in between.       *)
THEOREM RateLimitHolds == RateSpec => []RateBounded
  BY RateStart, RateInvInductive, RateInvBounds, PTL DEF RateSpec

-----------------------------------------------------------------------------
(* The tasks of the brain.  A job is a record whose argument depends on     *)
(* what it is for; its id is given to no other.                             *)

JobFields == {"id", "kind", "arg", "st", "old"}
IsJob(j) == j = [f \in JobFields |-> j[f]]

JobsOK ==
  /\ next \in Nat
  /\ \A j \in jobs : IsJob(j) /\ j.id \in Nat /\ j.id < next
  /\ \A j, k \in jobs : j.id = k.id => j = k

(* A task that ends, or one that only changes its own variables. *)
Steps(j, k) == jobs' = (jobs \ {j}) \cup {k} /\ IsJob(k) /\ k.id = j.id /\ k.kind = j.kind /\ k.arg = j.arg
Moves(j) == Ends(j) \/ \E k : Steps(j, k)

(* A new job is one, with the next id. *)
LEMMA SpawnMakesJob ==
  ASSUME NEW kind, NEW arg
  PROVE  /\ IsJob(Job(kind, arg)) /\ Job(kind, arg).id = next /\ Job(kind, arg).kind = kind
         /\ Job(kind, arg).arg = arg /\ Job(kind, arg).st = "start"
  BY DEF IsJob, JobFields, Job

(* Changing where a task is leaves the rest of it. *)
LEMMA GoesSteps ==
  ASSUME JobsOK, NEW j \in jobs, NEW st, Goes(j, st)
  PROVE  \E k : Steps(j, k) /\ k.st = st /\ k.old = j.old
<1> DEFINE k == [j EXCEPT !.st = st]
<1>1. IsJob(j)
  BY DEF JobsOK
<1>2. IsJob(k) /\ k.id = j.id /\ k.kind = j.kind /\ k.arg = j.arg /\ k.st = st /\ k.old = j.old
  BY <1>1 DEF IsJob, JobFields
<1>3. jobs' = (jobs \ {j}) \cup {k}
  BY DEF Goes
<1> HIDE DEF k
<1> QED
  BY <1>2, <1>3 DEF Steps

(* A spawned task gets an id of its own. *)
LEMMA SpawnKeepsJobs ==
  ASSUME JobsOK, NEW kind, NEW arg, Spawn(kind, arg)
  PROVE  JobsOK'
<1> PICK k : k = Job(kind, arg)
  OBVIOUS
<1>1. IsJob(k) /\ k.id = next /\ jobs' = jobs \cup {k} /\ next' = next + 1
  BY SpawnMakesJob DEF Spawn
<1> QED
  BY <1>1 DEF JobsOK, IsJob

(* Ids stay unique when a task moves on or ends. *)
LEMMA MovesKeepsJobs ==
  ASSUME JobsOK, NEW j \in jobs, Moves(j), next' = next
  PROVE  JobsOK'
<1>1. CASE Ends(j)
  BY <1>1 DEF JobsOK, IsJob, Ends
<1>2. CASE \E k : Steps(j, k)
  <2> PICK k : Steps(j, k)
    BY <1>2
  <2> QED
    BY DEF JobsOK, Steps, IsJob
<1> QED
  BY <1>1, <1>2 DEF Moves

-----------------------------------------------------------------------------
(* The facts.  A fact has the id of the task that made it; a task that is   *)
(* about to supersede one has read it as a fact of its own subject.         *)

FactFields == {"key", "subj", "val", "source", "by", "times", "asked"}
DbFields == {"content", "entities", "facts", "edges", "tasks", "unwritten"}
IsFact(f) == f = [x \in FactFields |-> f[x]]
IsDb == db = [x \in DbFields |-> db[x]]

OldRead(j) == \E f \in db.facts : f.key = j.old /\ f.subj = j.arg.subj
NotWritten(j) == \A f \in db.facts : f.key # j.id

FactsOK ==
  /\ IsDb
  /\ \A f \in db.facts : IsFact(f) /\ f.key \in Nat /\ f.key < next
  /\ \A f, g \in db.facts : f.key = g.key => f = g
  /\ \A j \in jobs : j.kind = "fact" /\ j.st \in {"supersede", "reinforce", "link"} => OldRead(j)
  /\ \A j \in jobs : j.kind = "fact" /\ j.st # "derive" => NotWritten(j)

(* A subject is served if it has a current fact or is about to. *)
Served(subj) ==
  \/ get_facts(subj) # {}
  \/ \E j \in jobs : j.kind = "fact" /\ j.arg.subj = subj /\ j.st \in {"link", "insert"}
  \/ db.unwritten # {}

FactInv == JobsOK /\ FactsOK /\ CurrentFactRemains

(* The property, subject by subject. *)
LEMMA ServedFacts == CurrentFactRemains <=> \A f \in db.facts : Served(f.subj)
  BY DEF CurrentFactRemains, Served

(* A step that leaves the facts alone and at most begins a task. *)
LEMMA SpawnKeepsFacts ==
  ASSUME FactInv, NEW kind, NEW arg, Spawn(kind, arg), db' = db
  PROVE  FactInv'
<1> PICK k : k = Job(kind, arg)
  OBVIOUS
<1>1. IsJob(k) /\ k.id = next /\ k.st = "start" /\ jobs' = jobs \cup {k} /\ next' = next + 1
  BY SpawnMakesJob DEF Spawn
<1>2. JobsOK' /\ next \in Nat
  BY SpawnKeepsJobs DEF FactInv, JobsOK
<1>3. FactsOK'
  <2>1. IsDb'
    BY DEF FactInv, FactsOK, IsDb
  <2>2. \A f \in db'.facts : IsFact(f) /\ f.key \in Nat /\ f.key < next'
    BY <1>1, <1>2 DEF FactInv, FactsOK
  <2>3. \A f, g \in db'.facts : f.key = g.key => f = g
    BY DEF FactInv, FactsOK
  <2>4. \A j \in jobs' : j.kind = "fact" /\ j.st \in {"supersede", "reinforce", "link"} => OldRead(j)'
    BY <1>1 DEF FactInv, FactsOK, OldRead
  <2>5. \A f \in db.facts : f.key # k.id
    BY <1>1, <1>2 DEF FactInv, FactsOK
  <2>6. \A j \in jobs' : j.kind = "fact" /\ j.st # "derive" => NotWritten(j)'
    BY <1>1, <2>5 DEF FactInv, FactsOK, NotWritten
  <2> QED
    BY <2>1, <2>2, <2>3, <2>4, <2>6 DEF FactsOK
<1>4. CurrentFactRemains'
  BY <1>1 DEF FactInv, CurrentFactRemains, get_facts, Current
<1> QED
  BY <1>2, <1>3, <1>4 DEF FactInv

(* A task of another kind that moves on or ends. *)
LEMMA OthersKeepFacts ==
  ASSUME FactInv, NEW j \in jobs, j.kind # "fact", Moves(j), next' = next,
         IsDb', db'.facts = db.facts, db'.unwritten = db.unwritten
  PROVE  FactInv'
<1>1. JobsOK'
  BY MovesKeepsJobs DEF FactInv
<1>2. \A k \in jobs' : k.kind = "fact" => k \in jobs
  BY DEF Moves, Steps, Ends
<1>3. \A k \in jobs : k.kind = "fact" => k \in jobs'
  BY DEF Moves, Steps, Ends
<1>4. FactsOK'
  BY <1>2 DEF FactInv, FactsOK, OldRead, NotWritten
<1>5. CurrentFactRemains'
  BY <1>3 DEF FactInv, CurrentFactRemains, get_facts, Current
<1> QED
  BY <1>1, <1>4, <1>5 DEF FactInv

(* A task for a fact that moves on, or ends, without touching the facts:    *)
(* it does not leave the steps between superseding and inserting.           *)
LEMMA FactMoveKeepsFacts ==
  ASSUME FactInv, NEW j \in jobs, j.kind = "fact", next' = next,
         IsDb', db'.facts = db.facts, db'.unwritten = db.unwritten,
         NEW k, Steps(j, k), k.st # "derive", j.st # "derive",
         k.st \in {"supersede", "reinforce", "link"} => OldRead(k),
         j.st \in {"link", "insert"} => k.st \in {"link", "insert"}
  PROVE  FactInv'
<1>1. JobsOK'
  BY MovesKeepsJobs DEF FactInv, Moves
<1>2. jobs' = (jobs \ {j}) \cup {k} /\ k.id = j.id /\ k.kind = "fact" /\ k.arg = j.arg
  BY DEF Steps
<1>3. FactsOK'
  BY <1>2 DEF FactInv, FactsOK, OldRead, NotWritten
<1>4. CurrentFactRemains'
  BY <1>2 DEF FactInv, CurrentFactRemains, get_facts, Current
<1> QED
  BY <1>1, <1>3, <1>4 DEF FactInv

(* The same of one that ends. *)
LEMMA FactEndKeepsFacts ==
  ASSUME FactInv, NEW j \in jobs, j.kind = "fact", next' = next,
         IsDb', db'.facts = db.facts, db'.unwritten = db.unwritten,
         Ends(j), j.st \notin {"link", "insert"}
  PROVE  FactInv'
<1>1. JobsOK'
  BY MovesKeepsJobs DEF FactInv, Moves
<1>2. jobs' = jobs \ {j}
  BY DEF Ends
<1>3. FactsOK'
  BY <1>2 DEF FactInv, FactsOK, OldRead, NotWritten
<1>4. CurrentFactRemains'
  BY <1>2 DEF FactInv, CurrentFactRemains, get_facts, Current
<1> QED
  BY <1>1, <1>3, <1>4 DEF FactInv

(* The new fact of a task that inserts it is current. *)
LEMMA InsertKeepsFacts ==
  ASSUME FactInv, NEW j \in jobs, FactInsert(j)
  PROVE  FactInv'
<1>0. /\ j.kind = "fact" /\ j.st = "insert" /\ next' = next
  BY DEF FactInsert, At
<1>1. JobsOK /\ JobsOK'
  <2>1. Moves(j)
    BY GoesSteps DEF FactInsert, Moves, FactInv
  <2> QED
    BY <1>0, <2>1, MovesKeepsJobs DEF FactInv
<1>2. CASE Goes(j, "derive")
  <2> PICK new : new = [key |-> j.id, subj |-> j.arg.subj, val |-> j.arg.val, by |-> 0,
                        source |-> j.arg.source, times |-> 0, asked |-> j.arg.asked]
    OBVIOUS
  <2>1. /\ IsFact(new) /\ new.key = j.id /\ new.subj = j.arg.subj /\ new.by = 0
    BY DEF FactFields, IsFact
  <2> PICK k : Steps(j, k) /\ k.st = "derive"
    BY <1>1, <1>2, GoesSteps
  <2>2. jobs' = (jobs \ {j}) \cup {k} /\ k.id = j.id
    BY DEF Steps
  <2>3. db' = [db EXCEPT !.facts = db.facts \cup {new}]
    <3>1. ~Ends(j)
      <4>1. k \in jobs' /\ k # j
        BY <2>2, <1>0
      <4>2. k \notin jobs
        BY <1>1, <2>2, <4>1 DEF JobsOK
      <4> QED
        BY <4>1, <4>2 DEF Ends
    <3> QED
      BY <3>1 DEF FactInsert
  <2>4. IsDb' /\ db'.facts = db.facts \cup {new} /\ db'.unwritten = db.unwritten
    BY <2>3 DEF FactInv, FactsOK, IsDb, DbFields
  <2>5. FactsOK'
    <3>1. j.id \in Nat /\ j.id < next /\ \A f \in db.facts : f.key # j.id
      BY <1>0, <1>1 DEF FactInv, FactsOK, NotWritten, JobsOK
    <3>2. \A f \in db'.facts : IsFact(f) /\ f.key \in Nat /\ f.key < next'
      BY <1>0, <2>1, <2>4, <3>1 DEF FactInv, FactsOK
    <3>3. \A f, g \in db'.facts : f.key = g.key => f = g
      BY <2>1, <2>4, <3>1 DEF FactInv, FactsOK
    <3>4. \A i \in jobs' : i.kind = "fact" /\ i.st \in {"supersede", "reinforce", "link"} => OldRead(i)'
      BY <2>2, <2>4 DEF FactInv, FactsOK, OldRead
    <3>5. \A i \in jobs \ {j} : i.id # j.id
      BY <1>1 DEF JobsOK
    <3>6. \A i \in jobs' : i.kind = "fact" /\ i.st # "derive" => NotWritten(i)'
      BY <2>1, <2>2, <2>4, <3>5 DEF FactInv, FactsOK, NotWritten
    <3> QED
      BY <2>4, <3>2, <3>3, <3>4, <3>6 DEF FactsOK
  <2>6. CurrentFactRemains'
    BY <2>1, <2>2, <2>4 DEF FactInv, CurrentFactRemains, get_facts, Current
  <2> QED
    BY <1>1, <2>5, <2>6 DEF FactInv
<1>3. CASE ~Goes(j, "derive")
  <2>1. db' = [db EXCEPT !.unwritten = db.unwritten \cup {j.id}] /\ jobs' = jobs \ {j}
    BY <1>3 DEF FactInsert, Ends
  <2>2. IsDb' /\ db'.facts = db.facts /\ db'.unwritten # {}
    BY <2>1 DEF FactInv, FactsOK, IsDb, DbFields
  <2>3. FactsOK'
    BY <1>0, <2>1, <2>2 DEF FactInv, FactsOK, OldRead, NotWritten
  <2>4. CurrentFactRemains'
    BY <2>2 DEF CurrentFactRemains
  <2> QED
    BY <1>1, <2>3, <2>4 DEF FactInv
<1> QED
  BY <1>2, <1>3

(* Each fact becomes what the function N makes of it. *)
BecomesFacts(N) ==
  /\ \A g \in db'.facts : \E f \in db.facts : g = N[f]
  /\ \A f \in db.facts : N[f] \in db'.facts

(* An update by key is one of each fact. *)
LEMMA UpdateOfFacts ==
  ASSUME FactsOK, NEW key, NEW new, db' = OnFact(key, new),
         NEW N, \A f \in db.facts : N[f] = IF f.key = key THEN new[f] ELSE f
  PROVE  IsDb' /\ db'.unwritten = db.unwritten /\ BecomesFacts(N)
<1> PICK F : F = {IF f.key = key THEN new[f] ELSE f : f \in db.facts}
  OBVIOUS
<1>1. db' = [db EXCEPT !.facts = F]
  BY DEF OnFact
<1>2. IsDb' /\ db'.unwritten = db.unwritten /\ db'.facts = F
  BY <1>1 DEF FactsOK, IsDb, DbFields
<1>3. (\A g \in F : \E f \in db.facts : g = N[f]) /\ (\A f \in db.facts : N[f] \in F)
  OBVIOUS
<1> QED
  BY <1>2, <1>3 DEF BecomesFacts

(* An update of the facts that leaves their keys and subjects, by a task    *)
(* that ends or goes on to link what it has superseded.                     *)
LEMMA UpdateKeepsFactsOK ==
  ASSUME FactInv, NEW j \in jobs, j.kind = "fact", j.st # "derive", next' = next, IsDb',
         NEW N, BecomesFacts(N),
         \A f \in db.facts : N[f].key = f.key /\ N[f].subj = f.subj /\ IsFact(N[f]),
         Ends(j) \/ \E k : Steps(j, k) /\ k.st = "link" /\ k.old = j.old /\ OldRead(j)
  PROVE  FactsOK'
<1>1. \A f \in db'.facts : IsFact(f) /\ f.key \in Nat /\ f.key < next'
  BY DEF FactInv, FactsOK, BecomesFacts
<1>2. \A f, g \in db'.facts : f.key = g.key => f = g
  BY DEF FactInv, FactsOK, BecomesFacts
<1>3. ASSUME NEW i \in jobs', i.kind = "fact"
      PROVE  /\ i.st \in {"supersede", "reinforce", "link"} => OldRead(i)'
             /\ i.st # "derive" => NotWritten(i)'
  <2>1. \E h \in jobs : /\ h.id = i.id /\ h.arg = i.arg /\ h.old = i.old /\ h.kind = "fact"
                        /\ i.st \in {"supersede", "reinforce", "link"} => OldRead(h)
                        /\ i.st # "derive" => NotWritten(h)
    <3>1. CASE i \in jobs
      BY <1>3, <3>1 DEF FactInv, FactsOK
    <3>2. CASE i \notin jobs
      <4>1. Steps(j, i) /\ i.old = j.old /\ OldRead(j) /\ i.st = "link"
        BY <3>2 DEF Ends, Steps
      <4> QED
        BY <4>1 DEF FactInv, FactsOK, Steps
    <3> QED
      BY <3>1, <3>2
  <2> QED
    BY <2>1 DEF OldRead, NotWritten, BecomesFacts
<1> QED
  BY <1>1, <1>2, <1>3 DEF FactsOK

(* A fact that is confirmed stays as current as it was. *)
LEMMA ReinforceKeepsFacts ==
  ASSUME FactInv, NEW j \in jobs, FactReinforce(j)
  PROVE  FactInv'
<1>4. FactsOK
  BY DEF FactInv
<1>0. j.kind = "fact" /\ j.st = "reinforce" /\ next' = next /\ Ends(j)
  BY DEF FactReinforce, FactUpserted, At
<1>1. CASE UNCHANGED db
  BY <1>0, <1>1, FactEndKeepsFacts DEF FactInv, FactsOK, IsDb
<1>2. CASE ~UNCHANGED db
  <2> DEFINE M == [f \in db.facts |-> IF f.key = j.old THEN [f EXCEPT !.times = @ + 1] ELSE f]
             new == [f \in db.facts |-> [f EXCEPT !.times = @ + 1]]
  <2>1. db' = OnFact(j.old, new)
    BY <1>2 DEF FactReinforce
  <2> PICK N : N = M
    OBVIOUS
  <2>9. \A f \in db.facts : N[f] = IF f.key = j.old THEN new[f] ELSE f
    OBVIOUS
  <2>2. IsDb' /\ db'.unwritten = db.unwritten /\ BecomesFacts(N)
    <3> HIDE DEF M, new
    <3> QED
      BY <1>4, <2>1, <2>9, UpdateOfFacts
  <2>3. ASSUME NEW f \in db.facts
        PROVE  N[f].key = f.key /\ N[f].subj = f.subj /\ N[f].by = f.by /\ IsFact(N[f])
    <3>1. IsFact(f)
      BY DEF FactInv, FactsOK
    <3> QED
      BY <3>1 DEF FactFields, IsFact
  <2> HIDE DEF M
  <2>4. FactsOK'
    BY <1>0, <2>2, <2>3, UpdateKeepsFactsOK
  <2>5. JobsOK'
    BY <1>0, MovesKeepsJobs DEF FactInv, Moves
  <2>6. CurrentFactRemains'
    <3>1. jobs' = jobs \ {j}
      BY <1>0 DEF Ends
    <3>2. ASSUME NEW f \in db.facts PROVE Served(N[f].subj)'
      <4>1. Served(f.subj) /\ N[f].subj = f.subj
        BY <2>3, ServedFacts DEF FactInv
      <4>2. get_facts(f.subj) # {} => get_facts(f.subj)' # {}
        <5> SUFFICES ASSUME NEW g \in get_facts(f.subj) PROVE get_facts(f.subj)' # {}
          OBVIOUS
        <5>1. g \in db.facts /\ N[g].subj = f.subj /\ N[g].by = 0
          BY <2>3 DEF get_facts, Current
        <5> QED
          BY <2>2, <5>1 DEF get_facts, Current, BecomesFacts
      <4>3. \A i \in jobs : i.kind = "fact" /\ i.st \in {"link", "insert"} => i \in jobs'
        BY <1>0, <3>1
      <4> QED
        BY <2>2, <4>1, <4>2, <4>3 DEF Served
    <3>3. \A f \in db'.facts : Served(f.subj)'
      BY <2>2, <3>2 DEF BecomesFacts
    <3> QED
      BY <3>3, ServedFacts DEF CurrentFactRemains, Served
  <2> QED
    BY <2>4, <2>5, <2>6 DEF FactInv
<1> QED
  BY <1>1, <1>2

(* A superseded fact is of the subject whose new fact is on its way. *)
LEMMA SupersedeKeepsFacts ==
  ASSUME FactInv, NEW j \in jobs, FactSupersede(j)
  PROVE  FactInv'
<1>4. FactsOK
  BY DEF FactInv
<1>0. j.kind = "fact" /\ j.st = "supersede" /\ next' = next /\ Goes(j, "link")
  BY DEF FactSupersede, At
<1> PICK k : Steps(j, k) /\ k.st = "link" /\ k.old = j.old
  BY <1>0, GoesSteps DEF FactInv
<1>1. OldRead(j) /\ OldRead(k)
  BY <1>0 DEF FactInv, FactsOK, OldRead, Steps
<1>2. CASE UNCHANGED db
  BY <1>0, <1>1, <1>2, FactMoveKeepsFacts DEF FactInv, FactsOK, IsDb
<1>3. CASE ~UNCHANGED db
  <2> DEFINE M == [f \in db.facts |-> IF f.key = j.old THEN [f EXCEPT !.by = j.id] ELSE f]
             new == [f \in db.facts |-> [f EXCEPT !.by = j.id]]
  <2>1. db' = OnFact(j.old, new)
    BY <1>3 DEF FactSupersede
  <2> PICK N : N = M
    OBVIOUS
  <2>9. \A f \in db.facts : N[f] = IF f.key = j.old THEN new[f] ELSE f
    OBVIOUS
  <2>2. IsDb' /\ db'.unwritten = db.unwritten /\ BecomesFacts(N)
    <3> HIDE DEF M, new
    <3> QED
      BY <1>4, <2>1, <2>9, UpdateOfFacts
  <2>3. ASSUME NEW f \in db.facts
        PROVE  /\ N[f].key = f.key /\ N[f].subj = f.subj /\ IsFact(N[f])
               /\ f.subj # j.arg.subj => N[f] = f
    <3>1. IsFact(f) /\ (f.key = j.old => f.subj = j.arg.subj)
      BY <1>1 DEF FactInv, FactsOK, OldRead
    <3> QED
      BY <3>1 DEF FactFields, IsFact
  <2> HIDE DEF M
  <2>4. FactsOK'
    BY <1>0, <1>1, <2>2, <2>3, UpdateKeepsFactsOK
  <2>5. JobsOK'
    BY <1>0, MovesKeepsJobs DEF FactInv, Moves
  <2>6. CurrentFactRemains'
    <3>1. jobs' = (jobs \ {j}) \cup {k} /\ k.kind = "fact" /\ k.arg = j.arg
      BY <1>0 DEF Steps
    <3>2. ASSUME NEW f \in db.facts PROVE Served(N[f].subj)'
      <4>1. CASE f.subj = j.arg.subj
        BY <2>3, <3>1, <4>1 DEF Served
      <4>2. CASE f.subj # j.arg.subj
        <5>1. Served(f.subj)
          BY ServedFacts DEF FactInv
        <5>2. get_facts(f.subj) # {} => get_facts(f.subj)' # {}
          <6> SUFFICES ASSUME NEW g \in get_facts(f.subj) PROVE get_facts(f.subj)' # {}
            OBVIOUS
          <6>1. g \in db.facts /\ g.subj = f.subj /\ g.by = 0 /\ N[g] = g
            BY <2>3, <4>2 DEF get_facts, Current
          <6> QED
            BY <2>2, <6>1 DEF get_facts, Current, BecomesFacts
        <5>3. N[f].subj = f.subj
          BY <2>3
        <5>4. \A i \in jobs : i.kind = "fact" /\ i.st \in {"link", "insert"} => i \in jobs'
          BY <1>0, <3>1
        <5> QED
          BY <2>2, <5>1, <5>2, <5>3, <5>4 DEF Served
      <4> QED
        BY <4>1, <4>2
    <3>3. \A f \in db'.facts : Served(f.subj)'
      BY <2>2, <3>2 DEF BecomesFacts
    <3> QED
      BY <3>3, ServedFacts DEF CurrentFactRemains, Served
  <2> QED
    BY <2>4, <2>5, <2>6 DEF FactInv
<1> QED
  BY <1>2, <1>3

(* What a task reads is a fact of its subject. *)
LEMMA ReadKeepsFacts ==
  ASSUME FactInv, NEW j \in jobs, FactRead(j)
  PROVE  FactInv'
<1>0. j.kind = "fact" /\ j.st = "start" /\ next' = next /\ db' = db
  BY DEF FactRead, At
<1>1. IsDb' /\ db'.facts = db.facts /\ db'.unwritten = db.unwritten
  BY <1>0 DEF FactInv, FactsOK, IsDb
<1>2. CASE Ends(j)
  BY <1>0, <1>1, <1>2, FactEndKeepsFacts
<1>3. CASE Goes(j, "insert")
  <2> PICK k : Steps(j, k) /\ k.st = "insert"
    BY <1>3, GoesSteps DEF FactInv
  <2> QED
    BY <1>0, <1>1, FactMoveKeepsFacts
<1>4. ASSUME NEW f \in Current(j.arg.subj),
             jobs' = (jobs \ {j}) \cup
               {[j EXCEPT !.old = f.key, !.st = IF f.val = j.arg.val THEN "reinforce" ELSE "supersede"]}
      PROVE  FactInv'
  <2> PICK st : st = IF f.val = j.arg.val THEN "reinforce" ELSE "supersede"
    OBVIOUS
  <2> DEFINE k == [j EXCEPT !.old = f.key, !.st = st]
  <2>1. IsJob(j)
    BY DEF FactInv, JobsOK
  <2>2. /\ IsJob(k) /\ k.id = j.id /\ k.kind = j.kind /\ k.arg = j.arg /\ k.st = st /\ k.old = f.key
    BY <2>1 DEF IsJob, JobFields
  <2>3. st \in {"reinforce", "supersede"} /\ jobs' = (jobs \ {j}) \cup {k}
    BY <1>4
  <2> HIDE DEF k
  <2>4. Steps(j, k) /\ OldRead(k)
    BY <2>2, <2>3 DEF Steps, OldRead, Current
  <2> QED
    BY <1>0, <1>1, <2>2, <2>3, <2>4, FactMoveKeepsFacts
<1> QED
  BY <1>2, <1>3, <1>4 DEF FactRead

(* The edges of a fact are no facts. *)
LEMMA EdgesKeepFacts ==
  ASSUME FactInv, NEW j \in jobs, FactLink(j) \/ FactDerive(j)
  PROVE  FactInv'
<1>1. j.kind = "fact" /\ next' = next
  BY DEF FactLink, FactDerive, At
<1>2. IsDb' /\ db'.facts = db.facts /\ db'.unwritten = db.unwritten
  <2>1. db' = db \/ \E edges : db' = [db EXCEPT !.edges = edges]
    BY DEF FactLink, FactDerive
  <2> QED
    BY <2>1 DEF FactInv, FactsOK, IsDb, DbFields
<1>3. CASE FactLink(j)
  <2>1. j.st = "link" /\ Goes(j, "insert")
    BY <1>3 DEF FactLink, At
  <2> PICK k : Steps(j, k) /\ k.st = "insert"
    BY <2>1, GoesSteps DEF FactInv
  <2> QED
    BY <1>1, <1>2, <2>1, FactMoveKeepsFacts
<1>4. CASE FactDerive(j)
  <2>1. j.st = "derive" /\ Ends(j)
    BY <1>4 DEF FactDerive, FactUpserted, At
  <2> QED
    BY <1>1, <1>2, <2>1, FactEndKeepsFacts
<1> QED
  BY <1>3, <1>4

(* The brain's other handlers write other collections. *)
LEMMA OtherHandlersKeepFacts ==
  ASSUME FactInv, NEW j \in jobs,
         \/ ContentInsert(j) \/ ContentEmbed(j) \/ EntityUpsert(j) \/ EntityMention(j)
         \/ detect_collection_id(j) \/ ScopeAssign(j) \/ TaskUpsert(j)
  PROVE  FactInv'
<1>1. j.kind # "fact" /\ next' = next
  BY DEF ContentInsert, ContentEmbed, EntityUpsert, EntityMention, detect_collection_id, ScopeAssign, TaskUpsert, At
<1>2. Ends(j) \/ \E st : Goes(j, st)
  BY DEF ContentInsert, ContentEmbed, EntityUpsert, EntityMention, detect_collection_id, ScopeAssign, TaskUpsert
<1>3. Moves(j)
  BY <1>2, GoesSteps DEF Moves, FactInv
<1>4. \/ db' = db
      \/ \E S : \/ db' = [db EXCEPT !.content = S] \/ db' = [db EXCEPT !.entities = S]
                \/ db' = [db EXCEPT !.edges = S] \/ db' = [db EXCEPT !.tasks = S]
  BY DEF ContentInsert, ContentEmbed, EntityUpsert, EntityMention, detect_collection_id, ScopeAssign, TaskUpsert
<1>5. IsDb' /\ db'.facts = db.facts /\ db'.unwritten = db.unwritten
  BY <1>4 DEF FactInv, FactsOK, IsDb, DbFields
<1> QED
  BY <1>1, <1>3, <1>5, OthersKeepFacts

(* Every step of a handler of the brain. *)
LEMMA BrainKeepsFacts ==
  ASSUME FactInv, NextBrain
  PROVE  FactInv'
  BY ReadKeepsFacts, EdgesKeepFacts, OtherHandlersKeepFacts, InsertKeepsFacts, ReinforceKeepsFacts,
     SupersedeKeepsFacts DEF NextBrain

-----------------------------------------------------------------------------
(* What the other steps of the system do to the brain's data: nothing, or   *)
(* they spawn a task, or they are steps of an account handler.              *)

Untouched == UNCHANGED <<db, jobs, next>>
Pipeline == {"content", "entity", "fact", "scope", "task"}
Spawned == db' = db /\ \E kind \in Pipeline : \E arg : Spawn(kind, arg)
OtherMoves == db' = db /\ next' = next /\ \E j \in jobs : j.kind \notin Pipeline /\ Moves(j)

(* The plugins of the pipeline. *)
LEMMA PluginsSpawn ==
  NextPlugin \/ Inbound \/ (\E i \in DOMAIN contexts : RouterAnswers(i)) => Untouched \/ Spawned
<1>1. Ingest => Untouched \/ Spawned
  BY DEF Ingest, Untouched, Spawned, Pipeline
<1>2. ASSUME NEW p, NEW kind \in Pipeline, PublishExtracted(p, kind) PROVE Untouched \/ Spawned
  BY <1>2 DEF PublishExtracted, Untouched, Spawned
<1>3. ASSUME NEW p, NEW texts, NEW lists, Extract(p, texts, lists) PROVE Untouched
  BY <1>3 DEF Extract, Untouched
<1>4. ExtractEntities \/ ExtractFacts \/ ClassifyScopes \/ DetectTasks => Untouched
  BY <1>3 DEF ExtractEntities, ExtractFacts, ClassifyScopes, DetectTasks
<1>5. PublishEntities \/ PublishFacts \/ PublishScopes \/ PublishTasks => Untouched \/ Spawned
  BY <1>2 DEF PublishEntities, PublishFacts, PublishScopes, PublishTasks, Pipeline
<1>6. TakeInbound \/ LoadSimilar \/ LoadTasks \/ LoadHistory \/ PublishContext => Untouched
  BY DEF TakeInbound, LoadSimilar, LoadTasks, LoadHistory, PublishContext, Loads, Untouched
<1>7. RememberAnswer \/ FindFeedback \/ Inbound \/ (\E i \in DOMAIN contexts : RouterAnswers(i)) => Untouched
  BY DEF RememberAnswer, FindFeedback, Inbound, RouterAnswers, Untouched
<1> QED
  BY <1>1, <1>4, <1>5, <1>6, <1>7 DEF NextPlugin, BoundedPlugin

(* The channels leave the brain alone. *)
LEMMA ChannelsUntouched ==
  ChannelStep => Untouched
<1>1. \A chat, edited : TelegramMessage(chat, edited) => Untouched
  BY DEF TelegramMessage, Untouched
<1>2. TerminalLine \/ PublishMail \/ MarkSeen \/ PublishEntry => Untouched
  BY DEF TerminalLine, PublishMail, MarkSeen, PublishEntry, Untouched
<1>3. PollMail \/ PollCalendar \/ (\E mail : MailArrives(mail) \/ EntryMade(mail)) => Untouched
  BY DEF PollMail, PollCalendar, MailArrives, EntryMade, knowledgeVars, brainVars, Untouched
<1>4. RouterAnswersInbound \/ RememberOrigin \/ RouteOrphan \/ handle_llm_response => Untouched
  BY DEF RouterAnswersInbound, RememberOrigin, RouteOrphan, RouteBy, handle_llm_response, Untouched
<1>5. TelegramShows \/ TerminalShows \/ MailSends => Untouched
  BY DEF TelegramShows, TerminalShows, MailSends, Shows, Untouched
<1> QED
  BY <1>1, <1>2, <1>3, <1>4, <1>5 DEF ChannelStep, RouteStep

(* The handlers of users, keys and plugin storage work on tasks of their own. *)
LEMMA AccountsMove ==
  ASSUME JobsOK, NextAccounts
  PROVE  OtherMoves
<1> USE DEF At, Pipeline
<1> PICK j \in jobs :
    \/ CheckUsername(j) \/ CreateUserScope(j) \/ InsertUser(j)
    \/ handle_user_get(j) \/ handle_user_list(j) \/ handle_user_update(j) \/ handle_user_delete(j)
    \/ handle_apikey_create(j) \/ handle_apikey_list(j) \/ handle_apikey_revoke(j)
    \/ FindKey(j) \/ NoteKeyUsed(j)
    \/ handle_get(j) \/ handle_set(j) \/ handle_delete(j) \/ handle_list(j)
  BY DEF NextAccounts
<1> DEFINE Goal == j.kind \notin Pipeline /\ db' = db /\ next' = next /\ (Ends(j) \/ \E st : Goes(j, st))
<1>1. CASE CheckUsername(j) \/ CreateUserScope(j) \/ InsertUser(j)
  <2>1. Goal
    BY <1>1 DEF CheckUsername, CreateUserScope, InsertUser
  <2> QED
    BY <2>1, GoesSteps DEF OtherMoves, Moves
<1>2. ASSUME NEW kind, NEW answer, kind \notin Pipeline, ReplyRead(j, kind, answer) PROVE Goal
  BY <1>2 DEF ReplyRead
<1>3. CASE handle_user_get(j) \/ handle_user_list(j) \/ handle_apikey_list(j)
  <2>1. Goal
    BY <1>2, <1>3 DEF handle_user_get, handle_user_list, handle_apikey_list
  <2> QED
    BY <2>1, GoesSteps DEF OtherMoves, Moves
<1>4. CASE handle_user_update(j) \/ handle_user_delete(j) \/ handle_apikey_create(j) \/ handle_apikey_revoke(j)
  <2>1. Goal
    BY <1>4 DEF handle_user_update, handle_user_delete, handle_apikey_create, handle_apikey_revoke
  <2> QED
    BY <2>1, GoesSteps DEF OtherMoves, Moves
<1>5. CASE FindKey(j) \/ NoteKeyUsed(j)
  <2>1. Goal
    BY <1>5 DEF FindKey, NoteKeyUsed
  <2> QED
    BY <2>1, GoesSteps DEF OtherMoves, Moves
<1>6. CASE handle_get(j) \/ handle_set(j) \/ handle_delete(j) \/ handle_list(j)
  <2>1. Goal
    BY <1>6 DEF handle_get, handle_set, handle_delete, handle_list, InTurn
  <2> QED
    BY <2>1, GoesSteps DEF OtherMoves, Moves
<1> QED
  BY <1>1, <1>3, <1>4, <1>5, <1>6

(* Faults are counted. *)
FaultStep == Fault \/ NoFault

(* The gateway's steps spawn and move tasks of other kinds, and leave the   *)
(* pipes alone.                                                             *)
Asked == db' = db /\ \E kind, arg : kind \notin Pipeline /\ Spawn(kind, arg)

(* A step of the gateway is one of those. *)
LEMMA GatewayFrame ==
  ASSUME JobsOK, GatewayStep
  PROVE  /\ Untouched \/ Asked \/ OtherMoves
         /\ queue' = queue /\ plugin' = plugin /\ FaultStep /\ UNCHANGED <<inbound, loader, contexts>>
<1> DEFINE Quiet == queue' = queue /\ plugin' = plugin /\ FaultStep /\ UNCHANGED <<inbound, loader, contexts>>
<1> USE DEF FaultStep
<1>1. ASSUME NEW c, NEW op, NEW kind, NEW arg, kind \notin Pipeline, Asks(c, op, kind, arg) PROVE Asked /\ Quiet
  BY <1>1 DEF Asks, Request, Asked, NoFault
<1>2. ASSUME NEW c, RespondsAtOnce(c) PROVE Untouched /\ Quiet
  BY <1>2 DEF RespondsAtOnce, knowledgeVars, brainVars, Untouched, NoFault
<1>3. ASSUME NEW c, Handler(c) PROVE (Untouched \/ Asked) /\ Quiet
  <2> USE DEF Pipeline
  <2> DEFINE Goal == (Untouched \/ Asked) /\ Quiet
  <2>1. ASSUME NEW op, NEW kind, NEW arg, kind \notin Pipeline, Asks(c, op, kind, arg) PROVE Goal
    BY <1>1, <2>1
  <2>2. RespondsAtOnce(c) \/ RespondsOnly(c) => Goal
    BY <1>2 DEF RespondsOnly
  <2> HIDE DEF Goal
  <2>3. ASSUME NEW x, register_handler(c, x) \/ PasswordLogin(c, "ada", x) \/ revoke_token_handler(c, x)
        PROVE  Goal
    BY <2>1, <2>2, <2>3 DEF register_handler, PasswordLogin, revoke_token_handler
  <2>4. ApiKeyToken(c) \/ get_audit_log(c) \/ get_my_profile(c) \/ update_my_profile(c) \/ list_users_handler(c) => Goal
    BY <2>1, <2>2 DEF ApiKeyToken, get_audit_log, get_my_profile, update_my_profile, list_users_handler
  <2>5. ASSUME NEW id, get_user_handler(c, id) \/ update_user_role_handler(c, id) \/ delete_user_handler(c, id)
        PROVE  Goal
    BY <2>1, <2>2, <2>5 DEF get_user_handler, update_user_role_handler, delete_user_handler
  <2>6. ASSUME NEW key, revoke_apikey_handler(c, key) PROVE Goal
    BY <2>1, <2>2, <2>6 DEF revoke_apikey_handler
  <2>7. create_apikey_handler(c) \/ list_apikeys_handler(c) => Goal
    BY <2>1, <2>2 DEF create_apikey_handler, list_apikeys_handler
  <2>8. storage_get(c) \/ storage_set(c) \/ storage_delete(c) \/ storage_list(c) \/ update_plugin_config(c) => Goal
    BY <2>1, <2>2 DEF storage_get, storage_set, storage_delete, storage_list, update_plugin_config
  <2>9. Goal
    BY <1>3, <2>3, <2>4, <2>5, <2>6, <2>7, <2>8 DEF Handler
  <2> QED
    BY <2>9 DEF Goal
<1>4. ASSUME NEW c, NEW cred, auth_rate_limit_middleware(c, cred) PROVE Untouched /\ Quiet
  BY <1>4 DEF auth_rate_limit_middleware, knowledgeVars, brainVars, Untouched, NoFault
<1>5. ASSUME NEW c, Answered(c) \/ TimesOut(c) PROVE Untouched /\ Quiet
  BY <1>5 DEF Answered, TimesOut, knowledgeVars, brainVars, Untouched, NoFault
<1>6. CASE AccountStep
  <2>1. queue' = queue /\ FaultStep
    BY <1>6 DEF AccountStep, NextAccounts, CheckUsername, CreateUserScope, InsertUser, ReplyRead, handle_user_get,
       handle_user_list, handle_user_update, handle_user_delete, handle_apikey_create, handle_apikey_list,
       handle_apikey_revoke, FindKey, NoteKeyUsed, handle_get, handle_set, handle_delete, handle_list, InTurn, NoFault
  <2> QED
    BY <1>6, <2>1, AccountsMove DEF AccountStep
<1>7. ASSUME NEW key, ValidateRequested(key) PROVE Asked /\ Quiet
  BY <1>7 DEF ValidateRequested, Asked, Pipeline, NoFault
<1>8. RateMaintenance \/ TimePasses \/ Restart => Untouched /\ Quiet
  BY DEF RateMaintenance, TimePasses, Restart, knowledgeVars, brainVars, Untouched, NoFault
<1>9. JwtMaintenance => Untouched /\ Quiet
  BY DEF JwtMaintenance, save_revocations, Untouched
<1> QED
  BY <1>3, <1>4, <1>5, <1>6, <1>7, <1>8, <1>9 DEF GatewayStep

-----------------------------------------------------------------------------
(* The accounts.  A request that waits knows the task that works for it,    *)
(* and what it is told is true: the reply of that task, if there is one,    *)
(* acknowledges a change that is in force.                                  *)

UserNames == {"ada", "bob"}
User == [id : Int, name : UserNames, password : Nat, role : {"user", "admin"}, status : {"active", "deleted"}]
Key == [id : Int, user : Int, revoked : BOOLEAN, used : BOOLEAN]
Answer == [ok : BOOLEAN, id : Int, user : User \cup {NoUser}]
Who == [subject : Names, role : {"user", "admin"}, user : Int]

ClientFields == {"st", "who", "op", "arg", "job"}
IsClient(h) ==
  /\ h = [f \in ClientFields |-> h[f]]
  /\ h.st \in {"idle", "accepted", "asked"} /\ h.who \in Who \cup {Nobody}

AccountTypeOK ==
  /\ users \subseteq User /\ api_keys \subseteq Key
  /\ \A id \in DOMAIN calls : calls[id] \in Seq(Answer)
  /\ http = [c \in Clients |-> http[c]] /\ \A c \in Clients : IsClient(http[c])
  /\ \A t \in tokens : t.who \in Who
  /\ requests \in Nat /\ load \in GatewayLoads

NamesUnique == \A u, v \in users : u.name = v.name => u = v

(* What the handlers of a task rely on. *)
ArgOK(kind, arg) ==
  /\ kind = "user_create" => arg.name \in UserNames /\ arg.password \in Nat
  /\ kind = "user_update" => \/ \E n \in Nat \ {0} : arg.with = [password |-> n]
                             \/ arg.with = [role |-> "admin"]
  /\ kind = "apikey_create" => arg.id \in Int

JobArgsOK == \A j \in jobs : ArgOK(j.kind, j.arg)

(* The task a request is answered by. *)
Question(op, kind, arg) ==
  /\ ArgOK(kind, arg)
  /\ op = "user.registered" => kind = "user_create"
  /\ op = "profile" => kind = "user_update" /\ \E n \in Nat \ {0} : arg.with = [password |-> n]
  /\ op = "user.role_updated" => kind = "user_update" /\ arg.with = [role |-> "admin"]
  /\ op = "user.deleted" => kind = "user_delete"
  /\ op = "apikey.created" => kind = "apikey_create"
  /\ op = "apikey.revoked" => kind = "apikey_revoke"

TrueReply(op, arg, r) == r.ok => \A t \in Acknowledged(op, arg, r.id) : Honoured(t)

Waits(c) == http[c].st = "asked"

RequestOK(h) ==
  /\ h.job \in DOMAIN calls /\ h.job \in Nat /\ h.job < next
  /\ \A j \in jobs : j.id = h.job => Question(h.op, j.kind, j.arg) /\ j.arg = h.arg
  /\ calls[h.job] # <<>> => TrueReply(h.op, h.arg, Head(calls[h.job]))

RequestsOK ==
  /\ \A c \in Clients : http[c].st # "idle" => requests > 0
  /\ \A c \in Clients : Waits(c) => RequestOK(http[c])
  /\ \A c, d \in Clients : Waits(c) /\ Waits(d) /\ http[c].job = http[d].job => c = d

AccountInv == JobsOK /\ AccountTypeOK /\ NamesUnique /\ JobArgsOK /\ RequestsOK /\ AccountsHonoured

(* What an acknowledgement says. *)
LEMMA AcknowledgedSays ==
  ASSUME NEW op, NEW arg, NEW id, NEW t \in Acknowledged(op, arg, id)
  PROVE  /\ t.op = op
         /\ op = "user.registered" => t.id = id /\ t.name = arg.name
         /\ op \in {"profile", "user.role_updated"} => t.id = arg.user
         /\ op \in {"user.deleted", "apikey.revoked"} => t.id = arg.id
         /\ op = "apikey.created" => t.id = id
<1>1. CASE op = "user.registered"
  BY <1>1 DEF Acknowledged
<1>2. CASE op \in {"profile", "user.role_updated"}
  BY <1>2 DEF Acknowledged
<1>3. CASE op \in {"user.deleted", "apikey.revoked"}
  BY <1>3 DEF Acknowledged
<1>4. CASE op = "apikey.created"
  BY <1>4 DEF Acknowledged
<1>5. CASE op \notin {"user.registered", "profile", "user.role_updated", "user.deleted", "apikey.revoked", "apikey.created"}
  BY <1>5 DEF Acknowledged
<1> QED
  BY <1>1, <1>2, <1>3, <1>4, <1>5

(* What has become of a user may have changed, but not its name, and what   *)
(* was confirmed of it stays.                                               *)
LaterUser(u, v) ==
  /\ v.id = u.id /\ v.name = u.name
  /\ u.role = "admin" => v.role = "admin"
  /\ u.password # 0 => v.password # 0
  /\ u.status = "deleted" => v.status = "deleted"

HonouredKept == \A t : Honoured(t) => Honoured(t)'

LEMMA LaterHonoured ==
  ASSUME \A u \in users : \E v \in users' : LaterUser(u, v),
         NamesUnique',
         \A k \in api_keys : \E m \in api_keys' : m.id = k.id /\ (k.revoked => m.revoked)
  PROVE  HonouredKept
<1> SUFFICES ASSUME NEW t, Honoured(t) PROVE Honoured(t)'
  BY DEF HonouredKept
<1>1. ASSUME t.op = "user.registered"
      PROVE  \E u \in users' : u.id = t.id /\ {v \in users' : v.name = t.name} = {u}
  <2> PICK u \in users : u.id = t.id /\ {v \in users : v.name = t.name} = {u}
    BY <1>1 DEF Honoured
  <2>1. u.name = t.name
    OBVIOUS
  <2> PICK v \in users' : LaterUser(u, v)
    OBVIOUS
  <2>2. v.id = t.id /\ v.name = t.name
    BY <2>1 DEF LaterUser
  <2>3. {w \in users' : w.name = t.name} = {v}
    BY <2>2 DEF NamesUnique
  <2> QED
    BY <2>2, <2>3
<1>2. /\ t.op = "user.role_updated" => \E u \in users' : u.id = t.id /\ u.role = "admin"
      /\ t.op = "profile" => \E u \in users' : u.id = t.id /\ u.password # 0
      /\ t.op = "user.deleted" => \E u \in users' : u.id = t.id /\ u.status = "deleted"
  BY DEF Honoured, LaterUser
<1>3. /\ t.op = "apikey.created" => \E k \in api_keys' : k.id = t.id
      /\ t.op = "apikey.revoked" => \E k \in api_keys' : k.id = t.id /\ k.revoked
  BY DEF Honoured
<1> QED
  BY <1>1, <1>2, <1>3 DEF Honoured

(* Tasks come from the tasks there were, or are new. *)
JobsFrom ==
  \A k \in jobs' : k.id = next \/ \E j \in jobs : j.id = k.id /\ j.kind = k.kind /\ j.arg = k.arg

(* A request that nobody answers in this step is in order after it. *)
LEMMA RequestStays ==
  ASSUME NEW h, RequestOK(h), JobsFrom, next \in Nat, next' \in {next, next + 1},
         h.job \in DOMAIN calls', calls'[h.job] = calls[h.job], HonouredKept
  PROVE  RequestOK(h)'
<1>1. h.job \in DOMAIN calls' /\ h.job \in Nat /\ h.job < next'
  BY DEF RequestOK
<1>2. ASSUME NEW k \in jobs', k.id = h.job PROVE Question(h.op, k.kind, k.arg) /\ k.arg = h.arg
  <2>1. k.id # next
    BY <1>2 DEF RequestOK
  <2> QED
    BY <1>2, <2>1 DEF RequestOK, JobsFrom
<1> PICK r : r = Head(calls[h.job])
  OBVIOUS
<1>3. ASSUME calls'[h.job] # <<>> PROVE r = Head(calls'[h.job]) /\ TrueReply(h.op, h.arg, r)'
  BY <1>3 DEF RequestOK, TrueReply, HonouredKept
<1> QED
  BY <1>1, <1>2, <1>3 DEF RequestOK, TrueReply

(* A task that moves on or ends is no new one. *)
LEMMA MovesFrom ==
  ASSUME JobsOK, JobArgsOK, NEW j \in jobs, Moves(j), next' = next
  PROVE  JobsOK' /\ JobsFrom /\ JobArgsOK'
<1>1. JobsOK'
  BY MovesKeepsJobs
<1>2. \A k \in jobs' : \E i \in jobs : i.id = k.id /\ i.kind = k.kind /\ i.arg = k.arg
  BY DEF Moves, Ends, Steps
<1> QED
  BY <1>1, <1>2 DEF JobsFrom, JobArgsOK

(* The same of a task that is spawned. *)
LEMMA SpawnFrom ==
  ASSUME JobsOK, JobArgsOK, NEW kind, NEW arg, ArgOK(kind, arg), Spawn(kind, arg)
  PROVE  JobsOK' /\ JobsFrom /\ JobArgsOK'
<1>1. JobsOK'
  BY SpawnKeepsJobs
<1> PICK k : k = Job(kind, arg)
  OBVIOUS
<1>2. k.id = next /\ k.kind = kind /\ k.arg = arg /\ jobs' = jobs \cup {k}
  BY SpawnMakesJob DEF Spawn
<1> QED
  BY <1>1, <1>2 DEF JobsFrom, JobArgsOK

(* Requests that are neither made nor answered stay in order. *)
LEMMA RequestsStay ==
  ASSUME RequestsOK, JobsFrom, next \in Nat, next' \in {next, next + 1}, HonouredKept,
         UNCHANGED <<http, calls, requests>>
  PROVE  RequestsOK'
<1>1. ASSUME NEW c \in Clients, Waits(c)' PROVE RequestOK(http[c])'
  <2> PICK h : h = http[c]
    OBVIOUS
  <2>1. RequestOK(h) /\ http'[c] = h
    BY <1>1 DEF RequestsOK, Waits
  <2>2. RequestOK(h)'
    BY <2>1, RequestStays DEF RequestOK
  <2> QED
    BY <2>1, <2>2 DEF RequestOK
<1>2. \A c \in Clients : http'[c].st # "idle" => requests' > 0
  BY DEF RequestsOK
<1>3. \A c, d \in Clients : Waits(c)' /\ Waits(d)' /\ http'[c].job = http'[d].job => c = d
  BY DEF RequestsOK, Waits
<1> QED
  BY <1>1, <1>2, <1>3 DEF RequestsOK

(* A reply that says the truth keeps them in order. *)
LEMMA ReplyKeepsRequests ==
  ASSUME AccountInv, NEW j \in jobs, NEW answer \in Answer, Reply(j, answer), Ends(j), next' = next,
         UNCHANGED <<http, requests>>, HonouredKept,
         \A op : Question(op, j.kind, j.arg) => TrueReply(op, j.arg, answer)'
  PROVE  /\ JobsOK' /\ JobArgsOK' /\ RequestsOK'
         /\ \A id \in DOMAIN calls' : calls'[id] \in Seq(Answer)
<1>1. JobsOK' /\ JobsFrom /\ JobArgsOK' /\ next \in Nat
  BY MovesFrom DEF AccountInv, JobsOK, Moves
<1>2. DOMAIN calls' = DOMAIN calls
  BY DEF Reply
<1>3. \A id \in DOMAIN calls : calls[id] \in Seq(Answer)
  BY DEF AccountInv, AccountTypeOK
<1>4. \A id \in DOMAIN calls : calls'[id] = IF id = j.id THEN Append(calls[id], answer) ELSE calls[id]
  BY DEF Reply
<1>5. ASSUME NEW c \in Clients, Waits(c)' PROVE RequestOK(http[c])'
  <2> PICK h : h = http[c]
    OBVIOUS
  <2>1. RequestOK(h) /\ http'[c] = h
    BY <1>5 DEF AccountInv, RequestsOK, Waits
  <2>2. CASE h.job # j.id
    <3>1. h.job \in DOMAIN calls' /\ calls'[h.job] = calls[h.job]
      BY <1>2, <1>4, <2>1, <2>2 DEF RequestOK
    <3>2. RequestOK(h)'
      BY <1>1, <2>1, <3>1, RequestStays
    <3> QED
      BY <2>1, <3>2 DEF RequestOK
  <2>3. CASE h.job = j.id
    <3>1. /\ h.job \in DOMAIN calls' /\ h.job \in Nat /\ h.job < next'
          /\ \A k \in jobs' : k.id # h.job
      <4>1. jobs' = jobs \ {j}
        BY DEF Ends
      <4> QED
        BY <1>2, <2>1, <2>3, <4>1 DEF RequestOK, AccountInv, JobsOK
    <3>2. Question(h.op, j.kind, j.arg) /\ j.arg = h.arg
      BY <2>1, <2>3 DEF RequestOK
    <3> PICK s \in Seq(Answer) : s = calls[h.job]
      BY <1>3, <2>1 DEF RequestOK
    <3>3. calls'[h.job] = Append(s, answer)
      BY <1>2, <1>4, <2>3, <3>1
    <3> PICK r : r = Head(Append(s, answer))
      OBVIOUS
    <3>4. TrueReply(h.op, h.arg, r)'
      <4>1. CASE s = <<>>
        <5>1. r = answer
          BY <4>1
        <5> QED
          BY <3>2, <5>1
      <4>2. CASE s # <<>>
        <5>1. r = Head(s)
          BY <4>2
        <5>2. TrueReply(h.op, h.arg, r)
          BY <2>1, <4>2, <5>1 DEF RequestOK
        <5> QED
          BY <5>2 DEF TrueReply, HonouredKept
      <4> QED
        BY <4>1, <4>2
    <3>5. r = Head(calls'[h.job])
      BY <3>3
    <3> QED
      BY <2>1, <3>1, <3>4, <3>5 DEF RequestOK, TrueReply
  <2> QED
    BY <2>2, <2>3
<1>6. \A c \in Clients : http'[c].st # "idle" => requests' > 0
  BY DEF AccountInv, RequestsOK
<1>7. \A c, d \in Clients : Waits(c)' /\ Waits(d)' /\ http'[c].job = http'[d].job => c = d
  BY DEF AccountInv, RequestsOK, Waits
<1>8. RequestsOK'
  BY <1>5, <1>6, <1>7 DEF RequestsOK
<1>9. \A id \in DOMAIN calls' : calls'[id] \in Seq(Answer)
  BY <1>2, <1>3, <1>4
<1> QED
  BY <1>1, <1>8, <1>9

(* An update of a user, as a handler makes one, keeps what is known of it. *)
LEMMA UpdatedUsers ==
  ASSUME users \subseteq User, NamesUnique, NEW id, NEW fields, users' = Updated(users, id, fields),
         \/ \E n \in Nat \ {0} : fields = [password |-> n]
         \/ fields = [role |-> "admin"]
         \/ fields = [status |-> "deleted"]
  PROVE  /\ users' \subseteq User /\ NamesUnique'
         /\ \A u \in users : \E v \in users' : LaterUser(u, v)
         /\ \A u \in users : u.id = id => With(u, fields) \in users' /\ With(u, fields).id = id
<1> DEFINE New(u) == IF u.id = id THEN With(u, fields) ELSE u
<1>1. ASSUME NEW u \in users
      PROVE  With(u, fields) \in User /\ LaterUser(u, With(u, fields))
  <2>1. u \in User /\ DOMAIN u = {"id", "name", "password", "role", "status"}
    BY DEF User
  <2>2. ASSUME NEW n \in Nat \ {0}, fields = [password |-> n]
        PROVE  With(u, fields) \in User /\ LaterUser(u, With(u, fields))
    <3>1. With(u, fields) = [u EXCEPT !.password = n]
      BY <2>1, <2>2 DEF With, User
    <3> QED
      BY <2>1, <3>1 DEF User, LaterUser
  <2>3. ASSUME fields = [role |-> "admin"]
        PROVE  With(u, fields) \in User /\ LaterUser(u, With(u, fields))
    <3>1. With(u, fields) = [u EXCEPT !.role = "admin"]
      BY <2>1, <2>3 DEF With, User
    <3> QED
      BY <2>1, <3>1 DEF User, LaterUser
  <2>4. ASSUME fields = [status |-> "deleted"]
        PROVE  With(u, fields) \in User /\ LaterUser(u, With(u, fields))
    <3>1. With(u, fields) = [u EXCEPT !.status = "deleted"]
      BY <2>1, <2>4 DEF With, User
    <3> QED
      BY <2>1, <3>1 DEF User, LaterUser
  <2> QED
    BY <2>2, <2>3, <2>4
<1>2. ASSUME NEW u \in users PROVE New(u) \in User /\ LaterUser(u, New(u)) /\ New(u).name = u.name
  BY <1>1 DEF LaterUser
<1>3. users' = {New(u) : u \in users}
  BY DEF Updated
<1>4. \A u \in users : u.id = id => With(u, fields) = New(u) /\ New(u).id = id
  BY <1>1 DEF LaterUser
<1> HIDE DEF New
<1>5. \A v \in users' : \E u \in users : v = New(u)
  BY <1>3
<1>6. \A u \in users : New(u) \in users'
  BY <1>3
<1>7. users' \subseteq User
  BY <1>2, <1>5
<1>8. NamesUnique'
  BY <1>2, <1>5 DEF NamesUnique
<1> QED
  BY <1>2, <1>4, <1>6, <1>7, <1>8

(* What the handlers leave alone. *)
HandlerFrame == UNCHANGED <<http, tokens, requests, load, told>>

(* What remains to be shown of a step of a handler. *)
LEMMA HandlerKeeps ==
  ASSUME AccountInv, HandlerFrame, HonouredKept, users' \subseteq User, NamesUnique', api_keys' \subseteq Key,
         JobsOK', JobArgsOK', RequestsOK', \A id \in DOMAIN calls' : calls'[id] \in Seq(Answer)
  PROVE  AccountInv'
<1>1. AccountTypeOK'
  BY DEF AccountInv, AccountTypeOK, HandlerFrame
<1>2. AccountsHonoured'
  BY DEF AccountInv, AccountsHonoured, HandlerFrame, HonouredKept
<1> QED
  BY <1>1, <1>2 DEF AccountInv

(* Nothing has happened to users and keys. *)
LEMMA SameHonoured ==
  ASSUME UNCHANGED <<users, api_keys>>
  PROVE  HonouredKept
  BY DEF HonouredKept, Honoured

(* A step without a reply and without a change. *)
LEMMA QuietHandler ==
  ASSUME AccountInv, HandlerFrame, UNCHANGED <<users, api_keys, calls>>,
         NEW j \in jobs, Moves(j), next' = next
  PROVE  AccountInv'
<1>1. JobsOK' /\ JobsFrom /\ JobArgsOK' /\ next \in Nat
  BY MovesFrom DEF AccountInv, JobsOK
<1>2. HonouredKept
  BY SameHonoured
<1>3. RequestsOK'
  BY <1>1, <1>2, RequestsStay DEF AccountInv, HandlerFrame
<1>4. users' \subseteq User /\ NamesUnique' /\ api_keys' \subseteq Key
  BY DEF AccountInv, AccountTypeOK, NamesUnique
<1>5. \A id \in DOMAIN calls' : calls'[id] \in Seq(Answer)
  BY DEF AccountInv, AccountTypeOK
<1> QED
  BY <1>1, <1>2, <1>3, <1>4, <1>5, HandlerKeeps

(* The replies of the handlers. *)
LEMMA AnswersTyped ==
  /\ Failed \in Answer /\ ~Failed.ok /\ Ok \in Answer
  /\ \A id \in Int : OkCreated(id) \in Answer /\ OkCreated(id).id = id
  /\ \A u \in User : OkFound(u) \in Answer
<1>1. Failed \in Answer /\ Failed.ok = FALSE
  BY DEF Failed, Answer
<1>2. Ok \in Answer
  BY <1>1 DEF Ok, Answer
<1>3. \A id \in Int : OkCreated(id) \in Answer /\ OkCreated(id).id = id
  BY <1>2 DEF OkCreated, Answer
<1>4. \A u \in User : OkFound(u) \in Answer
  BY <1>2 DEF OkFound, Answer
<1> QED
  BY <1>1, <1>2, <1>3, <1>4

(* A refusal, or an answer to a question that changes nothing. *)
LEMMA ReadHandler ==
  ASSUME AccountInv, HandlerFrame, UNCHANGED <<users, api_keys>>, NEW j \in jobs, Ends(j), next' = next,
         NEW answer \in Answer, Reply(j, answer),
         ~answer.ok \/ j.kind \notin {"user_create", "user_update", "user_delete", "apikey_create", "apikey_revoke"}
  PROVE  AccountInv'
<1>1. HonouredKept
  BY SameHonoured
<1>2. ASSUME NEW op, Question(op, j.kind, j.arg) PROVE TrueReply(op, j.arg, answer)'
  <2> SUFFICES ASSUME answer.ok, NEW t \in Acknowledged(op, j.arg, answer.id) PROVE Honoured(t)'
    BY DEF TrueReply
  <2>1. op \notin {"user.registered", "profile", "user.role_updated", "user.deleted", "apikey.created", "apikey.revoked"}
    BY <1>2 DEF Question
  <2>2. t.op = op
    BY AcknowledgedSays
  <2> QED
    BY <2>1, <2>2 DEF Honoured
<1>3. /\ JobsOK' /\ JobArgsOK' /\ RequestsOK'
      /\ \A id \in DOMAIN calls' : calls'[id] \in Seq(Answer)
  BY <1>1, <1>2, ReplyKeepsRequests DEF HandlerFrame
<1>4. users' \subseteq User /\ NamesUnique' /\ api_keys' \subseteq Key
  BY DEF AccountInv, AccountTypeOK, NamesUnique
<1> QED
  BY <1>1, <1>3, <1>4, HandlerKeeps

(* brain.user.create: a name that is confirmed is that of one user. *)
LEMMA CreateUserKeeps ==
  ASSUME AccountInv, HandlerFrame, NEW j \in jobs, CheckUsername(j) \/ CreateUserScope(j) \/ InsertUser(j)
  PROVE  AccountInv'
<1>0. next' = next /\ j.kind = "user_create" /\ JobsOK /\ UNCHANGED api_keys
  BY DEF CheckUsername, CreateUserScope, InsertUser, At, AccountInv
<1>1. CASE UNCHANGED users /\ (Reply(j, Failed) /\ Ends(j))
  BY <1>0, <1>1, ReadHandler, AnswersTyped
<1>2. CASE UNCHANGED <<users, calls>> /\ (Ends(j) \/ \E st : Goes(j, st))
  <2>1. Moves(j)
    BY <1>0, <1>2, GoesSteps DEF Moves
  <2> QED
    BY <1>0, <1>2, <2>1, QuietHandler
<1>3. CASE /\ UsernameFree(j.arg.name) /\ Reply(j, OkCreated(j.id)) /\ Ends(j)
           /\ users' = users \cup {[id |-> j.id, name |-> j.arg.name, password |-> j.arg.password,
                                    role |-> "user", status |-> "active"]}
  <2> PICK u : u = [id |-> j.id, name |-> j.arg.name, password |-> j.arg.password,
                    role |-> "user", status |-> "active"]
    OBVIOUS
  <2>1. j.id \in Int /\ j.arg.name \in UserNames /\ j.arg.password \in Nat
    BY <1>0 DEF AccountInv, JobsOK, JobArgsOK, ArgOK
  <2>2. u \in User /\ u.id = j.id /\ u.name = j.arg.name /\ users' = users \cup {u}
    BY <1>3, <2>1 DEF User
  <2>3. users' \subseteq User /\ NamesUnique' /\ api_keys' \subseteq Key
    BY <1>0, <1>3, <2>2 DEF UsernameFree, NamesUnique, AccountInv, AccountTypeOK
  <2>4. HonouredKept
    <3>1. \A v \in users : \E w \in users' : LaterUser(v, w)
      BY <2>2 DEF LaterUser
    <3>2. \A k \in api_keys : \E m \in api_keys' : m.id = k.id /\ (k.revoked => m.revoked)
      BY <1>0
    <3> QED
      BY <2>3, <3>1, <3>2, LaterHonoured
  <2> PICK answer \in Answer : answer = OkCreated(j.id) /\ answer.id = j.id
    BY <2>1, AnswersTyped
  <2>5. ASSUME NEW op, Question(op, j.kind, j.arg) PROVE TrueReply(op, j.arg, answer)'
    <3> SUFFICES ASSUME NEW t \in Acknowledged(op, j.arg, answer.id) PROVE Honoured(t)'
      BY DEF TrueReply
    <3>1. t.op = op /\ (op = "user.registered" => t.id = j.id /\ t.name = j.arg.name)
      BY AcknowledgedSays
    <3>2. op \notin {"profile", "user.role_updated", "user.deleted", "apikey.created", "apikey.revoked"}
      BY <1>0, <2>5 DEF Question
    <3>3. {v \in users' : v.name = u.name} = {u} /\ u \in users'
      BY <2>2, <2>3 DEF NamesUnique
    <3> QED
      BY <2>2, <3>1, <3>2, <3>3 DEF Honoured
  <2>6. /\ JobsOK' /\ JobArgsOK' /\ RequestsOK'
        /\ \A id \in DOMAIN calls' : calls'[id] \in Seq(Answer)
    BY <1>0, <1>3, <2>4, <2>5, ReplyKeepsRequests DEF HandlerFrame
  <2> QED
    BY <2>3, <2>4, <2>6, HandlerKeeps
<1> QED
  BY <1>1, <1>2, <1>3 DEF CheckUsername, CreateUserScope, InsertUser, NoReply

(* A change of a user that is confirmed is one of a user that exists, and   *)
(* undoes no other.                                                         *)
LEMMA ChangeUserKeeps ==
  ASSUME AccountInv, HandlerFrame, NEW j \in jobs, handle_user_update(j) \/ handle_user_delete(j)
  PROVE  AccountInv'
<1> DEFINE id == IF j.kind = "user_update" THEN j.arg.user ELSE j.arg.id
           fields == IF j.kind = "user_update" THEN j.arg.with ELSE [status |-> "deleted"]
<1>0. /\ next' = next /\ Ends(j) /\ UNCHANGED api_keys
      /\ j.kind \in {"user_update", "user_delete"}
  BY DEF handle_user_update, handle_user_delete, At
<1>1. CASE UNCHANGED users /\ Reply(j, Failed)
  BY <1>0, <1>1, ReadHandler, AnswersTyped
<1>2. CASE /\ \E u \in users : u.id = id
           /\ users' = Updated(users, id, fields) /\ Reply(j, Ok)
  <2>1. /\ users \subseteq User /\ NamesUnique
        /\ \/ \E n \in Nat \ {0} : fields = [password |-> n]
           \/ fields = [role |-> "admin"]
           \/ fields = [status |-> "deleted"]
    BY <1>0 DEF AccountInv, AccountTypeOK, JobArgsOK, ArgOK
  <2> PICK the : the = id
    OBVIOUS
  <2> PICK with : with = fields
    OBVIOUS
  <2>2. /\ users' \subseteq User /\ NamesUnique'
        /\ \A u \in users : \E v \in users' : LaterUser(u, v)
        /\ \A u \in users : u.id = the => With(u, with) \in users' /\ With(u, with).id = the
    <3> HIDE DEF id, fields
    <3> QED
      BY <1>2, <2>1, UpdatedUsers
  <2>3. HonouredKept
    <3>1. \A k \in api_keys : \E m \in api_keys' : m.id = k.id /\ (k.revoked => m.revoked)
      BY <1>0
    <3> QED
      BY <2>2, <3>1, LaterHonoured
  <2> PICK u \in users : u.id = the
    BY <1>2
  <2> PICK v \in users' : v = With(u, with) /\ v.id = the
    BY <2>2
  <2>4. /\ with = [role |-> "admin"] => v.role = "admin"
        /\ with = [status |-> "deleted"] => v.status = "deleted"
        /\ \A n \in Nat \ {0} : with = [password |-> n] => v.password # 0
    <3>1. DOMAIN u = {"id", "name", "password", "role", "status"}
      BY <2>1 DEF User
    <3> HIDE DEF id, fields
    <3> QED
      BY <3>1 DEF With
  <2> PICK answer \in Answer : answer = Ok
    BY AnswersTyped
  <2>5. ASSUME NEW op, Question(op, j.kind, j.arg) PROVE TrueReply(op, j.arg, answer)'
    <3> SUFFICES ASSUME NEW t \in Acknowledged(op, j.arg, answer.id) PROVE Honoured(t)'
      BY DEF TrueReply
    <3>1. /\ t.op = op
          /\ op \in {"profile", "user.role_updated"} => t.id = j.arg.user
          /\ op = "user.deleted" => t.id = j.arg.id
      BY AcknowledgedSays
    <3>2. CASE op \notin {"profile", "user.role_updated", "user.deleted"}
      BY <1>0, <2>5, <3>1, <3>2 DEF Question, Honoured
    <3>3. CASE op = "user.deleted"
      <4>1. the = j.arg.id /\ with = [status |-> "deleted"]
        BY <1>0, <2>5, <3>3 DEF Question
      <4>2. v.id = t.id /\ v.status = "deleted" /\ t.op = "user.deleted"
        BY <2>4, <3>1, <3>3, <4>1
      <4> QED
        BY <4>2 DEF Honoured
    <3>4. CASE op = "user.role_updated"
      <4>1. the = j.arg.user /\ with = [role |-> "admin"]
        BY <1>0, <2>5, <3>4 DEF Question
      <4>2. v.id = t.id /\ v.role = "admin" /\ t.op = "user.role_updated"
        BY <2>4, <3>1, <3>4, <4>1
      <4> QED
        BY <4>2 DEF Honoured
    <3>5. CASE op = "profile"
      <4>1. the = j.arg.user /\ \E n \in Nat \ {0} : with = [password |-> n]
        BY <1>0, <2>5, <3>5 DEF Question
      <4>2. v.id = t.id /\ v.password # 0 /\ t.op = "profile"
        BY <2>4, <3>1, <3>5, <4>1
      <4> QED
        BY <4>2 DEF Honoured
    <3> QED
      BY <3>2, <3>3, <3>4, <3>5
  <2>6. /\ JobsOK' /\ JobArgsOK' /\ RequestsOK'
        /\ \A c \in DOMAIN calls' : calls'[c] \in Seq(Answer)
    BY <1>0, <1>2, <2>3, <2>5, ReplyKeepsRequests DEF HandlerFrame
  <2>7. api_keys' \subseteq Key
    BY <1>0 DEF AccountInv, AccountTypeOK
  <2> QED
    BY <2>2, <2>3, <2>6, <2>7, HandlerKeeps
<1> QED
  BY <1>1, <1>2 DEF handle_user_update, handle_user_delete, At

(* An update of API keys revokes some or notes their use. *)
LEMMA UpdatedKeys ==
  ASSUME api_keys \subseteq Key, NEW id, NEW fields, api_keys' = Updated(api_keys, id, fields),
         fields = [revoked |-> TRUE] \/ fields = [used |-> TRUE]
  PROVE  /\ api_keys' \subseteq Key
         /\ \A k \in api_keys : \E m \in api_keys' : m.id = k.id /\ (k.revoked => m.revoked)
         /\ fields = [revoked |-> TRUE] => \A k \in api_keys : k.id = id => \E m \in api_keys' : m.id = id /\ m.revoked
<1> DEFINE New(k) == IF k.id = id THEN With(k, fields) ELSE k
<1>1. ASSUME NEW k \in api_keys
      PROVE  /\ New(k) \in Key /\ New(k).id = k.id /\ (k.revoked => New(k).revoked)
             /\ fields = [revoked |-> TRUE] /\ k.id = id => New(k).revoked
  <2>1. k \in Key /\ DOMAIN k = {"id", "user", "revoked", "used"}
    BY DEF Key
  <2>2. CASE fields = [revoked |-> TRUE]
    <3>9. ASSUME NEW b, fields = [revoked |-> b] PROVE With(k, fields) = [k EXCEPT !.revoked = b]
      BY <2>1, <3>9 DEF With, Key
    <3>1. With(k, fields) = [k EXCEPT !.revoked = TRUE]
      BY <2>2, <3>9
    <3>2. [k EXCEPT !.revoked = TRUE] \in Key /\ [k EXCEPT !.revoked = TRUE].id = k.id /\ [k EXCEPT !.revoked = TRUE].revoked = TRUE
      BY <2>1 DEF Key
    <3> QED
      BY <2>1, <3>1, <3>2
  <2>3. CASE fields = [used |-> TRUE]
    <3>9. ASSUME NEW b, fields = [used |-> b] PROVE With(k, fields) = [k EXCEPT !.used = b]
      BY <2>1, <3>9 DEF With, Key
    <3>1. With(k, fields) = [k EXCEPT !.used = TRUE]
      BY <2>3, <3>9
    <3>2. [k EXCEPT !.used = TRUE] \in Key /\ [k EXCEPT !.used = TRUE].id = k.id /\ [k EXCEPT !.used = TRUE].revoked = k.revoked
      BY <2>1 DEF Key
    <3>3. fields # [revoked |-> TRUE]
      <4>1. DOMAIN [used |-> TRUE] = {"used"} /\ DOMAIN [revoked |-> TRUE] = {"revoked"}
        OBVIOUS
      <4> QED
        BY <2>3, <4>1
    <3> QED
      BY <2>1, <3>1, <3>2, <3>3
  <2> QED
    BY <2>2, <2>3
<1>2. api_keys' = {New(k) : k \in api_keys}
  BY DEF Updated
<1> HIDE DEF New
<1> QED
  BY <1>1, <1>2

(* The handlers of API keys. *)
LEMMA ApiKeyKeeps ==
  ASSUME AccountInv, HandlerFrame, NEW j \in jobs,
         handle_apikey_create(j) \/ handle_apikey_revoke(j) \/ FindKey(j) \/ NoteKeyUsed(j)
  PROVE  AccountInv'
<1>0. /\ next' = next /\ UNCHANGED users /\ j.kind \in {"apikey_create", "apikey_revoke", "apikey_validate"}
      /\ api_keys \subseteq Key /\ users' \subseteq User /\ NamesUnique' /\ JobsOK
  BY DEF handle_apikey_create, handle_apikey_revoke, FindKey, NoteKeyUsed, At, AccountInv, AccountTypeOK, NamesUnique,
         accountVars
<1>1. CASE UNCHANGED api_keys /\ Reply(j, Failed) /\ Ends(j)
  BY <1>0, <1>1, ReadHandler, AnswersTyped
<1>2. CASE UNCHANGED <<api_keys, calls>> /\ (Ends(j) \/ \E st : Goes(j, st))
  <2>1. Moves(j)
    BY <1>0, <1>2, GoesSteps DEF Moves
  <2> QED
    BY <1>0, <1>2, <2>1, QuietHandler
<1>3. \A u \in users : \E v \in users' : LaterUser(u, v)
  BY <1>0 DEF LaterUser
<1>4. CASE /\ j.kind = "apikey_create" /\ Ends(j) /\ Reply(j, OkCreated(j.id))
           /\ api_keys' = api_keys \cup {[id |-> j.id, user |-> j.arg.id, revoked |-> FALSE, used |-> FALSE]}
  <2> PICK k : k = [id |-> j.id, user |-> j.arg.id, revoked |-> FALSE, used |-> FALSE]
    OBVIOUS
  <2>1. k \in Key /\ k.id = j.id /\ j.id \in Int /\ api_keys' = api_keys \cup {k}
    BY <1>4 DEF AccountInv, JobsOK, JobArgsOK, ArgOK, Key
  <2>2. api_keys' \subseteq Key /\ \A h \in api_keys : \E m \in api_keys' : m.id = h.id /\ (h.revoked => m.revoked)
    BY <1>0, <2>1
  <2>3. HonouredKept
    BY <1>0, <1>3, <2>2, LaterHonoured
  <2> PICK answer \in Answer : answer = OkCreated(j.id) /\ answer.id = j.id
    BY <2>1, AnswersTyped
  <2>4. ASSUME NEW op, Question(op, j.kind, j.arg) PROVE TrueReply(op, j.arg, answer)'
    <3> SUFFICES ASSUME NEW t \in Acknowledged(op, j.arg, answer.id) PROVE Honoured(t)'
      BY DEF TrueReply
    <3>1. t.op = op /\ (op = "apikey.created" => t.id = j.id)
      BY AcknowledgedSays
    <3> QED
      BY <1>4, <2>1, <2>4, <3>1 DEF Question, Honoured
  <2>5. /\ JobsOK' /\ JobArgsOK' /\ RequestsOK'
        /\ \A c \in DOMAIN calls' : calls'[c] \in Seq(Answer)
    BY <1>0, <1>4, <2>3, <2>4, ReplyKeepsRequests DEF HandlerFrame
  <2> QED
    BY <1>0, <2>2, <2>3, <2>5, HandlerKeeps
<1>5. CASE /\ j.kind = "apikey_revoke" /\ Ends(j) /\ Reply(j, Ok) /\ (\E k \in api_keys : k.id = j.arg.id)
           /\ api_keys' = Updated(api_keys, j.arg.id, [revoked |-> TRUE])
  <2>1. /\ api_keys' \subseteq Key
        /\ \A k \in api_keys : \E m \in api_keys' : m.id = k.id /\ (k.revoked => m.revoked)
        /\ \E m \in api_keys' : m.id = j.arg.id /\ m.revoked
    BY <1>0, <1>5, UpdatedKeys
  <2>2. HonouredKept
    BY <1>0, <1>3, <2>1, LaterHonoured
  <2> PICK answer \in Answer : answer = Ok
    BY AnswersTyped
  <2>3. ASSUME NEW op, Question(op, j.kind, j.arg) PROVE TrueReply(op, j.arg, answer)'
    <3> SUFFICES ASSUME NEW t \in Acknowledged(op, j.arg, answer.id) PROVE Honoured(t)'
      BY DEF TrueReply
    <3>1. t.op = op /\ (op = "apikey.revoked" => t.id = j.arg.id)
      BY AcknowledgedSays
    <3> QED
      BY <1>5, <2>1, <2>3, <3>1 DEF Question, Honoured
  <2>4. /\ JobsOK' /\ JobArgsOK' /\ RequestsOK'
        /\ \A c \in DOMAIN calls' : calls'[c] \in Seq(Answer)
    BY <1>0, <1>5, <2>2, <2>3, ReplyKeepsRequests DEF HandlerFrame
  <2> QED
    BY <1>0, <2>1, <2>2, <2>4, HandlerKeeps
<1>6. CASE Ends(j) /\ UNCHANGED calls /\ api_keys' = Updated(api_keys, j.arg.id, [used |-> TRUE])
  <2>1. /\ api_keys' \subseteq Key
        /\ \A k \in api_keys : \E m \in api_keys' : m.id = k.id /\ (k.revoked => m.revoked)
    BY <1>0, <1>6, UpdatedKeys
  <2>2. HonouredKept
    BY <1>0, <1>3, <2>1, LaterHonoured
  <2>3. JobsOK' /\ JobsFrom /\ JobArgsOK' /\ next \in Nat
    BY <1>0, <1>6, MovesFrom DEF AccountInv, JobsOK, Moves
  <2>4. RequestsOK'
    BY <1>0, <1>6, <2>2, <2>3, RequestsStay DEF AccountInv, HandlerFrame
  <2>5. \A c \in DOMAIN calls' : calls'[c] \in Seq(Answer)
    BY <1>6 DEF AccountInv, AccountTypeOK
  <2> QED
    BY <1>0, <2>1, <2>2, <2>3, <2>4, <2>5, HandlerKeeps
<1> QED
  BY <1>1, <1>2, <1>4, <1>5, <1>6 DEF handle_apikey_create, handle_apikey_revoke, FindKey, NoteKeyUsed, At, accountVars

(* The handlers that only read, and those of plugin storage. *)
LEMMA ReadsKeep ==
  ASSUME AccountInv, HandlerFrame, NEW j \in jobs,
         \/ handle_user_get(j) \/ handle_user_list(j) \/ handle_apikey_list(j)
         \/ handle_get(j) \/ handle_set(j) \/ handle_delete(j) \/ handle_list(j)
  PROVE  AccountInv'
<1>1. ASSUME NEW kind \in {"user_get", "user_list", "apikey_list"}, NEW answer \in Answer, ReplyRead(j, kind, answer)
      PROVE  AccountInv'
  <2>1. /\ j.kind = kind /\ Ends(j) /\ next' = next /\ UNCHANGED <<users, api_keys>>
        /\ Reply(j, answer) \/ UNCHANGED calls
    BY <1>1 DEF ReplyRead, At, NoReply
  <2>2. Moves(j)
    BY <2>1 DEF Moves
  <2> QED
    BY <2>1, <2>2, ReadHandler, QuietHandler
<1>2. CASE handle_user_get(j)
  <2> DEFINE found == {u \in NotDeleted : u.id = j.arg.id \/ u.name = j.arg.name}
             answer == IF found = {} THEN Failed ELSE OkFound(CHOOSE u \in found : TRUE)
  <2>1. ReplyRead(j, "user_get", answer)
    BY <1>2 DEF handle_user_get
  <2>2. found \subseteq User
    BY DEF NotDeleted, AccountInv, AccountTypeOK
  <2>3. found # {} => (CHOOSE u \in found : TRUE) \in found
    <3> HIDE DEF found
    <3> QED
      OBVIOUS
  <2>4. answer \in Answer
    <3> HIDE DEF found
    <3> QED
      BY <2>2, <2>3, AnswersTyped
  <2> PICK a \in Answer : a = answer
    BY <2>4
  <2>5. ReplyRead(j, "user_get", a)
    BY <2>1 DEF ReplyRead, Reply
  <2> QED
    BY <1>1, <2>5
<1>3. CASE handle_user_list(j) \/ handle_apikey_list(j)
  <2> PICK a \in Answer : a = Ok
    BY AnswersTyped
  <2>1. ReplyRead(j, "user_list", a) \/ ReplyRead(j, "apikey_list", a)
    BY <1>3 DEF handle_user_list, handle_apikey_list
  <2> QED
    BY <1>1, <2>1
<1>4. CASE handle_get(j) \/ handle_set(j) \/ handle_delete(j) \/ handle_list(j)
  <2>1. /\ j.kind \in {"storage_get", "storage_set", "storage_delete", "storage_list"}
        /\ Ends(j) /\ next' = next /\ UNCHANGED <<users, api_keys>>
        /\ Reply(j, Ok) \/ Reply(j, Failed)
    BY <1>4 DEF handle_get, handle_set, handle_delete, handle_list, InTurn, At
  <2> QED
    BY <2>1, ReadHandler, AnswersTyped
<1> QED
  BY <1>2, <1>3, <1>4

(* Every step of a handler of accounts or plugin storage. *)
LEMMA AccountHandlersKeep ==
  ASSUME AccountInv, HandlerFrame, NextAccounts
  PROVE  AccountInv'
  BY CreateUserKeeps, ChangeUserKeeps, ApiKeyKeeps, ReadsKeep DEF NextAccounts

-----------------------------------------------------------------------------
(* The requests of the gateway's clients. *)

(* A credential is somebody's, and its subject has a bucket. *)
LEMMA AuthenticateWho ==
  ASSUME AccountTypeOK, NEW cred \in tokens \cup {ApiKeyHolder, Nobody}
  PROVE  authenticate(cred) \in Who \cup {Nobody}
<1>1. ApiKeyHolder \in Who
  <2>1. "api-key" \in Names
    BY GatewayAssumption
  <2> QED
    BY <2>1 DEF ApiKeyHolder, Who
<1>2. \A t \in tokens : t.who \in Who
  BY DEF AccountTypeOK
<1> QED
  BY <1>1, <1>2 DEF authenticate

(* A client's entry is replaced: it waits for nothing then, or is idle. *)
LEMMA ClientKeeps ==
  ASSUME AccountInv, NEW c \in Clients, NEW h, http' = [http EXCEPT ![c] = h], IsClient(h), h.st # "asked",
         requests' \in Nat, requests' >= requests, h.st # "idle" => requests' > 0,
         next' = next, UNCHANGED <<jobs, users, api_keys, load>>,
         \A id \in DOMAIN calls : id = http[c].job \/ (id \in DOMAIN calls' /\ calls'[id] = calls[id]),
         \A id \in DOMAIN calls' : calls'[id] \in Seq(Answer),
         calls' = calls \/ Waits(c),
         \A t \in tokens' : t.who \in Who,
         AccountsHonoured'
  PROVE  AccountInv'
<1>1. http = [d \in Clients |-> http[d]]
  BY DEF AccountInv, AccountTypeOK
<1>2. http' = [d \in Clients |-> http'[d]] /\ \A d \in Clients : http'[d] = IF d = c THEN h ELSE http[d]
  BY <1>1
<1>3. JobsOK' /\ JobArgsOK' /\ NamesUnique' /\ JobsFrom /\ HonouredKept /\ next \in Nat
  <2>1. HonouredKept
    BY SameHonoured
  <2>2. JobsOK' /\ next \in Nat
    BY DEF AccountInv, JobsOK, IsJob
  <2>3. JobArgsOK' /\ NamesUnique' /\ JobsFrom
    BY DEF AccountInv, JobArgsOK, NamesUnique, JobsFrom
  <2> QED
    BY <2>1, <2>2, <2>3
<1>4. AccountTypeOK'
  BY <1>2 DEF AccountInv, AccountTypeOK
<1>5. ASSUME NEW d \in Clients, Waits(d)' PROVE RequestOK(http[d])' /\ d # c /\ Waits(d)
  <2>1. d # c /\ http'[d] = http[d] /\ Waits(d)
    BY <1>2, <1>5 DEF Waits
  <2> PICK g : g = http[d]
    OBVIOUS
  <2>2. RequestOK(g)
    BY <2>1 DEF AccountInv, RequestsOK
  <2>3. calls' # calls => g.job # http[c].job
    BY <2>1 DEF AccountInv, RequestsOK
  <2>4. g.job \in DOMAIN calls' /\ calls'[g.job] = calls[g.job]
    BY <2>2, <2>3 DEF RequestOK
  <2>5. RequestOK(g)'
    BY <1>3, <2>2, <2>4, RequestStays
  <2> QED
    BY <2>1, <2>5 DEF RequestOK
<1>6. RequestsOK'
  <2>1. \A d \in Clients : http'[d].st # "idle" => requests' > 0
    BY <1>2 DEF AccountInv, RequestsOK, AccountTypeOK
  <2>2. \A d, e \in Clients : Waits(d)' /\ Waits(e)' /\ http'[d].job = http'[e].job => d = e
    BY <1>2, <1>5 DEF AccountInv, RequestsOK
  <2> QED
    BY <1>5, <2>1, <2>2 DEF RequestsOK
<1> QED
  BY <1>3, <1>4, <1>6 DEF AccountInv

(* The middleware. *)
LEMMA MiddlewareKeeps ==
  ASSUME AccountInv, NEW c \in load.clients, NEW cred \in tokens \cup {ApiKeyHolder, Nobody},
         auth_rate_limit_middleware(c, cred)
  PROVE  AccountInv'
<1> PICK who \in Who \cup {Nobody} : who = authenticate(cred)
  BY AuthenticateWho DEF AccountInv
<1>1. c \in Clients
  BY GatewayAssumption DEF AccountInv, AccountTypeOK
<1> DEFINE accepted == [IdleClient EXCEPT !.st = "accepted", !.who = who]
<1>2. /\ IsClient(IdleClient) /\ IdleClient.st = "idle"
      /\ IsClient(accepted) /\ accepted.st = "accepted"
  BY DEF IsClient, IdleClient, ClientFields
<1>3. /\ requests' = requests + 1 /\ next' = next /\ UNCHANGED <<jobs, users, api_keys, load, calls, tokens, told>>
      /\ http' = [http EXCEPT ![c] = IdleClient] \/ http' = [http EXCEPT ![c] = accepted]
  BY DEF auth_rate_limit_middleware, knowledgeVars, brainVars, accountVars, Respond
<1>4. AccountsHonoured'
  BY <1>3 DEF AccountInv, AccountsHonoured, Honoured
<1>5. /\ requests' \in Nat /\ requests' >= requests /\ requests' > 0
      /\ \A id \in DOMAIN calls' : calls'[id] \in Seq(Answer)
      /\ \A t \in tokens' : t.who \in Who
  BY <1>3 DEF AccountInv, AccountTypeOK
<1> HIDE DEF accepted
<1> QED
  BY <1>1, <1>2, <1>3, <1>4, <1>5, ClientKeeps

(* A request that waits: its task is new, and nobody has replied. *)
LEMMA AsksKeeps ==
  ASSUME AccountInv, NEW c \in Clients, NEW op, NEW kind, NEW arg, Question(op, kind, arg), Asks(c, op, kind, arg)
  PROVE  AccountInv'
<1>1. /\ Spawn(kind, arg) /\ UNCHANGED <<users, api_keys, tokens, requests, load, told>>
      /\ calls' = [id \in DOMAIN calls \cup {next} |-> IF id = next THEN <<>> ELSE calls[id]]
      /\ http[c].st = "accepted"
  BY DEF Asks, Request
<1>2. JobsOK' /\ JobsFrom /\ JobArgsOK' /\ next \in Nat /\ next' = next + 1 /\ HonouredKept
  BY <1>1, SpawnFrom, SameHonoured DEF AccountInv, Question, JobsOK, Spawn
<1> PICK h : h = [http[c] EXCEPT !.st = "asked", !.op = op, !.arg = arg, !.job = next]
  OBVIOUS
<1>3. IsClient(http[c]) /\ http = [d \in Clients |-> http[d]]
  BY DEF AccountInv, AccountTypeOK
<1>4. IsClient(h) /\ h.st = "asked" /\ h.op = op /\ h.arg = arg /\ h.job = next
  BY <1>3 DEF IsClient, ClientFields
<1>5. http' = [http EXCEPT ![c] = h]
  BY DEF Asks
<1>6. http' = [d \in Clients |-> http'[d]] /\ \A d \in Clients : http'[d] = IF d = c THEN h ELSE http[d]
  BY <1>3, <1>5
<1>7. \A id \in DOMAIN calls' : calls'[id] \in Seq(Answer)
  BY <1>1 DEF AccountInv, AccountTypeOK
<1>8. AccountTypeOK'
  BY <1>1, <1>4, <1>6, <1>7 DEF AccountInv, AccountTypeOK
<1>9. ASSUME NEW d \in Clients, d # c, Waits(d)' PROVE RequestOK(http[d])' /\ Waits(d) /\ http'[d].job # next
  <2> PICK g : g = http[d]
    OBVIOUS
  <2>1. RequestOK(g) /\ http'[d] = g /\ Waits(d)
    BY <1>6, <1>9 DEF AccountInv, RequestsOK, Waits
  <2>2. g.job \in DOMAIN calls' /\ calls'[g.job] = calls[g.job] /\ g.job # next
    BY <1>1, <1>2, <2>1 DEF RequestOK
  <2>3. RequestOK(g)'
    BY <1>2, <2>1, <2>2, RequestStays
  <2> QED
    BY <2>1, <2>2, <2>3 DEF RequestOK
<1>10. RequestOK(h)'
  <2> PICK j : j = Job(kind, arg)
    OBVIOUS
  <2>1. j.id = next /\ j.kind = kind /\ j.arg = arg /\ jobs' = jobs \cup {j}
    BY <1>1, SpawnMakesJob DEF Spawn
  <2>2. \A k \in jobs : k.id # next
    BY <1>2 DEF AccountInv, JobsOK
  <2>3. next \in DOMAIN calls' /\ calls'[next] = <<>>
    BY <1>1
  <2> QED
    BY <1>2, <1>4, <2>1, <2>2, <2>3 DEF RequestOK
<1>11. RequestsOK'
  <2>1. ASSUME NEW d \in Clients, Waits(d)' PROVE RequestOK(http[d])'
    <3>1. CASE d = c
      <4>1. http'[d] = h
        BY <1>6, <3>1
      <4> QED
        BY <1>10, <4>1 DEF RequestOK
    <3> QED
      BY <1>9, <2>1, <3>1
  <2>2. \A d \in Clients : http'[d].st # "idle" => requests' > 0
    BY <1>1, <1>6 DEF AccountInv, RequestsOK
  <2>3. \A d, e \in Clients : Waits(d)' /\ Waits(e)' /\ http'[d].job = http'[e].job => d = e
    BY <1>4, <1>6, <1>9 DEF AccountInv, RequestsOK
  <2> QED
    BY <2>1, <2>2, <2>3 DEF RequestsOK
<1>12. AccountsHonoured' /\ NamesUnique'
  BY <1>1 DEF AccountInv, AccountsHonoured, Honoured, NamesUnique
<1> QED
  BY <1>2, <1>8, <1>11, <1>12 DEF AccountInv

(* A client that is answered at once. *)
LEMMA RespondKeeps ==
  ASSUME AccountInv, NEW c \in Clients, RespondsAtOnce(c), \A t \in tokens' : t.who \in Who
  PROVE  AccountInv'
<1>1. IsClient(IdleClient) /\ IdleClient.st = "idle"
  BY DEF IsClient, IdleClient, ClientFields
<1>2. /\ UNCHANGED <<jobs, next, users, api_keys, load, calls, requests, told>>
      /\ http' = [http EXCEPT ![c] = IdleClient]
  BY DEF RespondsAtOnce, knowledgeVars, brainVars, accountVars, Respond
<1>3. AccountsHonoured'
  BY <1>2 DEF AccountInv, AccountsHonoured, Honoured
<1>4. requests' \in Nat /\ requests' >= requests /\ \A id \in DOMAIN calls' : calls'[id] \in Seq(Answer)
  BY <1>2 DEF AccountInv, AccountTypeOK
<1> QED
  BY <1>1, <1>2, <1>3, <1>4, ClientKeeps

(* A reply arrives and its client is told: what it is told is so. *)
LEMMA AnsweredKeeps ==
  ASSUME AccountInv, NEW c \in Clients, Answered(c) \/ TimesOut(c)
  PROVE  AccountInv'
<1>1. IsClient(IdleClient) /\ IdleClient.st = "idle"
  BY DEF IsClient, IdleClient, ClientFields
<1>2. /\ UNCHANGED <<jobs, next, users, api_keys, load, requests>> /\ Waits(c)
      /\ http' = [http EXCEPT ![c] = IdleClient]
      /\ calls' = [id \in DOMAIN calls \ {http[c].job} |-> calls[id]]
  BY DEF Answered, TimesOut, knowledgeVars, brainVars, accountVars, Respond, Waits
<1>3. /\ \A id \in DOMAIN calls : id = http[c].job \/ (id \in DOMAIN calls' /\ calls'[id] = calls[id])
      /\ \A id \in DOMAIN calls' : calls'[id] \in Seq(Answer)
      /\ requests' \in Nat /\ requests' >= requests
  BY <1>2 DEF AccountInv, AccountTypeOK
<1> PICK h : h = http[c]
  OBVIOUS
<1>4. RequestOK(h)
  BY <1>2 DEF AccountInv, RequestsOK
<1>5. (\A t \in tokens' : t.who \in Who) /\ AccountsHonoured'
  <2>1. CASE UNCHANGED <<tokens, told>>
    BY <1>2, <2>1 DEF AccountInv, AccountTypeOK, AccountsHonoured, Honoured
  <2>2. CASE Answered(c) /\ ~UNCHANGED <<tokens, told>>
    <3> PICK answer : answer = Head(calls[h.job])
      OBVIOUS
    <3>1. calls[h.job] # <<>> /\ answer \in Answer
      BY <1>4, <2>2 DEF RequestOK, Answered, AccountInv, AccountTypeOK
    <3>2. TrueReply(h.op, h.arg, answer)
      BY <1>4, <3>1 DEF RequestOK
    <3>3. CASE h.op = "auth.login"
      <4>1. UNCHANGED told /\ (UNCHANGED tokens \/ Login(c, answer.user))
        BY <2>2, <3>3 DEF Answered
      <4>2. Login(c, answer.user) /\ ~UNCHANGED tokens => answer.user \in User
        <5>1. NoUser.status # "active"
          BY DEF NoUser
        <5> QED
          BY <3>1, <5>1 DEF Login, Answer
      <4>3. \A t \in tokens' : t.who \in Who
        <5> PICK u : u = answer.user
          OBVIOUS
        <5>1. CASE UNCHANGED tokens
          BY <5>1 DEF AccountInv, AccountTypeOK
        <5>2. CASE ~UNCHANGED tokens
          <6>1. u \in User /\ Login(c, u)
            BY <4>1, <4>2, <5>2
          <6> DEFINE w == [subject |-> u.name, role |-> u.role, user |-> u.id]
          <6>2. w \in Who
            <7>1. u.name \in Names
              BY <6>1, GatewayAssumption DEF User, UserNames
            <7> QED
              BY <6>1, <7>1 DEF User, Who
          <6>3. tokens' = tokens \cup {generate_token(w)}
            BY <5>2, <6>1 DEF Login
          <6>4. generate_token(w).who = w
            BY DEF generate_token
          <6> HIDE DEF w
          <6> QED
            BY <6>2, <6>3, <6>4 DEF AccountInv, AccountTypeOK
        <5> QED
          BY <5>1, <5>2
      <4>4. AccountsHonoured'
        BY <1>2, <4>1 DEF AccountInv, AccountsHonoured, Honoured
      <4> QED
        BY <4>3, <4>4
    <3>4. CASE h.op # "auth.login"
      <4>1. UNCHANGED tokens /\ answer.ok /\ told' = told \cup Acknowledged(h.op, h.arg, answer.id)
        BY <2>2, <3>4 DEF Answered
      <4>2. \A t \in told' : Honoured(t)
        BY <3>2, <4>1 DEF TrueReply, AccountInv, AccountsHonoured
      <4> QED
        BY <1>2, <4>1, <4>2 DEF AccountInv, AccountTypeOK, AccountsHonoured, Honoured
    <3> QED
      BY <3>3, <3>4
  <2> QED
    BY <2>1, <2>2 DEF TimesOut
<1> QED
  BY <1>1, <1>2, <1>3, <1>5, ClientKeeps

(* A handler asks the service that answers its kind of request, with what   *)
(* it takes, or responds at once.                                           *)
AsksWell(c) == \E op, kind, arg : Question(op, kind, arg) /\ Asks(c, op, kind, arg)
RespondsWell(c) == RespondsAtOnce(c) /\ \A t \in tokens' : t.who \in Who

LEMMA HandlersAsk ==
  ASSUME AccountInv, NEW c \in Clients, Handler(c)
  PROVE  AsksWell(c) \/ RespondsWell(c)
<1>0. /\ requests \in Nat /\ (\A t \in tokens : t.who \in Who)
      /\ http[c].who \in Who \cup {Nobody} /\ (http[c].st = "accepted" => requests > 0)
      /\ http[c].who.user \in Int
  <2>1. IsClient(http[c]) /\ Nobody.user \in Int
    BY DEF AccountInv, AccountTypeOK, Nobody
  <2> QED
    BY <2>1 DEF AccountInv, AccountTypeOK, RequestsOK, IsClient, Who
<1>1. RespondsOnly(c) => RespondsWell(c)
  BY <1>0 DEF RespondsOnly, RespondsWell
<1>2. ASSUME NEW name \in UserNames, register_handler(c, name) PROVE AsksWell(c)
  <2> PICK arg : arg = [name |-> name, password |-> Fresh]
    OBVIOUS
  <2>1. Asks(c, "user.registered", "user_create", arg)
    BY <1>2 DEF register_handler
  <2>2. Question("user.registered", "user_create", arg)
    BY <1>0 DEF Question, ArgOK, Fresh
  <2> QED
    BY <2>1, <2>2 DEF AsksWell
(* Requests whose handlers need nothing of their argument. *)
<1>3. ASSUME NEW kind \in {"user_get", "user_list", "apikey_list", "storage_get", "storage_set", "storage_delete",
                           "storage_list"},
             NEW op \in {"auth.login", "read", "storage", "config"}, NEW arg, Asks(c, op, kind, arg)
      PROVE  AsksWell(c)
  <2>1. Question(op, kind, arg)
    BY DEF Question, ArgOK
  <2> QED
    BY <1>3, <2>1 DEF AsksWell
<1>4. ASSUME NEW password, PasswordLogin(c, "ada", password) PROVE AsksWell(c)
  BY <1>3, <1>4 DEF PasswordLogin
<1>5. ApiKeyToken(c) => RespondsWell(c)
  <2> DEFINE w == [subject |-> "api-user", role |-> "admin", user |-> 0]
  <2>1. "api-user" \in Names
    BY GatewayAssumption
  <2>2. w \in Who
    BY <2>1 DEF Who
  <2>3. generate_token(w).who = w
    BY DEF generate_token
  <2>4. ApiKeyToken(c) => tokens' = tokens \cup {generate_token(w)} /\ RespondsAtOnce(c)
    BY DEF ApiKeyToken
  <2> HIDE DEF w
  <2> QED
    BY <1>0, <2>2, <2>3, <2>4 DEF RespondsWell
<1>6. ASSUME NEW t \in tokens, revoke_token_handler(c, t) PROVE RespondsWell(c)
  BY <1>0, <1>6 DEF revoke_token_handler, RespondsWell
<1>7. get_my_profile(c) \/ list_users_handler(c) \/ list_apikeys_handler(c) \/ get_audit_log(c)
        => AsksWell(c) \/ RespondsWell(c)
  BY <1>1, <1>3 DEF get_my_profile, list_users_handler, list_apikeys_handler, get_audit_log
<1>8. storage_get(c) \/ storage_set(c) \/ storage_delete(c) \/ storage_list(c) \/ update_plugin_config(c)
        => AsksWell(c) \/ RespondsWell(c)
  BY <1>1, <1>3 DEF storage_get, storage_set, storage_delete, storage_list, update_plugin_config
<1>9. ASSUME NEW id, get_user_handler(c, id) PROVE AsksWell(c) \/ RespondsWell(c)
  BY <1>1, <1>3, <1>9 DEF get_user_handler
<1>10. update_my_profile(c) => AsksWell(c) \/ RespondsWell(c)
  <2> PICK with : with = [password |-> Fresh]
    OBVIOUS
  <2> PICK arg : arg = [user |-> http[c].who.user, with |-> with]
    OBVIOUS
  <2>1. update_my_profile(c) => RespondsOnly(c) \/ Asks(c, "profile", "user_update", arg)
    BY DEF update_my_profile
  <2>2. Asks(c, "profile", "user_update", arg) => requests \in Nat \ {0}
    BY <1>0 DEF Asks
  <2>3. requests \in Nat \ {0} => Question("profile", "user_update", arg)
    <3>1. arg.with = [password |-> requests]
      BY DEF Fresh
    <3> QED
      BY <3>1 DEF Question, ArgOK
  <2> QED
    BY <1>1, <2>1, <2>2, <2>3 DEF AsksWell
<1>11. ASSUME NEW id, update_user_role_handler(c, id) PROVE AsksWell(c) \/ RespondsWell(c)
  <2> PICK with : with = [role |-> "admin"]
    OBVIOUS
  <2> PICK arg : arg = [user |-> id, with |-> with]
    OBVIOUS
  <2>1. RespondsOnly(c) \/ Asks(c, "user.role_updated", "user_update", arg)
    BY <1>11 DEF update_user_role_handler
  <2>2. Question("user.role_updated", "user_update", arg)
    <3>1. arg.with = with
      OBVIOUS
    <3> QED
      BY <3>1 DEF Question, ArgOK
  <2> QED
    BY <1>1, <2>1, <2>2 DEF AsksWell
<1>12. ASSUME NEW id, delete_user_handler(c, id) PROVE AsksWell(c) \/ RespondsWell(c)
  <2>1. Question("user.deleted", "user_delete", [id |-> id])
    BY DEF Question, ArgOK
  <2> QED
    BY <1>1, <1>12, <2>1 DEF delete_user_handler, AsksWell
<1>13. create_apikey_handler(c) => AsksWell(c) \/ RespondsWell(c)
  <2> PICK arg : arg = [id |-> http[c].who.user]
    OBVIOUS
  <2>1. create_apikey_handler(c) => RespondsOnly(c) \/ Asks(c, "apikey.created", "apikey_create", arg)
    BY DEF create_apikey_handler
  <2>2. Question("apikey.created", "apikey_create", arg)
    BY <1>0 DEF Question, ArgOK
  <2> QED
    BY <1>1, <2>1, <2>2 DEF AsksWell
<1>14. ASSUME NEW key, revoke_apikey_handler(c, key) PROVE AsksWell(c) \/ RespondsWell(c)
  <2>1. Question("apikey.revoked", "apikey_revoke", [id |-> key])
    BY DEF Question, ArgOK
  <2> QED
    BY <1>1, <1>14, <2>1 DEF revoke_apikey_handler, AsksWell
<1> QED
  BY <1>2, <1>4, <1>5, <1>6, <1>7, <1>8, <1>9, <1>10, <1>11, <1>12, <1>13, <1>14 DEF Handler, UserNames

(* A question of somebody on the bus about a key. *)
LEMMA ValidateKeeps ==
  ASSUME AccountInv, NEW key, ValidateRequested(key)
  PROVE  AccountInv'
<1>1. /\ Spawn("apikey_validate", [id |-> key]) /\ requests' = requests + 1
      /\ UNCHANGED <<users, api_keys, calls, http, tokens, load, told>>
  BY DEF ValidateRequested, accountVars
<1>2. ArgOK("apikey_validate", [id |-> key])
  BY DEF ArgOK
<1>3. JobsOK' /\ JobsFrom /\ JobArgsOK' /\ next \in Nat /\ next' = next + 1 /\ HonouredKept
  BY <1>1, <1>2, SpawnFrom, SameHonoured DEF AccountInv, JobsOK, Spawn
<1>4. AccountTypeOK'
  BY <1>1 DEF AccountInv, AccountTypeOK
<1>5. RequestsOK'
  <2>1. ASSUME NEW c \in Clients, Waits(c)' PROVE RequestOK(http[c])'
    <3> PICK h : h = http[c]
      OBVIOUS
    <3>1. RequestOK(h) /\ http'[c] = h
      BY <1>1, <2>1 DEF AccountInv, RequestsOK, Waits
    <3>2. RequestOK(h)'
      BY <1>1, <1>3, <3>1, RequestStays DEF RequestOK
    <3> QED
      BY <3>1, <3>2 DEF RequestOK
  <2>2. \A c \in Clients : http'[c].st # "idle" => requests' > 0
    BY <1>1 DEF AccountInv, AccountTypeOK, RequestsOK
  <2>3. \A c, d \in Clients : Waits(c)' /\ Waits(d)' /\ http'[c].job = http'[d].job => c = d
    BY <1>1 DEF AccountInv, RequestsOK, Waits
  <2> QED
    BY <2>1, <2>2, <2>3 DEF RequestsOK
<1>6. AccountsHonoured' /\ NamesUnique'
  BY <1>1 DEF AccountInv, AccountsHonoured, Honoured, NamesUnique
<1> QED
  BY <1>3, <1>4, <1>5, <1>6 DEF AccountInv

(* A restart forgets the requests, and nothing that was confirmed. *)
LEMMA RestartKeeps ==
  ASSUME AccountInv, Restart
  PROVE  AccountInv'
<1>1. /\ UNCHANGED <<jobs, next, users, api_keys, tokens, load, requests, told>>
      /\ http' = [c \in Clients |-> IdleClient] /\ calls' = <<>>
  BY DEF Restart, knowledgeVars, brainVars
<1>2. IsClient(IdleClient) /\ IdleClient.st = "idle"
  BY DEF IsClient, IdleClient, ClientFields
<1>3. AccountTypeOK'
  BY <1>1, <1>2 DEF AccountInv, AccountTypeOK
<1>4. RequestsOK'
  BY <1>1, <1>2 DEF RequestsOK, Waits
<1>5. JobsOK' /\ JobArgsOK' /\ AccountsHonoured' /\ NamesUnique'
  BY <1>1 DEF AccountInv, JobsOK, IsJob, JobArgsOK, AccountsHonoured, Honoured, NamesUnique
<1> QED
  BY <1>3, <1>4, <1>5 DEF AccountInv

(* The pipeline's handlers are tasks of their own as well. *)
LEMMA BrainMoves ==
  ASSUME JobsOK, NextBrain
  PROVE  next' = next /\ \E j \in jobs : Moves(j)
<1> PICK j \in jobs :
    \/ ContentInsert(j) \/ ContentEmbed(j) \/ EntityUpsert(j) \/ EntityMention(j)
    \/ FactRead(j) \/ FactReinforce(j) \/ FactSupersede(j) \/ FactLink(j)
    \/ FactInsert(j) \/ FactDerive(j)
    \/ detect_collection_id(j) \/ ScopeAssign(j) \/ TaskUpsert(j)
  BY DEF NextBrain
<1>1. next' = next
  BY DEF ContentInsert, ContentEmbed, EntityUpsert, EntityMention, FactRead, FactReinforce, FactSupersede, FactLink,
         FactInsert, FactDerive, detect_collection_id, ScopeAssign, TaskUpsert
<1>2. CASE Ends(j) \/ \E st : Goes(j, st)
  BY <1>1, <1>2, GoesSteps DEF Moves
<1>3. ASSUME NEW f, NEW st, jobs' = (jobs \ {j}) \cup {[j EXCEPT !.old = f.key, !.st = st]}
      PROVE  Moves(j)
  <2> DEFINE k == [j EXCEPT !.old = f.key, !.st = st]
  <2>1. IsJob(j)
    BY DEF JobsOK
  <2>2. IsJob(k) /\ k.id = j.id /\ k.kind = j.kind /\ k.arg = j.arg
    BY <2>1 DEF IsJob, JobFields
  <2>3. jobs' = (jobs \ {j}) \cup {k}
    BY <1>3
  <2> HIDE DEF k
  <2> QED
    BY <2>2, <2>3 DEF Moves, Steps
<1>4. CASE FactRead(j)
  <2>1. \/ Ends(j) \/ \E st : Goes(j, st)
        \/ \E f, st : jobs' = (jobs \ {j}) \cup {[j EXCEPT !.old = f.key, !.st = st]}
    BY <1>4 DEF FactRead
  <2> QED
    BY <1>1, <1>2, <1>3, <2>1
<1>5. CASE ~FactRead(j)
  <2>1. Ends(j) \/ \E st : Goes(j, st)
    BY <1>5 DEF ContentInsert, ContentEmbed, EntityUpsert, EntityMention, FactReinforce, FactSupersede, FactLink,
           FactInsert, FactDerive, FactUpserted, detect_collection_id, ScopeAssign, TaskUpsert
  <2> QED
    BY <1>2, <2>1
<1> QED
  BY <1>4, <1>5

(* No step breaks what clients were told. *)
LEMMA AccountInvInductive ==
  AccountInv /\ [SystemNext]_<<knowledgeVars, gatewayVars, channelVars>> => AccountInv'
<1> SUFFICES ASSUME AccountInv, [SystemNext]_<<knowledgeVars, gatewayVars, channelVars>> PROVE AccountInv'
  OBVIOUS
<1>1. ASSUME UNCHANGED <<jobs, next, users, api_keys, calls, http, tokens, requests, load, told>> PROVE AccountInv'
  <2>1. JobsOK' /\ JobArgsOK' /\ JobsFrom /\ next \in Nat /\ HonouredKept
    BY <1>1, SameHonoured DEF AccountInv, JobsOK, IsJob, JobArgsOK, JobsFrom
  <2>2. RequestsOK'
    BY <1>1, <2>1, RequestsStay DEF AccountInv
  <2>3. AccountTypeOK' /\ NamesUnique' /\ AccountsHonoured'
    BY <1>1 DEF AccountInv, AccountTypeOK, NamesUnique, AccountsHonoured, Honoured
  <2> QED
    BY <2>1, <2>2, <2>3 DEF AccountInv
<1>2. ASSUME GatewayStep PROVE AccountInv'
  <2>1. ASSUME NEW c \in load.clients, NEW cred \in tokens \cup {ApiKeyHolder, Nobody},
               auth_rate_limit_middleware(c, cred)
        PROVE  AccountInv'
    BY <2>1, MiddlewareKeeps
  <2>2. ASSUME NEW c \in Clients, Handler(c) PROVE AccountInv'
    BY <2>2, HandlersAsk, AsksKeeps, RespondKeeps DEF AsksWell, RespondsWell
  <2>3. ASSUME NEW c \in Clients, Answered(c) \/ TimesOut(c) PROVE AccountInv'
    BY <2>3, AnsweredKeeps
  <2>4. CASE AccountStep
    BY <2>4, AccountHandlersKeep DEF AccountStep, HandlerFrame
  <2>5. ASSUME NEW key, ValidateRequested(key) PROVE AccountInv'
    BY <2>5, ValidateKeeps
  <2>6. CASE RateMaintenance \/ JwtMaintenance \/ TimePasses
    BY <1>1, <2>6 DEF RateMaintenance, JwtMaintenance, TimePasses, knowledgeVars, brainVars, accountVars
  <2>7. CASE Restart
    BY <2>7, RestartKeeps
  <2> QED
    BY <1>2, <2>1, <2>2, <2>3, <2>4, <2>5, <2>6, <2>7 DEF GatewayStep
<1>3. ASSUME Untouched, UNCHANGED gatewayVars PROVE AccountInv'
  BY <1>1, <1>3 DEF Untouched, gatewayVars, accountVars
<1>4. ASSUME Spawned, UNCHANGED gatewayVars PROVE AccountInv'
  <2> PICK kind \in Pipeline : \E arg : Spawn(kind, arg)
    BY <1>4 DEF Spawned
  <2> PICK arg : Spawn(kind, arg)
    OBVIOUS
  <2>1. ArgOK(kind, arg)
    BY DEF ArgOK, Pipeline
  <2>2. JobsOK' /\ JobArgsOK' /\ JobsFrom /\ next \in Nat /\ next' = next + 1
    BY <2>1, SpawnFrom DEF AccountInv, JobsOK, Spawn
  <2>3. UNCHANGED <<users, api_keys, calls, http, tokens, requests, load, told>>
    BY <1>4 DEF gatewayVars, accountVars
  <2>4. RequestsOK' /\ HonouredKept
    BY <2>2, <2>3, SameHonoured, RequestsStay DEF AccountInv
  <2>5. AccountTypeOK' /\ NamesUnique' /\ AccountsHonoured'
    BY <2>3 DEF AccountInv, AccountTypeOK, NamesUnique, AccountsHonoured, Honoured
  <2> QED
    BY <2>2, <2>4, <2>5 DEF AccountInv
<1>5. CASE Next /\ UNCHANGED <<gatewayVars, channelVars>>
  <2>1. CASE BrainStep
    <3>1. next' = next /\ \E j \in jobs : Moves(j)
      BY <2>1, BrainMoves DEF BrainStep, AccountInv
    <3>2. HandlerFrame /\ UNCHANGED <<users, api_keys, calls>>
      BY <1>5 DEF HandlerFrame, gatewayVars, accountVars
    <3> QED
      BY <3>1, <3>2, QuietHandler
  <2>2. CASE ~BrainStep
    <3>1. Untouched \/ Spawned
      BY <1>5, <2>2, PluginsSpawn DEF Next
    <3> QED
      BY <1>3, <1>4, <1>5, <3>1
  <2> QED
    BY <2>1, <2>2
<1>6. CASE ChannelStep /\ UNCHANGED gatewayVars
  BY <1>3, <1>6, ChannelsUntouched
<1>7. CASE UNCHANGED <<knowledgeVars, gatewayVars, channelVars>>
  BY <1>3, <1>7 DEF Untouched, knowledgeVars, brainVars
<1> QED
  BY <1>2, <1>5, <1>6, <1>7 DEF SystemNext

(* No step leaves a subject without a current fact. *)
LEMMA FactInvInductive ==
  FactInv /\ [SystemNext]_<<knowledgeVars, gatewayVars, channelVars>> => FactInv'
<1> SUFFICES ASSUME FactInv, [SystemNext]_<<knowledgeVars, gatewayVars, channelVars>> PROVE FactInv'
  OBVIOUS
<1>1. ASSUME Untouched PROVE FactInv'
  BY <1>1 DEF FactInv, JobsOK, IsJob, FactsOK, IsDb, OldRead, NotWritten, CurrentFactRemains, get_facts, Current, Untouched
<1>2. ASSUME NEW kind, NEW arg, Spawn(kind, arg), db' = db PROVE FactInv'
  BY <1>2, SpawnKeepsFacts
<1>3. ASSUME OtherMoves PROVE FactInv'
  BY <1>3, OthersKeepFacts DEF OtherMoves, Pipeline, FactInv, FactsOK, IsDb
<1>4. CASE GatewayStep
  BY <1>1, <1>2, <1>3, <1>4, GatewayFrame DEF FactInv, Asked
<1>5. CASE Next
  <2>1. CASE BrainStep
    BY <2>1, BrainKeepsFacts DEF BrainStep
  <2>2. CASE ~BrainStep
    <3>1. Untouched \/ Spawned
      BY <1>5, <2>2, PluginsSpawn DEF Next
    <3> QED
      BY <1>1, <1>2, <3>1 DEF Spawned
  <2> QED
    BY <2>1, <2>2
<1>6. CASE ChannelStep
  BY <1>1, <1>6, ChannelsUntouched
<1>7. CASE UNCHANGED <<knowledgeVars, gatewayVars, channelVars>>
  BY <1>1, <1>7 DEF Untouched, knowledgeVars, brainVars
<1> QED
  BY <1>4, <1>5, <1>6, <1>7 DEF SystemNext

(* To the buckets a step of the system is one of the rate limiter's, for a  *)
(* subject and with a rate that it knows.                                   *)
LEMMA SystemStepsRate ==
  AccountInv /\ [SystemNext]_<<knowledgeVars, gatewayVars, channelVars>> => [RateNext]_rateVars
<1> SUFFICES ASSUME AccountInv, [SystemNext]_<<knowledgeVars, gatewayVars, channelVars>> PROVE [RateNext]_rateVars
  OBVIOUS
<1>1. ASSUME UNCHANGED rateVars PROVE [RateNext]_rateVars
  BY <1>1
<1>2. CASE GatewayStep
  <2>1. ASSUME NEW c, NEW cred \in tokens \cup {ApiKeyHolder, Nobody}, auth_rate_limit_middleware(c, cred)
        PROVE  [RateNext]_rateVars
    <3> PICK who \in Who \cup {Nobody} : who = authenticate(cred)
      BY AuthenticateWho DEF AccountInv
    <3>1. CASE who = Nobody
      BY <1>1, <2>1, <3>1 DEF auth_rate_limit_middleware
    <3>2. CASE who # Nobody
      <4>1. check_rate_limit(who.subject, effective_rpm(who))
        BY <2>1, <3>2 DEF auth_rate_limit_middleware
      <4>2. who.subject \in Names /\ effective_rpm(who) \in Rates
        BY <3>2, GatewayAssumption DEF Who, effective_rpm
      <4> QED
        BY <4>1, <4>2 DEF RateNext
    <3> QED
      BY <3>1, <3>2
  <2>2. ASSUME NEW c \in Clients, Handler(c) PROVE [RateNext]_rateVars
    <3>1. AsksWell(c) => UNCHANGED rateVars
      BY DEF AsksWell, Asks
    <3>2. RespondsWell(c) => UNCHANGED rateVars
      BY DEF RespondsWell, RespondsAtOnce
    <3> QED
      BY <1>1, <2>2, <3>1, <3>2, HandlersAsk
  <2>3. ASSUME NEW c, Answered(c) \/ TimesOut(c) PROVE [RateNext]_rateVars
    BY <1>1, <2>3 DEF Answered, TimesOut
  <2>4. ASSUME NEW key, ValidateRequested(key) PROVE [RateNext]_rateVars
    BY <1>1, <2>4 DEF ValidateRequested
  <2>5. CASE AccountStep \/ JwtMaintenance
    BY <1>1, <2>5 DEF AccountStep, JwtMaintenance
  <2>6. CASE RateMaintenance \/ TimePasses \/ Restart
    BY <2>6 DEF RateMaintenance, TimePasses, Restart, RateNext
  <2> QED
    BY <1>2, <2>1, <2>2, <2>3, <2>4, <2>5, <2>6 DEF GatewayStep
<1>3. CASE UNCHANGED gatewayVars
  BY <1>1, <1>3 DEF gatewayVars
<1> QED
  BY <1>2, <1>3 DEF SystemNext

-----------------------------------------------------------------------------
(* Where everything comes from.  The events and requests on their way       *)
(* through the pipeline are about content that is stored, and so is what    *)
(* their tasks write; an entity is stored, and mentioned by its content,    *)
(* before its facts are asked for.                                          *)

(* What the LLMs find comes as lists. *)
IsList(s) == \E S : s \in Seq(S)
Lists == \A p, ev : \A found \in Extracts(p, ev) : IsList(found)

Stored(k) == \E c \in db.content : c.key = k
Written(k) == \E f \in db.facts : f.key = k
Mentioned(source, name) ==
  /\ Stored(source) /\ name \in db.entities
  /\ [kind |-> "mentions", from |-> source, to |-> name] \in db.edges \/ faults > 0

(* An id that a superseded fact may lead to. *)
Leads(id) == Written(id) \/ id \in db.unwritten \/ \E j \in jobs : j.kind = "fact" /\ j.id = id

EdgeTraced(e) ==
  /\ e.kind = "mentions" => Stored(e.from) /\ e.to \in db.entities
  /\ e.kind = "derived_from" => Written(e.from) /\ Stored(e.to)
  /\ e.kind = "supersedes" => Written(e.to) /\ Leads(e.from)
  /\ e.kind \notin {"mentions", "derived_from", "supersedes"} =>
       \/ e.from[1] = "content" /\ Stored(e.from[2])
       \/ faults > 0
FactTraced(f) == Mentioned(f.source, f.asked) /\ (f.by # 0 => Leads(f.by))

(* Nothing leads to the id of a task that may end without writing a fact. *)
Unreferenced(id) ==
  /\ \A f \in db.facts : f.by # id
  /\ \A e \in db.edges : e.kind = "supersedes" => e.from # id

JobTraced(j) ==
  /\ j.kind = "content" /\ j.st = "embed" => Stored(j.id)
  /\ j.kind = "entity" => Stored(j.arg.source) /\ (j.st = "mention" => j.arg.name \in db.entities)
  /\ j.kind = "scope" => Stored(j.arg.target) /\ (j.st = "entities" => faults > 0)
  /\ j.kind = "fact" =>
       /\ Mentioned(j.arg.source, j.arg.asked)
       /\ j.st = "derive" => Written(j.id)
       /\ j.st \in {"start", "reinforce", "supersede"} => Unreferenced(j.id)

Sinks == {"entity-extractor", "scope-classifier", "fact-extractor"}
EventTraced(p, x) ==
  /\ p \in {"entity-extractor", "scope-classifier"} => Stored(x.key)
  /\ p = "fact-extractor" => Mentioned(x.source, x.name)
AskTraced(p, x) ==
  /\ p = "entity-extractor" => Stored(x.source)
  /\ p = "fact-extractor" => Mentioned(x.source, x.asked)
  /\ p = "scope-classifier" => Stored(x.target)

DataTraced ==
  /\ faults \in Nat /\ next \in Nat \ {0}
  /\ \A e \in db.edges : EdgeTraced(e)
  /\ \A f \in db.facts : FactTraced(f)
  /\ \A j \in jobs : JobTraced(j) /\ j.id # 0
  /\ \A u \in db.unwritten : u \in Nat /\ u < next
PipesTraced ==
  /\ plugin = [p \in Extractors |-> plugin[p]]
  /\ \A p \in Extractors : IsList(plugin[p]) /\ \A x \in ToSet(plugin[p]) : AskTraced(p, x)
  /\ \A p \in Sinks \cap DOMAIN queue : IsList(queue[p]) /\ \A x \in ToSet(queue[p]) : EventTraced(p, x)
TraceInv == DataTraced /\ PipesTraced

(* No step takes anything of that away. *)
Grown ==
  /\ \A k : (Stored(k) => Stored(k)') /\ (Written(k) => Written(k)')
  /\ db.entities \subseteq db'.entities /\ db.edges \subseteq db'.edges /\ db.unwritten \subseteq db'.unwritten
  /\ faults \in Nat /\ faults' \in Nat /\ faults' >= faults

(* What is known of a source, an event or a request stays known. *)
LEMMA KnownStays ==
  ASSUME Grown
  PROVE  /\ \A source, name : Mentioned(source, name) => Mentioned(source, name)'
         /\ \A p, x : EventTraced(p, x) => EventTraced(p, x)'
         /\ \A p, x : AskTraced(p, x) => AskTraced(p, x)'
<1>1. \A source, name : Mentioned(source, name) => Mentioned(source, name)'
  BY DEF Grown, Mentioned
<1>2. \A p, x : EventTraced(p, x) => EventTraced(p, x)'
  BY <1>1 DEF Grown, EventTraced
<1>3. \A p, x : AskTraced(p, x) => AskTraced(p, x)'
  BY <1>1 DEF Grown, AskTraced
<1> QED
  BY <1>1, <1>2, <1>3

(* One more item at the end of a list. *)
LEMMA ListAppend ==
  ASSUME NEW s, IsList(s), NEW e
  PROVE  IsList(Append(s, e)) /\ \A x \in ToSet(Append(s, e)) : x \in ToSet(s) \/ x = e
<1> PICK S : s \in Seq(S)
  BY DEF IsList
<1> PICK T : T = S \cup {e}
  OBVIOUS
<1>1. s \in Seq(T) /\ e \in T
  OBVIOUS
<1>2. Append(s, e) \in Seq(T)
  BY <1>1
<1>3. /\ DOMAIN Append(s, e) = 1..(Len(s) + 1) /\ DOMAIN s = 1..Len(s)
      /\ \A i \in 1..(Len(s) + 1) : Append(s, e)[i] = IF i = Len(s) + 1 THEN e ELSE s[i]
  BY <1>1
<1>4. \A i \in DOMAIN Append(s, e) : i \in DOMAIN s \/ Append(s, e)[i] = e
  BY <1>1, <1>3
<1> QED
  BY <1>2, <1>3, <1>4 DEF IsList, ToSet

(* The first item of a list, and the others. *)
LEMMA ListTail ==
  ASSUME NEW s, IsList(s), s # <<>>
  PROVE  IsList(Tail(s)) /\ ToSet(Tail(s)) \subseteq ToSet(s) /\ Head(s) \in ToSet(s)
<1> PICK S : s \in Seq(S)
  BY DEF IsList
<1>1. Tail(s) \in Seq(S) /\ Len(s) \in Nat \ {0} /\ DOMAIN s = 1..Len(s) /\ Head(s) = s[1]
  OBVIOUS
<1>2. DOMAIN Tail(s) = 1..(Len(s) - 1) /\ \A i \in 1..(Len(s) - 1) : Tail(s)[i] = s[i + 1]
  OBVIOUS
<1>3. \A i \in 1..(Len(s) - 1) : i + 1 \in DOMAIN s
  BY <1>1
<1> QED
  BY <1>1, <1>2, <1>3 DEF IsList, ToSet

(* A list with something made of each of its items. *)
LEMMA ListMap ==
  ASSUME NEW s, IsList(s), NEW f, DOMAIN f = DOMAIN s, f = [i \in DOMAIN f |-> f[i]]
  PROVE  IsList(f)
<1> PICK S : s \in Seq(S)
  BY DEF IsList
<1> PICK n \in Nat : n = Len(s)
  OBVIOUS
<1>1. DOMAIN f = 1..n
  OBVIOUS
<1> PICK T : T = {f[i] : i \in 1..n}
  OBVIOUS
<1>2. f \in [1..n -> T]
  BY <1>1
<1>3. f \in Seq(T)
  BY <1>2
<1> QED
  BY <1>3 DEF IsList

(* The empty list. *)
LEMMA EmptyList == IsList(<<>>) /\ ToSet(<<>>) = {}
<1>1. <<>> \in Seq({})
  OBVIOUS
<1> QED
  BY <1>1 DEF IsList, ToSet

(* A step by which the task j at most: adds edges that lead somewhere, and  *)
(* facts whose source is known; lets facts be superseded by itself, going   *)
(* on; ends, when its fact is written, given up, or referred to by nobody.  *)
LEMMA TaskKeepsData ==
  ASSUME JobsOK, DataTraced, Grown, next' = next, NEW j \in jobs,
         \A u \in db'.unwritten : u \in db.unwritten \/ u = j.id,
         \A e \in db'.edges : \/ e \in db.edges
                              \/ EdgeTraced(e)' /\ (e.kind = "supersedes" => e.from = j.id /\ j.st = "link"),
         \A g \in db'.facts :
           \/ \E f \in db.facts : /\ g.source = f.source /\ g.asked = f.asked
                                  /\ \/ g.by = f.by
                                     \/ g.by = j.id /\ j.st = "supersede" /\ Leads(j.id)'
           \/ Mentioned(g.source, g.asked) /\ g.by = 0,
         \/ Ends(j) /\ (j.kind = "fact" => Leads(j.id)' \/ (Unreferenced(j.id) /\ j.st \in {"start", "reinforce"}))
         \/ \E k : Steps(j, k) /\ JobTraced(k)'
  PROVE  DataTraced'
<1>1. \A source, name : Mentioned(source, name) => Mentioned(source, name)'
  BY KnownStays
<1>2. \A i \in jobs : i # j => i \in jobs' /\ i.id # j.id
  BY DEF JobsOK, Ends, Steps
<1>3. \A i \in jobs' : i.id # 0 /\ ((i \in jobs /\ i # j) \/ JobTraced(i)')
  BY DEF Ends, Steps, DataTraced
<1>4. ASSUME NEW id, Leads(id), ~Leads(id)' PROVE id = j.id /\ Unreferenced(id) /\ j.st \in {"start", "reinforce"}
  <2>1. Written(id) => Leads(id)'
    BY DEF Grown, Leads
  <2>2. id \in db.unwritten => Leads(id)'
    BY DEF Grown, Leads
  <2> PICK i \in jobs : i.kind = "fact" /\ i.id = id
    BY <1>4, <2>1, <2>2 DEF Leads
  <2>3. i = j
    BY <1>2, <1>4 DEF Leads
  <2>4. ~\E k : Steps(j, k)
    BY <1>4, <2>3 DEF Leads, Steps
  <2> QED
    BY <1>4, <2>3, <2>4
<1>5. ASSUME NEW e \in db'.edges PROVE EdgeTraced(e)'
  <2>1. CASE e \in db.edges
    <3>1. EdgeTraced(e)
      BY <2>1 DEF DataTraced
    <3>2. e.kind = "supersedes" => Leads(e.from)'
      BY <1>4, <2>1, <3>1 DEF EdgeTraced, Unreferenced
    <3> QED
      BY <3>1, <3>2 DEF EdgeTraced, Grown
  <2> QED
    BY <2>1
<1>6. ASSUME NEW g \in db'.facts PROVE FactTraced(g)'
  <2>1. ASSUME NEW f \in db.facts, g.source = f.source, g.asked = f.asked,
               g.by = f.by \/ (g.by = j.id /\ j.st = "supersede" /\ Leads(j.id)')
        PROVE  FactTraced(g)'
    <3>1. Mentioned(g.source, g.asked)' /\ (f.by # 0 => Leads(f.by))
      BY <1>1, <2>1 DEF DataTraced, FactTraced
    <3>2. f.by # 0 => Leads(f.by)'
      BY <1>4, <3>1 DEF Unreferenced
    <3> QED
      BY <2>1, <3>1, <3>2 DEF FactTraced
  <2>2. ASSUME Mentioned(g.source, g.asked), g.by = 0 PROVE FactTraced(g)'
    BY <1>1, <2>2 DEF FactTraced
  <2> QED
    BY <2>1, <2>2
<1>7. ASSUME NEW i \in jobs, i # j PROVE JobTraced(i)'
  <2>1. JobTraced(i) /\ i.id # j.id
    BY <1>2, <1>7 DEF DataTraced
  <2>2. Unreferenced(i.id) => Unreferenced(i.id)'
    <3>1. i.id # 0
      BY DEF DataTraced
    <3> QED
      BY <2>1, <3>1 DEF Unreferenced
  <2> QED
    BY <1>1, <2>1, <2>2 DEF JobTraced, Grown
<1>8. \A u \in db'.unwritten : u \in Nat /\ u < next'
  BY DEF DataTraced, JobsOK
<1>9. faults' \in Nat /\ next' \in Nat \ {0}
  BY DEF Grown, DataTraced
<1> QED
  BY <1>3, <1>5, <1>6, <1>7, <1>8, <1>9 DEF DataTraced

(* A step that leaves the database alone takes nothing away. *)
LEMMA SameDbGrown ==
  ASSUME DataTraced, db' = db, FaultStep
  PROVE  Grown
  BY DEF DataTraced, FaultStep, Fault, NoFault, Grown, Stored, Written

(* The ids that are referred to have been given out. *)
LEMMA NextUnreferenced ==
  ASSUME FactInv, DataTraced
  PROVE  Unreferenced(next)
<1>1. \A id : Leads(id) => id \in Nat /\ id < next
  BY DEF FactInv, JobsOK, FactsOK, DataTraced, Leads, Written
<1>2. \A f \in db.facts : f.by # next
  BY <1>1 DEF DataTraced, FactTraced
<1>3. \A e \in db.edges : e.kind = "supersedes" => e.from # next
  BY <1>1 DEF DataTraced, EdgeTraced
<1> QED
  BY <1>2, <1>3 DEF Unreferenced

(* A new task, whose message is about what is stored. *)
LEMMA SpawnKeepsData ==
  ASSUME FactInv, DataTraced, db' = db, FaultStep, NEW kind, NEW arg, Spawn(kind, arg),
         kind = "entity" => Stored(arg.source),
         kind = "scope" => Stored(arg.target),
         kind = "fact" => Mentioned(arg.source, arg.asked)
  PROVE  DataTraced'
<1> PICK k : k = Job(kind, arg)
  OBVIOUS
<1>1. /\ k.id = next /\ k.st = "start" /\ k.kind = kind /\ k.arg = arg
      /\ jobs' = jobs \cup {k} /\ next' = next + 1
  BY SpawnMakesJob DEF Spawn
<1>2. Grown /\ Unreferenced(next)
  BY SameDbGrown, NextUnreferenced
<1>3. \A source, name : Mentioned(source, name) => Mentioned(source, name)'
  BY <1>2, KnownStays
<1>4. \A id : (Leads(id) => Leads(id)') /\ (Unreferenced(id) => Unreferenced(id)')
  BY <1>1, <1>2 DEF Leads, Unreferenced, Written
<1>5. \A e \in db'.edges : EdgeTraced(e)'
  BY <1>2, <1>4 DEF DataTraced, EdgeTraced, Grown
<1>6. \A f \in db'.facts : FactTraced(f)'
  BY <1>3, <1>4 DEF DataTraced, FactTraced
<1>7. \A i \in jobs : JobTraced(i)' /\ i.id # 0
  BY <1>2, <1>3, <1>4 DEF DataTraced, JobTraced, Grown
<1>8. JobTraced(k)' /\ k.id # 0
  BY <1>1, <1>2, <1>3, <1>4 DEF JobTraced, Grown, DataTraced
<1>9. faults' \in Nat /\ next' \in Nat \ {0} /\ \A u \in db'.unwritten : u \in Nat /\ u < next'
  BY <1>1, <1>2 DEF DataTraced, Grown
<1> QED
  BY <1>1, <1>5, <1>6, <1>7, <1>8, <1>9 DEF DataTraced

(* A step that does not concern the brain. *)
LEMMA UntouchedKeepsData ==
  ASSUME DataTraced, Untouched, FaultStep
  PROVE  DataTraced'
<1>1. Grown /\ db' = db /\ jobs' = jobs /\ next' = next
  BY SameDbGrown DEF Untouched
<1>2. \A source, name : Mentioned(source, name) => Mentioned(source, name)'
  BY <1>1, KnownStays
<1>3. \A id : (Leads(id) => Leads(id)') /\ (Unreferenced(id) => Unreferenced(id)')
  BY <1>1 DEF Leads, Unreferenced, Written
<1>4. \A e \in db'.edges : EdgeTraced(e)'
  BY <1>1, <1>3 DEF DataTraced, EdgeTraced, Grown
<1>5. \A f \in db'.facts : FactTraced(f)'
  BY <1>1, <1>2, <1>3 DEF DataTraced, FactTraced
<1>6. \A i \in jobs' : JobTraced(i)' /\ i.id # 0
  BY <1>1, <1>2, <1>3 DEF DataTraced, JobTraced, Grown
<1> QED
  BY <1>1, <1>4, <1>5, <1>6 DEF DataTraced, Grown

(* A task of the gateway's or of another service of the kernel. *)
LEMMA AccountsKeepData ==
  ASSUME JobsOK, DataTraced, OtherMoves, FaultStep
  PROVE  DataTraced'
<1> PICK j \in jobs : j.kind \notin Pipeline /\ Moves(j)
  BY DEF OtherMoves
<1>1. db' = db /\ next' = next /\ Grown
  BY SameDbGrown DEF OtherMoves
<1>2. \A k : Steps(j, k) => JobTraced(k)'
  BY DEF Steps, JobTraced, Pipeline
<1>3. j.kind # "fact" /\ (Ends(j) \/ \E k : Steps(j, k))
  BY DEF Pipeline, Moves
<1> QED
  BY <1>1, <1>2, <1>3, TaskKeepsData

-----------------------------------------------------------------------------
(* The pipes.  A plugin takes what waits for it, and others publish what is *)
(* not for the extractors.                                                  *)
Taken ==
  \A p \in Sinks \cap DOMAIN queue' :
    /\ p \in DOMAIN queue
    /\ IsList(queue[p]) => IsList(queue'[p]) /\ ToSet(queue'[p]) \subseteq ToSet(queue[p])

(* Nothing new in the pipes. *)
LEMMA TakenKeepsPipes ==
  ASSUME PipesTraced, Grown, Taken, plugin' = plugin
  PROVE  PipesTraced'
  BY KnownStays DEF PipesTraced, Taken

(* An event is taken. *)
LEMMA TakesTaken ==
  ASSUME NEW p, Takes(p)
  PROVE  Taken
<1>1. /\ DOMAIN queue' = DOMAIN queue /\ queue[p] # <<>>
      /\ \A q \in DOMAIN queue : queue'[q] = IF q = p THEN Tail(queue[p]) ELSE queue[q]
  BY DEF Takes, Has
<1> QED
  BY <1>1, ListTail DEF Taken

(* An event is published for others. *)
LEMMA PublishTaken ==
  ASSUME NEW subject, NEW ev, publish_response(subject, ev), Subscribed(subject) \cap Sinks = {}
  PROVE  Taken
  BY DEF publish_response, Taken

-----------------------------------------------------------------------------
(* The handlers. *)

(* A write to one collection leaves the others. *)
LEMMA WriteContent ==
  ASSUME IsDb, NEW C, db' = [db EXCEPT !.content = C]
  PROVE  /\ db'.content = C /\ db'.facts = db.facts /\ db'.edges = db.edges
         /\ db'.entities = db.entities /\ db'.unwritten = db.unwritten
  BY DEF IsDb, DbFields

(* The same of the edges. *)
LEMMA WriteEdges ==
  ASSUME IsDb, NEW E, db' = [db EXCEPT !.edges = E]
  PROVE  /\ db'.edges = E /\ db'.facts = db.facts /\ db'.content = db.content
         /\ db'.entities = db.entities /\ db'.unwritten = db.unwritten
  BY DEF IsDb, DbFields

(* Where a step that writes one collection and counts its faults leads. *)
LEMMA WrittenGrown ==
  ASSUME DataTraced, FaultStep, \A k : (Stored(k) => Stored(k)') /\ (Written(k) => Written(k)'),
         db.entities \subseteq db'.entities, db.edges \subseteq db'.edges, db.unwritten \subseteq db'.unwritten
  PROVE  Grown
  BY DEF DataTraced, FaultStep, Fault, NoFault, Grown

(* Content is announced once it is stored. *)
LEMMA ContentKeepsData ==
  ASSUME FactInv, DataTraced, NEW j \in jobs, ContentInsert(j) \/ ContentEmbed(j)
  PROVE  DataTraced' /\ Grown /\ (ContentEmbed(j) => Stored(j.id)')
<1>0. IsDb /\ JobsOK /\ j.kind = "content" /\ next' = next /\ FaultStep
  BY DEF FactInv, FactsOK, ContentInsert, ContentEmbed, At, FaultStep
<1>1. ASSUME NEW C, db' = [db EXCEPT !.content = C], \E c \in C : c.key = j.id,
             \A c \in db.content : c.key = j.id \/ c \in C,
             Ends(j) \/ Goes(j, "embed")
      PROVE  DataTraced' /\ Grown /\ Stored(j.id)'
  <2>1. /\ db'.content = C /\ db'.facts = db.facts /\ db'.edges = db.edges
        /\ db'.entities = db.entities /\ db'.unwritten = db.unwritten
    BY <1>0, <1>1, WriteContent
  <2>2. Stored(j.id)' /\ \A k : (Stored(k) => Stored(k)') /\ (Written(k) => Written(k)')
    BY <1>1, <2>1 DEF Stored, Written
  <2>3. Grown
    BY <1>0, <2>1, <2>2, WrittenGrown
  <2>4. Ends(j) \/ \E k : Steps(j, k) /\ JobTraced(k)'
    <3>1. \A k : Steps(j, k) => JobTraced(k)'
      BY <1>0, <2>2 DEF Steps, JobTraced
    <3> QED
      BY <1>0, <1>1, <3>1, GoesSteps
  <2> QED
    BY <1>0, <2>1, <2>2, <2>3, <2>4, TaskKeepsData
<1>2. ASSUME db' = db, Ends(j) PROVE DataTraced' /\ Grown
  <2>1. Grown
    BY <1>0, <1>2, SameDbGrown
  <2> QED
    BY <1>0, <1>2, <2>1, TaskKeepsData
<1>3. CASE ContentInsert(j)
  <2> PICK c : c = [key |-> j.id, msg |-> j.arg.msg, embedded |-> FALSE]
    OBVIOUS
  <2> PICK C : C = db.content \cup {c}
    OBVIOUS
  <2>1. \/ db' = [db EXCEPT !.content = C] /\ Goes(j, "embed")
        \/ db' = db /\ Ends(j)
    BY <1>3 DEF ContentInsert
  <2>2. (\E d \in C : d.key = j.id) /\ \A d \in db.content : d \in C
    OBVIOUS
  <2>3. ~ContentEmbed(j)
    BY <1>3 DEF ContentInsert, ContentEmbed, At
  <2> QED
    BY <1>1, <1>2, <2>1, <2>2, <2>3
<1>4. CASE ContentEmbed(j)
  <2> PICK c : c = [key |-> j.id, msg |-> j.arg.msg, embedded |-> FALSE]
    OBVIOUS
  <2> PICK d : d = [key |-> j.id, msg |-> j.arg.msg, embedded |-> TRUE]
    OBVIOUS
  <2> PICK C : C = (db.content \ {c}) \cup {d}
    OBVIOUS
  <2>1. (db' = [db EXCEPT !.content = C] \/ db' = db) /\ Ends(j) /\ j.st = "embed"
    BY <1>4 DEF ContentEmbed, At
  <2>2. (\E x \in C : x.key = j.id) /\ \A x \in db.content : x.key = j.id \/ x \in C
    OBVIOUS
  <2>3. Stored(j.id)
    BY <1>0, <2>1 DEF DataTraced, JobTraced
  <2> QED
    BY <1>1, <1>2, <2>1, <2>2, <2>3 DEF Grown
<1> QED
  BY <1>3, <1>4

(* An entity is announced with its content, once it is stored and mentioned *)
(* or a fault has been counted.                                             *)
LEMMA EntityKeepsData ==
  ASSUME FactInv, DataTraced, NEW j \in jobs, EntityUpsert(j) \/ EntityMention(j)
  PROVE  DataTraced' /\ Grown /\ (EntityMention(j) => Mentioned(j.arg.source, j.arg.name)')
<1>0. IsDb /\ JobsOK /\ j.kind = "entity" /\ next' = next /\ FaultStep /\ Stored(j.arg.source)
  BY DEF FactInv, FactsOK, EntityUpsert, EntityMention, At, FaultStep, DataTraced, JobTraced
<1>1. CASE db' = db /\ Ends(j)
  <2>1. Grown
    BY <1>0, <1>1, SameDbGrown
  <2>2. DataTraced'
    BY <1>0, <1>1, <2>1, TaskKeepsData
  <2>3. EntityMention(j) => j.arg.name \in db.entities
    BY <1>0 DEF EntityMention, At, DataTraced, JobTraced
  <2>4. EntityMention(j) => [kind |-> "mentions", from |-> j.arg.source, to |-> j.arg.name] \in db'.edges \/ Fault
    <3> PICK e : e = [kind |-> "mentions", from |-> j.arg.source, to |-> j.arg.name]
      OBVIOUS
    <3>1. EntityMention(j) => Fault \/ db' = [db EXCEPT !.edges = db.edges \cup {e}]
      BY DEF EntityMention
    <3>2. db' = [db EXCEPT !.edges = db.edges \cup {e}] => e \in db'.edges
      BY <1>0, WriteEdges
    <3> QED
      BY <3>1, <3>2
  <2> QED
    BY <1>0, <1>1, <2>1, <2>2, <2>3, <2>4 DEF Mentioned, Grown, Fault
<1>2. CASE EntityUpsert(j) /\ ~(db' = db /\ Ends(j))
  <2> PICK S : S = db.entities \cup {j.arg.name}
    OBVIOUS
  <2>1. db' = [db EXCEPT !.entities = S] /\ Goes(j, "mention") /\ j.st = "start"
    BY <1>2 DEF EntityUpsert, At
  <2>2. /\ db'.entities = S /\ db'.facts = db.facts /\ db'.edges = db.edges
        /\ db'.content = db.content /\ db'.unwritten = db.unwritten
    BY <1>0, <2>1 DEF IsDb, DbFields
  <2>3. Grown
    BY <1>0, <2>2, WrittenGrown DEF Stored, Written
  <2>4. \A k : Steps(j, k) => JobTraced(k)'
    BY <1>0, <2>2, <2>3 DEF Steps, JobTraced, Grown
  <2>5. \E k : Steps(j, k) /\ JobTraced(k)'
    BY <1>0, <2>1, <2>4, GoesSteps
  <2>6. DataTraced'
    BY <1>0, <2>2, <2>3, <2>5, TaskKeepsData
  <2>7. ~EntityMention(j)
    BY <2>1 DEF EntityMention, At
  <2> QED
    BY <2>3, <2>6, <2>7
<1>3. CASE EntityMention(j) /\ db' # db
  <2> PICK e : e = [kind |-> "mentions", from |-> j.arg.source, to |-> j.arg.name]
    OBVIOUS
  <2>1. db' = [db EXCEPT !.edges = db.edges \cup {e}] /\ Ends(j) /\ j.st = "mention"
    BY <1>3 DEF EntityMention, At
  <2>2. /\ db'.edges = db.edges \cup {e} /\ db'.facts = db.facts /\ db'.content = db.content
        /\ db'.entities = db.entities /\ db'.unwritten = db.unwritten
    BY <1>0, <2>1, WriteEdges
  <2>3. Grown
    BY <1>0, <2>2, WrittenGrown DEF Stored, Written
  <2>4. j.arg.name \in db.entities
    BY <1>0, <2>1 DEF DataTraced, JobTraced
  <2>5. EdgeTraced(e)' /\ e.kind # "supersedes"
    BY <1>0, <2>2, <2>3, <2>4 DEF EdgeTraced, Grown
  <2>6. DataTraced'
    BY <1>0, <2>1, <2>2, <2>3, <2>5, TaskKeepsData
  <2>7. Mentioned(j.arg.source, j.arg.name)'
    BY <1>0, <2>2, <2>3, <2>4 DEF Mentioned, Grown
  <2> QED
    BY <2>3, <2>6, <2>7
<1>4. EntityMention(j) => Ends(j)
  BY DEF EntityMention
<1> QED
  BY <1>1, <1>2, <1>3, <1>4

(* A scope is given to the content that was found; to an entity only when   *)
(* the lookup failed.                                                       *)
LEMMA ScopeKeepsData ==
  ASSUME FactInv, DataTraced, NEW j \in jobs, detect_collection_id(j) \/ ScopeAssign(j)
  PROVE  DataTraced' /\ Grown
<1>0. IsDb /\ JobsOK /\ j.kind = "scope" /\ next' = next /\ FaultStep /\ Stored(j.arg.target)
  BY DEF FactInv, FactsOK, detect_collection_id, ScopeAssign, At, FaultStep, DataTraced, JobTraced
<1>1. CASE detect_collection_id(j)
  <2>1. db' = db /\ (Goes(j, "content") \/ (Goes(j, "entities") /\ Fault))
    BY <1>0, <1>1 DEF detect_collection_id, Stored
  <2>2. Grown
    BY <1>0, <2>1, SameDbGrown
  <2>3. \A k : Steps(j, k) /\ (k.st = "content" \/ (k.st = "entities" /\ Fault)) => JobTraced(k)'
    BY <1>0, <2>2 DEF Steps, JobTraced, Grown, Fault
  <2>4. \E k : Steps(j, k) /\ JobTraced(k)'
    BY <1>0, <2>1, <2>3, GoesSteps
  <2> QED
    BY <1>0, <2>1, <2>2, <2>4, TaskKeepsData
<1>2. CASE ScopeAssign(j)
  <2>1. Ends(j)
    BY <1>2 DEF ScopeAssign
  <2>2. CASE db' = db
    <3>1. Grown
      BY <1>0, <2>2, SameDbGrown
    <3> QED
      BY <1>0, <2>1, <2>2, <3>1, TaskKeepsData
  <2>3. CASE db' # db
    <3> PICK from : from = <<j.st, j.arg.target>>
      OBVIOUS
    <3> PICK e : e = [kind |-> "scoped_to", from |-> from, to |-> j.arg.scope]
      OBVIOUS
    <3>1. db' = [db EXCEPT !.edges = db.edges \cup {e}] /\ j.st \in {"content", "entities"}
      BY <1>2, <2>3 DEF ScopeAssign
    <3>2. /\ db'.edges = db.edges \cup {e} /\ db'.facts = db.facts /\ db'.content = db.content
          /\ db'.entities = db.entities /\ db'.unwritten = db.unwritten
      BY <1>0, <3>1, WriteEdges
    <3>3. Grown
      BY <1>0, <3>2, WrittenGrown DEF Stored, Written
    <3>4. j.st = "entities" => faults > 0
      BY <1>0 DEF DataTraced, JobTraced
    <3>5. from[1] = j.st /\ from[2] = j.arg.target
      OBVIOUS
    <3>6. EdgeTraced(e)' /\ e.kind # "supersedes"
      BY <1>0, <3>1, <3>3, <3>4, <3>5 DEF EdgeTraced, Grown
    <3> QED
      BY <1>0, <2>1, <3>2, <3>3, <3>6, TaskKeepsData
  <2> QED
    BY <2>2, <2>3
<1> QED
  BY <1>1, <1>2

(* A task of the user's is in no relation to the rest. *)
LEMMA TaskUpsertKeepsData ==
  ASSUME FactInv, DataTraced, NEW j \in jobs, TaskUpsert(j)
  PROVE  DataTraced' /\ Grown
<1>0. IsDb /\ JobsOK /\ j.kind = "task" /\ next' = next /\ FaultStep /\ Ends(j)
  BY DEF FactInv, FactsOK, TaskUpsert, At, FaultStep
<1>1. db' = db \/ \E S : db' = [db EXCEPT !.tasks = S]
  BY DEF TaskUpsert
<1>2. /\ db'.content = db.content /\ db'.facts = db.facts /\ db'.edges = db.edges
      /\ db'.entities = db.entities /\ db'.unwritten = db.unwritten
  BY <1>0, <1>1 DEF IsDb, DbFields
<1>3. Grown
  BY <1>0, <1>2, WrittenGrown DEF Stored, Written
<1> QED
  BY <1>0, <1>2, <1>3, TaskKeepsData

(* Reading changes nothing but the task. *)
LEMMA ReadKeepsData ==
  ASSUME FactInv, DataTraced, NEW j \in jobs, FactRead(j)
  PROVE  DataTraced' /\ Grown
<1>0. /\ JobsOK /\ j.kind = "fact" /\ j.st = "start" /\ next' = next /\ FaultStep /\ db' = db
      /\ Mentioned(j.arg.source, j.arg.asked) /\ Unreferenced(j.id)
  BY DEF FactInv, FactRead, At, FaultStep, DataTraced, JobTraced
<1>1. Grown
  BY <1>0, SameDbGrown
<1>2. \A k : Steps(j, k) /\ k.st # "derive" => JobTraced(k)'
  <2>1. Mentioned(j.arg.source, j.arg.asked)' /\ Unreferenced(j.id)'
    BY <1>0, <1>1, KnownStays DEF Unreferenced
  <2> QED
    BY <1>0, <2>1 DEF Steps, JobTraced
<1>3. ASSUME NEW f, NEW st \in {"reinforce", "supersede"},
             jobs' = (jobs \ {j}) \cup {[j EXCEPT !.old = f.key, !.st = st]}
      PROVE  \E k : Steps(j, k) /\ JobTraced(k)'
  <2> DEFINE k == [j EXCEPT !.old = f.key, !.st = st]
  <2>1. IsJob(j)
    BY <1>0 DEF JobsOK
  <2>2. IsJob(k) /\ k.id = j.id /\ k.kind = j.kind /\ k.arg = j.arg /\ k.st = st
    BY <2>1 DEF IsJob, JobFields
  <2>3. jobs' = (jobs \ {j}) \cup {k}
    BY <1>3
  <2> HIDE DEF k
  <2>4. Steps(j, k) /\ k.st # "derive"
    BY <2>2, <2>3 DEF Steps
  <2> QED
    BY <1>2, <2>4
<1>4. CASE Goes(j, "insert")
  <2>1. \E k : Steps(j, k) /\ JobTraced(k)'
    BY <1>0, <1>2, <1>4, GoesSteps
  <2> QED
    BY <1>0, <1>1, <2>1, TaskKeepsData
<1>5. CASE Ends(j)
  BY <1>0, <1>1, <1>5, TaskKeepsData
<1>6. CASE ~Goes(j, "insert") /\ ~Ends(j)
  <2>1. \E f : \E st \in {"reinforce", "supersede"} :
          jobs' = (jobs \ {j}) \cup {[j EXCEPT !.old = f.key, !.st = st]}
    BY <1>6 DEF FactRead
  <2>2. \E k : Steps(j, k) /\ JobTraced(k)'
    BY <1>3, <2>1
  <2> QED
    BY <1>0, <1>1, <2>2, TaskKeepsData
<1> QED
  BY <1>4, <1>5, <1>6

(* An update of a fact leaves its source and what was asked; a superseded   *)
(* fact leads to the task that goes on to write the new one.                *)
LEMMA UpdateKeepsData ==
  ASSUME FactInv, DataTraced, NEW j \in jobs, FactReinforce(j) \/ FactSupersede(j)
  PROVE  DataTraced' /\ Grown
<1>0. /\ FactsOK /\ JobsOK /\ IsDb /\ j.kind = "fact" /\ next' = next /\ FaultStep
      /\ Mentioned(j.arg.source, j.arg.asked) /\ Unreferenced(j.id)
      /\ FactReinforce(j) => j.st = "reinforce" /\ Ends(j)
      /\ FactSupersede(j) => j.st = "supersede" /\ Goes(j, "link")
  BY DEF FactInv, FactsOK, FactReinforce, FactSupersede, FactUpserted, At, FaultStep, DataTraced, JobTraced
<1>1. ASSUME Grown, FactSupersede(j)
      PROVE  Leads(j.id)' /\ \E k : Steps(j, k) /\ JobTraced(k)'
  <2>1. \A k : Steps(j, k) /\ k.st = "link" => JobTraced(k)' /\ Leads(j.id)'
    BY <1>0, <1>1, KnownStays DEF Steps, JobTraced, Leads
  <2> QED
    BY <1>0, <1>1, <2>1, GoesSteps
<1>2. CASE db' = db
  <2>1. Grown
    BY <1>0, <1>2, SameDbGrown
  <2> QED
    BY <1>0, <1>1, <1>2, <2>1, TaskKeepsData
<1>3. ASSUME NEW new, db' = OnFact(j.old, new),
             \A f \in db.facts : /\ new[f].key = f.key /\ new[f].source = f.source /\ new[f].asked = f.asked
                                 /\ new[f].by = f.by \/ (new[f].by = j.id /\ FactSupersede(j))
      PROVE  DataTraced' /\ Grown
  <2> PICK N : N = [f \in db.facts |-> IF f.key = j.old THEN new[f] ELSE f]
    OBVIOUS
  <2>1. \A f \in db.facts : N[f] = IF f.key = j.old THEN new[f] ELSE f
    OBVIOUS
  <2>2. db'.unwritten = db.unwritten /\ BecomesFacts(N)
    BY <1>0, <1>3, <2>1, UpdateOfFacts
  <2>3. db'.content = db.content /\ db'.edges = db.edges /\ db'.entities = db.entities
    <3> PICK F : db' = [db EXCEPT !.facts = F]
      BY <1>3 DEF OnFact
    <3> QED
      BY <1>0 DEF IsDb, DbFields
  <2>4. \A f \in db.facts : /\ N[f].key = f.key /\ N[f].source = f.source /\ N[f].asked = f.asked
                            /\ N[f].by = f.by \/ (N[f].by = j.id /\ FactSupersede(j))
    BY <1>3, <2>1
  <2>5. \A k : Written(k) => Written(k)'
    <3>1. \A f \in db.facts : N[f] \in db'.facts /\ N[f].key = f.key
      BY <2>2, <2>4 DEF BecomesFacts
    <3> QED
      BY <3>1 DEF Written
  <2>6. Grown
    BY <1>0, <2>2, <2>3, <2>5, WrittenGrown DEF Stored
  <2>7. \A g \in db'.facts :
          \E f \in db.facts : /\ g.source = f.source /\ g.asked = f.asked
                              /\ \/ g.by = f.by
                                 \/ g.by = j.id /\ j.st = "supersede" /\ Leads(j.id)'
    BY <1>0, <1>1, <2>2, <2>4, <2>6 DEF BecomesFacts
  <2>8. \/ Ends(j) /\ Unreferenced(j.id) /\ j.st \in {"start", "reinforce"}
        \/ \E k : Steps(j, k) /\ JobTraced(k)'
    BY <1>0, <1>1, <2>6
  <2> QED
    BY <1>0, <2>2, <2>3, <2>6, <2>7, <2>8, TaskKeepsData
<1>4. CASE FactReinforce(j) /\ db' # db
  <2> DEFINE new == [f \in db.facts |-> [f EXCEPT !.times = @ + 1]]
  <2>1. db' = OnFact(j.old, new)
    BY <1>4 DEF FactReinforce
  <2>2. ASSUME NEW f \in db.facts
        PROVE  /\ new[f].key = f.key /\ new[f].source = f.source /\ new[f].asked = f.asked /\ new[f].by = f.by
    <3>1. IsFact(f)
      BY <1>0 DEF FactsOK
    <3> QED
      BY <3>1 DEF FactFields, IsFact
  <2> HIDE DEF new
  <2> QED
    BY <1>3, <2>1, <2>2
<1>5. CASE FactSupersede(j) /\ db' # db
  <2> DEFINE new == [f \in db.facts |-> [f EXCEPT !.by = j.id]]
  <2>1. db' = OnFact(j.old, new)
    BY <1>5 DEF FactSupersede
  <2>2. ASSUME NEW f \in db.facts
        PROVE  /\ new[f].key = f.key /\ new[f].source = f.source /\ new[f].asked = f.asked /\ new[f].by = j.id
    <3>1. IsFact(f)
      BY <1>0 DEF FactsOK
    <3> QED
      BY <3>1 DEF FactFields, IsFact
  <2> HIDE DEF new
  <2> QED
    BY <1>3, <1>5, <2>1, <2>2
<1> QED
  BY <1>2, <1>4, <1>5

(* The edges of a fact: to the one that was read, and from one that is      *)
(* written to its source.                                                   *)
LEMMA FactEdgesKeepData ==
  ASSUME FactInv, DataTraced, NEW j \in jobs, FactLink(j) \/ FactDerive(j)
  PROVE  DataTraced' /\ Grown
<1>0. /\ JobsOK /\ IsDb /\ j.kind = "fact" /\ next' = next /\ FaultStep /\ Mentioned(j.arg.source, j.arg.asked)
      /\ FactLink(j) => j.st = "link" /\ Goes(j, "insert") /\ Written(j.old)
      /\ FactDerive(j) => j.st = "derive" /\ Ends(j) /\ Written(j.id)
  <2>1. /\ JobsOK /\ IsDb /\ j.kind = "fact" /\ next' = next /\ FaultStep /\ Mentioned(j.arg.source, j.arg.asked)
        /\ FactLink(j) => j.st = "link" /\ Goes(j, "insert")
        /\ FactDerive(j) => j.st = "derive" /\ Ends(j) /\ Written(j.id)
    BY DEF FactInv, FactsOK, FactLink, FactDerive, FactUpserted, At, FaultStep, DataTraced, JobTraced
  <2>2. FactLink(j) => OldRead(j)
    BY <2>1 DEF FactInv, FactsOK
  <2> QED
    BY <2>1, <2>2 DEF OldRead, Written
<1>1. ASSUME Grown
      PROVE  /\ FactLink(j) => Leads(j.id)' /\ \E k : Steps(j, k) /\ JobTraced(k)'
             /\ FactDerive(j) => Ends(j) /\ Leads(j.id)'
  <2>1. \A k : Steps(j, k) /\ k.st = "insert" => JobTraced(k)' /\ Leads(j.id)'
    BY <1>0, <1>1, KnownStays DEF Steps, JobTraced, Leads
  <2> QED
    BY <1>0, <1>1, <2>1, GoesSteps DEF Grown, Leads
<1>2. CASE db' = db
  <2>1. Grown
    BY <1>0, <1>2, SameDbGrown
  <2> QED
    BY <1>0, <1>1, <1>2, <2>1, TaskKeepsData
<1>3. CASE db' # db
  <2>1. PICK e : /\ db' = [db EXCEPT !.edges = db.edges \cup {e}]
                 /\ FactLink(j) => e = [kind |-> "supersedes", from |-> j.id, to |-> j.old]
                 /\ FactDerive(j) => e = [kind |-> "derived_from", from |-> j.id, to |-> j.arg.source]
    <3>1. CASE FactLink(j)
      <4> PICK e : e = [kind |-> "supersedes", from |-> j.id, to |-> j.old]
        OBVIOUS
      <4>1. db' = [db EXCEPT !.edges = db.edges \cup {e}] /\ ~FactDerive(j)
        BY <1>0, <1>3, <3>1 DEF FactLink
      <4> QED
        BY <4>1
    <3>2. CASE FactDerive(j)
      <4> PICK e : e = [kind |-> "derived_from", from |-> j.id, to |-> j.arg.source]
        OBVIOUS
      <4>1. db' = [db EXCEPT !.edges = db.edges \cup {e}] /\ ~FactLink(j)
        BY <1>0, <1>3, <3>2 DEF FactDerive
      <4> QED
        BY <4>1
    <3> QED
      BY <3>1, <3>2
  <2>2. /\ db'.edges = db.edges \cup {e} /\ db'.facts = db.facts /\ db'.content = db.content
        /\ db'.entities = db.entities /\ db'.unwritten = db.unwritten
    BY <1>0, <2>1, WriteEdges
  <2>3. Grown
    BY <1>0, <2>2, WrittenGrown DEF Stored, Written
  <2>4. EdgeTraced(e)' /\ (e.kind = "supersedes" => e.from = j.id /\ j.st = "link")
    <3>1. CASE FactLink(j)
      <4>1. e.kind = "supersedes" /\ e.from = j.id /\ e.to = j.old
        BY <2>1, <3>1
      <4> QED
        BY <1>0, <1>1, <2>3, <3>1, <4>1 DEF EdgeTraced, Grown
    <3>2. CASE FactDerive(j)
      <4>1. e.kind = "derived_from" /\ e.from = j.id /\ e.to = j.arg.source
        BY <2>1, <3>2
      <4> QED
        BY <1>0, <2>3, <3>2, <4>1 DEF EdgeTraced, Grown, Mentioned
    <3> QED
      BY <3>1, <3>2
  <2> QED
    BY <1>0, <1>1, <2>2, <2>3, <2>4, TaskKeepsData
<1> QED
  BY <1>2, <1>3

(* A fact is written with the source it was asked for with, or is known not *)
(* to have been written.                                                    *)
LEMMA InsertKeepsData ==
  ASSUME FactInv, DataTraced, NEW j \in jobs, FactInsert(j)
  PROVE  DataTraced' /\ Grown
<1>0. /\ JobsOK /\ IsDb /\ j.kind = "fact" /\ j.st = "insert" /\ next' = next /\ FaultStep
      /\ Mentioned(j.arg.source, j.arg.asked)
  BY DEF FactInv, FactsOK, FactInsert, At, FaultStep, DataTraced, JobTraced
<1> PICK g : g = [key |-> j.id, subj |-> j.arg.subj, val |-> j.arg.val, by |-> 0,
              source |-> j.arg.source, times |-> 0, asked |-> j.arg.asked]
  OBVIOUS
<1>g. g.key = j.id /\ g.asked = j.arg.asked /\ g.source = j.arg.source /\ g.by = 0
  OBVIOUS
<1>1. CASE db' = [db EXCEPT !.facts = db.facts \cup {g}] /\ Goes(j, "derive")
  <2>1. /\ db'.facts = db.facts \cup {g} /\ db'.edges = db.edges /\ db'.content = db.content
        /\ db'.entities = db.entities /\ db'.unwritten = db.unwritten
    BY <1>0, <1>1 DEF IsDb, DbFields
  <2>2. Written(j.id)' /\ \A k : Written(k) => Written(k)'
    BY <1>g, <2>1 DEF Written
  <2>3. Grown
    BY <1>0, <2>1, <2>2, WrittenGrown DEF Stored
  <2>4. \A k : Steps(j, k) /\ k.st = "derive" => JobTraced(k)'
    BY <1>0, <2>2, <2>3, KnownStays DEF Steps, JobTraced
  <2>5. \E k : Steps(j, k) /\ JobTraced(k)'
    BY <1>0, <1>1, <2>4, GoesSteps
  <2> QED
    BY <1>0, <1>g, <2>1, <2>3, <2>5, TaskKeepsData
<1>2. CASE db' = [db EXCEPT !.unwritten = db.unwritten \cup {j.id}] /\ Ends(j)
  <2>1. /\ db'.facts = db.facts /\ db'.edges = db.edges /\ db'.content = db.content
        /\ db'.entities = db.entities /\ db'.unwritten = db.unwritten \cup {j.id}
    BY <1>0, <1>2 DEF IsDb, DbFields
  <2>2. Grown
    BY <1>0, <2>1, WrittenGrown DEF Stored, Written
  <2>3. Leads(j.id)'
    BY <2>1 DEF Leads
  <2> QED
    BY <1>0, <1>2, <2>1, <2>2, <2>3, TaskKeepsData
<1> QED
  BY <1>1, <1>2 DEF FactInsert

(* Every step of a handler of the pipeline. *)
LEMMA BrainKeepsTrace ==
  ASSUME FactInv, TraceInv, BrainStep
  PROVE  TraceInv'
<1>0. plugin' = plugin /\ DataTraced /\ PipesTraced
  BY DEF BrainStep, TraceInv
<1> PICK j \in jobs :
    \/ ContentInsert(j) \/ ContentEmbed(j) \/ EntityUpsert(j) \/ EntityMention(j)
    \/ FactRead(j) \/ FactReinforce(j) \/ FactSupersede(j) \/ FactLink(j)
    \/ FactInsert(j) \/ FactDerive(j)
    \/ detect_collection_id(j) \/ ScopeAssign(j) \/ TaskUpsert(j)
  BY DEF BrainStep, NextBrain
<1>1. DataTraced' /\ Grown
  BY <1>0, ContentKeepsData, EntityKeepsData, ScopeKeepsData, TaskUpsertKeepsData, ReadKeepsData, UpdateKeepsData,
     FactEdgesKeepData, InsertKeepsData
<1>2. CASE Taken
  BY <1>0, <1>1, <1>2, TakenKeepsPipes DEF TraceInv
<1>3. ASSUME NEW subject, NEW ev, publish_response(subject, ev),
             \A p \in Sinks \cap Subscribed(subject) : EventTraced(p, ev)'
      PROVE  PipesTraced'
  <2>1. DOMAIN queue' = DOMAIN queue
    BY <1>3 DEF publish_response
  <2>2. ASSUME NEW p \in Sinks \cap DOMAIN queue
        PROVE  IsList(queue'[p]) /\ \A x \in ToSet(queue'[p]) : EventTraced(p, x)'
    <3>1. IsList(queue[p]) /\ \A x \in ToSet(queue[p]) : EventTraced(p, x)'
      BY <1>0, <1>1, KnownStays DEF PipesTraced
    <3>2. CASE p \in Subscribed(subject)
      <4>1. queue'[p] = Append(queue[p], ev)
        BY <1>3, <3>2 DEF publish_response
      <4> QED
        BY <1>3, <3>1, <3>2, <4>1, ListAppend
    <3>3. CASE p \notin Subscribed(subject)
      BY <1>3, <3>1, <3>3 DEF publish_response
    <3> QED
      BY <3>2, <3>3
  <2> QED
    BY <1>0, <1>1, <2>1, <2>2, KnownStays DEF PipesTraced
<1>4. CASE ContentEmbed(j)
  <2> PICK ev : ev = [key |-> j.id, msg |-> j.arg.msg]
    OBVIOUS
  <2>1. publish_response("brain.content.stored", ev) /\ ev.key = j.id /\ Stored(j.id)'
    BY <1>0, <1>4, ContentKeepsData DEF ContentEmbed
  <2>2. \A p \in Sinks \cap Subscribed("brain.content.stored") : EventTraced(p, ev)'
    BY <2>1 DEF Subscribed, EventTraced
  <2> QED
    BY <1>1, <1>3, <2>1, <2>2 DEF TraceInv
<1>5. CASE EntityMention(j)
  <2>1. publish_response("brain.entity.upserted", j.arg) /\ Mentioned(j.arg.source, j.arg.name)'
    BY <1>0, <1>5, EntityKeepsData DEF EntityMention
  <2>2. \A p \in Sinks \cap Subscribed("brain.entity.upserted") : EventTraced(p, j.arg)'
    BY <2>1 DEF Subscribed, EventTraced
  <2> QED
    BY <1>1, <1>3, <2>1, <2>2 DEF TraceInv
<1>6. CASE FactReinforce(j) \/ FactDerive(j)
  <2>1. publish_response("brain.fact.upserted", j.arg)
    BY <1>6 DEF FactReinforce, FactDerive, FactUpserted
  <2>2. Subscribed("brain.fact.upserted") \cap Sinks = {}
    BY DEF Subscribed
  <2> QED
    BY <1>2, <2>1, <2>2, PublishTaken
<1>7. CASE queue' = queue
  BY <1>2, <1>7 DEF Taken
<1> QED
  BY <1>4, <1>5, <1>6, <1>7 DEF ContentInsert, EntityUpsert, FactRead, FactSupersede, FactLink, FactInsert,
                                detect_collection_id, ScopeAssign, TaskUpsert

(* A plugin asks its LLM about an event whose content is stored. *)
LEMMA ExtractKeepsTrace ==
  ASSUME TraceInv, NEW p \in Extractors, NEW texts, NEW lists, Extract(p, texts, lists),
         \A found \in lists : IsList(found) /\ \A x \in ToSet(found) : AskTraced(p, x)
  PROVE  TraceInv'
<1>1. Taken /\ Untouched /\ FaultStep
  BY TakesTaken DEF Extract, Untouched, FaultStep
<1>2. DataTraced' /\ Grown
  BY <1>1, UntouchedKeepsData, SameDbGrown DEF TraceInv, Untouched
<1>3. CASE plugin' = plugin
  BY <1>1, <1>2, <1>3, TakenKeepsPipes DEF TraceInv
<1>4. CASE plugin' # plugin
  <2>1. IsList(<<>>) /\ ToSet(<<>>) = {}
    BY EmptyList
  <2>2. \E found : /\ plugin' = [plugin EXCEPT ![p] = found]
                   /\ IsList(found) /\ \A x \in ToSet(found) : AskTraced(p, x)
    BY <1>4, <2>1 DEF Extract
  <2> PICK found : /\ plugin' = [plugin EXCEPT ![p] = found]
                   /\ IsList(found) /\ \A x \in ToSet(found) : AskTraced(p, x)
    BY <2>2
  <2>3. /\ plugin' = [q \in Extractors |-> plugin'[q]]
        /\ \A q \in Extractors : plugin'[q] = IF q = p THEN found ELSE plugin[q]
    BY DEF TraceInv, PipesTraced
  <2>4. \A q \in Extractors : IsList(plugin'[q]) /\ \A x \in ToSet(plugin'[q]) : AskTraced(q, x)'
    BY <1>2, <2>3, KnownStays DEF TraceInv, PipesTraced
  <2>5. \A q \in Sinks \cap DOMAIN queue' : IsList(queue'[q]) /\ \A x \in ToSet(queue'[q]) : EventTraced(q, x)'
    BY <1>1, <1>2, KnownStays DEF TraceInv, PipesTraced, Taken
  <2>6. PipesTraced'
    BY <2>3, <2>4, <2>5 DEF PipesTraced
  <2> QED
    BY <1>2, <2>6 DEF TraceInv
<1> QED
  BY <1>3, <1>4

(* The four extractors: what they find is about the content of the event. *)
LEMMA ExtractorsKeepTrace ==
  ASSUME Lists, TraceInv, ExtractEntities \/ ExtractFacts \/ ClassifyScopes \/ DetectTasks
  PROVE  TraceInv'
<1>1. ASSUME NEW p \in Sinks, Has(p)
      PROVE  EventTraced(p, Head(queue[p]))
  BY <1>1, ListTail DEF Has, TraceInv, PipesTraced
<1>2. CASE ExtractEntities
  <2> PICK ev : ev = Head(queue["entity-extractor"])
    OBVIOUS
  <2>1. Stored(ev.key) /\ Extract("entity-extractor", TextOf(ev.key), extract_entities_via_llm(ev))
    BY <1>1, <1>2 DEF ExtractEntities, EventTraced, Sinks
  <2>2. ASSUME NEW list \in extract_entities_via_llm(ev)
        PROVE  IsList(list) /\ \A x \in ToSet(list) : AskTraced("entity-extractor", x)
    <3> PICK found \in Extracts("entity-extractor", ev) :
        list = [i \in DOMAIN found |-> [name |-> found[i], source |-> ev.key]]
      BY DEF extract_entities_via_llm
    <3>1. IsList(list)
      BY ListMap DEF Lists
    <3>2. \A x \in ToSet(list) : x.source = ev.key
      BY DEF ToSet
    <3> QED
      BY <2>1, <3>1, <3>2 DEF AskTraced
  <2> QED
    BY <2>1, <2>2, ExtractKeepsTrace DEF Extractors
<1>3. CASE ExtractFacts
  <2> PICK ev : ev = Head(queue["fact-extractor"])
    OBVIOUS
  <2>1. Mentioned(ev.source, ev.name) /\ Extract("fact-extractor", TextOf(ev.source), extract_facts_via_llm(ev))
    BY <1>1, <1>3 DEF ExtractFacts, EventTraced, Sinks
  <2>2. ASSUME NEW list \in extract_facts_via_llm(ev)
        PROVE  IsList(list) /\ \A x \in ToSet(list) : AskTraced("fact-extractor", x)
    <3> PICK found \in Extracts("fact-extractor", ev) :
        list = [i \in DOMAIN found |->
                  [subj |-> found[i].subj, val |-> found[i].val, source |-> ev.source, asked |-> ev.name]]
      BY DEF extract_facts_via_llm
    <3>1. IsList(list)
      BY ListMap DEF Lists
    <3>2. \A x \in ToSet(list) : x.source = ev.source /\ x.asked = ev.name
      BY DEF ToSet
    <3> QED
      BY <2>1, <3>1, <3>2 DEF AskTraced
  <2> QED
    BY <2>1, <2>2, ExtractKeepsTrace DEF Extractors
<1>4. CASE ClassifyScopes
  <2> PICK ev : ev = Head(queue["scope-classifier"])
    OBVIOUS
  <2>1. Stored(ev.key) /\ Extract("scope-classifier", TextOf(ev.key), classify_via_llm(ev))
    BY <1>1, <1>4 DEF ClassifyScopes, EventTraced, Sinks
  <2>2. ASSUME NEW list \in classify_via_llm(ev)
        PROVE  IsList(list) /\ \A x \in ToSet(list) : AskTraced("scope-classifier", x)
    <3> PICK found \in Extracts("scope-classifier", ev) :
        list = [i \in DOMAIN found |-> [target |-> ev.key, scope |-> found[i]]]
      BY DEF classify_via_llm
    <3>1. IsList(list)
      BY ListMap DEF Lists
    <3>2. \A x \in ToSet(list) : x.target = ev.key
      BY DEF ToSet
    <3> QED
      BY <2>1, <3>1, <3>2 DEF AskTraced
  <2> QED
    BY <2>1, <2>2, ExtractKeepsTrace DEF Extractors
<1>5. CASE DetectTasks
  <2> PICK ev : ev = Head(queue["task-detector"])
    OBVIOUS
  <2>1. Extract("task-detector", {ev}, detect_tasks_via_llm(ev))
    BY <1>5 DEF DetectTasks
  <2>2. ASSUME NEW list \in detect_tasks_via_llm(ev)
        PROVE  IsList(list) /\ \A x \in ToSet(list) : AskTraced("task-detector", x)
    <3> PICK found \in Extracts("task-detector", ev) : list = [i \in DOMAIN found |-> [title |-> found[i]]]
      BY DEF detect_tasks_via_llm
    <3>1. IsList(list)
      BY ListMap DEF Lists
    <3> QED
      BY <3>1 DEF AskTraced
  <2> QED
    BY <2>1, <2>2, ExtractKeepsTrace DEF Extractors
<1> QED
  BY <1>2, <1>3, <1>4, <1>5

(* What an extractor has found is asked of the brain, one by one. *)
LEMMA PublishKeepsTrace ==
  ASSUME FactInv, TraceInv, NEW p \in Extractors, NEW kind, PublishExtracted(p, kind),
         kind = "entity" => p = "entity-extractor",
         kind = "scope" => p = "scope-classifier",
         kind = "fact" => p = "fact-extractor"
  PROVE  TraceInv'
<1>0. /\ db' = db /\ queue' = queue /\ FaultStep /\ plugin[p] # <<>> /\ DataTraced
      /\ IsList(plugin[p]) /\ \A x \in ToSet(plugin[p]) : AskTraced(p, x)
  BY DEF PublishExtracted, FaultStep, TraceInv, PipesTraced
<1>1. Grown
  BY <1>0, SameDbGrown
<1>2. IsList(Tail(plugin[p])) /\ ToSet(Tail(plugin[p])) \subseteq ToSet(plugin[p]) /\ AskTraced(p, Head(plugin[p]))
  BY <1>0, ListTail
<1>3. DataTraced'
  <2>1. CASE Spawn(kind, Head(plugin[p]))
    <3> PICK arg : arg = Head(plugin[p])
      OBVIOUS
    <3>1. /\ kind = "entity" => Stored(arg.source)
          /\ kind = "scope" => Stored(arg.target)
          /\ kind = "fact" => Mentioned(arg.source, arg.asked)
      BY <1>2 DEF AskTraced
    <3> QED
      BY <1>0, <2>1, <3>1, SpawnKeepsData
  <2>2. CASE UNCHANGED <<jobs, next>>
    BY <1>0, <2>2, UntouchedKeepsData DEF Untouched
  <2> QED
    BY <2>1, <2>2 DEF PublishExtracted
<1>4. IsList(<<>>) /\ ToSet(<<>>) = {}
  BY EmptyList
<1>5. PICK rest : plugin' = [plugin EXCEPT ![p] = rest] /\ IsList(rest) /\ ToSet(rest) \subseteq ToSet(plugin[p])
  BY <1>2, <1>4 DEF PublishExtracted
<1>6. /\ plugin' = [q \in Extractors |-> plugin'[q]]
      /\ \A q \in Extractors : plugin'[q] = IF q = p THEN rest ELSE plugin[q]
  BY <1>5 DEF TraceInv, PipesTraced
<1>7. \A q \in Extractors : IsList(plugin'[q]) /\ \A x \in ToSet(plugin'[q]) : AskTraced(q, x)'
  BY <1>0, <1>1, <1>5, <1>6, KnownStays DEF TraceInv, PipesTraced
<1>8. PipesTraced'
  BY <1>0, <1>1, <1>6, <1>7, KnownStays DEF TraceInv, PipesTraced
<1> QED
  BY <1>3, <1>8 DEF TraceInv

(* Steps that put nothing into the pipes of the extractors. *)
Elsewhere == Taken /\ plugin' = plugin /\ FaultStep

(* They keep what is known of everything. *)
LEMMA UntouchedKeepsTrace ==
  ASSUME TraceInv, Untouched, Elsewhere
  PROVE  TraceInv'
<1>1. DataTraced' /\ Grown
  BY UntouchedKeepsData, SameDbGrown DEF TraceInv, Elsewhere, Untouched
<1> QED
  BY <1>1, TakenKeepsPipes DEF TraceInv, Elsewhere

(* A queue that stays as it is. *)
LEMMA SameTaken ==
  ASSUME queue' = queue
  PROVE  Taken
  BY DEF Taken

(* The other plugins of the pipeline. *)
LEMMA PluginsKeepTrace ==
  ASSUME Lists, FactInv, TraceInv, NextPlugin \/ Inbound \/ \E i \in DOMAIN contexts : RouterAnswers(i)
  PROVE  TraceInv'
<1>1. CASE Ingest
  <2>1. Taken /\ db' = db /\ FaultStep /\ plugin' = plugin
    BY <1>1, TakesTaken DEF Ingest, FaultStep
  <2>2. Grown
    BY <2>1, SameDbGrown DEF TraceInv
  <2>3. DataTraced'
    <3> PICK arg : arg = [msg |-> Head(queue["content-ingester"])]
      OBVIOUS
    <3>1. Spawn("content", arg) \/ UNCHANGED <<jobs, next>>
      BY <1>1 DEF Ingest
    <3> QED
      BY <2>1, <3>1, SpawnKeepsData, UntouchedKeepsData DEF TraceInv, Untouched
  <2> QED
    BY <2>1, <2>2, <2>3, TakenKeepsPipes DEF TraceInv
<1>2. CASE ExtractEntities \/ ExtractFacts \/ ClassifyScopes \/ DetectTasks
  BY <1>2, ExtractorsKeepTrace
<1>3. CASE PublishEntities \/ PublishFacts \/ PublishScopes \/ PublishTasks
  BY <1>3, PublishKeepsTrace DEF PublishEntities, PublishFacts, PublishScopes, PublishTasks, Extractors
<1>4. CASE TakeInbound \/ RememberAnswer \/ FindFeedback
  <2>1. Taken
    BY <1>4, TakesTaken DEF TakeInbound, RememberAnswer, FindFeedback
  <2>2. Untouched /\ Elsewhere
    BY <1>4, <2>1 DEF TakeInbound, RememberAnswer, FindFeedback, Untouched, Elsewhere, FaultStep, NoFault
  <2> QED
    BY <2>2, UntouchedKeepsTrace
<1>5. CASE LoadSimilar \/ LoadTasks \/ LoadHistory \/ PublishContext
  <2>1. Untouched /\ queue' = queue /\ plugin' = plugin /\ FaultStep
    BY <1>5 DEF LoadSimilar, LoadTasks, LoadHistory, PublishContext, Loads, Untouched, FaultStep
  <2> QED
    BY <2>1, SameTaken, UntouchedKeepsTrace DEF Elsewhere
<1>6. CASE Inbound
  <2>1. Subscribed("channel.inbound") \cap Sinks = {}
    BY DEF Subscribed, Sinks
  <2>2. Untouched /\ Elsewhere
    BY <1>6, <2>1, PublishTaken DEF Inbound, Untouched, Elsewhere, FaultStep, NoFault
  <2> QED
    BY <2>2, UntouchedKeepsTrace
<1>7. ASSUME NEW i, RouterAnswers(i) PROVE TraceInv'
  <2>1. Subscribed("llm.response") \cap Sinks = {}
    BY DEF Subscribed, Sinks
  <2>2. Untouched /\ Elsewhere
    BY <1>7, <2>1, PublishTaken DEF RouterAnswers, Untouched, Elsewhere, FaultStep, NoFault
  <2> QED
    BY <2>2, UntouchedKeepsTrace
<1> QED
  BY <1>1, <1>2, <1>3, <1>4, <1>5, <1>6, <1>7 DEF NextPlugin, BoundedPlugin

(* The channels take from their own queues and publish for others. *)
LEMMA ChannelsElsewhere ==
  ASSUME ChannelStep
  PROVE  Elsewhere
<1>0. Subscribed("channel.inbound") \cap Sinks = {} /\ Subscribed("llm.response") \cap Sinks = {}
  BY DEF Subscribed, Sinks
<1>1. ASSUME NEW item, publish_inbound(item) PROVE Taken
  BY <1>0, <1>1, PublishTaken DEF publish_inbound
<1>2. ASSUME NEW chat, NEW edited, TelegramMessage(chat, edited) PROVE Elsewhere
  <2>1. \E item : publish_inbound(item)
    BY <1>2 DEF TelegramMessage
  <2> QED
    BY <1>1, <1>2, <2>1 DEF TelegramMessage, Elsewhere, FaultStep, NoFault
<1>3. TerminalLine => Elsewhere
  BY <1>1 DEF TerminalLine, Elsewhere, FaultStep, NoFault
<1>4. ASSUME NEW mail, MailArrives(mail) \/ EntryMade(mail) PROVE Elsewhere
  BY <1>4, SameTaken DEF MailArrives, EntryMade, knowledgeVars, brainVars, Elsewhere, FaultStep, NoFault
<1>5. PollMail \/ PollCalendar => Elsewhere
  BY SameTaken DEF PollMail, PollCalendar, knowledgeVars, brainVars, Elsewhere, FaultStep, NoFault
<1>6. PublishMail \/ PublishEntry \/ MarkSeen => Elsewhere
  BY <1>1, SameTaken DEF PublishMail, PublishEntry, MarkSeen, Elsewhere, FaultStep
<1>7. ASSUME NEW p, NEW taken, taken = [queue EXCEPT ![p] = Tail(@)], Has(p)
      PROVE  \A q \in Sinks \cap DOMAIN taken :
               /\ q \in DOMAIN queue
               /\ IsList(queue[q]) => IsList(taken[q]) /\ ToSet(taken[q]) \subseteq ToSet(queue[q])
  BY <1>7, ListTail DEF Has
<1>8. RouterAnswersInbound => Elsewhere
  <2> SUFFICES ASSUME RouterAnswersInbound PROVE Elsewhere
    OBVIOUS
  <2> PICK taken : taken = [queue EXCEPT !["llm-router"] = Tail(@)]
    OBVIOUS
  <2> PICK ev : ev = [msg |-> Head(queue["llm-router"]), via |-> "inbound"]
    OBVIOUS
  <2>1. /\ Has("llm-router") /\ plugin' = plugin /\ FaultStep
        /\ \/ queue' = [p \in DOMAIN taken |->
                          IF p \in Subscribed("llm.response") THEN Append(taken[p], ev) ELSE taken[p]]
           \/ queue' = taken
    BY DEF RouterAnswersInbound, FaultStep
  <2>2. DOMAIN queue' = DOMAIN taken /\ \A p \in Sinks \cap DOMAIN taken : queue'[p] = taken[p]
    BY <1>0, <2>1
  <2>3. \A q \in Sinks \cap DOMAIN taken :
          /\ q \in DOMAIN queue
          /\ IsList(queue[q]) => IsList(taken[q]) /\ ToSet(taken[q]) \subseteq ToSet(queue[q])
    BY <1>7, <2>1
  <2>4. Taken
    BY <2>2, <2>3 DEF Taken
  <2> QED
    BY <2>1, <2>4 DEF Elsewhere
<1>9. RememberOrigin => Elsewhere
  BY TakesTaken DEF RememberOrigin, Elsewhere, FaultStep, NoFault
<1>10. ASSUME NEW p, NEW channel, NEW out, Has(p), Forwards(p, channel, out) PROVE Taken /\ FaultStep
  <2> PICK taken : taken = [queue EXCEPT ![p] = Tail(@)]
    OBVIOUS
  <2>1. /\ FaultStep
        /\ \/ queue' = [q \in DOMAIN taken |->
                          IF q \in ChannelPlugins /\ q = channel THEN Append(taken[q], out) ELSE taken[q]]
           \/ queue' = taken
    BY <1>10 DEF Forwards, FaultStep
  <2>2. DOMAIN queue' = DOMAIN taken /\ \A q \in Sinks \cap DOMAIN taken : queue'[q] = taken[q]
    BY <2>1 DEF Sinks, ChannelPlugins
  <2>3. \A q \in Sinks \cap DOMAIN taken :
          /\ q \in DOMAIN queue
          /\ IsList(queue[q]) => IsList(taken[q]) /\ ToSet(taken[q]) \subseteq ToSet(queue[q])
    BY <1>7, <1>10
  <2>4. Taken
    BY <2>2, <2>3 DEF Taken
  <2> QED
    BY <2>1, <2>4
<1>11. RouteOrphan => Elsewhere
  <2> SUFFICES ASSUME RouteOrphan PROVE Elsewhere
    OBVIOUS
  <2>1. /\ Has("orchestrator-responses") /\ plugin' = plugin
        /\ \/ \E channel, out : Forwards("orchestrator-responses", channel, out)
           \/ Takes("orchestrator-responses") /\ NoFault
    BY DEF RouteOrphan, RouteBy, NoFault
  <2> QED
    BY <1>10, <2>1, TakesTaken DEF Elsewhere, FaultStep
<1>12. handle_llm_response => Elsewhere
  <2> SUFFICES ASSUME handle_llm_response PROVE Elsewhere
    OBVIOUS
  <2>1. /\ Has("response-formatter") /\ plugin' = plugin
        /\ \E channel, out : Forwards("response-formatter", channel, out)
    BY DEF handle_llm_response
  <2> QED
    BY <1>10, <2>1 DEF Elsewhere
<1>13. ASSUME NEW p, NEW usual, NEW failed, Shows(p, usual, failed) PROVE Elsewhere
  BY <1>13, TakesTaken DEF Shows, Elsewhere, FaultStep
<1> QED
  BY <1>2, <1>3, <1>4, <1>5, <1>6, <1>8, <1>9, <1>11, <1>12, <1>13
     DEF ChannelStep, RouteStep, TelegramShows, TerminalShows, MailSends

(* No step loses track of where something comes from. *)
LEMMA TraceInvInductive ==
  ASSUME Lists
  PROVE  FactInv /\ TraceInv /\ [SystemNext]_<<knowledgeVars, gatewayVars, channelVars>> => TraceInv'
<1> SUFFICES ASSUME FactInv, TraceInv, [SystemNext]_<<knowledgeVars, gatewayVars, channelVars>> PROVE TraceInv'
  OBVIOUS
<1>1. CASE GatewayStep
  <2>1. (Untouched \/ Asked \/ OtherMoves) /\ Elsewhere
    BY <1>1, GatewayFrame, SameTaken DEF FactInv, Elsewhere
  <2>2. db' = db /\ Grown
    BY <2>1, SameDbGrown DEF Untouched, Asked, OtherMoves, Elsewhere, TraceInv
  <2>3. CASE Untouched
    BY <2>1, <2>3, UntouchedKeepsTrace
  <2>4. CASE Asked
    <3> PICK kind, arg : kind \notin Pipeline /\ Spawn(kind, arg)
      BY <2>4 DEF Asked
    <3>1. DataTraced'
      BY <2>1, <2>2, SpawnKeepsData DEF Pipeline, TraceInv, Elsewhere
    <3> QED
      BY <2>1, <2>2, <3>1, TakenKeepsPipes DEF TraceInv, Elsewhere
  <2>5. CASE OtherMoves
    <3>1. DataTraced'
      BY <2>1, <2>5, AccountsKeepData DEF TraceInv, FactInv, Elsewhere
    <3> QED
      BY <2>1, <2>2, <3>1, TakenKeepsPipes DEF TraceInv, Elsewhere
  <2> QED
    BY <2>1, <2>3, <2>4, <2>5
<1>2. CASE Next
  BY <1>2, BrainKeepsTrace, PluginsKeepTrace DEF Next
<1>3. CASE ChannelStep
  BY <1>3, ChannelsUntouched, ChannelsElsewhere, UntouchedKeepsTrace
<1>4. CASE UNCHANGED <<knowledgeVars, gatewayVars, channelVars>>
  <2>1. Untouched /\ Elsewhere
    BY <1>4, SameTaken DEF knowledgeVars, brainVars, Untouched, Elsewhere, FaultStep, NoFault
  <2> QED
    BY <2>1, UntouchedKeepsTrace
<1> QED
  BY <1>1, <1>2, <1>3, <1>4 DEF SystemNext

-----------------------------------------------------------------------------
(* Nothing has been stored, asked or told at the start. *)
LEMMA SystemStart ==
  SystemInit => FactInv /\ AccountInv /\ RateInit
<1> SUFFICES ASSUME SystemInit PROVE FactInv /\ AccountInv /\ RateInit
  OBVIOUS
<1>1. /\ db = EmptyDb /\ jobs = {} /\ next = 1 /\ RateInit
      /\ users = {[id |-> FirstUser, name |-> "ada", password |-> 0, role |-> "user", status |-> "active"]}
      /\ api_keys = {} /\ calls = <<>> /\ http = [c \in Clients |-> IdleClient]
      /\ tokens = {[jti |-> 1, who |-> [subject |-> "ada", role |-> "user", user |-> FirstUser], exp |-> TokenTtl]}
      /\ requests = 0 /\ told = {} /\ load \in GatewayLoads
  BY DEF SystemInit, GatewayInit, Init
<1>2. JobsOK
  BY <1>1 DEF JobsOK
<1>3. FactInv
  <2>1. IsDb /\ db.facts = {}
    BY <1>1 DEF IsDb, EmptyDb, DbFields
  <2> QED
    BY <1>1, <1>2, <2>1 DEF FactInv, FactsOK, CurrentFactRemains
<1>4. AccountTypeOK
  <2> PICK u : u = [id |-> FirstUser, name |-> "ada", password |-> 0, role |-> "user", status |-> "active"]
    OBVIOUS
  <2>1. FirstUser \in Int /\ "ada" \in Names
    BY GatewayAssumption DEF FirstUser
  <2>2. u \in User /\ users = {u}
    BY <1>1, <2>1 DEF User, UserNames
  <2> PICK w : w = [subject |-> "ada", role |-> "user", user |-> FirstUser]
    OBVIOUS
  <2>3. w \in Who /\ \A t \in tokens : t.who = w
    BY <1>1, <2>1 DEF Who
  <2>4. IsClient(IdleClient)
    BY DEF IsClient, IdleClient, ClientFields
  <2> QED
    BY <1>1, <2>2, <2>3, <2>4 DEF AccountTypeOK
<1>5. RequestsOK
  BY <1>1 DEF RequestsOK, Waits, IdleClient
<1>6. NamesUnique /\ JobArgsOK /\ AccountsHonoured
  BY <1>1 DEF NamesUnique, JobArgsOK, AccountsHonoured
<1> QED
  BY <1>1, <1>2, <1>3, <1>4, <1>5, <1>6 DEF AccountInv

(* At the start nothing is known and nothing under way. *)
LEMMA TraceStart ==
  SystemInit => TraceInv
<1> SUFFICES ASSUME SystemInit PROVE TraceInv
  OBVIOUS
<1>1. /\ db = EmptyDb /\ jobs = {} /\ next = 1 /\ faults = 0
      /\ plugin = [p \in Extractors |-> <<>>] /\ \A p \in DOMAIN queue : queue[p] = <<>>
  BY DEF SystemInit, GatewayInit, Init
<1>2. IsList(<<>>) /\ ToSet(<<>>) = {}
  BY EmptyList
<1>3. db.edges = {} /\ db.facts = {} /\ db.unwritten = {}
  BY <1>1 DEF EmptyDb
<1>4. DataTraced
  BY <1>1, <1>3 DEF DataTraced
<1>5. PipesTraced
  BY <1>1, <1>2 DEF PipesTraced
<1> QED
  BY <1>4, <1>5 DEF TraceInv

(* What is known at every step is what the property asks for. *)
LEMMA TracedProvenance ==
  ASSUME TraceInv
  PROVE  Provenance
<1> DEFINE S == {c.key : c \in db.content}
           F == {f.key : f \in db.facts}
           W == {j.id : j \in {k \in jobs : k.kind = "fact"}}
<1>1. \A k : (Stored(k) => k \in S) /\ (Written(k) => k \in F)
  BY DEF Stored, Written
<1>2. \A id : Leads(id) => id \in F \cup W \cup db.unwritten
  BY <1>1 DEF Leads
<1>3. ASSUME NEW e \in db.edges
      PROVE  CASE e.kind = "mentions" -> e.from \in S /\ e.to \in db.entities
               [] e.kind = "derived_from" -> e.from \in F /\ e.to \in S
               [] e.kind = "supersedes" -> /\ e.to \in F
                                           /\ e.from \in F \cup W \cup db.unwritten
               [] OTHER -> \/ e.from[1] = "content" /\ e.from[2] \in S
                           \/ faults > 0
  <2>1. EdgeTraced(e)
    BY DEF TraceInv, DataTraced
  <2> HIDE DEF S, F, W
  <2> QED
    BY <1>1, <1>2, <2>1 DEF EdgeTraced
<1>4. ASSUME NEW f \in db.facts
      PROVE  /\ f.source \in S /\ f.asked \in db.entities
             /\ f.by # 0 => f.by \in F \cup W \cup db.unwritten
             /\ \/ [kind |-> "mentions", from |-> f.source, to |-> f.asked] \in db.edges
                \/ faults > 0
  <2>1. Mentioned(f.source, f.asked) /\ (f.by # 0 => Leads(f.by))
    BY DEF TraceInv, DataTraced, FactTraced
  <2> HIDE DEF S, F, W
  <2> QED
    BY <1>1, <1>2, <2>1 DEF Mentioned
<1> QED
  BY <1>3, <1>4 DEF Provenance

(* However many extractors and handlers work at the same time, whatever     *)
(* fails and whatever else the brain does: a subject with facts has a       *)
(* current one when no upsert of it is between its update of the old fact   *)
(* and its insert of the new one (the handlers of brain.fact.upsert), as    *)
(* long as no insert has failed.                                            *)
THEOREM FactsStayCurrent == SystemSpec => []CurrentFactRemains
<1>1. FactInv => CurrentFactRemains
  BY DEF FactInv
<1> QED
  BY <1>1, SystemStart, FactInvInductive, PTL DEF SystemSpec

(* For any connections, requests, faults and restarts of the gateway: what  *)
(* a client was told of users and API keys stays so, whatever other         *)
(* requests, also ones whose clients gave up, do to the same documents      *)
(* (register_handler to revoke_apikey_handler, and the brain's handlers).   *)
THEOREM AccountsStayHonoured == SystemSpec => []AccountsHonoured
<1>1. AccountInv => AccountsHonoured
  BY DEF AccountInv
<1> QED
  BY <1>1, SystemStart, AccountInvInductive, PTL DEF SystemSpec

(* The gateway uses the rate limiter as it is meant to be used: no subject  *)
(* is let through auth_rate_limit_middleware more often than a full bucket  *)
(* and its refill allow, with maintenance and restarts in between.          *)
THEOREM RequestsAreLimited == SystemSpec => []RateBounded
<1>1. RateInit => RateInv
  BY RateStart
<1> QED
  BY <1>1, SystemStart, AccountInvInductive, SystemStepsRate, RateInvInductive, RateInvBounds, PTL DEF SystemSpec

(* For any LLMs that answer with lists, whatever subjects they name, and    *)
(* any deployments, messages and faults: every edge joins documents that    *)
(* exist, every fact comes from stored content that mentions the entity     *)
(* whose facts were asked for, and leads to its successor when superseded,  *)
(* through all interleavings of plugins and tasks (handle_entity_upsert     *)
(* announces an entity only after both were written, or a call failed).     *)
THEOREM FactsAreTraced == ASSUME Lists PROVE SystemSpec => []Provenance
<1>1. TraceInv => Provenance
  BY TracedProvenance
<1> QED
  BY <1>1, SystemStart, TraceStart, FactInvInductive, TraceInvInductive, PTL DEF SystemSpec

-----------------------------------------------------------------------------
(* The way of an answer.  A message enters each of the router's two paths   *)
(* once, so that each path has at most one answer to it; the answer waits   *)
(* for the formatter, then for the channel its message came from, and then  *)
(* it is shown: it is never in two of those places.                         *)

Queue(p) == IF p \in DOMAIN queue THEN queue[p] ELSE <<>>
Paths == {"llm-router", "graph-context-loader"}
Stations == Paths \cup {"response-formatter"} \cup ChannelPlugins

LoaderFields == {"st", "msg", "similar", "tasks", "history"}
ContextFields == {"msg", "history", "answered"}
InLoader(m) == loader.st # "idle" /\ loader.msg = m
InQueue(p, m) == \E i \in DOMAIN Queue(p) : Queue(p)[i] = m

(* Each message goes through each path once. *)
PathsOK ==
  /\ inbound \in Nat
  /\ \A p \in Stations : IsList(Queue(p))
  /\ \A p \in Paths : \A i, k \in DOMAIN Queue(p) :
       Queue(p)[i] \in 1..inbound /\ (Queue(p)[i] = Queue(p)[k] => i = k)
  /\ loader = [f \in LoaderFields |-> loader[f]]
  /\ \A m : InLoader(m) => m \in 1..inbound /\ ~InQueue("graph-context-loader", m)
ContextsOK ==
  /\ IsList(contexts)
  /\ \A c \in DOMAIN contexts :
       /\ contexts[c] = [f \in ContextFields |-> contexts[c][f]]
       /\ contexts[c].msg \in 1..inbound
       /\ ~InQueue("graph-context-loader", contexts[c].msg) /\ ~InLoader(contexts[c].msg)
       /\ \A d \in DOMAIN contexts : contexts[c].msg = contexts[d].msg => c = d

(* Where the messages come from.  The ids of other channels than Telegram   *)
(* name no platform.                                                        *)
SentOK ==
  /\ IsList(sent)
  /\ ChannelPlugins \cap DOMAIN queue # {} => Len(sent) = inbound
  /\ \A i \in DOMAIN sent :
       IF sent[i].platform = "telegram"
       THEN sent[i].corr # NoId /\ sent[i].corr[1] = "telegram" /\ sent[i].corr[2] = sent[i].chat
       ELSE sent[i].corr = NoId

(* A path has given its answer. *)
Passed(x) ==
  /\ x.msg \in 1..inbound
  /\ \/ x.via = "inbound" /\ ~InQueue("llm-router", x.msg)
     \/ x.via = "context" /\ \E c \in DOMAIN contexts : contexts[c].msg = x.msg /\ contexts[c].answered

Same(x, y) == x.msg = y.msg /\ x.via = y.via

(* The channel p is where the message of x came from. *)
Home(p, x) ==
  /\ x.msg \in DOMAIN sent
  /\ IF sent[x.msg].platform = "telegram" THEN p = "telegram" /\ x.chat = sent[x.msg].chat ELSE p = "cli"

ForFormatter(x) == \E i \in DOMAIN Queue("response-formatter") : Same(Queue("response-formatter")[i], x)
Out(p, i) == i \in DOMAIN Queue(p) /\ Queue(p)[i].payload = "outbound"
ForChannel(x) == \E p \in ChannelPlugins : \E i : Out(p, i) /\ Same(Queue(p)[i], x)

FormatterOK ==
  \A i \in DOMAIN Queue("response-formatter") :
    /\ Passed(Queue("response-formatter")[i])
    /\ \A k \in DOMAIN Queue("response-formatter") :
         Same(Queue("response-formatter")[i], Queue("response-formatter")[k]) => i = k
OutsOK ==
  \A p \in ChannelPlugins : \A i : Out(p, i) =>
    /\ Passed(Queue(p)[i]) /\ Home(p, Queue(p)[i]) /\ ~ForFormatter(Queue(p)[i])
    /\ \A k : Out(p, k) /\ Same(Queue(p)[i], Queue(p)[k]) => i = k
ShownOK ==
  /\ shown = [e \in DOMAIN shown |-> 1]
  /\ \A e \in DOMAIN shown :
       /\ Passed(e.what) /\ Home(e.on, e.what) /\ ~ForFormatter(e.what) /\ ~ForChannel(e.what)
       /\ \A f \in DOMAIN shown :
            Same(e.what, f.what) => e.on = f.on /\ e.what = f.what /\ (e = f \/ e.on = "telegram")

AnswersOK == FormatterOK /\ OutsOK /\ ShownOK
AnswerInv == PathsOK /\ ContextsOK /\ SentOK /\ AnswersOK

(* The items of a list, and of the list without its first one. *)
LEMMA TailItems ==
  ASSUME NEW s, IsList(s), s # <<>>
  PROVE  /\ IsList(Tail(s)) /\ 1 \in DOMAIN s /\ Head(s) = s[1]
         /\ \A i \in DOMAIN s : i \in Nat \ {0}
         /\ \A i \in DOMAIN Tail(s) : i \in Nat /\ i + 1 \in DOMAIN s /\ i + 1 # 1 /\ Tail(s)[i] = s[i + 1]
<1> PICK S : s \in Seq(S)
  BY DEF IsList
<1>1. Tail(s) \in Seq(S) /\ Len(s) \in Nat \ {0} /\ DOMAIN s = 1..Len(s) /\ Head(s) = s[1]
  OBVIOUS
<1>2. DOMAIN Tail(s) = 1..(Len(s) - 1) /\ \A i \in 1..(Len(s) - 1) : Tail(s)[i] = s[i + 1]
  OBVIOUS
<1> QED
  BY <1>1, <1>2 DEF IsList

(* The items of a list with one more at its end. *)
LEMMA AppendItems ==
  ASSUME NEW s, IsList(s), NEW e
  PROVE  /\ IsList(Append(s, e)) /\ Len(s) \in Nat /\ Len(Append(s, e)) = Len(s) + 1
         /\ DOMAIN Append(s, e) = DOMAIN s \cup {Len(s) + 1} /\ Len(s) + 1 \notin DOMAIN s
         /\ DOMAIN s = 1..Len(s)
         /\ \A i \in DOMAIN s : Append(s, e)[i] = s[i]
         /\ Append(s, e)[Len(s) + 1] = e
<1> PICK S : s \in Seq(S)
  BY DEF IsList
<1> PICK T : T = S \cup {e}
  OBVIOUS
<1>1. s \in Seq(T) /\ e \in T /\ Len(s) \in Nat
  OBVIOUS
<1>2. Append(s, e) \in Seq(T) /\ Len(Append(s, e)) = Len(s) + 1
  BY <1>1
<1>3. /\ DOMAIN Append(s, e) = 1..(Len(s) + 1) /\ DOMAIN s = 1..Len(s)
      /\ \A i \in 1..(Len(s) + 1) : Append(s, e)[i] = IF i = Len(s) + 1 THEN e ELSE s[i]
  BY <1>1
<1> QED
  BY <1>1, <1>2, <1>3 DEF IsList

(* What steps do to the queues: an event is taken, *)
LEMMA TakesQueues ==
  ASSUME NEW p, Takes(p)
  PROVE  /\ DOMAIN queue' = DOMAIN queue /\ Queue(p) # <<>> /\ Queue(p) = queue[p]
         /\ Queue(p)' = Tail(Queue(p)) /\ \A q : q # p => Queue(q)' = Queue(q)
<1>1. /\ DOMAIN queue' = DOMAIN queue /\ queue[p] # <<>> /\ p \in DOMAIN queue
      /\ \A q \in DOMAIN queue : queue'[q] = IF q = p THEN Tail(queue[p]) ELSE queue[q]
  BY DEF Takes, Has
<1> QED
  BY <1>1 DEF Queue

(* published, *)
LEMMA PublishQueues ==
  ASSUME NEW subject, NEW ev, publish_response(subject, ev)
  PROVE  /\ DOMAIN queue' = DOMAIN queue
         /\ \A q : q \notin Subscribed(subject) => Queue(q)' = Queue(q)
         /\ \A q \in Subscribed(subject) : Queue(q)' = Queue(q) \/ Queue(q)' = Append(Queue(q), ev)
  BY DEF publish_response, Queue

(* or passed on. *)
LEMMA ForwardsQueues ==
  ASSUME NEW p, NEW channel, NEW out, Has(p), p \notin ChannelPlugins, Forwards(p, channel, out)
  PROVE  /\ DOMAIN queue' = DOMAIN queue /\ Queue(p) # <<>> /\ Queue(p) = queue[p] /\ Queue(p)' = Tail(Queue(p))
         /\ \A q : q # p => \/ Queue(q)' = Queue(q)
                            \/ /\ q \in ChannelPlugins \cap DOMAIN queue /\ q = channel
                               /\ Queue(q)' = Append(Queue(q), out)
<1> PICK taken : taken = [queue EXCEPT ![p] = Tail(@)]
  OBVIOUS
<1>1. \/ queue' = [q \in DOMAIN taken |->
                     IF q \in ChannelPlugins /\ q = channel THEN Append(taken[q], out) ELSE taken[q]]
      \/ queue' = taken
  BY DEF Forwards
<1>2. /\ DOMAIN taken = DOMAIN queue /\ queue[p] # <<>> /\ p \in DOMAIN queue
      /\ \A q \in DOMAIN queue : taken[q] = IF q = p THEN Tail(queue[p]) ELSE queue[q]
  BY DEF Has
<1>3. DOMAIN queue' = DOMAIN queue /\ queue'[p] = Tail(queue[p])
  BY <1>1, <1>2
<1>4. \A q \in DOMAIN queue : q # p =>
        \/ queue'[q] = queue[q]
        \/ q \in ChannelPlugins /\ q = channel /\ queue'[q] = Append(queue[q], out)
  BY <1>1, <1>2
<1> QED
  BY <1>2, <1>3, <1>4 DEF Queue

(* What a path has answered stays answered. *)
LEMMA PassedStays ==
  ASSUME inbound \in Nat, inbound' \in Nat, inbound' >= inbound,
         \A m \in 1..inbound : InQueue("llm-router", m)' => InQueue("llm-router", m),
         \A c \in DOMAIN contexts : /\ c \in DOMAIN contexts' /\ contexts'[c].msg = contexts[c].msg
                                    /\ contexts[c].answered => contexts'[c].answered
  PROVE  \A x : Passed(x) => Passed(x)'
<1> SUFFICES ASSUME NEW x, Passed(x) PROVE Passed(x)'
  OBVIOUS
<1>1. x.msg \in 1..inbound'
  BY DEF Passed
<1>2. CASE x.via = "inbound" /\ ~InQueue("llm-router", x.msg)
  BY <1>1, <1>2 DEF Passed
<1>3. CASE x.via = "context" /\ \E c \in DOMAIN contexts : contexts[c].msg = x.msg /\ contexts[c].answered
  <2> PICK c \in DOMAIN contexts : contexts[c].msg = x.msg /\ contexts[c].answered
    BY <1>3
  <2> QED
    BY <1>1, <1>3 DEF Passed
<1> QED
  BY <1>2, <1>3 DEF Passed

(* And its channel stays its channel. *)
LEMMA HomeStays ==
  ASSUME SentOK, sent' = sent \/ \E item : sent' = Append(sent, item)
  PROVE  \A p, x : Home(p, x) => Home(p, x)'
<1>1. \A i \in DOMAIN sent : i \in DOMAIN sent' /\ sent'[i] = sent[i]
  BY AppendItems DEF SentOK
<1> QED
  BY <1>1 DEF Home

(* Answers that nobody moves, whatever else is put into the queues of the   *)
(* channels.                                                                *)
LEMMA AnswersUnmoved ==
  ASSUME AnswersOK, Queue("response-formatter")' = Queue("response-formatter"), shown' = shown,
         \A p \in ChannelPlugins : \A i : Out(p, i)' => Out(p, i) /\ Queue(p)'[i] = Queue(p)[i],
         \A x : Passed(x) => Passed(x)', \A p, x : Home(p, x) => Home(p, x)'
  PROVE  AnswersOK'
<1>1. \A x : ForFormatter(x)' <=> ForFormatter(x)
  BY DEF ForFormatter
<1>2. \A x : ForChannel(x)' => ForChannel(x)
  BY DEF ForChannel, Same
<1>3. FormatterOK'
  BY DEF AnswersOK, FormatterOK
<1>4. OutsOK'
  <2> SUFFICES ASSUME NEW p \in ChannelPlugins, NEW i, Out(p, i)', NEW x, x = Queue(p)'[i]
               PROVE  /\ Passed(x)' /\ Home(p, x)' /\ ~ForFormatter(x)'
                      /\ \A k : Out(p, k)' /\ Same(x, Queue(p)'[k]) => i = k
    BY DEF OutsOK, Same
  <2>1. Passed(x) /\ Home(p, x) /\ ~ForFormatter(x) /\ \A k : Out(p, k) /\ Same(x, Queue(p)[k]) => i = k
    BY DEF AnswersOK, OutsOK
  <2> QED
    BY <1>1, <2>1
<1>5. ShownOK'
  BY <1>1, <1>2 DEF AnswersOK, ShownOK
<1> QED
  BY <1>3, <1>4, <1>5 DEF AnswersOK

(* In particular when those queues stay as they are. *)
LEMMA AnswersStay ==
  ASSUME AnswersOK, \A p \in Stations \ Paths : Queue(p)' = Queue(p), shown' = shown,
         \A x : Passed(x) => Passed(x)', \A p, x : Home(p, x) => Home(p, x)'
  PROVE  AnswersOK'
<1>0. "response-formatter" \in Stations \ Paths /\ ChannelPlugins \subseteq Stations \ Paths
  BY DEF Stations, Paths, ChannelPlugins
<1>1. \A p \in ChannelPlugins : \A i : Out(p, i)' => Out(p, i) /\ Queue(p)'[i] = Queue(p)[i]
  BY <1>0 DEF Out
<1> QED
  BY <1>0, <1>1, AnswersUnmoved

(* The paths while nothing enters them. *)
LEMMA PathsStay ==
  ASSUME PathsOK, \A p \in Stations : Queue(p)' = Queue(p), inbound' = inbound,
         loader' = [f \in LoaderFields |-> loader'[f]], \A m : InLoader(m)' => InLoader(m)
  PROVE  PathsOK'
  BY DEF PathsOK, InQueue, Stations, Paths

(* A step that concerns no answer, except that the loader goes on. *)
Aside ==
  /\ DOMAIN queue' = DOMAIN queue /\ \A p \in Stations : Queue(p)' = Queue(p)
  /\ UNCHANGED <<inbound, contexts, sent, shown>>
  /\ \/ loader' = loader
     \/ loader' = [f \in LoaderFields |-> loader'[f]] /\ \A m : InLoader(m)' => InLoader(m)

(* Such a step keeps all that is known of answers. *)
LEMMA AsideKeeps ==
  ASSUME AnswerInv, Aside
  PROVE  AnswerInv'
<1>0. loader' = [f \in LoaderFields |-> loader'[f]] /\ \A m : InLoader(m)' => InLoader(m)
  BY DEF Aside, AnswerInv, PathsOK, InLoader
<1>1. \A p \in Stations : \A m : InQueue(p, m)' <=> InQueue(p, m)
  BY DEF Aside, InQueue
<1>2. \A x : Passed(x) => Passed(x)'
  BY <1>1, PassedStays DEF Aside, AnswerInv, PathsOK, Stations, Paths
<1>3. PathsOK'
  BY <1>0, PathsStay DEF Aside, AnswerInv
<1>4. ContextsOK'
  BY <1>0, <1>1 DEF Aside, AnswerInv, ContextsOK, Stations, Paths
<1>5. SentOK' /\ \A p, x : Home(p, x) => Home(p, x)'
  BY HomeStays DEF Aside, AnswerInv, SentOK
<1>6. AnswersOK'
  BY <1>2, <1>5, AnswersStay DEF Aside, AnswerInv
<1> QED
  BY <1>3, <1>4, <1>5, <1>6 DEF AnswerInv

(* A message comes in. *)
LEMMA ArrivalKeeps ==
  ASSUME AnswerInv, DOMAIN queue' = DOMAIN queue, inbound' = inbound + 1,
         \A p \in Paths : Queue(p)' = Queue(p) \/ Queue(p)' = Append(Queue(p), inbound'),
         \A p \in Stations \ Paths : Queue(p)' = Queue(p),
         UNCHANGED <<loader, contexts, shown>>, SentOK',
         sent' = sent \/ \E item : sent' = Append(sent, item)
  PROVE  AnswerInv'
<1>0. Paths \subseteq Stations /\ inbound \in Nat /\ inbound' \in Nat
  BY DEF Stations, AnswerInv, PathsOK
<1>1. \A p \in Paths : IsList(Queue(p))
  BY <1>0 DEF AnswerInv, PathsOK
<1>2. ASSUME NEW p \in Paths
      PROVE  /\ IsList(Queue(p)')
             /\ \A i, k \in DOMAIN Queue(p)' :
                  Queue(p)'[i] \in 1..inbound' /\ (Queue(p)'[i] = Queue(p)'[k] => i = k)
             /\ \A m \in 1..inbound : InQueue(p, m)' => InQueue(p, m)
  <2> PICK q, r, n : q = Queue(p) /\ r = Queue(p)' /\ n = inbound'
    OBVIOUS
  <2>1. r = q \/ r = Append(q, n)
    OBVIOUS
  <2>2. IsList(q) /\ \A i, k \in DOMAIN q : q[i] \in 1..inbound /\ (q[i] = q[k] => i = k)
    BY <1>1 DEF AnswerInv, PathsOK
  <2>3. \A i \in 1..inbound : i \in 1..n /\ i # n
    BY <1>0
  <2>4. n \in 1..n
    BY <1>0
  <2>5. CASE r = q
    BY <2>2, <2>3, <2>5 DEF InQueue
  <2>6. CASE r = Append(q, n)
    <3>1. IsList(r) /\ \A i \in DOMAIN r : (i \in DOMAIN q /\ r[i] = q[i]) \/ (i = Len(q) + 1 /\ r[i] = n)
      BY <2>2, <2>6, AppendItems
    <3>2. \A i, k \in DOMAIN r : r[i] \in 1..n /\ (r[i] = r[k] => i = k)
      BY <2>2, <2>3, <2>4, <3>1
    <3>3. \A m \in 1..inbound : (\E i \in DOMAIN r : r[i] = m) => (\E i \in DOMAIN q : q[i] = m)
      BY <2>3, <3>1
    <3> QED
      BY <3>1, <3>2, <3>3 DEF InQueue
  <2> QED
    BY <2>1, <2>5, <2>6
<1>3. \A x : Passed(x) => Passed(x)'
  BY <1>0, <1>2, PassedStays DEF Paths
<1>4. \A m \in 1..inbound : m \in 1..inbound'
  BY <1>0
<1>5. \A m : InLoader(m)' <=> InLoader(m)
  BY DEF InLoader
<1>6. PathsOK'
  <2>1. \A p \in Stations : IsList(Queue(p)')
    BY <1>2 DEF AnswerInv, PathsOK
  <2>2. \A m : InLoader(m)' => m \in 1..inbound' /\ ~InQueue("graph-context-loader", m)'
    BY <1>2, <1>4, <1>5 DEF AnswerInv, PathsOK, Paths
  <2> QED
    BY <1>0, <1>2, <2>1, <2>2 DEF AnswerInv, PathsOK
<1>7. ContextsOK'
  BY <1>2, <1>4, <1>5 DEF AnswerInv, ContextsOK, Paths
<1>8. AnswersOK'
  BY <1>3, HomeStays, AnswersStay DEF AnswerInv
<1> QED
  BY <1>6, <1>7, <1>8 DEF AnswerInv

(* The first of a path's messages is taken from it. *)
LEMMA PathTaken ==
  ASSUME PathsOK, NEW p \in Paths, Queue(p) # <<>>, Queue(p)' = Tail(Queue(p))
  PROVE  /\ IsList(Queue(p)') /\ Head(Queue(p)) \in 1..inbound
         /\ InQueue(p, Head(Queue(p)))
         /\ \A i, k \in DOMAIN Queue(p)' :
              Queue(p)'[i] \in 1..inbound /\ (Queue(p)'[i] = Queue(p)'[k] => i = k)
         /\ \A m : InQueue(p, m)' <=> (InQueue(p, m) /\ m # Head(Queue(p)))
<1> PICK q, r, n : q = Queue(p) /\ r = Queue(p)' /\ n = inbound
  OBVIOUS
<1>1. IsList(q) /\ \A i, k \in DOMAIN q : q[i] \in 1..n /\ (q[i] = q[k] => i = k)
  BY DEF PathsOK, Stations
<1>2. /\ IsList(r) /\ 1 \in DOMAIN q /\ Head(q) = q[1] /\ \A i \in DOMAIN q : i \in Nat \ {0}
      /\ \A i \in DOMAIN r : i \in Nat /\ i + 1 \in DOMAIN q /\ i + 1 # 1 /\ r[i] = q[i + 1]
  BY <1>1, TailItems
<1>3. \A i, k \in DOMAIN r : r[i] \in 1..n /\ (r[i] = r[k] => i = k)
  <2> SUFFICES ASSUME NEW i \in DOMAIN r, NEW k \in DOMAIN r PROVE r[i] \in 1..n /\ (r[i] = r[k] => i = k)
    OBVIOUS
  <2>1. q[i + 1] \in 1..n /\ (q[i + 1] = q[k + 1] => i + 1 = k + 1)
    BY <1>1, <1>2
  <2> QED
    BY <1>2, <2>1
<1>4. \A i \in DOMAIN q : i # 1 => i - 1 \in DOMAIN r /\ (i - 1) + 1 = i
  <2> PICK S : q \in Seq(S)
    BY <1>1 DEF IsList
  <2>1. r = Tail(q) /\ q # <<>>
    OBVIOUS
  <2>2. DOMAIN q = 1..Len(q) /\ DOMAIN r = 1..(Len(q) - 1) /\ Len(q) \in Nat
    BY <2>1
  <2> QED
    BY <2>2
<1>5. ASSUME NEW m
      PROVE  (\E i \in DOMAIN r : r[i] = m) <=> ((\E i \in DOMAIN q : q[i] = m) /\ m # Head(q))
  <2>1. ASSUME NEW i \in DOMAIN r, r[i] = m PROVE (\E k \in DOMAIN q : q[k] = m) /\ m # Head(q)
    <3>1. i + 1 \in DOMAIN q /\ q[i + 1] = m /\ i + 1 # 1
      BY <1>2, <2>1
    <3>2. q[i + 1] = q[1] => i + 1 = 1
      BY <1>1, <1>2, <3>1
    <3> QED
      BY <1>2, <3>1, <3>2
  <2>2. ASSUME NEW i \in DOMAIN q, q[i] = m, m # Head(q) PROVE \E k \in DOMAIN r : r[k] = m
    <3>1. i # 1
      BY <1>2, <2>2
    <3>2. i - 1 \in DOMAIN r /\ (i - 1) + 1 = i
      BY <1>4, <3>1
    <3>3. r[i - 1] = q[i]
      BY <1>2, <3>2
    <3> QED
      BY <2>2, <3>2, <3>3
  <2> QED
    BY <2>1, <2>2
<1>6. q[1] \in 1..n
  BY <1>1, <1>2
<1> QED
  BY <1>2, <1>3, <1>5, <1>6 DEF InQueue

(* The loader takes a message. *)
LEMMA LoaderKeeps ==
  ASSUME AnswerInv, TakeInbound, UNCHANGED <<sent, shown>>
  PROVE  AnswerInv'
<1> DEFINE G == "graph-context-loader"
<1> PICK m : m = Head(Queue(G))
  OBVIOUS
<1>0. /\ DOMAIN queue' = DOMAIN queue /\ Queue(G) # <<>> /\ Queue(G) = queue[G]
      /\ Queue(G)' = Tail(Queue(G)) /\ \A q : q # G => Queue(q)' = Queue(q)
  BY TakesQueues DEF TakeInbound
<1>1. /\ loader.st = "idle" /\ UNCHANGED <<inbound, contexts>>
      /\ loader' = [NoContext EXCEPT !.st = "similar", !.msg = m]
  BY <1>0 DEF TakeInbound
<1>2. loader' = [f \in LoaderFields |-> loader'[f]] /\ loader'.msg = m /\ loader'.st = "similar"
  BY <1>1 DEF NoContext, LoaderFields
<1>3. (\A x : InLoader(x)' <=> x = m) /\ \A x : ~InLoader(x)
  BY <1>1, <1>2 DEF InLoader
<1>4. /\ IsList(Queue(G)') /\ m \in 1..inbound /\ InQueue(G, m)
      /\ \A i, k \in DOMAIN Queue(G)' :
           Queue(G)'[i] \in 1..inbound /\ (Queue(G)'[i] = Queue(G)'[k] => i = k)
      /\ \A x : InQueue(G, x)' <=> (InQueue(G, x) /\ x # m)
  BY <1>0, PathTaken DEF AnswerInv, Paths
<1>5. \A x : Passed(x) => Passed(x)'
  <2>1. \A x : InQueue("llm-router", x)' <=> InQueue("llm-router", x)
    BY <1>0 DEF InQueue
  <2> QED
    BY <1>1, <2>1, PassedStays DEF AnswerInv, PathsOK
<1>6. PathsOK'
  <2>1. \A p \in Stations : IsList(Queue(p)')
    BY <1>0, <1>4 DEF AnswerInv, PathsOK
  <2>2. \A p \in Paths : \A i, k \in DOMAIN Queue(p)' :
          Queue(p)'[i] \in 1..inbound /\ (Queue(p)'[i] = Queue(p)'[k] => i = k)
    BY <1>0, <1>4 DEF AnswerInv, PathsOK
  <2>3. \A x : InLoader(x)' => x \in 1..inbound /\ ~InQueue(G, x)'
    BY <1>3, <1>4
  <2>4. inbound' = inbound /\ inbound \in Nat
    BY <1>1 DEF AnswerInv, PathsOK
  <2> QED
    BY <1>2, <2>1, <2>2, <2>3, <2>4 DEF PathsOK
<1>7. ContextsOK'
  BY <1>1, <1>3, <1>4 DEF AnswerInv, ContextsOK
<1>8. SentOK' /\ \A p, x : Home(p, x) => Home(p, x)'
  BY <1>0, <1>1, HomeStays DEF AnswerInv, SentOK
<1>9. AnswersOK'
  BY <1>0, <1>5, <1>8, AnswersStay DEF AnswerInv, Stations, Paths
<1> QED
  BY <1>6, <1>7, <1>8, <1>9 DEF AnswerInv

(* The loader has published what it loaded. *)
LEMMA ContextKeeps ==
  ASSUME AnswerInv, PublishContext, UNCHANGED <<sent, shown>>
  PROVE  AnswerInv'
<1>0. queue' = queue /\ inbound' = inbound /\ loader.st = "publish" /\ loader' = NoContext
  BY DEF PublishContext
<1>1. loader' = [f \in LoaderFields |-> loader'[f]] /\ \A m : ~InLoader(m)'
  BY <1>0 DEF NoContext, LoaderFields, InLoader
<1>2. DOMAIN queue' = DOMAIN queue /\ \A p : Queue(p)' = Queue(p)
  BY <1>0 DEF Queue
<1>3. CASE contexts' = contexts
  <2>1. Aside
    BY <1>0, <1>1, <1>2, <1>3 DEF Aside
  <2> QED
    BY <2>1, AsideKeeps
<1>4. CASE contexts' # contexts
  <2> PICK c : c = [msg |-> loader.msg, history |-> loader.history, answered |-> FALSE]
    OBVIOUS
  <2> DEFINE n == Len(contexts) + 1
  <2>1. contexts' = Append(contexts, c)
    BY <1>4 DEF PublishContext
  <2>2. /\ IsList(contexts') /\ DOMAIN contexts' = DOMAIN contexts \cup {n} /\ n \notin DOMAIN contexts
        /\ contexts'[n] = c /\ \A i \in DOMAIN contexts : contexts'[i] = contexts[i]
    BY <2>1, AppendItems DEF AnswerInv, ContextsOK
  <2> HIDE DEF n
  <2>3. \A p, m : InQueue(p, m)' <=> InQueue(p, m)
    BY <1>2 DEF InQueue
  <2>4. \A x : Passed(x) => Passed(x)'
    BY <1>0, <2>2, <2>3, PassedStays DEF AnswerInv, PathsOK
  <2>5. c = [f \in ContextFields |-> c[f]] /\ c.msg = loader.msg /\ InLoader(c.msg)
    BY <1>0 DEF ContextFields, InLoader
  <2>6. c.msg \in 1..inbound /\ ~InQueue("graph-context-loader", c.msg)
        /\ \A i \in DOMAIN contexts : contexts[i].msg # c.msg
    BY <2>5 DEF AnswerInv, PathsOK, ContextsOK
  <2>7. PathsOK'
    BY <1>0, <1>1, <1>2, PathsStay DEF AnswerInv
  <2>8. ContextsOK'
    <3>1. ASSUME NEW i \in DOMAIN contexts'
          PROVE  /\ contexts'[i] = [f \in ContextFields |-> contexts'[i][f]]
                 /\ contexts'[i].msg \in 1..inbound
                 /\ ~InQueue("graph-context-loader", contexts'[i].msg)
                 /\ \A d \in DOMAIN contexts' : contexts'[i].msg = contexts'[d].msg => i = d
      BY <2>2, <2>5, <2>6 DEF AnswerInv, ContextsOK
    <3>2. \A m : ~InQueue("graph-context-loader", m) => ~InQueue("graph-context-loader", m)'
      BY <2>3
    <3> QED
      BY <1>0, <1>1, <2>2, <3>1, <3>2 DEF ContextsOK
  <2>9. SentOK' /\ \A p, x : Home(p, x) => Home(p, x)'
    BY <1>0, <1>2, HomeStays DEF AnswerInv, SentOK
  <2>10. AnswersOK'
    BY <1>2, <2>4, <2>9, AnswersStay DEF AnswerInv
  <2> QED
    BY <2>7, <2>8, <2>9, <2>10 DEF AnswerInv
<1> QED
  BY <1>3, <1>4

(* A path gives its answer, which goes to the formatter or is lost. *)
LEMMA AnswerGiven ==
  ASSUME AnswersOK, NEW x, ~Passed(x), Passed(x)', IsList(Queue("response-formatter")),
         \/ Queue("response-formatter")' = Queue("response-formatter")
         \/ Queue("response-formatter")' = Append(Queue("response-formatter"), x),
         \A p \in ChannelPlugins : Queue(p)' = Queue(p), shown' = shown,
         \A y : Passed(y) => Passed(y)', \A p, y : Home(p, y) => Home(p, y)'
  PROVE  AnswersOK'
<1>1. \A y : Passed(y) => ~Same(y, x)
  BY DEF Passed, Same
<1> PICK F, G : F = Queue("response-formatter") /\ G = Queue("response-formatter")'
  OBVIOUS
<1>2. CASE G = F
  BY <1>2, AnswersStay DEF Stations
<1>3. CASE G = Append(F, x)
  <2>1. \A i \in DOMAIN G : (i \in DOMAIN F /\ G[i] = F[i]) \/ (i = Len(F) + 1 /\ G[i] = x)
    BY <1>3, AppendItems
  <2>2. \A y : ForFormatter(y)' => ForFormatter(y) \/ Same(x, y)
    BY <2>1 DEF ForFormatter
  <2>3. \A i, k \in DOMAIN F : Passed(F[i]) /\ (Same(F[i], F[k]) => i = k)
    BY DEF AnswersOK, FormatterOK
  <2>4. FormatterOK'
    <3>1. ASSUME NEW i \in DOMAIN G, NEW k \in DOMAIN G PROVE Same(G[i], G[k]) => i = k
      <4>1. CASE i \in DOMAIN F /\ G[i] = F[i] /\ k \in DOMAIN F /\ G[k] = F[k]
        BY <2>3, <4>1
      <4>2. CASE i \in DOMAIN F /\ G[i] = F[i] /\ k = Len(F) + 1 /\ G[k] = x
        BY <1>1, <2>3, <4>2
      <4>3. CASE i = Len(F) + 1 /\ G[i] = x /\ k \in DOMAIN F /\ G[k] = F[k]
        BY <1>1, <2>3, <4>3 DEF Same
      <4> QED
        BY <2>1, <4>1, <4>2, <4>3
    <3>2. ASSUME NEW i \in DOMAIN G, NEW y, y = G[i] PROVE Passed(y)'
      <4>1. CASE y = x
        BY <4>1
      <4>2. CASE i \in DOMAIN F /\ y = F[i]
        <5>1. Passed(y)
          BY <2>3, <4>2
        <5> QED
          BY <5>1
      <4> QED
        BY <2>1, <3>2, <4>1, <4>2
    <3> QED
      BY <3>1, <3>2 DEF FormatterOK, Same
  <2>5. \A p \in ChannelPlugins : \A i : Out(p, i)' <=> Out(p, i)
    BY DEF Out
  <2>6. OutsOK'
    <3> SUFFICES ASSUME NEW p \in ChannelPlugins, NEW i, Out(p, i)'
                 PROVE  /\ Passed(Queue(p)[i])' /\ Home(p, Queue(p)[i])' /\ ~ForFormatter(Queue(p)[i])'
                        /\ \A k : Out(p, k)' /\ Same(Queue(p)[i], Queue(p)[k])' => i = k
      BY DEF OutsOK
    <3> PICK q : q = Queue(p)
      OBVIOUS
    <3>1. q = Queue(p)' /\ Out(p, i)
      BY <2>5
    <3>2. Passed(q[i]) /\ Home(p, q[i]) /\ ~ForFormatter(q[i]) /\ \A k : Out(p, k) /\ Same(q[i], q[k]) => i = k
      BY <3>1 DEF AnswersOK, OutsOK
    <3>3. \A y : y = q[i] => Passed(y)' /\ Home(p, y)' /\ ~ForFormatter(y)'
      BY <1>1, <2>2, <3>2 DEF Same
    <3> QED
      BY <2>5, <3>1, <3>2, <3>3 DEF Same
  <2>7. ShownOK'
    <3>1. \A y : ForChannel(y)' <=> ForChannel(y)
      BY <2>5 DEF ForChannel
    <3>2. \A e \in DOMAIN shown : ~ForFormatter(e.what)'
      <4> SUFFICES ASSUME NEW e \in DOMAIN shown PROVE ~ForFormatter(e.what)'
        OBVIOUS
      <4>1. Passed(e.what) /\ ~ForFormatter(e.what)
        BY DEF AnswersOK, ShownOK
      <4> QED
        BY <1>1, <2>2, <4>1 DEF Same
    <3> QED
      BY <3>1, <3>2 DEF AnswersOK, ShownOK
  <2> QED
    BY <2>4, <2>6, <2>7 DEF AnswersOK
<1> QED
  BY <1>2, <1>3

(* The router answers a message whose context was loaded. *)
LEMMA ContextAnswered ==
  ASSUME AnswerInv, NEW i \in DOMAIN contexts, RouterAnswers(i), UNCHANGED <<sent, shown>>
  PROVE  AnswerInv'
<1> PICK x : x = [msg |-> contexts[i].msg, via |-> "context"]
  OBVIOUS
<1>0. /\ ~contexts[i].answered /\ UNCHANGED <<inbound, loader>> /\ publish_response("llm.response", x)
      /\ contexts' = [contexts EXCEPT ![i].answered = TRUE]
  BY DEF RouterAnswers
<1>1. /\ DOMAIN queue' = DOMAIN queue
      /\ \A q : q \notin Subscribed("llm.response") => Queue(q)' = Queue(q)
      /\ \A q \in Subscribed("llm.response") : Queue(q)' = Queue(q) \/ Queue(q)' = Append(Queue(q), x)
  BY <1>0, PublishQueues
<1>2. /\ "response-formatter" \in Subscribed("llm.response") /\ "response-formatter" \in Stations
      /\ \A p \in Paths \cup ChannelPlugins : p \notin Subscribed("llm.response") /\ p \in Stations
      /\ Stations = Paths \cup ChannelPlugins \cup {"response-formatter"}
  BY DEF Subscribed, Paths, ChannelPlugins, Stations
<1>3. \A p \in Paths \cup ChannelPlugins : Queue(p)' = Queue(p)
  BY <1>1, <1>2
<1>4. \A p \in Paths : \A m : InQueue(p, m)' <=> InQueue(p, m)
  BY <1>3 DEF InQueue
<1>5. /\ DOMAIN contexts' = DOMAIN contexts /\ contexts' = [c \in DOMAIN contexts' |-> contexts'[c]]
      /\ \A c \in DOMAIN contexts : c # i => contexts'[c] = contexts[c]
      /\ contexts'[i] = [contexts[i] EXCEPT !.answered = TRUE]
  BY <1>0
<1>6. contexts[i] = [f \in ContextFields |-> contexts[i][f]]
  BY DEF AnswerInv, ContextsOK
<1>7. /\ contexts'[i] = [f \in ContextFields |-> contexts'[i][f]]
      /\ contexts'[i].msg = contexts[i].msg /\ contexts'[i].answered = TRUE
  BY <1>5, <1>6 DEF ContextFields
<1>8. IsList(contexts')
  BY <1>5, ListMap DEF AnswerInv, ContextsOK
<1>9. \A y : Passed(y) => Passed(y)'
  <2>1. inbound \in Nat /\ inbound' \in Nat /\ inbound' >= inbound
    BY <1>0 DEF AnswerInv, PathsOK
  <2>2. \A m \in 1..inbound : InQueue("llm-router", m)' => InQueue("llm-router", m)
    BY <1>4 DEF Paths
  <2>3. \A c \in DOMAIN contexts : /\ c \in DOMAIN contexts' /\ contexts'[c].msg = contexts[c].msg
                                   /\ contexts[c].answered => contexts'[c].answered
    BY <1>0, <1>5, <1>7
  <2> QED
    BY <2>1, <2>2, <2>3, PassedStays
<1>10. ~Passed(x) /\ Passed(x)'
  <2>1. x.msg = contexts[i].msg /\ x.via = "context" /\ x.msg \in 1..inbound
    BY DEF AnswerInv, ContextsOK
  <2>2. \A c \in DOMAIN contexts : contexts[c].msg = x.msg => c = i
    BY <2>1 DEF AnswerInv, ContextsOK
  <2>3. ~Passed(x)
    BY <1>0, <2>1, <2>2 DEF Passed
  <2>4. i \in DOMAIN contexts' /\ contexts'[i].msg = x.msg /\ contexts'[i].answered /\ x.msg \in 1..inbound'
    BY <1>0, <1>5, <1>7, <2>1
  <2>5. Passed(x)'
    BY <2>1, <2>4 DEF Passed
  <2> QED
    BY <2>3, <2>5
<1>11. SentOK' /\ \A p, y : Home(p, y) => Home(p, y)'
  BY <1>0, <1>1, HomeStays DEF AnswerInv, SentOK
<1>12. IsList(Queue("response-formatter"))
  BY <1>2 DEF AnswerInv, PathsOK
<1>13. AnswersOK'
  <2>1. \/ Queue("response-formatter")' = Queue("response-formatter")
        \/ Queue("response-formatter")' = Append(Queue("response-formatter"), x)
    BY <1>1, <1>2
  <2> QED
    BY <1>3, <1>9, <1>10, <1>11, <1>12, <2>1, AnswerGiven DEF AnswerInv
<1>14. PathsOK'
  <2>0. IsList(Append(Queue("response-formatter"), x))
    BY <1>12, AppendItems
  <2>1. IsList(Queue("response-formatter")')
    BY <1>1, <1>2, <1>12, <2>0
  <2>2. \A p \in Stations : IsList(Queue(p)')
    BY <1>2, <1>3, <2>1 DEF AnswerInv, PathsOK
  <2>3. \A m : InLoader(m)' <=> InLoader(m)
    BY <1>0 DEF InLoader
  <2> QED
    BY <1>0, <1>3, <1>4, <2>2, <2>3 DEF AnswerInv, PathsOK, Paths
<1>15. ContextsOK'
  <2>1. \A c \in DOMAIN contexts : contexts'[c].msg = contexts[c].msg
    BY <1>5, <1>7
  <2>2. \A m : InLoader(m)' <=> InLoader(m)
    BY <1>0 DEF InLoader
  <2>3. \A c \in DOMAIN contexts : contexts'[c] = [f \in ContextFields |-> contexts'[c][f]]
    BY <1>5, <1>7 DEF AnswerInv, ContextsOK
  <2>4. \A m : InQueue("graph-context-loader", m)' <=> InQueue("graph-context-loader", m)
    BY <1>4 DEF Paths
  <2>5. ASSUME NEW c \in DOMAIN contexts', NEW m, m = contexts'[c].msg
        PROVE  /\ m \in 1..inbound' /\ ~InQueue("graph-context-loader", m)' /\ ~InLoader(m)'
               /\ \A d \in DOMAIN contexts' : m = contexts'[d].msg => c = d
    <3>1. c \in DOMAIN contexts /\ m = contexts[c].msg
      BY <1>5, <2>1, <2>5
    <3>2. /\ m \in 1..inbound /\ ~InQueue("graph-context-loader", m) /\ ~InLoader(m)
          /\ \A d \in DOMAIN contexts : m = contexts[d].msg => c = d
      BY <3>1 DEF AnswerInv, ContextsOK
    <3>3. m \in 1..inbound' /\ ~InQueue("graph-context-loader", m)' /\ ~InLoader(m)'
      BY <1>0, <2>2, <2>4, <3>2
    <3>4. \A d \in DOMAIN contexts' : m = contexts'[d].msg => c = d
      BY <1>5, <2>1, <3>2
    <3> QED
      BY <3>3, <3>4
  <2> QED
    BY <1>5, <1>8, <2>3, <2>5 DEF ContextsOK
<1> QED
  BY <1>11, <1>13, <1>14, <1>15 DEF AnswerInv

(* The router answers a message as it came in. *)
LEMMA InboundAnswered ==
  ASSUME AnswerInv, RouterAnswersInbound
  PROVE  AnswerInv'
<1> DEFINE R == "llm-router"
<1> PICK x : x = [msg |-> Head(queue[R]), via |-> "inbound"]
  OBVIOUS
<1> PICK taken : taken = [queue EXCEPT ![R] = Tail(@)]
  OBVIOUS
<1>0. /\ UNCHANGED <<inbound, loader, contexts, sent, shown>> /\ R \in DOMAIN queue /\ queue[R] # <<>>
      /\ \/ queue' = [p \in DOMAIN taken |->
                        IF p \in Subscribed("llm.response") THEN Append(taken[p], x) ELSE taken[p]]
         \/ queue' = taken
  BY DEF RouterAnswersInbound, Has, channelVars
<1>1. /\ DOMAIN taken = DOMAIN queue
      /\ \A p \in DOMAIN queue : taken[p] = IF p = R THEN Tail(queue[R]) ELSE queue[p]
  OBVIOUS
<1>2. /\ "response-formatter" \in Subscribed("llm.response") /\ "response-formatter" \in Stations
      /\ \A p \in Paths \cup ChannelPlugins : p \notin Subscribed("llm.response") /\ p \in Stations
      /\ R \in Paths /\ "response-formatter" # R /\ R \notin ChannelPlugins
      /\ Stations = Paths \cup ChannelPlugins \cup {"response-formatter"}
  BY DEF Subscribed, Paths, ChannelPlugins, Stations
<1>3. /\ DOMAIN queue' = DOMAIN queue /\ queue'[R] = Tail(queue[R])
      /\ \A p \in Paths \cup ChannelPlugins : p \in DOMAIN queue /\ p # R => queue'[p] = queue[p]
      /\ "response-formatter" \in DOMAIN queue =>
           \/ queue'["response-formatter"] = queue["response-formatter"]
           \/ queue'["response-formatter"] = Append(queue["response-formatter"], x)
  BY <1>0, <1>1, <1>2
<1>4. /\ Queue(R) # <<>> /\ Queue(R)' = Tail(Queue(R)) /\ Queue(R) = queue[R]
      /\ \A p \in Paths \cup ChannelPlugins : p # R => Queue(p)' = Queue(p)
      /\ \/ Queue("response-formatter")' = Queue("response-formatter")
         \/ Queue("response-formatter")' = Append(Queue("response-formatter"), x)
  BY <1>0, <1>3 DEF Queue
<1>5. /\ IsList(Queue(R)') /\ x.msg \in 1..inbound /\ InQueue(R, x.msg)
      /\ \A i, k \in DOMAIN Queue(R)' :
           Queue(R)'[i] \in 1..inbound /\ (Queue(R)'[i] = Queue(R)'[k] => i = k)
      /\ \A m : InQueue(R, m)' <=> (InQueue(R, m) /\ m # x.msg)
  BY <1>2, <1>4, PathTaken DEF AnswerInv
<1>6. \A y : Passed(y) => Passed(y)'
  BY <1>0, <1>5, PassedStays DEF AnswerInv, PathsOK
<1>7. ~Passed(x) /\ Passed(x)'
  <2>1. x.via = "inbound" /\ x.msg \in 1..inbound'
    BY <1>0, <1>5
  <2>2. ~Passed(x)
    BY <1>5, <2>1 DEF Passed
  <2>3. ~InQueue(R, x.msg)'
    BY <1>5
  <2> QED
    BY <2>1, <2>2, <2>3 DEF Passed
<1>8. SentOK' /\ \A p, y : Home(p, y) => Home(p, y)'
  BY <1>0, <1>3, HomeStays DEF AnswerInv, SentOK
<1>9. IsList(Queue("response-formatter"))
  BY <1>2 DEF AnswerInv, PathsOK
<1>10. AnswersOK'
  <2>1. \A p \in ChannelPlugins : Queue(p)' = Queue(p)
    BY <1>2, <1>4
  <2> QED
    BY <1>0, <1>4, <1>6, <1>7, <1>8, <1>9, <2>1, AnswerGiven DEF AnswerInv
<1>11. \A m : InQueue("graph-context-loader", m)' <=> InQueue("graph-context-loader", m)
  BY <1>4 DEF Paths, InQueue
<1>12. \A m : InLoader(m)' <=> InLoader(m)
  BY <1>0 DEF InLoader
<1>13. PathsOK'
  <2>0. IsList(Append(Queue("response-formatter"), x))
    BY <1>9, AppendItems
  <2>1. IsList(Queue("response-formatter")')
    BY <1>4, <1>9, <2>0
  <2>2. \A p \in Stations : IsList(Queue(p)')
    BY <1>2, <1>4, <1>5, <2>1 DEF AnswerInv, PathsOK
  <2>3. \A p \in Paths : \A i, k \in DOMAIN Queue(p)' :
          Queue(p)'[i] \in 1..inbound /\ (Queue(p)'[i] = Queue(p)'[k] => i = k)
    BY <1>4, <1>5 DEF AnswerInv, PathsOK
  <2> QED
    BY <1>0, <1>11, <1>12, <2>2, <2>3 DEF AnswerInv, PathsOK
<1>14. ContextsOK'
  BY <1>0, <1>11, <1>12 DEF AnswerInv, ContextsOK
<1> QED
  BY <1>8, <1>10, <1>13, <1>14 DEF AnswerInv

(* The paths while answers move behind them. *)
LEMMA PathsLeft ==
  ASSUME AnswerInv, DOMAIN queue' = DOMAIN queue, \A p \in Paths : Queue(p)' = Queue(p),
         \A p \in Stations \ Paths : IsList(Queue(p)'), UNCHANGED <<inbound, loader, contexts, sent>>
  PROVE  /\ PathsOK' /\ ContextsOK' /\ SentOK'
         /\ (\A x : Passed(x) => Passed(x)') /\ (\A p, x : Home(p, x) => Home(p, x)')
<1>1. \A p \in Paths : \A m : InQueue(p, m)' <=> InQueue(p, m)
  BY DEF InQueue
<1>2. \A m : InLoader(m)' <=> InLoader(m)
  BY DEF InLoader
<1>3. \A p \in Stations : IsList(Queue(p)')
  BY DEF AnswerInv, PathsOK
<1>4. PathsOK'
  BY <1>1, <1>2, <1>3 DEF AnswerInv, PathsOK, Paths
<1>5. ContextsOK'
  BY <1>1, <1>2 DEF AnswerInv, ContextsOK, Paths
<1>6. SentOK' /\ \A p, x : Home(p, x) => Home(p, x)'
  BY HomeStays DEF AnswerInv, SentOK
<1>7. \A x : Passed(x) => Passed(x)'
  BY <1>1, PassedStays DEF AnswerInv, PathsOK, Paths
<1> QED
  BY <1>4, <1>5, <1>6, <1>7

(* The formatter reads the platform and the chat from the correlation id. *)
LEMMA HintIsHome ==
  ASSUME SentOK, NEW ev, ev.msg \in DOMAIN sent, NEW hint, hint = extract_channel_hint(ev),
         NEW out, out = Outbound(ev, "outbound", hint.chat)
  PROVE  Home(hint.platform, out) /\ Same(out, ev) /\ out.payload = "outbound"
<1>1. out.msg = ev.msg /\ out.via = ev.via /\ out.payload = "outbound" /\ out.chat = hint.chat
  BY DEF Outbound
<1> PICK s : s = sent[ev.msg]
  OBVIOUS
<1>2. IF s.platform = "telegram" THEN s.corr # NoId /\ s.corr[1] = "telegram" /\ s.corr[2] = s.chat ELSE s.corr = NoId
  BY DEF SentOK
<1>3. AnswerId(ev) = IF s.corr # NoId THEN s.corr ELSE <<"none", ev.via, ev.msg>>
  BY DEF AnswerId
<1>4. CASE s.platform = "telegram"
  <2>1. AnswerId(ev)[1] = "telegram" /\ AnswerId(ev)[2] = s.chat
    BY <1>2, <1>3, <1>4
  <2>2. hint.platform = "telegram" /\ hint.chat = s.chat
    BY <2>1 DEF extract_channel_hint, from_correlation_id
  <2> QED
    BY <1>1, <1>4, <2>2 DEF Home, Same
<1>5. CASE s.platform # "telegram"
  <2>1. AnswerId(ev)[1] = "none"
    BY <1>2, <1>3, <1>5
  <2>2. hint.platform = "cli"
    BY <2>1 DEF extract_channel_hint, from_correlation_id
  <2> QED
    BY <1>1, <1>5, <2>2 DEF Home, Same
<1> QED
  BY <1>4, <1>5

(* The formatter passes an answer on to its channel. *)
LEMMA FormatterKeeps ==
  ASSUME AnswerInv, handle_llm_response
  PROVE  AnswerInv'
<1> DEFINE N == "response-formatter"
<1> PICK F, G : F = Queue(N) /\ G = Queue(N)'
  OBVIOUS
<1> PICK ev : ev = Head(queue[N])
  OBVIOUS
<1> PICK hint : hint = extract_channel_hint(ev)
  OBVIOUS
<1> PICK out : out = Outbound(ev, "outbound", hint.chat)
  OBVIOUS
<1>0. /\ Has(N) /\ Forwards(N, hint.platform, out) /\ UNCHANGED <<inbound, loader, contexts, sent, shown>>
  BY DEF handle_llm_response, channelVars
<1>1. /\ DOMAIN queue' = DOMAIN queue /\ F # <<>> /\ ev = Head(F) /\ G = Tail(F)
      /\ \A q : q # N => \/ Queue(q)' = Queue(q)
                         \/ /\ q \in ChannelPlugins \cap DOMAIN queue /\ q = hint.platform
                            /\ Queue(q)' = Append(Queue(q), out)
  BY <1>0, ForwardsQueues DEF ChannelPlugins
<1>2. /\ N \in Stations \ Paths /\ ChannelPlugins \subseteq Stations /\ ChannelPlugins \cap Paths = {}
      /\ N \notin ChannelPlugins /\ N \notin Paths /\ Stations = Paths \cup ChannelPlugins \cup {N}
  BY DEF Stations, Paths, ChannelPlugins
<1>3. IsList(F) /\ \A p \in ChannelPlugins : IsList(Queue(p))
  BY <1>2 DEF AnswerInv, PathsOK
<1>4. /\ IsList(G) /\ 1 \in DOMAIN F /\ ev = F[1]
      /\ \A i \in DOMAIN G : i \in Nat /\ i + 1 \in DOMAIN F /\ i + 1 # 1 /\ G[i] = F[i + 1]
  <2>1. /\ IsList(Tail(F)) /\ 1 \in DOMAIN F /\ Head(F) = F[1]
        /\ \A i \in DOMAIN Tail(F) : i \in Nat /\ i + 1 \in DOMAIN F /\ i + 1 # 1 /\ Tail(F)[i] = F[i + 1]
    BY <1>1, <1>3, TailItems
  <2>2. G = Tail(F) /\ ev = Head(F)
    BY <1>1
  <2> QED
    BY <2>1, <2>2
<1>5. \A p \in Stations \ Paths : IsList(Queue(p)')
  <2>1. ASSUME NEW p \in ChannelPlugins PROVE IsList(Queue(p)')
    <3>1. IsList(Queue(p)) /\ IsList(Append(Queue(p), out))
      BY <1>3, AppendItems
    <3> QED
      BY <1>1, <1>2, <3>1
  <2>2. IsList(Queue(N)')
    BY <1>4
  <2> QED
    BY <1>2, <2>1, <2>2
<1>6. \A p \in Paths : Queue(p)' = Queue(p)
  BY <1>1, <1>2
<1>7. /\ PathsOK' /\ ContextsOK' /\ SentOK'
      /\ (\A x : Passed(x) => Passed(x)') /\ (\A p, x : Home(p, x) => Home(p, x)')
  BY <1>0, <1>1, <1>5, <1>6, PathsLeft
<1>8. \A i, k \in DOMAIN F : Passed(F[i]) /\ (Same(F[i], F[k]) => i = k)
  BY DEF AnswerInv, AnswersOK, FormatterOK
<1>9. FormatterOK'
  <2>1. ASSUME NEW i \in DOMAIN G, NEW y, y = G[i]
        PROVE  Passed(y)' /\ \A k \in DOMAIN G : Same(y, G[k]) => i = k
    <3>1. Passed(y) /\ \A k \in DOMAIN G : Same(y, F[k + 1]) => i + 1 = k + 1
      BY <1>4, <1>8, <2>1
    <3>2. \A k \in DOMAIN G : Same(y, G[k]) => i = k
      BY <1>4, <3>1
    <3> QED
      BY <1>7, <3>1, <3>2
  <2> QED
    BY <2>1 DEF FormatterOK, Same
<1>10. Passed(ev) /\ ForFormatter(ev) /\ \A x : Same(x, ev) => Passed(x)
  BY <1>4, <1>8 DEF ForFormatter, Same, Passed
<1>11. \A x : ForFormatter(x)' => ForFormatter(x) /\ ~Same(x, ev)
  <2> SUFFICES ASSUME NEW x, NEW i \in DOMAIN G, Same(G[i], x) PROVE ForFormatter(x) /\ ~Same(x, ev)
    BY DEF ForFormatter, Same
  <2>1. i + 1 \in DOMAIN F /\ Same(F[i + 1], x) /\ i + 1 # 1
    BY <1>4
  <2>2. ~Same(F[i + 1], F[1])
    BY <1>4, <1>8, <2>1
  <2> QED
    BY <1>4, <2>1, <2>2 DEF ForFormatter, Same
<1>12. ChannelPlugins \cap DOMAIN queue # {} => Home(hint.platform, out) /\ Same(out, ev) /\ out.payload = "outbound"
  <2> SUFFICES ASSUME ChannelPlugins \cap DOMAIN queue # {}
               PROVE  Home(hint.platform, out) /\ Same(out, ev) /\ out.payload = "outbound"
    OBVIOUS
  <2>1. Len(sent) = inbound /\ IsList(sent)
    BY DEF AnswerInv, SentOK
  <2>2. DOMAIN sent = 1..Len(sent)
    BY <2>1, AppendItems
  <2>3. ev.msg \in DOMAIN sent
    BY <1>10, <2>1, <2>2 DEF Passed
  <2> QED
    BY <2>3, HintIsHome DEF AnswerInv
<1>13. ASSUME NEW p \in ChannelPlugins, NEW i, Out(p, i)'
       PROVE  \/ Out(p, i) /\ Queue(p)'[i] = Queue(p)[i]
              \/ /\ p = hint.platform /\ Queue(p)'[i] = out /\ Home(p, out) /\ Same(out, ev)
                 /\ i = Len(Queue(p)) + 1 /\ p \in DOMAIN queue
  <2> PICK q, r : q = Queue(p) /\ r = Queue(p)'
    OBVIOUS
  <2>1. i \in DOMAIN r /\ r[i].payload = "outbound"
    BY <1>13 DEF Out
  <2>2. CASE r = q
    BY <2>1, <2>2 DEF Out
  <2>3. CASE r = Append(q, out) /\ p = hint.platform /\ p \in DOMAIN queue
    <3>1. (i \in DOMAIN q /\ r[i] = q[i]) \/ (i = Len(q) + 1 /\ r[i] = out)
      BY <1>3, <2>1, <2>3, AppendItems
    <3>2. Home(p, out) /\ Same(out, ev)
      BY <1>12, <2>3
    <3> QED
      BY <2>1, <2>3, <3>1, <3>2 DEF Out
  <2> QED
    BY <1>1, <1>2, <2>2, <2>3
<1>14. OutsOK'
  <2> SUFFICES ASSUME NEW p \in ChannelPlugins, NEW i, Out(p, i)', NEW x, x = Queue(p)'[i]
               PROVE  /\ Passed(x)' /\ Home(p, x)' /\ ~ForFormatter(x)'
                      /\ \A k : Out(p, k)' /\ Same(x, Queue(p)'[k]) => i = k
    BY DEF OutsOK, Same
  <2>1. CASE Out(p, i) /\ x = Queue(p)[i]
    <3>1. Passed(x) /\ Home(p, x) /\ ~ForFormatter(x) /\ \A k : Out(p, k) /\ Same(x, Queue(p)[k]) => i = k
      BY <2>1 DEF AnswerInv, AnswersOK, OutsOK
    <3>2. ASSUME NEW k, Out(p, k)', Same(x, Queue(p)'[k]) PROVE i = k
      <4>1. CASE Out(p, k) /\ Queue(p)'[k] = Queue(p)[k]
        BY <3>1, <3>2, <4>1
      <4>2. CASE Queue(p)'[k] = out /\ Same(out, ev)
        <5>1. Same(ev, x)
          BY <3>2, <4>2 DEF Same
        <5>2. ForFormatter(x)
          BY <1>4, <5>1 DEF ForFormatter
        <5> QED
          BY <3>1, <5>2
      <4> QED
        BY <1>13, <3>2, <4>1, <4>2
    <3> QED
      BY <1>7, <1>11, <3>1, <3>2
  <2>2. CASE p = hint.platform /\ x = out /\ Home(p, out) /\ Same(out, ev) /\ i = Len(Queue(p)) + 1
    <3>1. Passed(x) /\ Home(p, x) /\ ~ForFormatter(x)'
      BY <1>10, <1>11, <2>2
    <3>2. ASSUME NEW k, Out(p, k)', Same(x, Queue(p)'[k]) PROVE i = k
      <4>1. CASE Out(p, k) /\ Queue(p)'[k] = Queue(p)[k]
        <5>1. Same(ev, Queue(p)[k])
          BY <2>2, <3>2, <4>1 DEF Same
        <5>2. ForFormatter(Queue(p)[k])
          BY <1>4, <5>1 DEF ForFormatter
        <5> QED
          BY <4>1, <5>2 DEF AnswerInv, AnswersOK, OutsOK
      <4>2. CASE k = Len(Queue(p)) + 1
        BY <2>2, <4>2
      <4> QED
        BY <1>13, <3>2, <4>1, <4>2
    <3> QED
      BY <1>7, <3>1, <3>2
  <2> QED
    BY <1>13, <2>1, <2>2
<1>15. ShownOK'
  <2>1. ASSUME NEW e \in DOMAIN shown, NEW x, x = e.what
        PROVE  Passed(x)' /\ Home(e.on, x)' /\ ~ForFormatter(x)' /\ ~ForChannel(x)'
    <3>1. Passed(x) /\ Home(e.on, x) /\ ~ForFormatter(x) /\ ~ForChannel(x)
      BY <2>1 DEF AnswerInv, AnswersOK, ShownOK
    <3>2. ASSUME NEW p \in ChannelPlugins, NEW i, Out(p, i)', Same(Queue(p)'[i], x) PROVE FALSE
      <4>1. CASE Out(p, i) /\ Queue(p)'[i] = Queue(p)[i]
        BY <3>1, <3>2, <4>1 DEF ForChannel
      <4>2. CASE Queue(p)'[i] = out /\ Same(out, ev)
        <5>1. Same(ev, x)
          BY <3>2, <4>2 DEF Same
        <5>2. ForFormatter(x)
          BY <1>4, <5>1 DEF ForFormatter
        <5> QED
          BY <3>1, <5>2
      <4> QED
        BY <1>13, <3>2, <4>1, <4>2
    <3>3. ~ForChannel(x)'
      BY <3>2 DEF ForChannel, Same
    <3> QED
      BY <1>7, <1>11, <3>1, <3>3
  <2> QED
    BY <1>0, <2>1 DEF AnswerInv, AnswersOK, ShownOK
<1> QED
  BY <1>7, <1>9, <1>14, <1>15 DEF AnswerInv, AnswersOK

(* The orchestrator routes an answer that the channels cannot read. *)
LEMMA OrphanKeeps ==
  ASSUME AnswerInv, RouteOrphan
  PROVE  AnswerInv'
<1> DEFINE N == "orchestrator-responses"
<1>0. UNCHANGED <<inbound, loader, contexts, sent, shown>> /\ Has(N) /\ N \notin Stations /\ N \notin ChannelPlugins
  BY DEF RouteOrphan, RouteBy, Stations, Paths, ChannelPlugins
<1>1. CASE Takes(N)
  <2>1. DOMAIN queue' = DOMAIN queue /\ \A p \in Stations : Queue(p)' = Queue(p)
    BY <1>0, <1>1, TakesQueues
  <2> QED
    BY <1>0, <2>1, AsideKeeps DEF Aside
<1>2. CASE ~Takes(N)
  <2> PICK channel, out : Forwards(N, channel, out) /\ out.payload = "llm"
    BY <1>2 DEF RouteOrphan, RouteBy, Outbound
  <2>1. /\ DOMAIN queue' = DOMAIN queue
        /\ \A q : q # N => \/ Queue(q)' = Queue(q)
                           \/ q \in ChannelPlugins /\ Queue(q)' = Append(Queue(q), out)
    BY <1>0, ForwardsQueues
  <2>2. /\ ChannelPlugins \subseteq Stations /\ ChannelPlugins \cap Paths = {} /\ Paths \subseteq Stations
        /\ "response-formatter" \notin ChannelPlugins /\ "response-formatter" \in Stations
        /\ Stations = Paths \cup ChannelPlugins \cup {"response-formatter"}
    BY DEF Stations, Paths, ChannelPlugins
  <2>3. /\ \A p \in Paths : Queue(p)' = Queue(p)
        /\ Queue("response-formatter")' = Queue("response-formatter")
        /\ \A p \in ChannelPlugins : Queue(p)' = Queue(p) \/ Queue(p)' = Append(Queue(p), out)
    BY <1>0, <2>1, <2>2
  <2>4. ASSUME NEW p \in ChannelPlugins
        PROVE  IsList(Queue(p)') /\ \A i : Out(p, i)' => Out(p, i) /\ Queue(p)'[i] = Queue(p)[i]
    <3> PICK q, r : q = Queue(p) /\ r = Queue(p)'
      OBVIOUS
    <3>1. IsList(q)
      BY <2>2 DEF AnswerInv, PathsOK
    <3>2. CASE r = q
      BY <3>1, <3>2 DEF Out
    <3>3. CASE r = Append(q, out)
      <4>1. IsList(r) /\ \A i \in DOMAIN r : (i \in DOMAIN q /\ r[i] = q[i]) \/ r[i] = out
        BY <3>1, <3>3, AppendItems
      <4> QED
        BY <4>1 DEF Out
    <3> QED
      BY <2>3, <3>2, <3>3
  <2>5. \A p \in Stations \ Paths : IsList(Queue(p)')
    BY <2>2, <2>3, <2>4 DEF AnswerInv, PathsOK
  <2>6. /\ PathsOK' /\ ContextsOK' /\ SentOK'
        /\ (\A x : Passed(x) => Passed(x)') /\ (\A p, x : Home(p, x) => Home(p, x)')
    BY <1>0, <2>1, <2>3, <2>5, PathsLeft
  <2>7. AnswersOK'
    BY <1>0, <2>3, <2>4, <2>6, AnswersUnmoved DEF AnswerInv
  <2> QED
    BY <2>6, <2>7 DEF AnswerInv
<1> QED
  BY <1>1, <1>2

(* What was not shown before is now shown once. *)
LEMMA ShownOnce ==
  ASSUME shown = [f \in DOMAIN shown |-> 1], NEW E, \A e \in E : e \notin DOMAIN shown, shown' = shown (+) SetToBag(E)
  PROVE  DOMAIN shown' = DOMAIN shown \cup E /\ shown' = [f \in DOMAIN shown' |-> 1]
<1> PICK D : D = DOMAIN shown
  OBVIOUS
<1>1. shown' = [f \in D \cup E |-> (IF f \in D THEN shown[f] ELSE 0) + (IF f \in E THEN 1 ELSE 0)]
  BY DEF (+), SetToBag
<1>2. \A f \in D \cup E : (IF f \in D THEN shown[f] ELSE 0) + (IF f \in E THEN 1 ELSE 0) = 1
  OBVIOUS
<1> QED
  BY <1>1, <1>2

(* A channel shows an answer, or drops what it cannot read or send. *)
LEMMA ShowsKeep ==
  ASSUME AnswerInv, NEW p \in ChannelPlugins, NEW usual, NEW failed, Shows(p, usual, failed),
         p # "telegram" => usual = {<<{"plain"}>>} /\ failed \subseteq {<<{}>>}
  PROVE  AnswerInv'
<1> PICK q, r : q = Queue(p) /\ r = Queue(p)'
  OBVIOUS
<1> PICK out : out = Head(q)
  OBVIOUS
<1>0. /\ DOMAIN queue' = DOMAIN queue /\ q # <<>> /\ q = queue[p] /\ r = Tail(q)
      /\ \A s : s # p => Queue(s)' = Queue(s)
  BY TakesQueues DEF Shows
<1>1. /\ UNCHANGED <<inbound, loader, contexts, sent>>
      /\ \/ \E pieces \in usual \cup failed :
              /\ out.payload = "outbound"
              /\ shown' = shown (+) SetToBag(
                   UNION {{[on |-> p, what |-> out, chunk |-> i, form |-> f] : f \in pieces[i]} : i \in DOMAIN pieces})
         \/ UNCHANGED shown
  <2> DEFINE Display(pieces) == shown' = shown (+) SetToBag(
        UNION {{[on |-> p, what |-> out, chunk |-> i, form |-> f] : f \in pieces[i]} : i \in DOMAIN pieces})
  <2>1. \/ out.payload = "outbound" /\ \E pieces \in usual : Display(pieces)
        \/ out.payload = "outbound" /\ \E pieces \in failed : Display(pieces)
        \/ UNCHANGED shown
    <3> HIDE DEF Display
    <3> QED
      BY <1>0 DEF Shows, Display
  <2>2. UNCHANGED <<inbound, loader, contexts, sent>>
    BY DEF Shows
  <2> QED
    BY <2>1, <2>2
<1>2. /\ p \in Stations \ Paths /\ p # "response-formatter" /\ "response-formatter" \in Stations
      /\ \A s \in Paths : s # p
  BY DEF Stations, Paths, ChannelPlugins
<1>3. IsList(q)
  BY <1>2 DEF AnswerInv, PathsOK
<1>4. /\ IsList(r) /\ 1 \in DOMAIN q /\ out = q[1]
      /\ \A i \in DOMAIN r : i \in Nat /\ i + 1 \in DOMAIN q /\ i + 1 # 1 /\ r[i] = q[i + 1]
  <2>1. /\ IsList(Tail(q)) /\ 1 \in DOMAIN q /\ Head(q) = q[1]
        /\ \A i \in DOMAIN Tail(q) : i \in Nat /\ i + 1 \in DOMAIN q /\ i + 1 # 1 /\ Tail(q)[i] = q[i + 1]
    BY <1>0, <1>3, TailItems
  <2> QED
    BY <1>0, <2>1
<1>5. \A s \in Stations \ Paths : IsList(Queue(s)')
  <2>1. IsList(Queue(p)')
    BY <1>4
  <2>2. \A s \in Stations : s # p => IsList(Queue(s)')
    BY <1>0 DEF AnswerInv, PathsOK
  <2> QED
    BY <2>1, <2>2
<1>6. /\ PathsOK' /\ ContextsOK' /\ SentOK'
      /\ (\A x : Passed(x) => Passed(x)') /\ (\A s, x : Home(s, x) => Home(s, x)')
  BY <1>0, <1>1, <1>2, <1>5, PathsLeft
<1>7. Queue("response-formatter")' = Queue("response-formatter")
  BY <1>0, <1>2
<1>8. \A x : ForFormatter(x)' <=> ForFormatter(x)
  BY <1>7 DEF ForFormatter
<1>9. FormatterOK'
  BY <1>6, <1>7 DEF AnswerInv, AnswersOK, FormatterOK
<1>10. \A i : Out(p, i)' => i \in Nat /\ Out(p, i + 1) /\ i + 1 # 1 /\ r[i] = q[i + 1]
  BY <1>4 DEF Out
<1>11. \A s \in ChannelPlugins : s # p => \A i : Out(s, i)' <=> Out(s, i)
  BY <1>0 DEF Out
<1>12. OutsOK'
  <2> SUFFICES ASSUME NEW s \in ChannelPlugins, NEW i, Out(s, i)', NEW x, x = Queue(s)'[i]
               PROVE  /\ Passed(x)' /\ Home(s, x)' /\ ~ForFormatter(x)'
                      /\ \A k : Out(s, k)' /\ Same(x, Queue(s)'[k]) => i = k
    BY DEF OutsOK, Same
  <2>1. CASE s = p
    <3>1. i \in Nat /\ Out(p, i + 1) /\ x = q[i + 1]
      BY <1>10, <2>1
    <3>2. Passed(x) /\ Home(s, x) /\ ~ForFormatter(x) /\ \A k : Out(p, k) /\ Same(x, q[k]) => i + 1 = k
      BY <2>1, <3>1 DEF AnswerInv, AnswersOK, OutsOK
    <3>3. ASSUME NEW k, Out(s, k)', Same(x, Queue(s)'[k]) PROVE i = k
      <4>1. k \in Nat /\ Out(p, k + 1) /\ Same(x, q[k + 1])
        BY <1>10, <2>1, <3>3
      <4>2. i + 1 = k + 1
        BY <3>2, <4>1
      <4> QED
        BY <3>1, <4>1, <4>2
    <3> QED
      BY <1>6, <1>8, <3>2, <3>3
  <2>2. CASE s # p
    <3>1. Out(s, i) /\ Queue(s)' = Queue(s) /\ \A k : Out(s, k)' <=> Out(s, k)
      BY <1>0, <1>11, <2>2
    <3>2. Passed(x) /\ Home(s, x) /\ ~ForFormatter(x) /\ \A k : Out(s, k) /\ Same(x, Queue(s)[k]) => i = k
      BY <3>1 DEF AnswerInv, AnswersOK, OutsOK
    <3> QED
      BY <1>6, <1>8, <3>1, <3>2
  <2> QED
    BY <2>1, <2>2
<1>13. \A x : ForChannel(x)' => ForChannel(x)
  <2> SUFFICES ASSUME NEW x, NEW s \in ChannelPlugins, NEW i, Out(s, i)', Same(Queue(s)'[i], x) PROVE ForChannel(x)
    BY DEF ForChannel, Same
  <2>1. CASE s = p
    <3>1. Out(p, i + 1) /\ Same(q[i + 1], x)
      BY <1>10, <2>1
    <3> QED
      BY <3>1 DEF ForChannel
  <2>2. CASE s # p
    <3>1. Out(s, i) /\ Same(Queue(s)[i], x)
      BY <1>0, <1>11, <2>2
    <3> QED
      BY <3>1 DEF ForChannel
  <2> QED
    BY <2>1, <2>2
<1>14. ASSUME NEW f \in DOMAIN shown, NEW x, x = f.what
       PROVE  Passed(x)' /\ Home(f.on, x)' /\ ~ForFormatter(x)' /\ ~ForChannel(x)' /\ ~ForChannel(x)
  <2>1. Passed(x) /\ Home(f.on, x) /\ ~ForFormatter(x) /\ ~ForChannel(x)
    BY <1>14 DEF AnswerInv, AnswersOK, ShownOK
  <2> QED
    BY <1>6, <1>8, <1>13, <2>1
<1>15. /\ shown = [f \in DOMAIN shown |-> 1]
       /\ \A f, g \in DOMAIN shown :
            Same(f.what, g.what) => f.on = g.on /\ f.what = g.what /\ (f = g \/ f.on = "telegram")
  BY DEF AnswerInv, AnswersOK, ShownOK
<1>16. CASE shown' = shown
  <2>1. ShownOK'
    BY <1>14, <1>15, <1>16 DEF ShownOK
  <2> QED
    BY <1>6, <1>9, <1>12, <2>1 DEF AnswerInv, AnswersOK
<1>17. ASSUME NEW pieces \in usual \cup failed, out.payload = "outbound", NEW E,
              E = UNION {{[on |-> p, what |-> out, chunk |-> c, form |-> f] : f \in pieces[c]} : c \in DOMAIN pieces},
              shown' = shown (+) SetToBag(E)
       PROVE  AnswerInv'
  <2>0. /\ \A e \in E : e.on = p /\ e.what = out
        /\ \A e, f \in E : e = f \/ p = "telegram"
    <3>1. \A e \in E : \E c \in DOMAIN pieces : \E f \in pieces[c] : e = [on |-> p, what |-> out, chunk |-> c, form |-> f]
      BY <1>17
    <3>2. ASSUME p # "telegram" PROVE \A e, f \in E : e = f
      <4>1. pieces = <<{"plain"}>> \/ pieces = <<{}>>
        BY <1>17, <3>2
      <4>2. \A c \in DOMAIN pieces : c = 1 /\ pieces[c] \subseteq {"plain"}
        BY <4>1
      <4> QED
        BY <3>1, <4>2
    <3> QED
      BY <3>1, <3>2
  <2>1. Out(p, 1)
    BY <1>4, <1>17 DEF Out
  <2>2. /\ Passed(out) /\ Home(p, out) /\ ~ForFormatter(out)
        /\ \A k : Out(p, k) /\ Same(out, q[k]) => 1 = k
    BY <1>4, <2>1 DEF AnswerInv, AnswersOK, OutsOK
  <2>3. \A x : Same(out, x) => ForChannel(x)
    BY <1>4, <2>1 DEF ForChannel
  <2>4. \A f \in DOMAIN shown : ~Same(out, f.what)
    BY <1>14, <2>3
  <2>5. \A e \in E : e \notin DOMAIN shown
    BY <2>0, <2>4 DEF Same
  <2>6. DOMAIN shown' = DOMAIN shown \cup E /\ shown' = [f \in DOMAIN shown' |-> 1]
    BY <1>15, <1>17, <2>5, ShownOnce
  <2>7. ~ForChannel(out)'
    <3> SUFFICES ASSUME NEW s \in ChannelPlugins, NEW i, Out(s, i)', Same(Queue(s)'[i], out) PROVE FALSE
      BY DEF ForChannel, Same
    <3>1. CASE s = p
      <4>1. Out(p, i + 1) /\ Same(out, q[i + 1]) /\ i + 1 # 1
        BY <1>10, <3>1 DEF Same
      <4> QED
        BY <2>2, <4>1
    <3>2. CASE s # p
      <4>1. Out(s, i) /\ Same(Queue(s)[i], out)
        BY <1>0, <1>11, <3>2
      <4>2. Home(s, Queue(s)[i])
        BY <4>1 DEF AnswerInv, AnswersOK, OutsOK
      <4> QED
        BY <2>2, <3>2, <4>1, <4>2 DEF Home, Same
    <3> QED
      BY <3>1, <3>2
  <2>8. ASSUME NEW f \in DOMAIN shown', NEW x, x = f.what
        PROVE  /\ Passed(x)' /\ Home(f.on, x)' /\ ~ForFormatter(x)' /\ ~ForChannel(x)'
               /\ \A g \in DOMAIN shown' : Same(x, g.what) => f.on = g.on /\ x = g.what /\ (f = g \/ f.on = "telegram")
    <3>1. CASE f \in E
      <4>1. x = out
        BY <2>0, <2>8, <3>1
      <4>2. Passed(out)' /\ Home(p, out)' /\ ~ForFormatter(out)'
        BY <1>6, <1>8, <2>2
      <4>3. \A g \in DOMAIN shown' : Same(out, g.what) => g \in E
        BY <2>4, <2>6
      <4> QED
        BY <2>0, <2>7, <3>1, <4>1, <4>2, <4>3
    <3>2. CASE f \in DOMAIN shown
      <4>1. \A g \in DOMAIN shown : Same(x, g.what) => f.on = g.on /\ x = g.what /\ (f = g \/ f.on = "telegram")
        BY <1>15, <2>8, <3>2
      <4>2. \A e \in E : ~Same(x, e.what)
        BY <2>0, <2>4, <2>8, <3>2 DEF Same
      <4> QED
        BY <1>14, <2>6, <2>8, <3>2, <4>1, <4>2
    <3> QED
      BY <2>6, <3>1, <3>2
  <2>9. ShownOK'
    BY <2>6, <2>8 DEF ShownOK, Same
  <2> QED
    BY <1>6, <1>9, <1>12, <2>9 DEF AnswerInv, AnswersOK
<1> QED
  BY <1>1, <1>16, <1>17 DEF Shows

-----------------------------------------------------------------------------
(* The steps of the system, for the answers. *)

(* The channels' way to publish what is written to them. *)
LEMMA PublishKeeps ==
  ASSUME AnswerInv, NEW item, publish_inbound(item), UNCHANGED <<loader, contexts, shown>>,
         IF item.platform = "telegram"
         THEN item.corr # NoId /\ item.corr[1] = "telegram" /\ item.corr[2] = item.chat
         ELSE item.corr = NoId
  PROVE  AnswerInv'
<1>1. inbound' = inbound + 1 /\ sent' = Append(sent, item) /\ publish_response("channel.inbound", inbound')
  BY DEF publish_inbound
<1>2. /\ DOMAIN queue' = DOMAIN queue
      /\ \A q : q \notin Subscribed("channel.inbound") => Queue(q)' = Queue(q)
      /\ \A q \in Subscribed("channel.inbound") : Queue(q)' = Queue(q) \/ Queue(q)' = Append(Queue(q), inbound')
  <2> PICK n : n = inbound'
    OBVIOUS
  <2>1. publish_response("channel.inbound", n)
    BY <1>1
  <2> QED
    BY <2>1, PublishQueues
<1>3. Paths \subseteq Subscribed("channel.inbound") /\ \A p \in Stations \ Paths : p \notin Subscribed("channel.inbound")
  BY DEF Subscribed, Paths, Stations, ChannelPlugins
<1>4. SentOK'
  <2>1. /\ IsList(sent') /\ Len(sent') = Len(sent) + 1 /\ DOMAIN sent' = DOMAIN sent \cup {Len(sent) + 1}
        /\ sent'[Len(sent) + 1] = item /\ \A i \in DOMAIN sent : sent'[i] = sent[i]
    BY <1>1, AppendItems DEF AnswerInv, SentOK
  <2>2. ChannelPlugins \cap DOMAIN queue' # {} => Len(sent') = inbound'
    BY <1>1, <1>2, <2>1 DEF AnswerInv, SentOK
  <2>3. \A i \in DOMAIN sent : IF sent[i].platform = "telegram"
                               THEN sent[i].corr # NoId /\ sent[i].corr[1] = "telegram" /\ sent[i].corr[2] = sent[i].chat
                               ELSE sent[i].corr = NoId
    BY DEF AnswerInv, SentOK
  <2>4. \A i \in DOMAIN sent' : IF sent'[i].platform = "telegram"
                                THEN sent'[i].corr # NoId /\ sent'[i].corr[1] = "telegram" /\ sent'[i].corr[2] = sent'[i].chat
                                ELSE sent'[i].corr = NoId
    BY <2>1, <2>3
  <2> QED
    BY <2>1, <2>2, <2>4 DEF SentOK
<1> QED
  BY <1>1, <1>2, <1>3, <1>4, ArrivalKeeps

(* An event is taken that is not for one of those plugins. *)
LEMMA OthersTake ==
  ASSUME AnswerInv, NEW p, p \notin Stations, Takes(p), UNCHANGED <<inbound, loader, contexts, sent, shown>>
  PROVE  AnswerInv'
<1>1. DOMAIN queue' = DOMAIN queue /\ \A q \in Stations : Queue(q)' = Queue(q)
  BY TakesQueues
<1> QED
  BY <1>1, AsideKeeps DEF Aside

(* Nothing is taken or published. *)
LEMMA NoneTakes ==
  ASSUME AnswerInv, UNCHANGED <<queue, inbound, loader, contexts, sent, shown>>
  PROVE  AnswerInv'
  BY AsideKeeps DEF Aside, Queue

(* The brain's tasks announce documents, and to other plugins. *)
LEMMA BrainAside ==
  ASSUME AnswerInv, BrainStep, UNCHANGED <<sent, shown>>
  PROVE  AnswerInv'
<1> DEFINE Announced == {"brain.content.stored", "brain.entity.upserted", "brain.fact.upserted"}
<1>1. queue' = queue \/ \E subject \in Announced : \E ev : publish_response(subject, ev)
  BY DEF BrainStep, NextBrain, ContentInsert, ContentEmbed, EntityUpsert, EntityMention, FactRead, FactReinforce,
     FactSupersede, FactLink, FactInsert, FactDerive, FactUpserted, detect_collection_id, ScopeAssign, TaskUpsert
<1>2. UNCHANGED <<inbound, loader, contexts>>
  BY DEF BrainStep
<1>3. CASE queue' = queue
  BY <1>2, <1>3, NoneTakes
<1>4. ASSUME NEW subject \in Announced, NEW ev, publish_response(subject, ev) PROVE AnswerInv'
  <2>1. \A q \in Stations : q \notin Subscribed(subject)
    BY DEF Subscribed, Stations, Paths, ChannelPlugins
  <2>2. DOMAIN queue' = DOMAIN queue /\ \A q \in Stations : Queue(q)' = Queue(q)
    BY <1>4, <2>1, PublishQueues
  <2> QED
    BY <1>2, <2>2, AsideKeeps DEF Aside
<1> QED
  BY <1>1, <1>3, <1>4

(* The plugins of the pipeline. *)
LEMMA PluginsKeepAnswers ==
  ASSUME AnswerInv, NextPlugin, UNCHANGED <<sent, shown>>
  PROVE  AnswerInv'
<1>0. \A p \in {"content-ingester", "feedback-buffer", "feedback-extractor"} \cup Extractors : p \notin Stations
  BY DEF Extractors, Stations, Paths, ChannelPlugins
<1>1. ASSUME NEW p \in Extractors, NEW texts, NEW lists, Extract(p, texts, lists) PROVE AnswerInv'
  BY <1>0, <1>1, OthersTake DEF Extract
<1>2. CASE ExtractEntities \/ ExtractFacts \/ ClassifyScopes \/ DetectTasks
  BY <1>1, <1>2 DEF ExtractEntities, ExtractFacts, ClassifyScopes, DetectTasks, Extractors
<1>3. CASE PublishEntities \/ PublishFacts \/ PublishScopes \/ PublishTasks
  BY <1>3, NoneTakes DEF PublishEntities, PublishFacts, PublishScopes, PublishTasks, PublishExtracted
<1>4. CASE Ingest \/ RememberAnswer \/ FindFeedback
  BY <1>0, <1>4, OthersTake DEF Ingest, RememberAnswer, FindFeedback
<1>5. CASE LoadSimilar \/ LoadTasks \/ LoadHistory
  <2>1. /\ UNCHANGED <<queue, inbound, contexts>>
        /\ loader.st \in {"similar", "tasks", "history"}
        /\ \E st \in {"tasks", "history", "publish"} : \E v :
             \/ loader' = [loader EXCEPT !.st = st]
             \/ loader' = [loader EXCEPT !.st = st, !.similar = v]
             \/ loader' = [loader EXCEPT !.st = st, !.tasks = v]
             \/ loader' = [loader EXCEPT !.st = st, !.history = v]
    BY <1>5 DEF LoadSimilar, LoadTasks, LoadHistory, Loads
  <2>2. loader = [f \in LoaderFields |-> loader[f]]
    BY DEF AnswerInv, PathsOK
  <2>3. loader' = [f \in LoaderFields |-> loader'[f]] /\ loader'.msg = loader.msg
    BY <2>1, <2>2 DEF LoaderFields
  <2>4. \A m : InLoader(m)' => InLoader(m)
    BY <2>1, <2>3 DEF InLoader
  <2> QED
    BY <2>1, <2>3, <2>4, AsideKeeps DEF Aside, Queue
<1> QED
  BY <1>2, <1>3, <1>4, <1>5, LoaderKeeps, ContextKeeps DEF NextPlugin, BoundedPlugin

(* A message from a channel that is not one of the running plugins. *)
LEMMA InboundKeeps ==
  ASSUME AnswerInv, Inbound, UNCHANGED <<sent, shown>>
  PROVE  AnswerInv'
<1>1. /\ inbound' = inbound + 1 /\ publish_response("channel.inbound", inbound')
      /\ ChannelPlugins \cap DOMAIN queue = {} /\ UNCHANGED <<loader, contexts>>
  BY DEF Inbound
<1>2. /\ DOMAIN queue' = DOMAIN queue
      /\ \A q : q \notin Subscribed("channel.inbound") => Queue(q)' = Queue(q)
      /\ \A q \in Subscribed("channel.inbound") : Queue(q)' = Queue(q) \/ Queue(q)' = Append(Queue(q), inbound')
  <2> PICK n : n = inbound'
    OBVIOUS
  <2>1. publish_response("channel.inbound", n)
    BY <1>1
  <2> QED
    BY <2>1, PublishQueues
<1>3. Paths \subseteq Subscribed("channel.inbound") /\ \A p \in Stations \ Paths : p \notin Subscribed("channel.inbound")
  BY DEF Subscribed, Paths, Stations, ChannelPlugins
<1>4. SentOK'
  BY <1>1, <1>2 DEF AnswerInv, SentOK
<1> QED
  BY <1>1, <1>2, <1>3, <1>4, ArrivalKeeps

(* The channels. *)
LEMMA ChannelsKeepAnswers ==
  ASSUME AnswerInv, ChannelStep
  PROVE  AnswerInv'
<1>1. ASSUME NEW chat, NEW edited, TelegramMessage(chat, edited) PROVE AnswerInv'
  <2> PICK number : publish_inbound(Item("telegram", chat, <<"telegram", chat, number>>))
    BY <1>1 DEF TelegramMessage
  <2> PICK item : item = Item("telegram", chat, <<"telegram", chat, number>>)
    OBVIOUS
  <2>1. item.platform = "telegram" /\ item.corr = <<"telegram", chat, number>> /\ item.chat = chat
    BY DEF Item
  <2>2. item.corr # NoId /\ item.corr[1] = "telegram" /\ item.corr[2] = item.chat
    BY <2>1 DEF NoId
  <2>3. publish_inbound(item) /\ UNCHANGED <<loader, contexts, shown>>
    BY <1>1 DEF TelegramMessage
  <2> QED
    BY <2>1, <2>2, <2>3, PublishKeeps
<1>2. ASSUME NEW platform, NEW chat, publish_inbound(Item(platform, chat, NoId)), platform # "telegram",
             UNCHANGED <<loader, contexts, shown>>
      PROVE  AnswerInv'
  <2> PICK item : item = Item(platform, chat, NoId)
    OBVIOUS
  <2>1. item.platform = platform /\ item.corr = NoId
    BY DEF Item
  <2>2. publish_inbound(item)
    BY <1>2
  <2> QED
    BY <1>2, <2>1, <2>2, PublishKeeps
<1>3. CASE TerminalLine
  BY <1>2, <1>3 DEF TerminalLine
<1>4. ASSUME NEW mail, MailArrives(mail) \/ EntryMade(mail) PROVE AnswerInv'
  BY <1>4, NoneTakes DEF MailArrives, EntryMade, knowledgeVars, brainVars
<1>5. CASE PollMail \/ PollCalendar \/ MarkSeen
  BY <1>5, NoneTakes DEF PollMail, PollCalendar, MarkSeen, knowledgeVars, brainVars
<1>6. CASE PublishMail
  <2>1. UNCHANGED <<loader, contexts, shown>>
    BY <1>6 DEF PublishMail
  <2>2. \/ \E mail : publish_inbound(Item("email", mail, NoId))
        \/ UNCHANGED <<inbound, sent, queue>>
    BY <1>6 DEF PublishMail
  <2> QED
    BY <1>2, <2>1, <2>2, NoneTakes
<1>7. CASE PublishEntry
  <2>1. UNCHANGED <<loader, contexts, shown>>
    BY <1>7 DEF PublishEntry
  <2>2. \/ \E entry : publish_inbound(Item("calendar", entry, NoId))
        \/ UNCHANGED <<inbound, sent, queue>>
    BY <1>7 DEF PublishEntry
  <2> QED
    BY <1>2, <2>1, <2>2, NoneTakes
<1>8. CASE RememberOrigin
  <2>1. "orchestrator" \notin Stations
    BY DEF Stations, Paths, ChannelPlugins
  <2> QED
    BY <1>8, <2>1, OthersTake DEF RememberOrigin
<1>9. CASE TelegramShows \/ TerminalShows \/ MailSends
  <2>1. TelegramShows => AnswerInv'
    BY ShowsKeep DEF TelegramShows, ChannelPlugins
  <2>2. TerminalShows => AnswerInv'
    BY ShowsKeep DEF TerminalShows, ChannelPlugins
  <2>3. MailSends => AnswerInv'
    BY ShowsKeep DEF MailSends, ChannelPlugins
  <2> QED
    BY <1>9, <2>1, <2>2, <2>3
<1> QED
  BY <1>1, <1>3, <1>4, <1>5, <1>6, <1>7, <1>8, <1>9, InboundAnswered, OrphanKeeps, FormatterKeeps
     DEF ChannelStep, RouteStep

(* No step loses an answer's way. *)
LEMMA AnswerInvInductive ==
  FactInv /\ AnswerInv /\ [SystemNext]_<<knowledgeVars, gatewayVars, channelVars>> => AnswerInv'
<1> SUFFICES ASSUME FactInv, AnswerInv, [SystemNext]_<<knowledgeVars, gatewayVars, channelVars>> PROVE AnswerInv'
  OBVIOUS
<1>1. CASE GatewayStep /\ UNCHANGED channelVars
  BY <1>1, GatewayFrame, NoneTakes DEF FactInv, channelVars
<1>2. CASE Next /\ UNCHANGED <<gatewayVars, channelVars>>
  <2>1. UNCHANGED <<sent, shown>>
    BY <1>2 DEF channelVars
  <2> QED
    BY <1>2, <2>1, InboundKeeps, PluginsKeepAnswers, ContextAnswered, BrainAside DEF Next
<1>3. CASE ChannelStep
  BY <1>3, ChannelsKeepAnswers
<1>4. CASE UNCHANGED <<knowledgeVars, gatewayVars, channelVars>>
  BY <1>4, NoneTakes DEF knowledgeVars, brainVars, channelVars
<1> QED
  BY <1>1, <1>2, <1>3, <1>4 DEF SystemNext

(* Nothing was written and nothing answered at the start. *)
LEMMA AnswerStart ==
  SystemInit => AnswerInv
<1> SUFFICES ASSUME SystemInit PROVE AnswerInv
  OBVIOUS
<1>1. /\ inbound = 0 /\ contexts = <<>> /\ loader = NoContext /\ sent = <<>> /\ shown = EmptyBag
      /\ \A p \in DOMAIN queue : queue[p] = <<>>
  BY DEF SystemInit, GatewayInit, Init, ChannelInit
<1>2. \A p : Queue(p) = <<>>
  BY <1>1 DEF Queue
<1>3. PathsOK
  <2>1. loader = [f \in LoaderFields |-> loader[f]] /\ loader.st = "idle"
    BY <1>1 DEF NoContext, LoaderFields
  <2>2. \A p : IsList(Queue(p)) /\ DOMAIN Queue(p) = {}
    BY <1>2, EmptyList
  <2> QED
    BY <1>1, <2>1, <2>2 DEF PathsOK, InLoader
<1>4. ContextsOK
  BY <1>1, EmptyList DEF ContextsOK
<1>5. SentOK
  BY <1>1, EmptyList DEF SentOK
<1>6. FormatterOK /\ OutsOK
  BY <1>2 DEF FormatterOK, OutsOK, Out
<1>7. ShownOK
  BY <1>1 DEF ShownOK, EmptyBag, SetToBag
<1> QED
  BY <1>3, <1>4, <1>5, <1>6, <1>7 DEF AnswerInv, AnswersOK

(* For any channels that run, chats, mails, edits, faults and orders in     *)
(* which the router, the formatter and the orchestrator work: an answer     *)
(* goes one way, to the Telegram chat its message came from, or else to the *)
(* terminal, and only Telegram may show a piece of it twice, once formatted *)
(* and once plain (handle_llm_response, RouteOrphan, send_with_fallback).   *)
THEOREM AnswersFindHome == SystemSpec => []AnswersGoHome
<1>1. AnswerInv => AnswersGoHome
  BY DEF AnswerInv, AnswersOK, ShownOK, Home, Same, AnswersGoHome, BagToSet
<1> QED
  BY <1>1, SystemStart, AnswerStart, FactInvInductive, AnswerInvInductive, PTL DEF SystemSpec
=============================================================================
