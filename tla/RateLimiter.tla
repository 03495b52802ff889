---------------------------- MODULE RateLimiter ----------------------------
(***************************************************************************)
(* The token buckets of the api-gateway.  Every authenticated request      *)
(* takes a token from the bucket of its subject; a task removes buckets    *)
(* not used for a while and saves the rest, and a restart begins with what *)
(* was saved.                                                              *)
(*                                                                         *)
(* A token is Minute units, so that a bucket gains its rate per clock tick *)
(* and the fractions of a token that the code keeps are whole numbers.     *)
(***************************************************************************)
EXTENDS Integers

CONSTANTS
  Names,       \* the subjects of credentials
  Rates,       \* the effective rates: regular_rpm, admin_rpm and overrides
  MaxRate,     \* the largest of them
  Minute,      \* clock ticks in a minute
  StaleAfter   \* 600 seconds, in ticks

ASSUME RateAssumption ==
  /\ Rates \subseteq Nat /\ MaxRate \in Rates
  /\ \A rpm \in Rates : rpm <= MaxRate
  /\ Minute \in Nat \ {0} /\ StaleAfter \in Nat /\ Minute <= StaleAfter

VARIABLES
  clock,
  buckets,   \* subject -> its bucket; known: the map has an entry
  saved,     \* what plugin storage has of them
  started,   \* history: when the process was started
  granted    \* history: subject -> the requests let through since

rateVars == <<clock, buckets, saved, started, granted>>

NoBucket == [known |-> FALSE, tokens |-> 0, last_refill |-> 0]

FullBucket(rpm) == [known |-> TRUE, tokens |-> rpm * Minute, last_refill |-> clock]

(* The bucket of s as a request finds it: new, or filled up to its rate. *)
Refilled(s, rpm) ==
  LET b == IF buckets[s].known THEN buckets[s] ELSE FullBucket(rpm)
      tokens == b.tokens + (clock - b.last_refill) * rpm
  IN  [known |-> TRUE, last_refill |-> clock,
       tokens |-> IF tokens <= rpm * Minute THEN tokens ELSE rpm * Minute]

Allowed(s, rpm) == Refilled(s, rpm).tokens >= Minute

(* Refill, then take a token if there is a whole one. *)
check_rate_limit(s, rpm) ==
  /\ buckets' = [buckets EXCEPT ![s] =
       IF Allowed(s, rpm) THEN [Refilled(s, rpm) EXCEPT !.tokens = @ - Minute] ELSE Refilled(s, rpm)]
  /\ granted' = [granted EXCEPT ![s] = IF Allowed(s, rpm) THEN @ + 1 ELSE @]
  /\ UNCHANGED <<clock, saved, started>>

\* Mutant: a bucket is forgotten after half the time it takes to fill up.
StaleTooSoon(b) == 2 * (clock - b.last_refill) >= Minute

Stale(b) == clock - b.last_refill >= StaleAfter

cleanup_stale_entries ==
  [s \in Names |-> IF buckets[s].known /\ Stale(buckets[s]) THEN NoBucket ELSE buckets[s]]

(* A save that fails or times out leaves the previous one. *)
save_state(current) == saved' \in {current, saved}

(* The task that runs every five minutes. *)
Maintain ==
  /\ buckets' = cleanup_stale_entries
  /\ save_state(cleanup_stale_entries)
  /\ UNCHANGED <<clock, started, granted>>

(* A new process: what was saved, if it can be read and is not too old. *)
restore_state ==
  /\ buckets' \in {[s \in Names |-> IF saved[s].known /\ ~Stale(saved[s]) THEN saved[s] ELSE NoBucket],
                   [s \in Names |-> NoBucket]}
  /\ started' = clock
  /\ granted' = [s \in Names |-> 0]
  /\ UNCHANGED <<clock, saved>>

ClockTick == clock' = clock + 1 /\ UNCHANGED <<buckets, saved, started, granted>>

RateInit ==
  /\ clock = 0 /\ started = 0
  /\ buckets = [s \in Names |-> NoBucket] /\ saved = buckets
  /\ granted = [s \in Names |-> 0]

RateNext ==
  \/ \E s \in Names, rpm \in Rates : check_rate_limit(s, rpm)
  \/ Maintain \/ restore_state \/ ClockTick

RateSpec == RateInit /\ [][RateNext]_rateVars

-----------------------------------------------------------------------------
(* A subject gets no more than a full bucket and what has been refilled     *)
(* since the process started: neither forgetting buckets nor saving and     *)
(* restoring them, nor a change of rate half way, gives it a request more.  *)
RateBounded ==
  \A s \in Names : granted[s] * Minute <= MaxRate * Minute + (clock - started) * MaxRate

(* What keeps it so: all a bucket holds has been refilled since then, and a *)
(* bucket is forgotten only when it would be full again.                    *)
BucketBounded(s) ==
  LET b == buckets[s]
  IN  IF ~b.known THEN granted[s] * Minute <= (clock - started) * MaxRate
      ELSE IF b.last_refill < started THEN granted[s] = 0 /\ b.tokens <= MaxRate * Minute
      ELSE granted[s] * Minute + b.tokens <= MaxRate * Minute + (b.last_refill - started) * MaxRate

Bucket == [known : BOOLEAN, tokens : Nat, last_refill : Nat]

RateTypeOK ==
  /\ clock \in Nat /\ started \in Nat /\ started <= clock
  /\ buckets \in [Names -> Bucket] /\ saved \in [Names -> Bucket]
  /\ granted \in [Names -> Nat]
  /\ \A s \in Names : /\ buckets[s].last_refill <= clock /\ saved[s].last_refill <= clock
                      /\ buckets[s].tokens <= MaxRate * Minute /\ saved[s].tokens <= MaxRate * Minute

RateInv == RateTypeOK /\ \A s \in Names : BucketBounded(s)
=============================================================================
