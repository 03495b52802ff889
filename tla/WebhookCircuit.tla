--------------------------- MODULE WebhookCircuit ---------------------------
(***************************************************************************)
(* The circuit breaker of WebhookChannel (delivery/webhook.rs): deliveries  *)
(* to one URL, made concurrently by the retry task and by the forwarder of  *)
(* each webhook subscription.  URLs have circuits of their own.             *)
(*                                                                          *)
(* deliver() looks at the circuit when it starts and writes to it when it   *)
(* ends, under a mutex each time; in between it is in flight.  The code     *)
(* compares opened_until with the clock, and nothing else: `remaining` is   *)
(* the time still to go until opened_until.                                 *)
(***************************************************************************)
EXTENDS Integers

CONSTANTS
  Callers,           \* tasks that call deliver()
  Threshold,         \* failure_threshold
  InitialCooldown,   \* initial_cooldown
  MaxCooldown,       \* max_cooldown
  MaxFailures        \* consecutive_failures saturates here (u32::MAX)

ASSUME CircuitAssumption ==
  /\ Threshold \in Nat \ {0}
  /\ InitialCooldown \in Nat
  /\ MaxCooldown \in Nat
  /\ InitialCooldown <= MaxCooldown
  /\ MaxFailures \in Nat
  /\ Threshold <= MaxFailures

VARIABLES
  mode,          \* CircuitMode
  failures,      \* consecutive_failures
  cooldown,      \* cooldown: how long the circuit is opened for the next time
  remaining,     \* opened_until, as the time that is left
  call,          \* caller -> "idle" or "sending"
  endpoint       \* the receiver: "down", it fails some requests, or "up" for good

vars == <<mode, failures, cooldown, remaining, call, endpoint>>
circuit == <<mode, failures, cooldown, remaining>>

-----------------------------------------------------------------------------
Lesser(a, b) == IF a < b THEN a ELSE b

\* circuit_blocks_health: the circuit is open and has not cooled down.
Blocked == mode = "Open" /\ remaining > 0

\* Mutant: a skipped delivery opens the circuit anew.
SkipRearms(c) ==
  /\ call[c] = "idle" /\ Blocked
  /\ remaining' = InitialCooldown
  /\ UNCHANGED <<mode, failures, cooldown, call, endpoint>>

\* ensure_circuit_allows_delivery, refused: deliver() returns Failed at once.
Skip(c) ==
  /\ call[c] = "idle" /\ Blocked
  /\ UNCHANGED vars

\* ensure_circuit_allows_delivery, let through.  An open circuit that has
\* cooled down becomes half-open, and a half-open one lets everything through.
Begin(c) ==
  /\ call[c] = "idle" /\ ~ Blocked
  /\ mode' = IF mode = "Open" THEN "HalfOpen" ELSE mode
  /\ call' = [call EXCEPT ![c] = "sending"]
  /\ UNCHANGED <<failures, cooldown, remaining, endpoint>>

\* Mutant: a success closes the circuit and forgets to reset the count.
SucceedKeepsCount(c) ==
  /\ call[c] # "idle"
  /\ mode' = "Closed" /\ cooldown' = InitialCooldown /\ remaining' = 0
  /\ call' = [call EXCEPT ![c] = "idle"]
  /\ UNCHANGED <<failures, endpoint>>

\* record_success: a fresh CircuitState.
Succeed(c) ==
  /\ call[c] # "idle"
  /\ mode' = "Closed" /\ failures' = 0 /\ cooldown' = InitialCooldown /\ remaining' = 0
  /\ call' = [call EXCEPT ![c] = "idle"]
  /\ UNCHANGED endpoint

OpenCircuit ==
  /\ mode' = "Open" /\ remaining' = cooldown
  /\ cooldown' = Lesser(2 * cooldown, MaxCooldown)

\* record_failure, after a URL that fails the policy, a failed request or an
\* answer that is not a success.
Fail(c) ==
  /\ call[c] # "idle" /\ endpoint = "down"
  /\ failures' = Lesser(failures + 1, MaxFailures)
  /\ IF mode = "HalfOpen" \/ failures' >= Threshold
     THEN OpenCircuit ELSE UNCHANGED <<mode, cooldown, remaining>>
  /\ call' = [call EXCEPT ![c] = "idle"]
  /\ UNCHANGED endpoint

Tick ==
  /\ remaining > 0
  /\ remaining' = remaining - 1
  /\ UNCHANGED <<mode, failures, cooldown, call, endpoint>>

\* The receiver recovers.
Repair ==
  /\ endpoint = "down" /\ endpoint' = "up"
  /\ UNCHANGED <<circuit, call>>

Init ==
  /\ mode = "Closed" /\ failures = 0 /\ cooldown = InitialCooldown /\ remaining = 0
  /\ call = [c \in Callers |-> "idle"]
  /\ endpoint = "down"

Next ==
  \/ \E c \in Callers : Skip(c) \/ Begin(c) \/ Succeed(c) \/ Fail(c)
  \/ Tick
  \/ Repair

Spec == Init /\ [][Next]_vars

\* Requests time out after 30 seconds, time passes, and there are deliveries to
\* make: each caller tries again and again, and is let through or refused.
Fairness ==
  /\ \A c \in Callers : WF_vars(Succeed(c) \/ Fail(c)) /\ WF_vars(Begin(c) \/ Skip(c))
  /\ WF_vars(Tick)

FairSpec == Spec /\ Fairness

-----------------------------------------------------------------------------
(* Properties                                                               *)

\* Every variable has its type; in particular no cooldown exceeds max_cooldown.
CircuitTypeOK ==
  /\ mode \in {"Closed", "Open", "HalfOpen"}
  /\ failures \in 0..MaxFailures
  /\ cooldown \in 0..MaxCooldown
  /\ remaining \in 0..MaxCooldown
  /\ call \in [Callers -> {"idle", "sending"}]
  /\ endpoint \in {"down", "up"}

\* The circuit is closed exactly while it has seen fewer than failure_threshold
\* failures in a row, however many deliveries end late and in whatever order:
\* a straggler neither leaves a closed circuit one short of opening for ever
\* nor keeps open one that a success has closed.
ClosedIffBelowThreshold == mode = "Closed" <=> failures < Threshold

\* Once the receiver is up for good, the circuit closes, whatever is still in
\* flight when it recovers, and stays closed.
Recovers == (endpoint = "up") ~> [](mode = "Closed")

=============================================================================
