----------------------------- MODULE RemoteCall -----------------------------
(***************************************************************************)
(* What request() of seidrum-eventbus promises its caller, without the bus: *)
(* a call is answered by any of the servers, once it is made; the first     *)
(* answer that reaches it before it is decided is its outcome, it fails     *)
(* only if there is none, and it returns.  Answers that come later have no  *)
(* effect.  Module RequestReply implements this.                            *)
(***************************************************************************)
CONSTANTS Requests, Servers, Failures, None

VARIABLES
  call,     \* request -> "idle", "open" or "returned"
  first,    \* request -> the server whose answer came first, or None
  outcome   \* request -> None until it is decided

callVars == <<call, first, outcome>>

Call(r) ==
  /\ call[r] = "idle"
  /\ call' = [call EXCEPT ![r] = "open"]
  /\ UNCHANGED <<first, outcome>>

Answer(r, s) ==
  /\ call[r] = "open" /\ first[r] = None
  /\ first' = [first EXCEPT ![r] = s]
  /\ UNCHANGED <<call, outcome>>

Decide(r) ==
  /\ call[r] = "open" /\ outcome[r] = None
  /\ \/ first[r] # None /\ outcome' = [outcome EXCEPT ![r] = first[r]]
     \/ first[r] = None /\ \E f \in Failures : outcome' = [outcome EXCEPT ![r] = f]
  /\ UNCHANGED <<call, first>>

Return(r) ==
  /\ call[r] = "open" /\ outcome[r] # None
  /\ call' = [call EXCEPT ![r] = "returned"]
  /\ UNCHANGED <<first, outcome>>

CallInit ==
  /\ call = [r \in Requests |-> "idle"]
  /\ first = [r \in Requests |-> None]
  /\ outcome = [r \in Requests |-> None]

CallNext ==
  \E r \in Requests : Call(r) \/ Decide(r) \/ Return(r) \/ (\E s \in Servers : Answer(r, s))

\* What a call may do, and that it comes to its end.
CallSafety == CallInit /\ [][CallNext]_callVars

CallSpec ==
  /\ CallSafety
  /\ \A r \in Requests : WF_callVars(Decide(r)) /\ WF_callVars(Return(r))
=============================================================================
