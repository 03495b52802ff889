------------------------------ MODULE AgentTurn ------------------------------
(***************************************************************************)
(* The agents and the LLM pipeline together: the consciousness service and *)
(* the router are callers of the same provider plugins, whose tool calls   *)
(* come back, through the dispatcher, to the consciousness service.        *)
(***************************************************************************)
EXTENDS Consciousness, LlmRouter

CONSTANTS Requests   \* messages for the router: per subscription, a sequence

(* What a subscription of the router hands over: a unified message. *)
RouterMessage == [id : Nat, parses : BOOLEAN, text : Nat, scope : STRING, history : Seq(Nat)]

(* The two subscriptions get messages of their own, each once, and the      *)
(* names of the providers come from the environment.                        *)
ASSUME RequestsAssumption ==
  /\ FallbackList \in Seq(STRING) /\ RegistryTools \in Nat
  /\ \A q \in Requests :
       /\ q \in [Paths -> Seq(RouterMessage)]
       /\ \A p, s \in Paths : \A i \in DOMAIN q[p], j \in DOMAIN q[s] :
            q[p][i].id = q[s][j].id => p = s /\ i = j

agentVars == <<providerVars, consciousVars, routerVars>>

(* Two workloads: messages for the router while a tool changes its owner,   *)
(* or room for MaxEvents events for the agents.                             *)
Init ==
  /\ InitProviders /\ InitConsciousness /\ InitRouter
  /\ \/ rq \in Requests /\ events = MaxEvents /\ regs = 0
        /\ cache = [t \in Tools |-> None]
     \/ rq = [p \in Paths |-> <<>>] /\ events = 0 /\ regs = MaxRegistrations
        /\ cache = owner

Next ==
  \/ NextProvider /\ UNCHANGED <<consciousVars, routerVars>>
  \/ NextConsciousness /\ UNCHANGED routerVars
  \/ NextRouter /\ UNCHANGED consciousVars

(* Timeouts end every wait of a processor and of the router's tasks; a      *)
(* provider or a tool may hang forever.                                     *)
Fairness ==
  /\ \A a \in Agents : WF_agentVars(NextTurn(a) /\ UNCHANGED routerVars)
  /\ \A p \in Paths : WF_agentVars(
       (\/ HandleMessage(p) \/ TryProvider(p) \/ ProviderAnswered(p)
        \/ ProviderFailed(p) \/ AllProvidersFailed(p)) /\ UNCHANGED consciousVars)

Spec == Init /\ [][Next]_agentVars /\ Fairness

(* Every turn of an agent and every message of the router comes to its end, *)
(* also when no provider and no tool ever answers.                          *)
EveryTurnEnds ==
  /\ \A a \in Agents : (turn[a].st # "idle") ~> (turn[a].st = "idle")
  /\ \A p \in Paths : (rt[p].st # "idle") ~> (rt[p].st = "idle")
=============================================================================
