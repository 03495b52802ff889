----------------------------- MODULE MCKnowledge -----------------------------
(* A small instance for TLC of the plugins around the brain: the knowledge  *)
(* pipeline, the gateway and the channels, in several deployments.  Every   *)
(* message is about the same entity; the content stored first says two      *)
(* things about it, the other one one of them again, or something about an  *)
(* entity that nobody has stored.                                           *)
EXTENDS PluginSystem

MCExtracts(p, ev) ==
  CASE p = "entity-extractor" -> {<<"ada">>}
    [] p = "fact-extractor" ->
         LET fact(v) == [subj |-> ev.name, val |-> v]
         IN  IF ev.source = 1 THEN {<<fact("x"), fact("y")>>}
             ELSE {<<fact("x")>>, <<fact("y")>>, <<[subj |-> "bob", val |-> "y"]>>}
    [] p = "scope-classifier" -> {<<"work">>}
    [] OTHER -> {<<"call back">>}
Orchestrator == {"orchestrator", "orchestrator-responses"}
Routing == Orchestrator \cup {"llm-router", "response-formatter"}
(* The deployments: extraction of facts; scopes and history; answers; the   *)
(* gateway; Telegram, with the router's answers of either kind and of both; *)
(* the other channels.                                                      *)
MCDeployments ==
  {{"content-ingester", "entity-extractor", "fact-extractor"},
   {"content-ingester", "scope-classifier", "graph-context-loader"},
   {"graph-context-loader", "task-detector", "feedback-extractor", "feedback-buffer"},
   {"api-gateway"},
   {"telegram", "graph-context-loader", "response-formatter", "llm-router"},
   {"telegram", "graph-context-loader", "response-formatter"} \cup Orchestrator,
   {"telegram", "graph-context-loader"} \cup Routing,
   {"cli", "email"} \cup Routing,
   {"telegram", "cli", "calendar"} \cup Routing}
MCMessages(running) == IF {"graph-context-loader"} \cup Routing \subseteq running THEN 1 ELSE 2

CONSTANTS c1, c2
Load(routes, clients, reqs, ticks, starts) ==
  [routes |-> routes, clients |-> clients, requests |-> reqs, ticks |-> ticks, restarts |-> starts]
(* Many small requests over time; registrations; changes of one user; API   *)
(* keys; tokens; plugin storage.                                            *)
MCLoads ==
  {Load({"audit"}, {c1}, 4, 3, 1),
   Load({"register"}, {c1, c2}, 2, 0, 1),
   Load({"me", "role", "delete"}, {c1, c2}, 3, 0, 0),
   Load({"apikeys"}, {c1, c2}, 3, 0, 0),
   Load({"token", "revoke"}, {c1}, 3, 0, 1),
   Load({"users", "delete"}, {c1}, 2, 0, 0),
   Load({"storage", "config"}, {c1, c2}, 2, 0, 0)}

MCNames == {"api-key", "api-user", "ada", "bob"}
=============================================================================
