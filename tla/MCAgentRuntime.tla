--------------------------- MODULE MCAgentRuntime ---------------------------
(* A small instance of AgentRuntime for TLC: two messages of one chat, whose *)
(* origins write the missing thread differently, and a job that continues    *)
(* the same session, or one of its own.  The tools: one audited and allowed  *)
(* by the rule before the one that denies it, one secured and denied, one    *)
(* plain, one not registered.                                                *)
EXTENDS AgentRuntime

MCTurns == {"first", "second", "run"}
MCSenders == {"one", "two"}
MCJobOf(t) == IF t = "run" THEN "job" ELSE Without
MCOrigin(t) == [chat |-> "chat", thread |-> IF t = "first" THEN Without ELSE ""]
MCDefinitions(job) ==
  {[session |-> <<"chat">>, enabled |-> TRUE], [session |-> <<>>, enabled |-> TRUE],
   [session |-> <<>>, enabled |-> FALSE]}

Uses(tools) ==
  [text |-> FALSE, calls |-> [i \in 1..Len(tools) |-> [id |-> i, tool |-> tools[i], parses |-> tools[i] # "garbled"]]]
Says(tools) == [Uses(tools) EXCEPT !.text = TRUE]

Load(ts, answers, ss, maxFaults, maxCrashes) ==
  [turns |-> ts, responses |-> answers, senders |-> ss, faults |-> maxFaults, crashes |-> maxCrashes]
Same(answers) == [t \in MCTurns |-> answers]

(* Three turns that overlap; a turn and a run that fail or crash; what a    *)
(* provider may answer otherwise; and deliveries.                           *)
MCLoads ==
  {Load(MCTurns, Same({Says(<<>>)}), {}, 0, 1),
   Load({"first", "run"}, [Same({Uses(<<"search">>), Says(<<>>)}) EXCEPT !["first"] = {Says(<<>>)}], {}, 1, 1),
   Load({"first", "run"}, [Same({Says(<<"mail">>)}) EXCEPT !["run"] = {Uses(<<>>), Uses(<<"note", "gone">>), Uses(<<"note", "garbled">>)}], {}, 0, 0),
   Load({"first"}, Same({Says(<<>>)}), MCSenders, 1, 1)}

MCExecutorOf(tool) ==
  CASE tool = "search" -> "audited" [] tool = "mail" -> "secure" [] tool = "note" -> "plain" [] OTHER -> Without
MCContextOf(tool) == [kind |-> "telegram", user |-> "ada", session |-> Without]
Rule(tool, user, decision) ==
  [tool |-> tool, kind |-> Without, user |-> user, session |-> Without, decision |-> decision]
MCRules == <<Rule("search", "bob", "Deny"), Rule("search", "ada", "Allow"), Rule("search", Without, "Deny")>>
=============================================================================
