----------------------------- MODULE MCAgentTurn -----------------------------
(* A small instance of AgentTurn for TLC. *)
EXTENDS AgentTurn

(* The first message of the router runs a plugin's tool, the second none;   *)
(* an agent's turn for the first event runs one of its tools, or subscribes *)
(* and unsubscribes, one for the second runs none.                          *)
MCBatches(who) ==
  CASE who.id > 1 -> {}
    [] who.agent = None -> {<<"execute-code">>}
    [] who.chat = "work" -> {<<"subscribe-events">>}
    [] OTHER -> {<<"schedule-wake">>, <<"delegate-task">>, <<"brain-query">>, <<"send-notification">>,
                 <<"my_tool">>, <<"subscribe-events", "unsubscribe-events">>}

(* A private message with a history that has to be cut, and two inbound     *)
(* messages, one without text.                                              *)
MCRequests ==
  LET Msg(n, text, scope, history) ==
        [id |-> n, parses |-> TRUE, text |-> text, scope |-> scope, history |-> history]
  IN  {[context |-> <<Msg(1, 1, "private", <<3, 9, 1>>)>>, inbound |-> <<>>],
       [context |-> <<>>, inbound |-> <<Msg(1, 0, "work", <<>>), Msg(2, 20, "work", <<>>)>>]}
MCRunning(who) ==
  IF who.agent # None THEN {"google"} ELSE
  IF who.id = 1 THEN {"ollama"} ELSE {"anthropic", "openai"}
MCFallback == <<"openai", "anthropic", "google", "ollama">>
=============================================================================
