----------------------------- MODULE LlmRouting -----------------------------
(***************************************************************************)
(* The pure part of the LLM router: which messages are put before the      *)
(* model and which providers are tried in which order.                     *)
(***************************************************************************)
EXTENDS Naturals, Sequences, SequencesExt

CONSTANTS
  Strategy,        \* "fixed", "fallback" or "intelligent" (LLM_ROUTING_STRATEGY)
  FallbackList,    \* LLM_FALLBACK_PROVIDERS
  HistoryBudget,   \* tokens left for history and knowledge (50% of what remains)
  ManyTools, ManyTokens, ManyMessages, FewTokens  \* routing thresholds

Tokens(msgs) == FoldSeq(LAMBDA size, sum : sum + size + 4, 0, msgs)

(* The messages sent to the model: the history, cut from its oldest end     *)
(* while it is over its budget and more than two messages are left, then    *)
(* the user's message.  A message is the number of its tokens.              *)
assemble_context(history, user) ==
  LET fits(i) == \/ Tokens(SubSeq(history, i, Len(history))) <= HistoryBudget
                 \/ Len(history) - i < 2
      cut == CHOOSE i \in 1..Len(history) + 1 : fits(i) /\ \A j \in 1..i - 1 : ~fits(j)
  IN  Append(SubSeq(history, cut, Len(history)), user)

(* IntelligentRoutingConfig::default *)
Route == [tool_heavy |-> "google", simple |-> "ollama", complex |-> "anthropic",
          private |-> "ollama", fallback |-> "google"]

(* The router sends no model preference and always the strategy hint        *)
(* "best-first", so the scope comes first.                                  *)
select_intelligent(p) ==
  IF p.scope = "private" THEN Route.private
  ELSE IF p.tools > ManyTools THEN Route.tool_heavy
  ELSE IF p.tokens > ManyTokens \/ p.messages > ManyMessages THEN Route.complex
  ELSE IF p.tokens < FewTokens /\ p.tools = 0 THEN Route.simple
  ELSE Route.fallback

\* Mutant: the intelligent strategy stops at its own fallback.
ProvidersWithoutRest(p) ==
  LET primary == select_intelligent(p)
  IN  IF Route.fallback # primary THEN <<primary, Route.fallback>> ELSE <<primary>>

get_providers_to_try(p) ==
  CASE Strategy = "fixed"    -> <<"google">>
    [] Strategy = "fallback" -> FallbackList
    [] OTHER ->
         LET primary == select_intelligent(p)
             first == IF Route.fallback # primary THEN <<primary, Route.fallback>> ELSE <<primary>>
             rest(q) == IF q \in ToSet(first) THEN <<>> ELSE <<q>>
         IN  first \o rest("google") \o rest("openai") \o rest("anthropic") \o rest("ollama")
=============================================================================
