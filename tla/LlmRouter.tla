------------------------------ MODULE LlmRouter ------------------------------
(***************************************************************************)
(* The LLM router plugin.  Two tasks, one per subscription                 *)
(* (agent.context.loaded and channel.*.inbound), each handle one message   *)
(* at a time: assemble the context, collect the tools, choose the          *)
(* providers, try them in order until one replies, publish llm.response.   *)
(***************************************************************************)
EXTENDS LlmProviders, LlmRouting

CONSTANTS RegistryTools   \* bound: tools beyond the meta tools a search may return

VARIABLES
  rq,         \* messages not yet taken, per subscription
  rt,         \* what each of the two tasks is doing
  responses   \* the llm.response events published

routerVars == <<rq, rt, responses>>

Paths == {"context", "inbound"}
MetaTools == 3
RouterIdle == [st |-> "idle", req |-> None, tries |-> <<>>, tried |-> <<>>, call |-> 0]

-----------------------------------------------------------------------------
(* handle_message up to the choice of providers.  A message that cannot be  *)
(* parsed, and an inbound message without text, is dropped.                 *)
HandleMessage(path) ==
  /\ rt[path].st = "idle"
  /\ rq[path] # <<>>
  /\ LET r == Head(rq[path])
         msgs == IF path = "context" THEN assemble_context(r.history, r.text) ELSE <<r.text>>
     IN  IF (r.text = 0 /\ path = "inbound") \/ ~r.parses
         THEN rt' = rt
         ELSE \E found \in 0..RegistryTools :
                LET profile == [scope |-> r.scope, tools |-> MetaTools + found,
                                tokens |-> Tokens(msgs), messages |-> Len(msgs)]
                IN  rt' = [rt EXCEPT ![path] = [RouterIdle EXCEPT !.st = "trying", !.req = r.id,
                                                  !.tries = get_providers_to_try(profile)]]
  /\ rq' = [rq EXCEPT ![path] = Tail(@)]
  /\ UNCHANGED <<responses, providerVars>>

TryProvider(path) ==
  /\ rt[path].st = "trying"
  /\ rt[path].tries # <<>>
  /\ LET p == Head(rt[path].tries)
     IN  /\ calls' = Append(calls, NewCall(p, [agent |-> None, id |-> rt[path].req, depth |-> 0, chat |-> None]))
         /\ rt' = [rt EXCEPT ![path].st = "waiting", ![path].call = Len(calls'),
                             ![path].tries = Tail(@), ![path].tried = Append(@, p)]
  /\ UNCHANGED <<rq, responses, tasks, cache, owner, news, listener, regs>>

(* Any reply that parses ends the search, an error reply too. *)
ProviderAnswered(path) ==
  /\ rt[path].st = "waiting"
  /\ LET c == rt[path].call
     IN  /\ calls[c].st = "answered"
         /\ responses' = Append(responses, [req |-> rt[path].req, kind |-> calls[c].reply,
                                            call |-> c, tried |-> rt[path].tried])
         /\ calls' = GiveUp(c, "took")
  /\ rt' = [rt EXCEPT ![path] = RouterIdle]
  /\ UNCHANGED <<rq, tasks, cache, owner, news, listener, regs>>

(* provider_timeout, a bus error, or a reply that does not parse. *)
ProviderFailed(path) ==
  /\ rt[path].st = "waiting"
  /\ calls' = GiveUp(rt[path].call, "left")
  /\ rt' = [rt EXCEPT ![path].st = "trying", ![path].call = 0]
  /\ UNCHANGED <<rq, responses, tasks, cache, owner, news, listener, regs>>

AllProvidersFailed(path) ==
  /\ rt[path].st = "trying"
  /\ rt[path].tries = <<>>
  /\ responses' = Append(responses, [req |-> rt[path].req, kind |-> "error",
                                     call |-> 0, tried |-> rt[path].tried])
  /\ rt' = [rt EXCEPT ![path] = RouterIdle]
  /\ UNCHANGED <<rq, providerVars>>

InitRouter ==
  /\ rt = [p \in Paths |-> RouterIdle]
  /\ responses = <<>>

NextRouter ==
  \E path \in Paths : \/ HandleMessage(path) \/ TryProvider(path) \/ ProviderAnswered(path)
                      \/ ProviderFailed(path) \/ AllProvidersFailed(path)

-----------------------------------------------------------------------------
(* A request of the router for this message. *)
CallFor(c, req) == c \in DOMAIN calls /\ calls[c].from.agent = None /\ calls[c].from.id = req

(* The requests for a message went to these providers, in this order, and   *)
(* to no others.                                                            *)
SentInOrder(req, tried) ==
  \E place \in [DOMAIN tried -> DOMAIN calls] :
    /\ \A i, j \in DOMAIN tried : i < j => place[i] < place[j]
    /\ \A i \in DOMAIN tried : CallFor(place[i], req) /\ calls[place[i]].provider = tried[i]
    /\ \A c \in DOMAIN calls : CallFor(c, req) => \E i \in DOMAIN tried : c = place[i]

(* All the strategy has to offer: one provider, the configured list, or     *)
(* every provider, each once.                                               *)
EveryProvider(tried) ==
  CASE Strategy = "fixed"    -> tried = <<"google">>
    [] Strategy = "fallback" -> tried = FallbackList
    [] OTHER -> /\ ToSet(tried) = Providers
                /\ \A i, j \in DOMAIN tried : tried[i] = tried[j] => i = j

(* One message, one llm.response: a provider that answers after the router  *)
(* has gone on, or after another has answered, adds none, and the response  *)
(* carries the answer to this message and no other's.  The router reports   *)
(* failure on its own account only when every provider has been tried, each *)
(* once and in order.                                                       *)
RouterAnswersOnce ==
  /\ \A i, j \in DOMAIN responses : responses[i].req = responses[j].req => i = j
  /\ \A i \in DOMAIN responses :
       LET r == responses[i]
       IN  /\ SentInOrder(r.req, r.tried)
           /\ r.call # 0 => CallFor(r.call, r.req) /\ calls[r.call].reply = r.kind
           /\ r.call = 0 => EveryProvider(r.tried)

=============================================================================
