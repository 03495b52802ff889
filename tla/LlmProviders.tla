---------------------------- MODULE LlmProviders ----------------------------
(***************************************************************************)
(* The LLM provider plugins (google, openai, anthropic, ollama) and the    *)
(* tool dispatcher.  A provider answers a request on llm.provider.<name>   *)
(* with a tool loop of its own: it asks the model, sends every tool the    *)
(* model wants to capability.call one after the other, feeds the results   *)
(* back and asks again, for at most MaxToolRounds rounds.  The dispatcher  *)
(* runs one task per capability.call: it finds the tool's owner in its     *)
(* cache or with capability.describe and forwards the call.                *)
(*                                                                         *)
(* A caller that gives up (caller = "left") does not stop the provider, and *)
(* a provider that gives up does not stop the tool: both go on.            *)
(***************************************************************************)
EXTENDS Naturals, Sequences, FiniteSets

CONSTANTS
  MaxToolRounds,     \* --max-tool-rounds of the provider plugins
  MaxRegistrations,  \* bound: how often a plugin tool changes its owner
  ToolBatches(_),    \* the lists of tools a model may ask for in one round, per caller
  Running(_)         \* the providers whose plugin is up when a request is sent, per caller

ASSUME RoundsAssumption == MaxToolRounds \in Nat

VARIABLES
  calls,     \* the provider requests in the order they were sent
  tasks,     \* the dispatcher's tasks, one per capability.call
  cache,     \* ToolCache: tool -> call subject, or None
  owner,     \* the kernel's capability registry: tool -> call subject, or None
  news,      \* capability.registered events the dispatcher has not seen
  listener,  \* the entry listen_tool_registered has described, or NoEntry
  regs       \* number of registrations so far

providerVars == <<calls, tasks, cache, owner, news, listener, regs>>

None == "none"
NoEntry == [tool |-> None, to |-> None]
Providers == {"google", "openai", "anthropic", "ollama"}
BuiltinTools == {"schedule-wake", "delegate-task", "send-notification",
                 "subscribe-events", "unsubscribe-events", "brain-query"}
PluginTools == {"execute-code", "my_tool", "my-tool"}
Tools == BuiltinTools \cup PluginTools
PluginSubjects == {"plugin_a", "plugin_b"}

-----------------------------------------------------------------------------
(* The requests. *)

NewCall(p, who) ==
  [provider |-> p, from |-> who, round |-> 0, rounds |-> 0, queue |-> <<>>, task |-> 0,
   st |-> IF p \in Running(who) THEN "asking" ELSE "unheard", caller |-> "waits", reply |-> None]

Reply(c, kind) == calls' = [calls EXCEPT ![c].st = "answered", ![c].reply = kind]

(* The caller waits no more: it took the answer, or left without one. *)
GiveUp(c, how) == [calls EXCEPT ![c].caller = how]

(* gemini function names have no hyphen: every "-" goes out as "_", and     *)
(* every "_" of an answer comes back as "-", whatever the tool was called.  *)
sanitize_tool_name(t) == IF t = "my-tool" THEN "my_tool" ELSE t
unsanitize_tool_name(t) == IF t = "my_tool" THEN "my-tool" ELSE t

(* The capability.call a provider makes for one tool of the model's answer. *)
(* Its plugin_id is the empty string: no agent is named in it.              *)
tool_call_to_dispatch_request(c, t) ==
  [call |-> c, plugin_id |-> None, st |-> "lookup", to |-> None, ran |-> FALSE,
   tool |-> IF calls[c].provider = "google"
            THEN unsanitize_tool_name(sanitize_tool_name(t)) ELSE t]

(* One round of the loop: the API fails (an error reply that is itself a    *)
(* well-formed LlmResponse), or answers with text, or wants tools.  The last *)
(* round never runs tools; what text came with them is the answer.          *)
ProviderRound(c, p) ==
  /\ calls[c].provider = p
  /\ calls[c].st = "asking"
  /\ \/ Reply(c, "error")
     \/ \E batch \in ToolBatches(calls[c].from) \cup {<<>>} :
          IF batch = <<>> \/ calls[c].round = MaxToolRounds
          THEN \E text \in {"text", "empty"} : Reply(c, text)
          ELSE calls' = [calls EXCEPT ![c].st = "tools", ![c].queue = batch,
                                      ![c].rounds = @ + 1]
  /\ UNCHANGED <<tasks, cache, owner, news, listener, regs>>

GoogleRound(c) == ProviderRound(c, "google")
OpenAiRound(c) == ProviderRound(c, "openai")
AnthropicRound(c) == ProviderRound(c, "anthropic")
(* resolve_model may fail before the first question: the same error reply. *)
OllamaRound(c) == ProviderRound(c, "ollama")

\* Mutant: the reply is awaited on the inbox of the previous call.
ProviderSendsOldInbox(c) ==
  /\ calls[c].st = "tools"
  /\ tasks' = Append(tasks, tool_call_to_dispatch_request(c, Head(calls[c].queue)))
  /\ calls' = [calls EXCEPT ![c].st = "waiting",
                            ![c].task = IF tasks = <<>> THEN 1 ELSE Len(tasks)]
  /\ UNCHANGED <<cache, owner, news, listener, regs>>

ProviderSendsTool(c) ==
  /\ calls[c].st = "tools"
  /\ tasks' = Append(tasks, tool_call_to_dispatch_request(c, Head(calls[c].queue)))
  /\ calls' = [calls EXCEPT ![c].st = "waiting", ![c].task = Len(tasks')]
  /\ UNCHANGED <<cache, owner, news, listener, regs>>

(* The result, good or bad, is fed back; after the last one the model is    *)
(* asked again.                                                             *)
FeedResult(c) ==
  calls' = IF Len(calls[c].queue) = 1
           THEN [calls EXCEPT ![c].st = "asking", ![c].queue = <<>>, ![c].round = @ + 1, ![c].task = 0]
           ELSE [calls EXCEPT ![c].st = "tools", ![c].queue = Tail(@), ![c].task = 0]

ToolReplied(c) ==
  /\ calls[c].st = "waiting"
  /\ tasks[calls[c].task].st = "done"
  /\ FeedResult(c)
  /\ UNCHANGED <<tasks, cache, owner, news, listener, regs>>

(* 30 s without an answer: an error result is fed back, the task goes on. *)
ToolTimedOut(c) ==
  /\ calls[c].st = "waiting"
  /\ FeedResult(c)
  /\ UNCHANGED <<tasks, cache, owner, news, listener, regs>>

-----------------------------------------------------------------------------
(* The tool dispatcher. *)

TaskSet(k, st, to) == tasks' = [tasks EXCEPT ![k].st = st, ![k].to = to]

(* Cache hit: forward at once.  Miss: ask the kernel. *)
LookUpTool(k) ==
  /\ tasks[k].st = "lookup"
  /\ LET hit == cache[tasks[k].tool]
     IN  IF hit # None THEN TaskSet(k, "sent", hit) ELSE TaskSet(k, "describing", None)
  /\ UNCHANGED <<calls, cache, owner, news, listener, regs>>

(* capability.describe answers with the owner of the moment, or fails: an   *)
(* unknown tool, or no answer, is an error reply.                           *)
DescribeTool(k) ==
  /\ tasks[k].st = "describing"
  /\ \/ owner[tasks[k].tool] # None /\ TaskSet(k, "found", owner[tasks[k].tool])
     \/ TaskSet(k, "done", None)
  /\ UNCHANGED <<calls, cache, owner, news, listener, regs>>

CacheTool(k) ==
  /\ tasks[k].st = "found"
  /\ cache' = [cache EXCEPT ![tasks[k].tool] = tasks[k].to]
  /\ TaskSet(k, "sent", tasks[k].to)
  /\ UNCHANGED <<calls, owner, news, listener, regs>>

(* The forwarded call waits at the subject it was sent to. *)
Delivered(k) == tasks[k].to # None /\ ~tasks[k].ran /\ tasks[k].st \in {"sent", "done"}

Ran(k) == tasks' = [tasks EXCEPT ![k].ran = TRUE, ![k].st = "done"]

(* The plugin that owns the subject runs the tool, in time or not. *)
PluginRuns(k) ==
  /\ Delivered(k)
  /\ tasks[k].to \in PluginSubjects
  /\ \E t \in Tools : owner[t] = tasks[k].to
  /\ Ran(k)
  /\ UNCHANGED <<calls, cache, owner, news, listener, regs>>

(* No answer in time, or a bus error: an error reply. *)
ToolCallTimedOut(k) ==
  /\ tasks[k].st = "sent"
  /\ TaskSet(k, "done", tasks[k].to)
  /\ UNCHANGED <<calls, cache, owner, news, listener, regs>>

(* A plugin registers a tool with the kernel, which announces it. *)
RegisterTool(t, p) ==
  /\ regs < MaxRegistrations
  /\ owner[t] # p
  /\ regs' = regs + 1
  /\ owner' = [owner EXCEPT ![t] = p]
  /\ news' = Append(news, t)
  /\ UNCHANGED <<calls, tasks, cache, listener>>

(* listen_tool_registered describes the tool, then writes the cache. *)
ListenerDescribes ==
  /\ listener = NoEntry /\ news # <<>>
  /\ news' = Tail(news)
  /\ \/ listener' = [tool |-> Head(news), to |-> owner[Head(news)]]
     \/ listener' = NoEntry
  /\ UNCHANGED <<calls, tasks, cache, owner, regs>>

ListenerCaches ==
  /\ listener # NoEntry
  /\ cache' = [cache EXCEPT ![listener.tool] = listener.to]
  /\ listener' = NoEntry
  /\ UNCHANGED <<calls, tasks, owner, news, regs>>

-----------------------------------------------------------------------------
(* register_builtin_capabilities has run, the plugin tools belong to the   *)
(* first plugin; the dispatcher has cached nothing, or has seen it all.    *)
InitProviders ==
  /\ calls = <<>> /\ tasks = <<>> /\ news = <<>> /\ listener = NoEntry
  /\ owner = [t \in Tools |-> IF t \in BuiltinTools THEN "consciousness" ELSE
                              IF t = "my-tool" THEN None ELSE "plugin_a"]

NextProvider ==
  \/ \E c \in DOMAIN calls :
       \/ GoogleRound(c) \/ OpenAiRound(c) \/ AnthropicRound(c) \/ OllamaRound(c)
       \/ ProviderSendsTool(c) \/ ToolReplied(c) \/ ToolTimedOut(c)
  \/ \E k \in DOMAIN tasks :
       LookUpTool(k) \/ DescribeTool(k) \/ CacheTool(k) \/ PluginRuns(k) \/ ToolCallTimedOut(k)
  \/ \E p \in PluginSubjects : RegisterTool("execute-code", p)
  \/ ListenerDescribes
  \/ ListenerCaches

-----------------------------------------------------------------------------
(* A provider works on one tool at a time: while it waits for a result, all *)
(* its earlier tools have been answered or given up, and their late results *)
(* are not taken for the one it waits for.  What it runs is bounded,        *)
(* whoever has stopped waiting: no task starts in the last round.           *)
ResultBelongsToTool ==
  \A c \in DOMAIN calls :
    /\ \E batch \in ToolBatches(calls[c].from) \cup {<<>>} :
         Cardinality({k \in DOMAIN tasks : tasks[k].call = c}) <= MaxToolRounds * Len(batch)
    /\ calls[c].st = "waiting" =>
         LET k == calls[c].task
         IN  /\ \A l \in DOMAIN tasks : tasks[l].call = c => l <= k
             /\ tasks[k].call = c
             /\ tasks[k].tool \in {Head(calls[c].queue),
                                   unsanitize_tool_name(sanitize_tool_name(Head(calls[c].queue)))}
=============================================================================
