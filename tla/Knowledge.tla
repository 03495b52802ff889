------------------------------ MODULE Knowledge ------------------------------
(***************************************************************************)
(* The knowledge pipeline: messages of a channel are stored by the content *)
(* ingester; the entity extractor and the scope classifier work on what    *)
(* was stored, the fact extractor on the entities, the task detector on    *)
(* the answers of the LLM, and the context loader collects what the brain  *)
(* knows for the router.  Each plugin takes its events one at a time; the  *)
(* brain's handlers run concurrently with all of them.                     *)
(***************************************************************************)
EXTENDS Brain, SequencesExt

CONSTANTS
  Deployments,     \* the sets of plugins that may be running
  Messages(_),     \* bound: inbound messages, numbered in the order of their timestamps,
                   \* by the set of running plugins
  Extracts(_, _),  \* per plugin and event, the lists its LLM may find in the text
  HistoryLength,   \* --history-length of the context loader
  BufferSize       \* --response-buffer-size of the feedback extractor

VARIABLES
  inbound,   \* messages sent so far
  plugin,    \* per extractor, the requests it has yet to publish
  loader,    \* the context being loaded
  contexts,  \* agent.context.loaded events
  recent,    \* the feedback extractor's LRU buffer of answers, by message
  feedback   \* agent.feedback events

knowledgeVars == <<brainVars, inbound, plugin, loader, contexts, recent, feedback>>

Extractors == {"entity-extractor", "fact-extractor", "scope-classifier", "task-detector"}
ChannelPlugins == {"telegram", "cli", "email"}

Has(p) == p \in DOMAIN queue /\ queue[p] # <<>>
Takes(p) == Has(p) /\ queue' = [queue EXCEPT ![p] = Tail(@)]

-----------------------------------------------------------------------------
(* A message arrives on channel.<platform>.inbound from a channel that is   *)
(* not one of the running plugins.                                          *)
Inbound ==
  /\ inbound < Messages(DOMAIN queue) /\ Subscribed("channel.inbound") \cap DOMAIN queue # {}
  /\ ChannelPlugins \cap DOMAIN queue = {}
  /\ inbound' = inbound + 1
  /\ publish_response("channel.inbound", inbound')
  /\ UNCHANGED <<db, jobs, next, faults, plugin, loader, contexts, recent, feedback>>

(* The ingester's own embedding is made and thrown away.  The call has no   *)
(* timeout: the plugin may stay in it, and take nothing any more.           *)
Ingest ==
  /\ Takes("content-ingester")
  /\ \/ Spawn("content", [msg |-> Head(queue["content-ingester"])]) /\ NoFault
     \/ UNCHANGED <<jobs, next>> /\ Fault
  /\ UNCHANGED <<db, inbound, plugin, loader, contexts, recent, feedback>>

(* What the LLM may find in a text: names, facts, scopes and titles.  The   *)
(* plugin adds the content it comes from, or that is in the scope.  Asked   *)
(* for the facts about an entity, the LLM may name any other key as their   *)
(* subject; history: asked.  A failed call is a Fault below.                *)
extract_entities_via_llm(ev) ==
  {[i \in DOMAIN found |-> [name |-> found[i], source |-> ev.key]] : found \in Extracts("entity-extractor", ev)}
extract_facts_via_llm(ev) ==
  {[i \in DOMAIN found |->
      [subj |-> found[i].subj, val |-> found[i].val, source |-> ev.source, asked |-> ev.name]] :
     found \in Extracts("fact-extractor", ev)}
classify_via_llm(ev) ==
  {[i \in DOMAIN found |-> [target |-> ev.key, scope |-> found[i]]] : found \in Extracts("scope-classifier", ev)}
detect_tasks_via_llm(ev) ==
  {[i \in DOMAIN found |-> [title |-> found[i]]] : found \in Extracts("task-detector", ev)}

(* An extractor looks up the texts its event is about and asks its LLM.  No *)
(* text, or a failed call, leaves nothing to publish.                       *)
Extract(p, texts, lists) ==
  /\ plugin[p] = <<>>
  /\ Takes(p)
  /\ \/ \E found \in lists :
          plugin' = [plugin EXCEPT ![p] = IF texts = {} THEN <<>> ELSE found] /\ NoFault
     \/ UNCHANGED plugin /\ Fault
  /\ UNCHANGED <<db, jobs, next, inbound, loader, contexts, recent, feedback>>

ExtractEntities ==
  /\ Has("entity-extractor")
  /\ LET ev == Head(queue["entity-extractor"])
     IN  Extract("entity-extractor", TextOf(ev.key), extract_entities_via_llm(ev))

(* An entity without source content would be skipped: the extractor's       *)
(* entities all have one.                                                   *)
ExtractFacts ==
  /\ Has("fact-extractor")
  /\ LET ev == Head(queue["fact-extractor"])
     IN  Extract("fact-extractor", TextOf(ev.source), extract_facts_via_llm(ev))

ClassifyScopes ==
  /\ Has("scope-classifier")
  /\ LET ev == Head(queue["scope-classifier"])
     IN  Extract("scope-classifier", TextOf(ev.key), classify_via_llm(ev))

DetectTasks ==
  /\ Has("task-detector")
  /\ LET ev == Head(queue["task-detector"])
     IN  Extract("task-detector", {ev}, detect_tasks_via_llm(ev))

(* What was extracted is published one by one; an error drops the rest. *)
PublishExtracted(p, kind) ==
  /\ plugin[p] # <<>>
  /\ \/ Spawn(kind, Head(plugin[p])) /\ plugin' = [plugin EXCEPT ![p] = Tail(@)] /\ NoFault
     \/ plugin' = [plugin EXCEPT ![p] = <<>>] /\ Fault /\ UNCHANGED <<jobs, next>>
  /\ UNCHANGED <<db, queue, inbound, loader, contexts, recent, feedback>>

PublishEntities == PublishExtracted("entity-extractor", "entity")
PublishFacts == PublishExtracted("fact-extractor", "fact")
PublishScopes == PublishExtracted("scope-classifier", "scope")
PublishTasks == PublishExtracted("task-detector", "task")

-----------------------------------------------------------------------------
(* The context loader asks the brain for one part after the other; a part  *)
(* whose query fails is left empty.  get_context answers with a list, in    *)
(* which the loader looks for the fields entities and facts: those parts    *)
(* are always empty.                                                        *)
NoContext == [st |-> "idle", msg |-> 0, similar |-> {}, tasks |-> {}, history |-> <<>>]

Loads(st) ==
  /\ loader.st = st
  /\ UNCHANGED <<db, jobs, queue, next, inbound, plugin, contexts, recent, feedback>>

TakeInbound ==
  /\ loader.st = "idle"
  /\ Takes("graph-context-loader")
  /\ loader' = [NoContext EXCEPT !.st = "similar", !.msg = Head(queue["graph-context-loader"])]
  /\ UNCHANGED <<db, jobs, next, faults, inbound, plugin, contexts, recent, feedback>>

LoadSimilar ==
  /\ Loads("similar")
  /\ \/ loader' = [loader EXCEPT !.st = "tasks", !.similar = vector_search] /\ NoFault
     \/ loader' = [loader EXCEPT !.st = "tasks"] /\ Fault

LoadTasks ==
  /\ Loads("tasks")
  /\ \/ loader' = [loader EXCEPT !.st = "history", !.tasks = active_tasks] /\ NoFault
     \/ loader' = [loader EXCEPT !.st = "history"] /\ Fault

(* The history is passed on in the order the brain returned it. *)
LoadHistory ==
  /\ Loads("history")
  /\ \/ loader' = [loader EXCEPT !.st = "publish", !.history = conversation_history(HistoryLength)] /\ NoFault
     \/ loader' = [loader EXCEPT !.st = "publish"] /\ Fault

PublishContext ==
  /\ loader.st = "publish"
  /\ loader' = NoContext
  /\ \/ contexts' = Append(contexts, [msg |-> loader.msg, history |-> loader.history, answered |-> FALSE])
        /\ NoFault
     \/ UNCHANGED contexts /\ Fault
  /\ UNCHANGED <<db, jobs, queue, next, inbound, plugin, recent, feedback>>

(* The router answers a message some time after its context was loaded. *)
RouterAnswers(i) ==
  /\ ~contexts[i].answered
  /\ publish_response("llm.response", [msg |-> contexts[i].msg, via |-> "context"])
  /\ contexts' = [contexts EXCEPT ![i].answered = TRUE]
  /\ UNCHANGED <<db, jobs, next, faults, inbound, plugin, loader, recent, feedback>>

(* LruCache::put: what was put first goes when the buffer is full. *)
Put(buffer, msg) ==
  LET all == Append(SelectSeq(buffer, LAMBDA x : x # msg), msg)
  IN  IF Len(all) > BufferSize THEN Tail(all) ELSE all

(* The two tasks of the feedback extractor. *)
RememberAnswer ==
  /\ Takes("feedback-buffer")
  /\ recent' = Put(recent, Head(queue["feedback-buffer"]).msg)
  /\ UNCHANGED <<db, jobs, next, faults, inbound, plugin, loader, contexts, feedback>>

(* A message that sounds like feedback is reported with the answer known    *)
(* for its own correlation id.                                              *)
FindFeedback ==
  /\ Takes("feedback-extractor")
  /\ LET msg == Head(queue["feedback-extractor"])
     IN  feedback' \in {feedback, feedback \cup {[msg |-> msg, prior |-> msg \in ToSet(recent)]}}
  /\ UNCHANGED <<db, jobs, next, faults, inbound, plugin, loader, contexts, recent>>

-----------------------------------------------------------------------------
Init ==
  /\ db = EmptyDb /\ jobs = {} /\ next = 1 /\ faults = 0
  /\ \E running \in Deployments : queue = [p \in running |-> <<>>]
  /\ inbound = 0 /\ plugin = [p \in Extractors |-> <<>>] /\ contexts = <<>>
  /\ loader = NoContext
  /\ recent = <<>> /\ feedback = {}

(* The steps of the plugins whose calls all have a timeout. *)
BoundedPlugin ==
  \/ ExtractEntities \/ ExtractFacts \/ ClassifyScopes \/ DetectTasks
  \/ PublishEntities \/ PublishFacts \/ PublishScopes \/ PublishTasks
  \/ TakeInbound \/ LoadSimilar \/ LoadTasks \/ LoadHistory \/ PublishContext
  \/ RememberAnswer \/ FindFeedback

NextPlugin == Ingest \/ BoundedPlugin

BrainStep == NextBrain /\ UNCHANGED <<inbound, plugin, loader, contexts, recent, feedback>>

Next ==
  \/ Inbound
  \/ NextPlugin
  \/ \E i \in DOMAIN contexts : RouterAnswers(i)
  \/ BrainStep

-----------------------------------------------------------------------------
(* Supersession never leaves a subject without a current fact: however the  *)
(* tasks of concurrent upserts interleave, and although each supersedes     *)
(* what it read some steps before, a subject that has facts has a current   *)
(* one whenever no upsert of it is between superseding and inserting,       *)
(* unless an insert failed.                                                 *)
CurrentFactRemains ==
  \A subj \in {f.subj : f \in db.facts} :
    \/ get_facts(subj) # {}
    \/ \E j \in jobs : j.kind = "fact" /\ j.arg.subj = subj /\ j.st \in {"link", "insert"}
    \/ db.unwritten # {}

(* Whatever the pipeline has made of a message can be traced back to it:    *)
(* every edge joins documents that exist, a fact's source mentions the      *)
(* entity whose facts were asked for, which is stored, and a superseded     *)
(* fact leads to the one that took its place, except where a call failed.   *)
(* The fact's own subject is that entity when the LLM keeps to it; no       *)
(* handler checks, and it may be a key that no entity has.                  *)
Provenance ==
  LET Stored == {c.key : c \in db.content}
      Facts == {f.key : f \in db.facts}
      Writing == {j.id : j \in {k \in jobs : k.kind = "fact"}}
  IN  /\ \A e \in db.edges :
           CASE e.kind = "mentions" -> e.from \in Stored /\ e.to \in db.entities
             [] e.kind = "derived_from" -> e.from \in Facts /\ e.to \in Stored
             [] e.kind = "supersedes" -> /\ e.to \in Facts
                                         /\ e.from \in Facts \cup Writing \cup db.unwritten
             [] OTHER -> \/ e.from[1] = "content" /\ e.from[2] \in Stored
                         \/ faults > 0
      /\ \A f \in db.facts :
           /\ f.source \in Stored /\ f.asked \in db.entities
           /\ f.by # 0 => f.by \in Facts \cup Writing \cup db.unwritten
           /\ \/ [kind |-> "mentions", from |-> f.source, to |-> f.asked] \in db.edges
              \/ faults > 0

(* Nothing gets stuck: what has been queued or begun is worked off, so that *)
(* the pipeline comes to rest after the last message, even if the content   *)
(* ingester hangs in its call of the embeddings API and leaves its own      *)
(* queue as it is.                                                          *)
ComesToRest ==
  \/ <>[](jobs = {} /\ \A p \in DOMAIN queue \ {"content-ingester"} : queue[p] = <<>>)
  \/ []<>(inbound < Messages(DOMAIN queue))

=============================================================================
