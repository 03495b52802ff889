-------------------------------- MODULE Brain --------------------------------
(***************************************************************************)
(* The kernel's brain service.  One loop takes the messages of all brain   *)
(* subjects and spawns a task for each; a task is a few calls to the       *)
(* document database, each atomic by itself and nothing around them.  A    *)
(* failed call ends some handlers and is ignored by others.                *)
(*                                                                         *)
(* A job is the task of one message; arg is what the message asks for and  *)
(* the other fields are the task's local variables.                        *)
(***************************************************************************)
EXTENDS Naturals, Sequences, FiniteSets

CONSTANT MaxFaults   \* bound: database and LLM calls, and publishes, that fail

VARIABLES
  db,      \* the collections
  jobs,    \* the running handlers
  queue,   \* per running plugin, the events it has not taken
  next,    \* ULIDs: the next fresh id
  faults

brainVars == <<db, jobs, queue, next, faults>>

Fault == faults < MaxFaults /\ faults' = faults + 1
NoFault == UNCHANGED faults

Job(kind, arg) == [id |-> next, kind |-> kind, arg |-> arg, st |-> "start", old |-> 0]

(* A message for the brain: its task is spawned. *)
Spawn(kind, arg) == jobs' = jobs \cup {Job(kind, arg)} /\ next' = next + 1

Goes(j, st) == jobs' = (jobs \ {j}) \cup {[j EXCEPT !.st = st]}
Ends(j) == jobs' = jobs \ {j}

(* The subjects and the plugins that subscribe to them. *)
Subscribed(subject) ==
  CASE subject = "channel.inbound" -> {"content-ingester", "graph-context-loader", "feedback-extractor",
                                       "llm-router", "orchestrator"}
    [] subject = "brain.content.stored" -> {"entity-extractor", "scope-classifier"}
    [] subject = "brain.entity.upserted" -> {"fact-extractor"}
    [] subject = "llm.response" -> {"task-detector", "feedback-buffer",
                                    "orchestrator-responses", "response-formatter"}
    [] OTHER -> {}

publish_response(subject, ev) ==
  queue' = [p \in DOMAIN queue |->
              IF p \in Subscribed(subject) THEN Append(queue[p], ev) ELSE queue[p]]

At(j, kind, st) == j \in jobs /\ j.kind = kind /\ j.st = st

-----------------------------------------------------------------------------
(* brain.content.store: without the document nothing is announced; without  *)
(* the embedding it is.  The key is cut to the second the id was made in:   *)
(* an insert that meets the key of another one of that second fails, too.   *)
ContentInsert(j) ==
  /\ At(j, "content", "start")
  /\ \/ /\ db' = [db EXCEPT !.content = @ \cup {[key |-> j.id, msg |-> j.arg.msg, embedded |-> FALSE]}]
        /\ Goes(j, "embed")
        /\ NoFault
     \/ Ends(j) /\ Fault /\ UNCHANGED db
  /\ UNCHANGED <<queue, next>>

ContentEmbed(j) ==
  /\ At(j, "content", "embed")
  /\ \/ /\ db' = [db EXCEPT !.content = (@ \ {[key |-> j.id, msg |-> j.arg.msg, embedded |-> FALSE]})
                                          \cup {[key |-> j.id, msg |-> j.arg.msg, embedded |-> TRUE]}]
        /\ NoFault
     \/ UNCHANGED db /\ Fault
  /\ publish_response("brain.content.stored", [key |-> j.id, msg |-> j.arg.msg])
  /\ Ends(j)
  /\ UNCHANGED next

-----------------------------------------------------------------------------
\* Mutant: a task whose upsert failed waits for a retry that nobody makes.
EntityUpsertWaits(j) ==
  /\ At(j, "entity", "start")
  /\ \/ db' = [db EXCEPT !.entities = @ \cup {j.arg.name}] /\ Goes(j, "mention") /\ NoFault
     \/ Goes(j, "retry") /\ Fault /\ UNCHANGED db
  /\ UNCHANGED <<queue, next>>

(* brain.entity.upsert: the key is made from the name, so the same entity   *)
(* found twice is one document.  The mention is best effort.                *)
EntityUpsert(j) ==
  /\ At(j, "entity", "start")
  /\ \/ db' = [db EXCEPT !.entities = @ \cup {j.arg.name}] /\ Goes(j, "mention") /\ NoFault
     \/ Ends(j) /\ Fault /\ UNCHANGED db
  /\ UNCHANGED <<queue, next>>

EntityMention(j) ==
  /\ At(j, "entity", "mention")
  /\ \/ /\ db' = [db EXCEPT !.edges = @ \cup {[kind |-> "mentions", from |-> j.arg.source, to |-> j.arg.name]}]
        /\ NoFault
     \/ UNCHANGED db /\ Fault
  /\ publish_response("brain.entity.upserted", j.arg)
  /\ Ends(j)
  /\ UNCHANGED next

-----------------------------------------------------------------------------
(* brain.fact.upsert.  A fact's key is the id of the task that creates it;  *)
(* by is superseded_by (0: null), and valid_to is set together with it.     *)
(* Its subject is taken as it is: whether there is such an entity is not    *)
(* looked up.  asked is history: the entity whose facts were asked for.     *)

Current(subj) == {f \in db.facts : f.subj = subj /\ f.by = 0}

(* LIMIT 1 without an order: any current fact of the subject. *)
FactRead(j) ==
  /\ At(j, "fact", "start")
  /\ \/ /\ Current(j.arg.subj) = {}
        /\ Goes(j, "insert") /\ NoFault
     \/ /\ \E f \in Current(j.arg.subj) :
             jobs' = (jobs \ {j}) \cup
               {[j EXCEPT !.old = f.key, !.st = IF f.val = j.arg.val THEN "reinforce" ELSE "supersede"]}
        /\ NoFault
     \/ Ends(j) /\ Fault
  /\ UNCHANGED <<db, queue, next>>

\* An UPDATE by key: the fact becomes what the function new makes of it.
OnFact(key, new) ==
  [db EXCEPT !.facts = {IF f.key = key THEN new[f] ELSE f : f \in @}]

FactUpserted(j) ==
  /\ publish_response("brain.fact.upserted", j.arg)
  /\ Ends(j)

FactReinforce(j) ==
  /\ At(j, "fact", "reinforce")
  /\ \/ db' = OnFact(j.old, [f \in db.facts |-> [f EXCEPT !.times = @ + 1]]) /\ NoFault
     \/ UNCHANGED db /\ Fault
  /\ FactUpserted(j)
  /\ UNCHANGED next

(* The old fact is written by its key, whatever has become of it since. *)
FactSupersede(j) ==
  /\ At(j, "fact", "supersede")
  /\ \/ db' = OnFact(j.old, [f \in db.facts |-> [f EXCEPT !.by = j.id]]) /\ NoFault
     \/ UNCHANGED db /\ Fault
  /\ Goes(j, "link")
  /\ UNCHANGED <<queue, next>>

FactLink(j) ==
  /\ At(j, "fact", "link")
  /\ \/ db' = [db EXCEPT !.edges = @ \cup {[kind |-> "supersedes", from |-> j.id, to |-> j.old]}] /\ NoFault
     \/ UNCHANGED db /\ Fault
  /\ Goes(j, "insert")
  /\ UNCHANGED <<queue, next>>
\* Mutant: the new fact is written with the old one's key in superseded_by.
FactInsertSuperseded(j) ==
  /\ At(j, "fact", "insert")
  /\ db' = [db EXCEPT !.facts = @ \cup {[key |-> j.id, subj |-> j.arg.subj, val |-> j.arg.val, by |-> j.old,
                                          source |-> j.arg.source, times |-> 0, asked |-> j.arg.asked]}]
  /\ Goes(j, "derive")
  /\ UNCHANGED <<queue, next, faults>>

(* The one failure that is not ignored: the old fact stays superseded by a  *)
(* fact that does not exist.                                                *)
FactInsert(j) ==
  /\ At(j, "fact", "insert")
  /\ \/ /\ db' = [db EXCEPT !.facts = @ \cup {[key |-> j.id, subj |-> j.arg.subj, val |-> j.arg.val, by |-> 0,
                                                source |-> j.arg.source, times |-> 0, asked |-> j.arg.asked]}]
        /\ Goes(j, "derive")
        /\ NoFault
     \/ /\ db' = [db EXCEPT !.unwritten = @ \cup {j.id}]
        /\ Ends(j)
        /\ Fault
  /\ UNCHANGED <<queue, next>>

FactDerive(j) ==
  /\ At(j, "fact", "derive")
  /\ \/ db' = [db EXCEPT !.edges = @ \cup {[kind |-> "derived_from", from |-> j.id, to |-> j.arg.source]}] /\ NoFault
     \/ UNCHANGED db /\ Fault
  /\ FactUpserted(j)
  /\ UNCHANGED next

-----------------------------------------------------------------------------
\* Mutant: a key without a collection is taken for an entity's at once.
DetectEntity(j) ==
  /\ At(j, "scope", "start")
  /\ Goes(j, "entities")
  /\ UNCHANGED <<db, queue, next, faults>>

(* brain.scope.assign: a key without a collection is looked up in each; a   *)
(* lookup that fails counts as not found, and not found means an entity.    *)
detect_collection_id(j) ==
  /\ At(j, "scope", "start")
  /\ \/ /\ \E c \in db.content : c.key = j.arg.target
        /\ Goes(j, "content") /\ NoFault
     \/ /\ ~\E c \in db.content : c.key = j.arg.target
        /\ Goes(j, "entities") /\ NoFault
     \/ Goes(j, "entities") /\ Fault
  /\ UNCHANGED <<db, queue, next>>

ScopeAssign(j) ==
  /\ j \in jobs /\ j.kind = "scope" /\ j.st \in {"content", "entities"}
  /\ \/ /\ db' = [db EXCEPT !.edges = @ \cup {[kind |-> "scoped_to", from |-> <<j.st, j.arg.target>>, to |-> j.arg.scope]}]
        /\ NoFault
     \/ UNCHANGED db /\ Fault
  /\ Ends(j)
  /\ UNCHANGED <<queue, next>>

(* brain.task.upsert without a task_key: always a new task. *)
TaskUpsert(j) ==
  /\ At(j, "task", "start")
  /\ \/ db' = [db EXCEPT !.tasks = @ \cup {[key |-> j.id, title |-> j.arg.title, status |-> "open"]}] /\ NoFault
     \/ UNCHANGED db /\ Fault
  /\ Ends(j)
  /\ UNCHANGED <<queue, next>>

-----------------------------------------------------------------------------
(* The answers of handle_query_request, one read of the database each. *)

(* The raw text of a content document, if there is one with this key. *)
TextOf(key) == {c.msg : c \in {d \in db.content : d.key = key}}

(* Documents without an embedding have no similarity and are left out. *)
vector_search == {c.key : c \in {d \in db.content : d.embedded}}

(* The current facts of an entity: neither superseded nor ended. *)
get_facts(subj) == Current(subj)

active_tasks == {t \in db.tasks : t.status \in {"pending", "in_progress"}}

(* SORT c.timestamp DESC LIMIT n: a message's timestamp is its number.      *)
conversation_history(n) ==
  LET Newer(c) == {d \in db.content : d.msg >= c.msg}
      count == Cardinality(db.content)
  IN  [i \in 1..(IF count < n THEN count ELSE n) |->
         (CHOOSE c \in db.content : Cardinality(Newer(c)) = i).msg]

NextBrain ==
  \E j \in jobs :
    \/ ContentInsert(j) \/ ContentEmbed(j) \/ EntityUpsert(j) \/ EntityMention(j)
    \/ FactRead(j) \/ FactReinforce(j) \/ FactSupersede(j) \/ FactLink(j)
    \/ FactInsert(j) \/ FactDerive(j)
    \/ detect_collection_id(j) \/ ScopeAssign(j) \/ TaskUpsert(j)

EmptyDb == [content |-> {}, entities |-> {}, facts |-> {}, edges |-> {}, tasks |-> {},
            unwritten |-> {}]
=============================================================================
