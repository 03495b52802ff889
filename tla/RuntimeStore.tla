---------------------------- MODULE RuntimeStore ----------------------------
(***************************************************************************)
(* What the agent runtime keeps on disk: the records of the turns, the      *)
(* audits of the tool authorizations, the job definitions and runs and the  *)
(* outbound deliveries, each in a redb table, and the questions asked of    *)
(* them.  Every operation is one transaction: it happens or it fails.       *)
(***************************************************************************)
EXTENDS Naturals, Sequences, FiniteSets

CONSTANTS
  Rules,            \* the authorization rules, in order
  DefaultDecision,  \* what holds for a tool no rule matches
  MaxAttempts,      \* max_attempts of the outbound retry policy
  RecordAttempts    \* max_attempts of a delivery record

ASSUME LimitAssumption == MaxAttempts \in Nat /\ RecordAttempts \in Nat

VARIABLES
  table,       \* the turn records, in the order of their keys
  audits,      \* the authorization audits, in the order of their keys
  definitions, \* the job definitions stored, by job
  runs,        \* the job runs stored, by the turn that is the run
  deliveries   \* the outbound deliveries stored, by the turn they answer

storeVars == <<table, audits, definitions, runs, deliveries>>

Without == "none"

(* The session that continues a channel: an empty thread is no thread. *)
session_id(origin) ==
  IF origin.thread \in {Without, ""} THEN <<origin.chat>> ELSE <<origin.chat, origin.thread>>

-----------------------------------------------------------------------------
(* The key of a record is one above the last one in the table. *)
append(record) == table' = Append(table, record)

(* A session's records: by their sequence, and by key where it is equal. *)
Keys(session) == {i \in 1..Len(table) : table[i].session = session}

before(i, j) == \/ table[i].seq < table[j].seq
                \/ table[i].seq = table[j].seq /\ i < j

At(keys, n) == CHOOSE i \in keys : Cardinality({j \in keys : before(j, i)}) = n - 1

records(session) ==
  LET keys == Keys(session)
  IN  [n \in 1..Cardinality(keys) |-> table[At(keys, n)]]

\* Mutant: the sequence continues after the messages of the user only.
NextOfUserMessages(session) ==
  Cardinality({i \in Keys(session) : table[i].kind = "UserMessage"}) + 1

next_sequence(session) == Len(records(session)) + 1

(* A trace: the records of a session, and which of them are responses. *)
build_trace(found) ==
  [records |-> found, outbound |-> {n \in DOMAIN found : found[n].kind = "AssistantMessage"}]

replay_session_trace(session) == build_trace(records(session))

(* The run of a job with the trace of its session. *)
replay_job_run(t) == [run |-> runs[t], trace |-> replay_session_trace(runs[t].session)]

-----------------------------------------------------------------------------
(* A rule is for a tool and, where it says so, for a kind of channel, a     *)
(* user or a session.                                                       *)
matches(rule, tool, context) ==
  /\ rule.tool = tool
  /\ \A f \in {"kind", "user", "session"} : rule[f] \in {Without, context[f]}

(* The first rule that matches decides. *)
decision_for(tool, context) ==
  LET hits == {i \in 1..Len(Rules) : matches(Rules[i], tool, context)}
  IN  IF hits = {} THEN DefaultDecision
      ELSE Rules[CHOOSE i \in hits : \A j \in hits : i <= j].decision

append_authorization_audit(audit) == audits' = Append(audits, audit)
NextAudit == Len(audits) + 1

-----------------------------------------------------------------------------
(* An insert adds an entry to its table or replaces it. *)
Insert(entries, key, value) ==
  [k \in DOMAIN entries \cup {key} |-> IF k = key THEN value ELSE entries[k]]

put_job_run(t, run) == runs' = Insert(runs, t, run)
put_job_definition(job, definition) == definitions' = Insert(definitions, job, definition)

-----------------------------------------------------------------------------
(* A delivery is queued with no attempt made. *)
queued(session) == [session |-> session, status |-> "Queued", attempts |-> 0]

put_outbound_delivery(t, delivery) == deliveries' = Insert(deliveries, t, delivery)

mark_sent(d) == [d EXCEPT !.status = "Sent", !.attempts = @ + 1]
mark_cancelled(d) == [d EXCEPT !.status = "Cancelled"]

\* Mutant: the attempt is counted twice when the limit is looked at.
GivesUpEarly(d) ==
  [d EXCEPT !.attempts = @ + 1,
            !.status = IF d.attempts + 2 >= MaxAttempts THEN "Failed" ELSE "RetryScheduled"]

(* The smaller of the two limits is the one that counts. *)
record_failure(d) ==
  [d EXCEPT !.attempts = @ + 1,
            !.status = IF d.attempts + 1 >= RecordAttempts \/ d.attempts + 1 >= MaxAttempts
                       THEN "Failed" ELSE "RetryScheduled"]
=============================================================================
