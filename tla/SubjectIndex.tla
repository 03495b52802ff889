---------------------------- MODULE SubjectIndex ----------------------------
(***************************************************************************)
(* The subject index of seidrum-eventbus (dispatch/subject_index.rs): a     *)
(* trie of subscriptions keyed by subject patterns, with "*" for exactly    *)
(* one token and a final ">" for one or more.  It is changed and read only  *)
(* under the engine's state lock, so each operation is one step.            *)
(*                                                                          *)
(* A subject is the sequence of its tokens; "" stands for an empty token,   *)
(* between two dots or at an end.                                           *)
(***************************************************************************)
EXTENDS Integers, Sequences, FiniteSets, SequencesExt

CONSTANTS
  Ids,        \* subscription ids
  Priority,   \* id -> priority
  Literals,   \* literal tokens
  MaxLength,  \* bound: tokens in a pattern or a subject
  MaxDepth    \* MAX_SUBJECT_DEPTH

ASSUME IndexAssumption ==
  /\ Priority \in [Ids -> Nat]
  /\ MaxLength \in Nat /\ MaxDepth \in Nat

VARIABLES
  root,   \* the trie
  live    \* history: id -> the pattern it is subscribed with, <<>> if it is not

vars == <<root, live>>

Patterns == UNION {[1..n -> Literals \cup {"*", ">", ""}] : n \in 1..MaxLength}
\* publish checks neither for wildcards nor for empty tokens.
Subjects == UNION {[1..n -> Literals \cup {"*", ""}] : n \in 1..MaxLength}

-----------------------------------------------------------------------------
(* TrieNode: an Option is a sequence of at most one element                 *)

NewNode == [subs |-> <<>>, children |-> <<>>, wildcard |-> <<>>, terminal |-> <<>>]

IsEmpty(node) == node = NewNode

ChildOr(f, token) == IF token \in DOMAIN f THEN f[token] ELSE NewNode

RECURSIVE Insert(_, _, _)

\* Mutant: "*" is filed as if it were a literal.
InsertLiteral(node, tokens, id) ==
  IF tokens = <<>> THEN [node EXCEPT !.subs = Append(@, id)]
  ELSE IF Head(tokens) = ">" THEN [node EXCEPT !.terminal = Append(@, id)]
  ELSE LET t == Head(tokens) IN
       [node EXCEPT !.children =
          [u \in DOMAIN @ \cup {t} |->
             IF u = t THEN Insert(ChildOr(@, t), Tail(tokens), id) ELSE @[u]]]

Insert(node, tokens, id) ==
  IF tokens = <<>> THEN [node EXCEPT !.subs = Append(@, id)]
  ELSE IF Head(tokens) = ">" THEN [node EXCEPT !.terminal = Append(@, id)]
  ELSE IF Head(tokens) = "*"
  THEN [node EXCEPT !.wildcard =
          <<Insert(IF @ = <<>> THEN NewNode ELSE @[1], Tail(tokens), id)>>]
  ELSE LET t == Head(tokens) IN
       [node EXCEPT !.children =
          [u \in DOMAIN @ \cup {t} |->
             IF u = t THEN Insert(ChildOr(@, t), Tail(tokens), id) ELSE @[u]]]

RECURSIVE RemoveId(_, _)

\* Remove the id everywhere, and prune the children this leaves empty.
RemoveId(node, id) ==
  LET below == [t \in DOMAIN node.children |-> RemoveId(node.children[t], id)]
      star == IF node.wildcard = <<>> THEN NewNode ELSE RemoveId(node.wildcard[1], id)
  IN  [subs |-> SelectSeq(node.subs, LAMBDA e : e # id),
       terminal |-> SelectSeq(node.terminal, LAMBDA e : e # id),
       children |-> [t \in {u \in DOMAIN below : ~ IsEmpty(below[u])} |-> below[t]],
       wildcard |-> IF IsEmpty(star) THEN <<>> ELSE <<star>>]

RECURSIVE Collect(_, _)

\* The entries that match the tokens, in the order the code finds them.
Collect(node, tokens) ==
  IF tokens = <<>> THEN node.subs
  ELSE node.terminal
       \o Collect(ChildOr(node.children, Head(tokens)), Tail(tokens))
       \o (IF node.wildcard = <<>> THEN <<>> ELSE Collect(node.wildcard[1], Tail(tokens)))

\* lookup: collect, then a stable sort by priority.
Lookup(subject) ==
  LET found == Collect(root, subject)
      before(i, j) == \/ Priority[found[i]] < Priority[found[j]]
                      \/ Priority[found[i]] = Priority[found[j]] /\ i < j
      rank(i) == Cardinality({j \in DOMAIN found : before(j, i)}) + 1
  IN  [n \in DOMAIN found |-> found[CHOOSE i \in DOMAIN found : rank(i) = n]]

RECURSIVE CollectAll(_)

\* list(None) and find_by_id walk every node; in what order does not matter.
CollectAll(node) ==
  ToSet(node.subs) \cup ToSet(node.terminal)
    \cup UNION {CollectAll(node.children[t]) : t \in DOMAIN node.children}
    \cup (IF node.wildcard = <<>> THEN {} ELSE CollectAll(node.wildcard[1]))

RECURSIVE HasEmptyNode(_)

HasEmptyNode(node) ==
  LET below == {node.children[t] : t \in DOMAIN node.children} \cup ToSet(node.wildcard)
  IN  \E n \in below : IsEmpty(n) \/ HasEmptyNode(n)

-----------------------------------------------------------------------------
(* Operations                                                               *)

\* What subscribe accepts.
Valid(pattern) ==
  /\ Len(pattern) <= MaxDepth
  /\ \A i \in DOMAIN pattern : pattern[i] # ""
  /\ \A i \in DOMAIN pattern : pattern[i] = ">" => i = Len(pattern)

Subscribe(id, pattern) ==
  /\ live[id] = <<>> /\ Valid(pattern)
  /\ root' = Insert(root, pattern, id)
  /\ live' = [live EXCEPT ![id] = pattern]

Unsubscribe(id) ==
  /\ live[id] # <<>>
  /\ root' = RemoveId(root, id)
  /\ live' = [live EXCEPT ![id] = <<>>]

Init == root = NewNode /\ live = [id \in Ids |-> <<>>]

Next ==
  \E id \in Ids : Unsubscribe(id) \/ \E pattern \in Patterns : Subscribe(id, pattern)

Spec == Init /\ [][Next]_vars

-----------------------------------------------------------------------------
(* Properties                                                               *)

\* The reference: what it means for a pattern to match a subject.
MatchesPattern(pattern, subject) ==
  LET n == Len(pattern)
      token(i) == pattern[i] = "*" \/ pattern[i] = subject[i]
  IN  IF pattern[n] = ">"
      THEN Len(subject) >= n /\ \A i \in 1..(n - 1) : token(i)
      ELSE Len(subject) = n /\ \A i \in 1..n : token(i)

Subscribed == {id \in Ids : live[id] # <<>>}

\* After any history of subscribes and unsubscribes, lookup finds every
\* subscription whose pattern matches the subject, no other, once each, and in
\* the order of the interceptor chain, whatever mixture of literal and wildcard
\* patterns they came from; and nothing is left of the removed ones: list and
\* find_by_id see the live ones only, and no branch of the trie outlives its
\* subscriptions.
LookupExact ==
  /\ \A subject \in Subjects :
       LET found == Lookup(subject) IN
       /\ ToSet(found) = {id \in Subscribed : MatchesPattern(live[id], subject)}
       /\ Len(found) = Cardinality(ToSet(found))
       /\ \A i, j \in DOMAIN found : i < j => Priority[found[i]] <= Priority[found[j]]
  /\ CollectAll(root) = Subscribed /\ ~ HasEmptyNode(root)

=============================================================================
