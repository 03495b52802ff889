----------------------------- MODULE MCDispatch -----------------------------
(* Dispatch for TLC: c1 is a sync channel subscriber, i1 an interceptor and  *)
(* a1 an async subscriber.  Every pattern matches.                          *)
EXTENDS Dispatch, TLC

CONSTANTS i1, c1, a1

AllMatch == [subj \in Subjects |-> Subscribers]

InProcess == [s \in Subscribers |-> "InProcess"]
A1Webhook == [s \in Subscribers |-> IF s = a1 THEN "Webhook" ELSE "InProcess"]

RankA == a1 :> 1
RankCIA == c1 :> 1 @@ i1 :> 2 @@ a1 :> 3

PublisherSymmetry == Permutations(Publishers)
=============================================================================
