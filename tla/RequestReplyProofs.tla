------------------------- MODULE RequestReplyProofs -------------------------
(***************************************************************************)
(* request() leaves nothing behind and implements a remote call, for any    *)
(* number of requests and servers and channels of any capacity.             *)
(***************************************************************************)
EXTENDS RequestReply, TLAPS

\* The request has been published: its publish_event did not fail.
Published(r) ==
  \/ pc[r] \in {"dispatch", "wait", "drop"}
  \/ pc[r] \in {"unsubscribe", "done"} /\ result[r] # "Error"

Pub == {r \in Requests : Published(r)}

States == {"new", "publish", "dispatch", "wait", "drop", "unsubscribe", "done"}

RequestTyped ==
  /\ pc \in [Requests -> States]
  /\ result \in [Requests -> Servers \cup {"None", "Timeout", "Error"}]
  /\ subscribed \in [Requests -> BOOLEAN]
  /\ rxOpen \in [Requests -> BOOLEAN]
  /\ box \in [Requests -> Seq(Servers)]
  /\ accepted \in [Requests -> Seq(Servers)]
  /\ todo \in [Requests -> SUBSET Servers]

\* Only what was published is on its way, in a server's channels or back.
InTransit ==
  /\ inbox \in [Servers -> Seq(Pub \cup {NoReply})]
  /\ outbox \in [Servers -> Seq(Pub)]
  /\ held \in [Servers -> SUBSET Pub]
  /\ replying \subseteq Servers \X Pub \X {"resolve", "send"}
  /\ unsent \subseteq Pub \X Servers

\* Where a call is decides what it holds: the reply channel shows the replies
\* taken until the call is decided, is empty after it is dropped, and cannot be
\* filled when the publish has failed, since then nobody can reply.
CallerInv(r) ==
  /\ subscribed[r] <=> pc[r] \notin {"new", "done"}
  /\ pc[r] \in {"new", "publish", "dispatch", "wait"} =>
       result[r] = "None" /\ rxOpen[r] /\ box[r] = accepted[r]
  /\ pc[r] \in {"drop", "unsubscribe", "done"} => result[r] # "None"
  /\ pc[r] = "unsubscribe" => box[r] = <<>> /\ (result[r] = "Error" \/ ~ rxOpen[r])
  /\ pc[r] = "done" => box[r] = <<>> /\ ~ rxOpen[r]
  /\ ~ Published(r) => accepted[r] = <<>> /\ box[r] = <<>>
  /\ pc[r] = "drop" => rxOpen[r] /\ result[r] # "Error"

RequestInv == RequestTyped /\ InTransit /\ \A r \in Requests : CallerInv(r)

-----------------------------------------------------------------------------
\* A sequence over S is one over any larger set.
LEMMA SeqMonotone ==
  ASSUME NEW S, NEW T, S \subseteq T, NEW q \in Seq(S)
  PROVE  q \in Seq(T)
OBVIOUS

\* A message that is put into one of several channels.
LEMMA AppendTyped ==
  ASSUME NEW S, NEW T, NEW f \in [S -> Seq(T)], NEW s \in S, NEW e \in T
  PROVE  [f EXCEPT ![s] = Append(f[s], e)] \in [S -> Seq(T)]
<1>1. f[s] \in Seq(T)
  OBVIOUS
<1>2. Append(f[s], e) \in Seq(T)
  BY <1>1
<1> QED
  BY <1>2

\* What was published stays so, and so does what is in transit.
LEMMA TransitMonotone ==
  ASSUME InTransit, Pub \subseteq Pub', UNCHANGED <<inbox, outbox, held, replying, unsent>>
  PROVE  InTransit'
<1>1. inbox \in [Servers -> Seq(Pub' \cup {NoReply})]
  <2>1. \A s \in Servers : inbox[s] \in Seq(Pub' \cup {NoReply})
    <3> SUFFICES ASSUME NEW s \in Servers PROVE inbox[s] \in Seq(Pub' \cup {NoReply})
      OBVIOUS
    <3>1. inbox[s] \in Seq(Pub \cup {NoReply})
      BY DEF InTransit
    <3> QED
      BY <3>1, SeqMonotone
  <2> QED
    BY <2>1 DEF InTransit
<1>2. outbox \in [Servers -> Seq(Pub')]
  <2>1. \A s \in Servers : outbox[s] \in Seq(Pub')
    <3> SUFFICES ASSUME NEW s \in Servers PROVE outbox[s] \in Seq(Pub')
      OBVIOUS
    <3>1. outbox[s] \in Seq(Pub)
      BY DEF InTransit
    <3> QED
      BY <3>1, SeqMonotone
  <2> QED
    BY <2>1 DEF InTransit
<1>3. held \in [Servers -> SUBSET Pub']
  BY DEF InTransit
<1>4. replying \subseteq Servers \X Pub' \X {"resolve", "send"} /\ unsent \subseteq Pub' \X Servers
  BY DEF InTransit
<1> QED
  BY <1>1, <1>2, <1>3, <1>4 DEF InTransit, NoReply

\* The caller's half of the invariant of a request it does not touch.
LEMMA OthersUntouched ==
  ASSUME NEW r \in Requests, CallerInv(r),
         pc'[r] = pc[r], result'[r] = result[r], subscribed'[r] = subscribed[r],
         rxOpen'[r] = rxOpen[r], box'[r] = box[r], accepted'[r] = accepted[r]
  PROVE  CallerInv(r)' /\ (Published(r) <=> Published(r)')
  BY DEF CallerInv, Published

\* Nothing is open and nothing on its way at the start.
LEMMA InitEstablishes == Init => RequestInv
<1> SUFFICES ASSUME Init
             PROVE  RequestInv
  OBVIOUS
<1>1. RequestTyped
  BY DEF Init, RequestTyped, States
<1>2. InTransit
  BY DEF Init, InTransit
<1>3. \A r \in Requests : CallerInv(r)
  BY DEF Init, CallerInv, Published
<1> QED
  BY <1>1, <1>2, <1>3 DEF RequestInv

\* The steps of request() itself.
LEMMA RequesterPreserves ==
  ASSUME RequestInv, NEW r \in Requests, SubscribeReply(r) \/ RequesterStep(r)
  PROVE  RequestInv'
<1> USE DEF RequestInv
<1>0. \A x \in Requests : CallerInv(x)
  OBVIOUS
<1>1. CASE SubscribeReply(r)
  <2>1. RequestTyped'
    BY <1>1 DEF SubscribeReply, RequestTyped, States
  <2>2. \A x \in Requests : CallerInv(x)' /\ (Published(x) => Published(x)')
    BY <1>1 DEF SubscribeReply, RequestTyped, CallerInv, Published
  <2>3. InTransit'
    BY <1>1, <2>2, TransitMonotone DEF SubscribeReply, serving, Pub
  <2> QED
    BY <2>1, <2>2, <2>3
<1>2. CASE PublishRequest(r)
  <2>1. RequestTyped'
    BY <1>2 DEF PublishRequest, RequestTyped, States
  <2>2. \A x \in Requests : CallerInv(x)' /\ (Published(x) => Published(x)')
    BY <1>2 DEF PublishRequest, RequestTyped, CallerInv, Published
  <2>3. InTransit'
    BY <1>2, <2>2, TransitMonotone DEF PublishRequest, serving, Pub
  <2> QED
    BY <2>1, <2>2, <2>3
<1>3. CASE PublishFails(r)
  <2>1. RequestTyped'
    BY <1>3 DEF PublishFails, RequestTyped, States
  <2>2. \A x \in Requests : CallerInv(x)' /\ (Published(x) => Published(x)')
    BY <1>3 DEF PublishFails, RequestTyped, CallerInv, Published
  <2>3. InTransit'
    BY <1>3, <2>2, TransitMonotone DEF PublishFails, serving, Pub
  <2> QED
    BY <2>1, <2>2, <2>3
<1>4. ASSUME NEW s \in Servers, SendRequest(r, s)
      PROVE  RequestInv'
  <2>1. RequestTyped'
    BY <1>4 DEF SendRequest, RequestTyped
  <2>2. \A x \in Requests : CallerInv(x)' /\ (Published(x) <=> Published(x)')
    BY <1>4, OthersUntouched DEF SendRequest
  <2>3. Pub' = Pub /\ r \in Pub
    BY <1>4, <2>2 DEF SendRequest, Pub, Published
  <2>4. inbox' \in [Servers -> Seq(Pub \cup {NoReply})]
    <3>1. [inbox EXCEPT ![s] = Append(inbox[s], r)] \in [Servers -> Seq(Pub \cup {NoReply})]
      BY <2>3, AppendTyped DEF InTransit
    <3> QED
      BY <1>4, <3>1 DEF SendRequest, InTransit
  <2>5. unsent' \subseteq Pub \X Servers
    BY <1>4, <2>3 DEF SendRequest, InTransit
  <2>6. InTransit'
    BY <1>4, <2>3, <2>4, <2>5 DEF SendRequest, InTransit, NoReply
  <2> QED
    BY <2>1, <2>2, <2>6
<1>5. CASE StartWaiting(r)
  <2>1. RequestTyped'
    BY <1>5 DEF StartWaiting, RequestTyped, States
  <2>2. \A x \in Requests : CallerInv(x)' /\ (Published(x) => Published(x)')
    BY <1>5 DEF StartWaiting, RequestTyped, CallerInv, Published
  <2>3. InTransit'
    BY <1>5, <2>2, TransitMonotone DEF StartWaiting, serving, Pub
  <2> QED
    BY <2>1, <2>2, <2>3
<1>6. CASE ReceiveReply(r)
  <2>0. Head(box[r]) \in Servers /\ Tail(box[r]) \in Seq(Servers)
    BY <1>6 DEF ReceiveReply, RequestTyped
  <2>1. RequestTyped'
    BY <1>6, <2>0 DEF ReceiveReply, RequestTyped, States
  <2>2. \A x \in Requests : CallerInv(x)' /\ (Published(x) => Published(x)')
    BY <1>6, <2>0, RequestAssumption DEF ReceiveReply, RequestTyped, CallerInv, Published
  <2>3. InTransit'
    BY <1>6, <2>2, TransitMonotone DEF ReceiveReply, serving, Pub
  <2> QED
    BY <2>1, <2>2, <2>3
<1>7. CASE Timeout(r)
  <2>1. RequestTyped'
    BY <1>7 DEF Timeout, RequestTyped, States
  <2>2. \A x \in Requests : CallerInv(x)' /\ (Published(x) => Published(x)')
    BY <1>7 DEF Timeout, RequestTyped, CallerInv, Published
  <2>3. InTransit'
    BY <1>7, <2>2, TransitMonotone DEF Timeout, serving, Pub
  <2> QED
    BY <2>1, <2>2, <2>3
<1>8. CASE DropReplyRx(r)
  <2>1. RequestTyped'
    BY <1>8 DEF DropReplyRx, RequestTyped, States
  <2>2. \A x \in Requests : CallerInv(x)' /\ (Published(x) => Published(x)')
    BY <1>8 DEF DropReplyRx, RequestTyped, CallerInv, Published
  <2>3. InTransit'
    BY <1>8, <2>2, TransitMonotone DEF DropReplyRx, serving, Pub
  <2> QED
    BY <2>1, <2>2, <2>3
<1>9. CASE UnsubscribeReply(r)
  <2>1. RequestTyped'
    BY <1>9 DEF UnsubscribeReply, RequestTyped, States
  <2>2. \A x \in Requests : CallerInv(x)' /\ (Published(x) => Published(x)')
    BY <1>9 DEF UnsubscribeReply, RequestTyped, CallerInv, Published
  <2>3. InTransit'
    BY <1>9, <2>2, TransitMonotone DEF UnsubscribeReply, serving, Pub
  <2> QED
    BY <2>1, <2>2, <2>3
<1> QED
  BY <1>1, <1>2, <1>3, <1>4, <1>5, <1>6, <1>7, <1>8, <1>9 DEF RequesterStep

\* The steps of the servers, the retry task and the replies.
LEMMA ServerPreserves ==
  ASSUME RequestInv, NEW s \in Servers,
         \/ SendPlain(s) \/ Bridge(s) \/ BridgeEnds(s) \/ Handle(s)
         \/ DropServe(s) \/ UnsubscribeServe(s)
         \/ \E r \in Requests :
              RetryRequest(r, s) \/ Reply(s, r) \/ ReplyResolve(s, r) \/ ReplySend(s, r)
  PROVE  RequestInv'
<1> USE DEF RequestInv
<1>0. UNCHANGED requester
  BY DEF SendPlain, Bridge, BridgeEnds, Handle, DropServe, UnsubscribeServe, RetryRequest, Reply,
         ReplyResolve, ReplySend, serving
<1>1. Pub' = Pub
  BY <1>0 DEF Pub, Published, requester
<1>2. ASSUME UNCHANGED <<box, accepted>>
      PROVE  RequestTyped' /\ \A r \in Requests : CallerInv(r)'
  BY <1>0, <1>2 DEF RequestTyped, CallerInv, Published, requester
<1>3. CASE SendPlain(s)
  BY <1>1, <1>2, <1>3 DEF SendPlain, InTransit, NoReply
<1>4. CASE Bridge(s)
  <2>1. Head(inbox[s]) \in Pub \cup {NoReply} /\ Tail(inbox[s]) \in Seq(Pub \cup {NoReply})
    BY <1>4 DEF Bridge, InTransit
  <2>2. inbox' \in [Servers -> Seq(Pub \cup {NoReply})]
    BY <1>4, <2>1 DEF Bridge, InTransit
  <2>3. outbox' \in [Servers -> Seq(Pub)]
    <3>1. Head(inbox[s]) # NoReply =>
            [outbox EXCEPT ![s] = Append(outbox[s], Head(inbox[s]))] \in [Servers -> Seq(Pub)]
      BY <2>1, AppendTyped DEF InTransit
    <3> QED
      BY <1>4, <3>1 DEF Bridge, InTransit
  <2> QED
    BY <1>1, <1>2, <1>4, <2>2, <2>3 DEF Bridge, InTransit, NoReply
<1>5. CASE BridgeEnds(s)
  BY <1>1, <1>2, <1>5 DEF BridgeEnds, InTransit, NoReply
<1>6. CASE Handle(s)
  <2>1. Head(outbox[s]) \in Pub /\ Tail(outbox[s]) \in Seq(Pub)
    BY <1>6 DEF Handle, InTransit
  <2> QED
    BY <1>1, <1>2, <1>6, <2>1 DEF Handle, InTransit, NoReply
<1>7. CASE DropServe(s)
  BY <1>1, <1>2, <1>7 DEF DropServe, InTransit, NoReply
<1>8. CASE UnsubscribeServe(s)
  BY <1>1, <1>2, <1>8 DEF UnsubscribeServe, InTransit, NoReply
<1>9. ASSUME NEW r \in Requests, RetryRequest(r, s)
      PROVE  RequestInv'
  <2>1. r \in Pub
    BY <1>9 DEF RetryRequest, InTransit
  <2>2. inbox' \in [Servers -> Seq(Pub \cup {NoReply})]
    <3>1. [inbox EXCEPT ![s] = Append(inbox[s], r)] \in [Servers -> Seq(Pub \cup {NoReply})]
      BY <2>1, AppendTyped DEF InTransit
    <3> QED
      BY <1>9, <3>1 DEF RetryRequest, InTransit
  <2> QED
    BY <1>1, <1>2, <1>9, <2>2 DEF RetryRequest, InTransit, NoReply
<1>10. ASSUME NEW r \in Requests, Reply(s, r)
       PROVE  RequestInv'
  <2>1. r \in Pub
    BY <1>10 DEF Reply, InTransit
  <2> QED
    BY <1>1, <1>2, <1>10, <2>1 DEF Reply, InTransit, NoReply
<1>11. ASSUME NEW r \in Requests, ReplyResolve(s, r)
       PROVE  RequestInv'
  <2>1. r \in Pub
    BY <1>11 DEF ReplyResolve, InTransit
  <2> QED
    BY <1>1, <1>2, <1>11, <2>1 DEF ReplyResolve, serving, InTransit, NoReply
<1>12. ASSUME NEW r \in Requests, ReplySend(s, r)
       PROVE  RequestInv'
  <2>1. r \in Pub
    BY <1>12 DEF ReplySend, InTransit
  <2>2. InTransit'
    BY <1>1, <1>12 DEF ReplySend, serving, InTransit, NoReply
  <2>3. CASE rxOpen[r] /\ box[r] = <<>>
    <3>1. /\ box' = [box EXCEPT ![r] = <<s>>]
          /\ accepted' = [accepted EXCEPT ![r] = Append(@, s)]
      BY <1>12, <2>3 DEF ReplySend
    <3>2. RequestTyped'
      BY <1>0, <3>1 DEF RequestTyped, requester
    <3>3. pc[r] \in {"dispatch", "wait", "drop"}
      BY <2>1, <2>3 DEF Pub, Published, CallerInv
    <3>4. pc[r] # "drop" => accepted[r] = <<>> /\ accepted'[r] = <<s>>
      <4> SUFFICES ASSUME pc[r] # "drop" PROVE accepted[r] = <<>> /\ accepted'[r] = <<s>>
        OBVIOUS
      <4>1. CallerInv(r)
        OBVIOUS
      <4>2. accepted[r] = <<>>
        BY <2>3, <3>3, <4>1 DEF CallerInv
      <4>3. accepted'[r] = Append(<<>>, s)
        BY <3>1, <4>2 DEF RequestTyped
      <4> QED
        BY <4>2, <4>3
    <3>5. \A x \in Requests : CallerInv(x)'
      BY <1>0, <2>1, <3>1, <3>3, <3>4, ZenonT(40) DEF CallerInv, Published, Pub, RequestTyped, requester
    <3> QED
      BY <2>2, <3>2, <3>5
  <2>4. CASE UNCHANGED <<box, accepted>>
    BY <1>2, <2>2, <2>4
  <2> QED
    BY <1>12, <2>3, <2>4 DEF ReplySend
<1> QED
  BY <1>3, <1>4, <1>5, <1>6, <1>7, <1>8, <1>9, <1>10, <1>11, <1>12

\* Every step of the specification, or none, keeps the invariant.
LEMMA NextPreserves == RequestInv /\ [Next]_vars => RequestInv'
<1> SUFFICES ASSUME RequestInv, [Next]_vars
             PROVE  RequestInv'
  OBVIOUS
<1>1. CASE UNCHANGED vars
  BY <1>1 DEF vars, RequestInv, RequestTyped, InTransit, Pub, Published, CallerInv, NoReply
<1>2. CASE Next
  BY <1>2, RequesterPreserves, ServerPreserves DEF Next
<1> QED
  BY <1>1, <1>2

\* The invariant holds in every reachable state.
LEMMA InvariantHolds == Spec => []RequestInv
  BY InitEstablishes, NextPreserves, PTL DEF Spec

\* request() leaves no reply subscription, no receiver and no reply behind when
\* it has returned, by whichever of its exits and whatever arrives later.
THEOREM NothingLeaks == Spec => []NoLeakedReply
<1>1. RequestInv => NoLeakedReply
  BY DEF RequestInv, CallerInv, NoLeakedReply
<1> QED
  BY <1>1, InvariantHolds, PTL

-----------------------------------------------------------------------------
(* The refinement.  callOf and firstOf are the mapping of RequestReply.     *)

callOf ==
  [r \in Requests |-> CASE pc[r] = "new" -> "idle" [] pc[r] = "done" -> "returned"
                        [] OTHER -> "open"]
firstOf == [r \in Requests |-> IF accepted[r] = <<>> THEN "None" ELSE Head(accepted[r])]

\* A step that neither opens nor ends a call, nor fills its channel, nor
\* decides it is not a step of the remote call.
LEMMA Invisible ==
  ASSUME callOf' = callOf, firstOf' = firstOf, result' = result
  PROVE  UNCHANGED Call!callVars
  BY DEF Call!callVars, callOf, firstOf

\* The state of one call, as the mapping has it.
LEMMA CallOfIs ==
  ASSUME NEW r \in Requests
  PROVE  /\ callOf[r] = IF pc[r] = "new" THEN "idle" ELSE IF pc[r] = "done" THEN "returned" ELSE "open"
         /\ firstOf[r] = IF accepted[r] = <<>> THEN "None" ELSE Head(accepted[r])
  BY DEF callOf, firstOf

\* A step of request() or of a server that keeps the state of every call, and
\* the replies and results, is not a step of the remote call.
LEMMA Unseen ==
  ASSUME RequestInv, NEW r \in Requests, NEW p,
         pc[r] \notin {"new", "done"}, p \notin {"new", "done"},
         pc' = [pc EXCEPT ![r] = p], UNCHANGED <<result, accepted>>
  PROVE  UNCHANGED Call!callVars
<1>1. callOf' = callOf
  BY DEF callOf, RequestInv, RequestTyped
<1>2. firstOf' = firstOf /\ result' = result
  BY DEF firstOf
<1> QED
  BY <1>1, <1>2, Invisible

\* An open call is decided by its first reply, or fails when there is none.
LEMMA Decides ==
  ASSUME RequestInv, NEW r \in Requests, NEW p, NEW v,
         pc[r] \notin {"new", "done"}, p \notin {"new", "done"},
         pc' = [pc EXCEPT ![r] = p], result' = [result EXCEPT ![r] = v], result[r] = "None",
         accepted' = accepted,
         \/ firstOf[r] # "None" /\ v = firstOf[r]
         \/ firstOf[r] = "None" /\ v \in {"Timeout", "Error"}
  PROVE  Call!CallNext
<1>1. callOf[r] = "open" /\ callOf' = callOf
  BY DEF callOf, RequestInv, RequestTyped
<1>2. firstOf' = firstOf
  BY DEF firstOf
<1>3. Call!Decide(r)
  BY <1>1, <1>2 DEF Call!Decide, callOf, firstOf
<1> QED
  BY <1>3 DEF Call!CallNext

\* Every step of request() is a step of the remote call or invisible in it.
LEMMA RequesterRefines ==
  ASSUME RequestInv, NEW r \in Requests, SubscribeReply(r) \/ RequesterStep(r)
  PROVE  [Call!CallNext]_(Call!callVars)
<1> USE DEF RequestInv
<1>0. CallerInv(r)
  OBVIOUS
<1>1. CASE SubscribeReply(r)
  <2>1. callOf[r] = "idle" /\ callOf' = [callOf EXCEPT ![r] = "open"]
    BY <1>1 DEF SubscribeReply, callOf, RequestTyped
  <2>2. firstOf' = firstOf /\ result' = result
    BY <1>1 DEF SubscribeReply, firstOf
  <2>3. Call!Call(r)
    BY <2>1, <2>2 DEF Call!Call, callOf, firstOf
  <2> QED
    BY <2>3 DEF Call!CallNext
<1>2. CASE PublishRequest(r)
  BY <1>2, Unseen DEF PublishRequest
<1>3. CASE PublishFails(r)
  <2>1. accepted[r] = <<>> /\ result[r] = "None" /\ pc[r] = "publish"
    BY <1>0, <1>3 DEF PublishFails, CallerInv, Published
  <2>2. firstOf[r] = "None"
    BY <2>1, CallOfIs
  <2> QED
    BY <1>3, <2>1, <2>2, Decides DEF PublishFails
<1>4. ASSUME NEW s \in Servers, SendRequest(r, s)
      PROVE  UNCHANGED Call!callVars
  BY <1>4, Invisible DEF SendRequest, callOf, firstOf
<1>5. CASE StartWaiting(r)
  BY <1>5, Unseen DEF StartWaiting
<1>6. CASE ReceiveReply(r)
  <2>1. accepted[r] # <<>> /\ box[r] = accepted[r] /\ result[r] = "None" /\ pc[r] = "wait"
    BY <1>0, <1>6 DEF ReceiveReply, CallerInv
  <2>2. Head(accepted[r]) \in Servers
    BY <2>1 DEF RequestTyped
  <2>3. firstOf[r] = Head(box[r]) /\ firstOf[r] # "None"
    BY <2>1, <2>2, CallOfIs, RequestAssumption
  <2> QED
    BY <1>6, <2>1, <2>3, Decides DEF ReceiveReply
<1>7. CASE Timeout(r)
  <2>1. accepted[r] = <<>> /\ result[r] = "None" /\ pc[r] = "wait"
    BY <1>0, <1>7 DEF Timeout, CallerInv
  <2>2. firstOf[r] = "None"
    BY <2>1, CallOfIs
  <2> QED
    BY <1>7, <2>1, <2>2, Decides DEF Timeout
<1>8. CASE DropReplyRx(r)
  BY <1>8, Unseen DEF DropReplyRx
<1>9. CASE UnsubscribeReply(r)
  <2>1. callOf[r] = "open" /\ callOf' = [callOf EXCEPT ![r] = "returned"]
    BY <1>9 DEF UnsubscribeReply, callOf, RequestTyped
  <2>2. firstOf' = firstOf /\ result' = result /\ result[r] # "None"
    BY <1>0, <1>9 DEF UnsubscribeReply, firstOf, CallerInv
  <2>3. Call!Return(r)
    BY <2>1, <2>2 DEF Call!Return, callOf, firstOf
  <2> QED
    BY <2>3 DEF Call!CallNext
<1> QED
  BY <1>1, <1>2, <1>3, <1>4, <1>5, <1>6, <1>7, <1>8, <1>9 DEF RequesterStep

\* A server is seen by the remote call only when the reply channel takes the
\* first reply; one that it takes after the call was decided changes nothing.
LEMMA ServerRefines ==
  ASSUME RequestInv, NEW s \in Servers,
         \/ SendPlain(s) \/ Bridge(s) \/ BridgeEnds(s) \/ Handle(s)
         \/ DropServe(s) \/ UnsubscribeServe(s)
         \/ \E r \in Requests :
              RetryRequest(r, s) \/ Reply(s, r) \/ ReplyResolve(s, r) \/ ReplySend(s, r)
  PROVE  [Call!CallNext]_(Call!callVars)
<1> USE DEF RequestInv
<1>0. UNCHANGED requester
  BY DEF SendPlain, Bridge, BridgeEnds, Handle, DropServe, UnsubscribeServe, RetryRequest, Reply,
         ReplyResolve, ReplySend, serving
<1>1. callOf' = callOf /\ result' = result
  BY <1>0 DEF callOf, requester
<1>2. CASE accepted' = accepted
  <2>1. firstOf' = firstOf
    BY <1>2 DEF firstOf
  <2> QED
    BY <1>1, <2>1, Invisible
<1>3. ASSUME NEW r \in Requests, ReplySend(s, r), accepted' # accepted
      PROVE  [Call!CallNext]_(Call!callVars)
  <2>1. rxOpen[r] /\ box[r] = <<>> /\ accepted' = [accepted EXCEPT ![r] = Append(@, s)]
    BY <1>3 DEF ReplySend
  <2>2. CASE accepted[r] = <<>>
    <3>1. accepted'[r] = Append(<<>>, s)
      BY <2>1, <2>2 DEF RequestTyped
    <3>2. accepted'[r] # <<>> /\ Head(accepted'[r]) = s
      BY <3>1
    <3>3. firstOf' = [firstOf EXCEPT ![r] = s]
      BY <2>1, <3>2 DEF firstOf, RequestTyped
    <3>4. firstOf[r] = "None"
      BY <2>2, CallOfIs
    <3>5. pc[r] \notin {"new", "done"}
      <4>1. CallerInv(r) /\ r \in Pub
        BY <1>3 DEF ReplySend, InTransit
      <4> QED
        BY <2>1, <4>1 DEF CallerInv, Pub, Published
    <3>6. callOf[r] = "open"
      BY <3>5, CallOfIs
    <3>7. Call!Answer(r, s)
      BY <1>1, <3>3, <3>4, <3>6 DEF Call!Answer, callOf, firstOf
    <3> QED
      BY <3>7 DEF Call!CallNext
  <2>3. CASE accepted[r] # <<>>
    <3>1. accepted[r] \in Seq(Servers) /\ accepted'[r] = Append(accepted[r], s)
      BY <2>1 DEF RequestTyped
    <3>2. accepted'[r] # <<>> /\ Head(accepted'[r]) = Head(accepted[r])
      BY <2>3, <3>1
    <3>3. firstOf' = firstOf
      BY <2>1, <2>3, <3>2 DEF firstOf, RequestTyped
    <3> QED
      BY <1>1, <3>3, Invisible
  <2> QED
    BY <2>2, <2>3
<1>4. accepted' = accepted \/ \E r \in Requests : ReplySend(s, r)
  BY DEF SendPlain, Bridge, BridgeEnds, Handle, DropServe, UnsubscribeServe, RetryRequest, Reply,
         ReplyResolve
<1> QED
  BY <1>2, <1>3, <1>4

\* request(), with the bus, the servers and the retry task under it, does what
\* RemoteCall promises its caller: the first reply that the channel takes is
\* the outcome, and a call that fails had none.
THEOREM RefinesCall == Spec => Call!CallSafety
<1>1. Init => Call!CallInit
  <2> SUFFICES ASSUME Init PROVE Call!CallInit
    OBVIOUS
  <2>1. callOf = [r \in Requests |-> "idle"]
    BY DEF Init, callOf
  <2>2. firstOf = [r \in Requests |-> "None"] /\ result = [r \in Requests |-> "None"]
    BY DEF Init, firstOf
  <2> QED
    BY <2>1, <2>2 DEF Call!CallInit, callOf, firstOf
<1>2. RequestInv /\ [Next]_vars => [Call!CallNext]_(Call!callVars)
  <2> SUFFICES ASSUME RequestInv, [Next]_vars
               PROVE  [Call!CallNext]_(Call!callVars)
    OBVIOUS
  <2>1. CASE UNCHANGED vars
    BY <2>1, Invisible DEF vars, callOf, firstOf
  <2>2. CASE Next
    BY <2>2, RequesterRefines, ServerRefines DEF Next
  <2> QED
    BY <2>1, <2>2
<1> QED
  BY <1>1, <1>2, InvariantHolds, PTL DEF Spec, Call!CallSafety
=============================================================================
