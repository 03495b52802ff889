---------------------------- MODULE RequestReply ----------------------------
(***************************************************************************)
(* request() and serve() of seidrum-eventbus (request_reply.rs): a          *)
(* requester subscribes to a reply subject of its own, publishes, waits     *)
(* with a timeout and cleans up; a server's bridge task turns events into   *)
(* (request, Replier) pairs for its handler.                                *)
(*                                                                          *)
(* A request is its reply subject, a ULID used once.  The event store and   *)
(* the outcome of each delivery are the subject of module Dispatch: here a  *)
(* delivery that found a full channel may be made again by the retry task.  *)
(***************************************************************************)
EXTENDS Integers, Sequences, FiniteSets

CONSTANTS
  Requests,        \* calls of request(), each with its own reply subject
  Servers,         \* calls of serve(), all on the requested subject
  InboxCapacity,   \* DEFAULT_CHANNEL_CAPACITY
  ServeCapacity    \* SERVE_CHANNEL_CAPACITY

ASSUME RequestAssumption ==
  /\ InboxCapacity \in Nat \ {0}
  /\ ServeCapacity \in Nat \ {0}
  /\ Requests \cap Servers = {} /\ "plain" \notin Requests
  /\ Servers \cap {"None", "Timeout", "Error"} = {}

VARIABLES
  pc,         \* request -> where the call of request() is
  todo,       \* request -> servers its publish has still to send to
  result,     \* request -> what the call returns: a server, "Timeout", "Error"
  subscribed, \* request -> its reply entry is in the index, its sender in senders
  rxOpen,     \* request -> reply_rx has not been dropped
  box,        \* request -> the reply channel, of capacity 1
  server,     \* server -> "live", "dropped" (still in the index), "gone"
  bridge,     \* server -> its bridge task runs, and its event_rx is open
  inbox,      \* server -> events the engine has sent, NoReply for a plain one
  outbox,     \* server -> requests the bridge task has forwarded
  held,       \* server -> requests whose Replier the handler holds, not yet used
  replying,   \* replies being published: <<server, request, step>>
  unsent,     \* deliveries to retry: <<request, server>>
  accepted    \* history: request -> the replies its channel has taken

vars == <<pc, todo, result, subscribed, rxOpen, box, server, bridge, inbox, outbox,
          held, replying, unsent, accepted>>
requester == <<pc, todo, result, subscribed, rxOpen>>
serving == <<server, bridge, inbox, outbox, held>>

NoReply == "plain"

\* A try_send on the server's sender succeeds.
CanTake(s) == bridge[s] /\ Len(inbox[s]) < InboxCapacity

-----------------------------------------------------------------------------
(* request()                                                                *)

\* Subscribe to the reply subject, before publishing.
SubscribeReply(r) ==
  /\ pc[r] = "new"
  /\ subscribed' = [subscribed EXCEPT ![r] = TRUE]
  /\ pc' = [pc EXCEPT ![r] = "publish"]
  /\ UNCHANGED <<todo, result, rxOpen, box, serving, replying, unsent, accepted>>

\* publish_event resolves the subscribers.
PublishRequest(r) ==
  /\ pc[r] = "publish"
  /\ todo' = [todo EXCEPT ![r] = {s \in Servers : server[s] # "gone"}]
  /\ pc' = [pc EXCEPT ![r] = "dispatch"]
  /\ UNCHANGED <<result, subscribed, rxOpen, box, serving, replying, unsent, accepted>>

\* Mutant: a failed publish returns at once.
PublishFailsLeaking(r) ==
  /\ pc[r] = "publish"
  /\ result' = [result EXCEPT ![r] = "Error"]
  /\ pc' = [pc EXCEPT ![r] = "done"]
  /\ UNCHANGED <<todo, subscribed, rxOpen, box, serving, replying, unsent, accepted>>

\* publish_event fails (an invalid subject, a store error): clean up.
PublishFails(r) ==
  /\ pc[r] = "publish"
  /\ result' = [result EXCEPT ![r] = "Error"]
  /\ pc' = [pc EXCEPT ![r] = "unsubscribe"]
  /\ UNCHANGED <<todo, subscribed, rxOpen, box, serving, replying, unsent, accepted>>

\* One try_send of the dispatch, through a sender that may have been looked up
\* before an unsubscribe; what fails is left to the retry task.
SendRequest(r, s) ==
  /\ pc[r] = "dispatch" /\ s \in todo[r]
  /\ todo' = [todo EXCEPT ![r] = @ \ {s}]
  /\ \/ CanTake(s) /\ inbox' = [inbox EXCEPT ![s] = Append(@, r)] /\ UNCHANGED unsent
     \/ /\ ~ CanTake(s) \/ server[s] = "gone"
        /\ unsent' = unsent \cup {<<r, s>>}
        /\ UNCHANGED inbox
  /\ UNCHANGED <<pc, result, subscribed, rxOpen, box, server, bridge, outbox, held,
                 replying, accepted>>

\* The timeout starts when publish_event returns.
StartWaiting(r) ==
  /\ pc[r] = "dispatch" /\ todo[r] = {}
  /\ pc' = [pc EXCEPT ![r] = "wait"]
  /\ UNCHANGED <<todo, result, subscribed, rxOpen, box, serving, replying, unsent, accepted>>

ReceiveReply(r) ==
  /\ pc[r] = "wait" /\ box[r] # <<>>
  /\ result' = [result EXCEPT ![r] = Head(box[r])]
  /\ box' = [box EXCEPT ![r] = Tail(@)]
  /\ pc' = [pc EXCEPT ![r] = "drop"]
  /\ UNCHANGED <<todo, subscribed, rxOpen, serving, replying, unsent, accepted>>

\* timeout() polls the channel once more before it gives up.
Timeout(r) ==
  /\ pc[r] = "wait" /\ box[r] = <<>>
  /\ result' = [result EXCEPT ![r] = "Timeout"]
  /\ pc' = [pc EXCEPT ![r] = "drop"]
  /\ UNCHANGED <<todo, subscribed, rxOpen, box, serving, replying, unsent, accepted>>

\* drop(reply_rx)
DropReplyRx(r) ==
  /\ pc[r] = "drop"
  /\ rxOpen' = [rxOpen EXCEPT ![r] = FALSE]
  /\ box' = [box EXCEPT ![r] = <<>>]
  /\ pc' = [pc EXCEPT ![r] = "unsubscribe"]
  /\ UNCHANGED <<todo, result, subscribed, serving, replying, unsent, accepted>>

\* unsubscribe, and return.
UnsubscribeReply(r) ==
  /\ pc[r] = "unsubscribe"
  /\ subscribed' = [subscribed EXCEPT ![r] = FALSE]
  /\ rxOpen' = [rxOpen EXCEPT ![r] = FALSE]
  /\ pc' = [pc EXCEPT ![r] = "done"]
  /\ UNCHANGED <<todo, result, box, serving, replying, unsent, accepted>>

-----------------------------------------------------------------------------
(* serve()                                                                  *)

\* A plain publish on the same subject.
SendPlain(s) ==
  /\ server[s] # "gone" /\ CanTake(s)
  /\ inbox' = [inbox EXCEPT ![s] = Append(@, NoReply)]
  /\ UNCHANGED <<requester, box, server, bridge, outbox, held, replying, unsent, accepted>>

\* The retry task makes a failed delivery, or dead-letters it.
RetryRequest(r, s) ==
  /\ <<r, s>> \in unsent
  /\ \/ server[s] # "gone" /\ CanTake(s) /\ inbox' = [inbox EXCEPT ![s] = Append(@, r)]
     \/ UNCHANGED inbox
  /\ unsent' = unsent \ {<<r, s>>}
  /\ UNCHANGED <<requester, box, server, bridge, outbox, held, replying, accepted>>

\* The bridge task skips what has no reply subject, and forwards the rest when
\* there is room.
Bridge(s) ==
  /\ bridge[s] /\ inbox[s] # <<>>
  /\ \/ Head(inbox[s]) = NoReply /\ UNCHANGED outbox
     \/ /\ Head(inbox[s]) # NoReply /\ server[s] = "live" /\ Len(outbox[s]) < ServeCapacity
        /\ outbox' = [outbox EXCEPT ![s] = Append(@, Head(inbox[s]))]
  /\ inbox' = [inbox EXCEPT ![s] = Tail(@)]
  /\ UNCHANGED <<requester, box, server, bridge, held, replying, unsent, accepted>>

\* It ends when it cannot forward because the RequestSubscription is gone, or
\* when the sender is and nothing is left; whatever is in event_rx goes with it.
BridgeEnds(s) ==
  /\ bridge[s]
  /\ \/ inbox[s] # <<>> /\ Head(inbox[s]) # NoReply /\ server[s] # "live"
     \/ inbox[s] = <<>> /\ server[s] = "gone"
  /\ bridge' = [bridge EXCEPT ![s] = FALSE]
  /\ inbox' = [inbox EXCEPT ![s] = <<>>]
  /\ UNCHANGED <<requester, box, server, outbox, held, replying, unsent, accepted>>

\* The handler takes a request and the Replier made for it.
Handle(s) ==
  /\ server[s] = "live" /\ outbox[s] # <<>>
  /\ held' = [held EXCEPT ![s] = @ \cup {Head(outbox[s])}]
  /\ outbox' = [outbox EXCEPT ![s] = Tail(@)]
  /\ UNCHANGED <<requester, box, server, bridge, inbox, replying, unsent, accepted>>

\* Replier::reply: a second call finds the flag set and returns an error; the
\* first one publishes on the reply subject.
Reply(s, r) ==
  /\ r \in held[s]
  /\ held' = [held EXCEPT ![s] = @ \ {r}]
  /\ replying' = replying \cup {<<s, r, "resolve">>}
  /\ UNCHANGED <<requester, box, server, bridge, inbox, outbox, unsent, accepted>>

\* The publish of a reply: it is not persisted, and it resolves to the
\* requester's entry or to nobody, in which case it returns Ok all the same.
ReplyResolve(s, r) ==
  /\ <<s, r, "resolve">> \in replying
  /\ replying' = (replying \ {<<s, r, "resolve">>})
                   \cup (IF subscribed[r] THEN {<<s, r, "send">>} ELSE {})
  /\ UNCHANGED <<requester, box, serving, unsent, accepted>>

\* Mutant: a later reply replaces the one that waits.
ReplyReplaces(s, r) ==
  /\ <<s, r, "send">> \in replying
  /\ replying' = replying \ {<<s, r, "send">>}
  /\ IF rxOpen[r]
     THEN /\ box' = [box EXCEPT ![r] = <<s>>]
          /\ accepted' = [accepted EXCEPT ![r] = Append(@, s)]
     ELSE UNCHANGED <<box, accepted>>
  /\ UNCHANGED <<requester, serving, unsent>>

\* try_send through the sender the dispatch looked up; a full, closed or
\* removed channel loses the reply.
ReplySend(s, r) ==
  /\ <<s, r, "send">> \in replying
  /\ replying' = replying \ {<<s, r, "send">>}
  /\ IF rxOpen[r] /\ box[r] = <<>>
     THEN /\ box' = [box EXCEPT ![r] = <<s>>]
          /\ accepted' = [accepted EXCEPT ![r] = Append(@, s)]
     ELSE UNCHANGED <<box, accepted>>
  /\ UNCHANGED <<requester, serving, unsent>>

\* The RequestSubscription is dropped: its channel goes, with what is in it,
\* and the unsubscribe runs in a task of its own.
DropServe(s) ==
  /\ server[s] = "live"
  /\ server' = [server EXCEPT ![s] = "dropped"]
  /\ outbox' = [outbox EXCEPT ![s] = <<>>]
  /\ UNCHANGED <<requester, box, bridge, inbox, held, replying, unsent, accepted>>

UnsubscribeServe(s) ==
  /\ server[s] = "dropped"
  /\ server' = [server EXCEPT ![s] = "gone"]
  /\ UNCHANGED <<requester, box, bridge, inbox, outbox, held, replying, unsent, accepted>>

-----------------------------------------------------------------------------
Init ==
  /\ pc = [r \in Requests |-> "new"]
  /\ todo = [r \in Requests |-> {}]
  /\ result = [r \in Requests |-> "None"]
  /\ subscribed = [r \in Requests |-> FALSE]
  /\ rxOpen = [r \in Requests |-> TRUE]
  /\ box = [r \in Requests |-> <<>>]
  /\ server = [s \in Servers |-> "live"]
  /\ bridge = [s \in Servers |-> TRUE]
  /\ inbox = [s \in Servers |-> <<>>]
  /\ outbox = [s \in Servers |-> <<>>]
  /\ held = [s \in Servers |-> {}]
  /\ replying = {}
  /\ unsent = {}
  /\ accepted = [r \in Requests |-> <<>>]

\* The steps of request() that nothing but the scheduler holds up.
RequesterStep(r) ==
  \/ PublishRequest(r) \/ PublishFails(r) \/ (\E s \in Servers : SendRequest(r, s))
  \/ StartWaiting(r) \/ ReceiveReply(r) \/ Timeout(r) \/ DropReplyRx(r) \/ UnsubscribeReply(r)

Next ==
  \/ \E r \in Requests : SubscribeReply(r) \/ RequesterStep(r)
  \/ \E s \in Servers :
       \/ SendPlain(s) \/ Bridge(s) \/ BridgeEnds(s) \/ Handle(s) \/ DropServe(s) \/ UnsubscribeServe(s)
       \/ \E r \in Requests :
            RetryRequest(r, s) \/ Reply(s, r) \/ ReplyResolve(s, r) \/ ReplySend(s, r)

Spec == Init /\ [][Next]_vars

\* A task that can make progress does, and a timeout expires in the end.
\* Nothing is assumed of the handlers.
FairSpec == Spec /\ \A r \in Requests : WF_vars(RequesterStep(r))

-----------------------------------------------------------------------------
(* Properties                                                               *)

\* A call of request() that has returned, with a reply, a timeout or an error,
\* has left no reply subscription behind, and no later reply brings one back.
NoLeakedReply ==
  \A r \in Requests : pc[r] = "done" => ~ subscribed[r] /\ ~ rxOpen[r] /\ box[r] = <<>>

\* request() does what RemoteCall says: an answer is an entry in the reply
\* channel, the call is open from its subscription to its return.
Call ==
  INSTANCE RemoteCall WITH
    Failures <- {"Timeout", "Error"}, None <- "None",
    call <- [r \in Requests |-> CASE pc[r] = "new" -> "idle" [] pc[r] = "done" -> "returned"
                                  [] OTHER -> "open"],
    first <- [r \in Requests |-> IF accepted[r] = <<>> THEN "None" ELSE Head(accepted[r])],
    outcome <- result

\* Through full channels, retried and repeated deliveries, late replies and
\* servers that go away, request() is a remote call: the first reply that
\* reaches it before its timeout is what it returns, a later one changes
\* nothing, it fails only without a reply, and it returns in the end.
ImplementsCall == Call!CallSpec

=============================================================================
