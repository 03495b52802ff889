------------------------------- MODULE WsServer -------------------------------
(***************************************************************************)
(* The WebSocket transport of the event bus.  Each connection has one task *)
(* that reads operations, handles each to its end before it looks at the   *)
(* next one, and writes what the forwarders and the remote proxies have    *)
(* queued for it.  Remote interceptors and remote channels are proxies     *)
(* that send a frame and wait for the client's result.  Clients come and   *)
(* go, answer late or never, and stop reading.                             *)
(*                                                                         *)
(* One subject stands for all: every subscription and every interceptor    *)
(* matches every event.                                                    *)
(***************************************************************************)
EXTENDS Naturals, Sequences, FiniteSets

CONSTANTS
  Conns,             \* connections; each is made once
  ForwardSize,       \* capacity of a connection's forward channel (256)
  ChannelSize,       \* capacity of a subscription's channel
  SocketSize,        \* frames the socket takes before the client reads
  MaxSubscriptions, MaxInterceptors, MaxPending

ASSUME SizesPositive ==
  /\ \A n \in {ForwardSize, ChannelSize, SocketSize} : n \in Nat \ {0}
  /\ MaxSubscriptions \in Nat /\ MaxInterceptors \in Nat /\ MaxPending \in Nat

VARIABLES
  conn,     \* per connection, the state of its task and of its socket
  entries,  \* the bus: subscriptions and interceptors of the connections, with the
            \* correlation id they were asked for with
  rx,       \* per subscription with a forwarder, the events waiting for it
  pend,     \* pending_replies of all proxies
  replies,  \* results signalled to the calls that wait for them
  calls,    \* running publishes and requests
  owner,    \* the connection behind the custom channel type, 0: none
  retry,    \* the retry task's delivery through the custom channel
  fresh     \* ids: subscriptions and requests

serverVars == <<conn, entries, rx, pend, replies, calls, owner, retry, fresh>>

(* cid: the correlation id, and in an event its reply subject. *)
NoCid == <<"none", 0>>
Frame(op, cid, id) == [op |-> op, cid |-> cid, id |-> id, action |-> "none"]

NewConn == [st |-> "new", up |-> FALSE, in |-> <<>>, out |-> <<>>, fwd |-> <<>>,
            subs |-> {}, icpts |-> {}, chan |-> FALSE, call |-> 0, cid |-> NoCid]

(* The proxies, each with its own pending_replies. *)
Icpt(id) == <<"icpt", id>>
Chan(c) == <<"chan", c>>

NoRetry == [st |-> "idle", req |-> 0, to |-> 0]

-----------------------------------------------------------------------------
(* Connections                                                              *)

Accept(c) ==
  /\ conn[c].st = "new"
  /\ conn' = [conn EXCEPT ![c].st = "open", ![c].up = TRUE]
  /\ UNCHANGED <<entries, rx, pend, replies, calls, owner, retry, fresh>>

(* The task is between two operations, and ws_send would not block. *)
Ready(c) == conn[c].st = "open" /\ conn[c].call = 0 /\ (conn[c].up => Len(conn[c].out) < SocketSize)

(* ws_send: into the socket, or an error that its callers only log. *)
ws_send(k, frame) == IF k.up THEN [k EXCEPT !.out = Append(@, frame)] ELSE k

Reads(c, op) == Ready(c) /\ conn[c].in # <<>> /\ Head(conn[c].in).op = op

(* The connection after its next frame was taken and answered. *)
Answered(c, frame) == ws_send([conn[c] EXCEPT !.in = Tail(@)], frame)

(* Errors of handle_operation are reported without a correlation id. *)
ErrorFrame == Frame("error", NoCid, 0)

-----------------------------------------------------------------------------
(* Publishing: the chain of the interceptors found at the start, then the   *)
(* subscribers found at the start.                                          *)

Sorted(ids) == CHOOSE s \in [1..Cardinality(ids) -> ids] :
                 \A i, j \in DOMAIN s : i < j => s[i] < s[j]

IdsOf(kind) == {e.id : e \in {x \in entries : x.kind = kind}}
ConnOf(id) == (CHOOSE e \in entries : e.id = id).conn

Call(by, kind) ==
  [id |-> fresh, by |-> by, kind |-> kind, st |-> "chain",
   todo |-> [i \in 1..Cardinality(IdsOf("icpt")) |->
               LET id == Sorted(IdsOf("icpt"))[i] IN [id |-> id, conn |-> ConnOf(id)]],
   targets |-> IdsOf("sub"), req |-> 0]

Becomes(k, k2) == calls' = (calls \ {k}) \cup {k2}
Passed(k) == [k EXCEPT !.st = "chain", !.todo = Tail(@), !.req = 0]

\* Mutant: intercept() is cut off only when it waits for the result.
InterceptTimeoutOfReply(k) ==
  /\ k \in calls /\ k.st = "wait"
  /\ Becomes(k, [k EXCEPT !.st = "chain", !.todo = Tail(@), !.req = 0])
  /\ pend' = {p \in pend : p.req # k.req}
  /\ replies' = {r \in replies : r.req # k.req}
  /\ UNCHANGED <<conn, entries, rx, owner, retry, fresh>>

\* Mutant: intercept() without the guard, cut off by the engine's timeout.
InterceptTimeoutUnguarded(k) ==
  /\ k \in calls /\ k.st \in {"send", "wait"}
  /\ Becomes(k, Passed(k))
  /\ UNCHANGED <<conn, entries, rx, pend, replies, owner, retry, fresh>>

(* WsRemoteInterceptor::intercept *)
InterceptStart(k) ==
  /\ k \in calls /\ k.st = "chain" /\ k.todo # <<>>
  /\ IF Cardinality({p \in pend : p.proxy = Icpt(Head(k.todo).id)}) >= MaxPending
     THEN Becomes(k, Passed(k)) /\ UNCHANGED <<pend, fresh>>
     ELSE /\ Becomes(k, [k EXCEPT !.st = "send", !.req = fresh])
          /\ pend' = pend \cup {[req |-> fresh, proxy |-> Icpt(Head(k.todo).id)]}
          /\ fresh' = fresh + 1
  /\ UNCHANGED <<conn, entries, rx, replies, owner, retry>>

(* The call is over: its pending entry is taken back, its oneshot dropped. *)
Forget(req) ==
  /\ pend' = {p \in pend : p.req # req}
  /\ replies' = {r \in replies : r.req # req}

(* The forward channel is open until the connection's task has returned. *)
InterceptSend(k) ==
  /\ k \in calls /\ k.st = "send"
  /\ LET c == Head(k.todo).conn
     IN  IF conn[c].st = "closed"
         THEN Becomes(k, Passed(k)) /\ Forget(k.req) /\ UNCHANGED conn
         ELSE /\ Len(conn[c].fwd) < ForwardSize
              /\ conn' = [conn EXCEPT ![c].fwd = Append(@, Frame("intercept", NoCid, k.req))]
              /\ Becomes(k, [k EXCEPT !.st = "wait"])
              /\ UNCHANGED <<pend, replies>>
  /\ UNCHANGED <<entries, rx, owner, retry, fresh>>

InterceptReplied(k) ==
  /\ k \in calls /\ k.st = "wait"
  /\ \E r \in replies :
       /\ r.req = k.req
       /\ replies' = replies \ {r}
       /\ Becomes(k, IF r.action = "drop" THEN [Passed(k) EXCEPT !.st = "done"] ELSE Passed(k))
  /\ UNCHANGED <<conn, entries, rx, pend, owner, retry, fresh>>

(* The proxy's own timeout, or the engine's, which aborts the call wherever *)
(* it is: the guard takes the pending entry back in both cases.             *)
InterceptTimeout(k) ==
  /\ k \in calls /\ k.st \in {"send", "wait"}
  /\ Becomes(k, Passed(k))
  /\ Forget(k.req)
  /\ UNCHANGED <<conn, entries, rx, owner, retry, fresh>>

(* try_send to every subscriber that is still there and has room. *)
FanOut(k) ==
  /\ k \in calls /\ k.st = "chain" /\ k.todo = <<>>
  /\ rx' = [id \in DOMAIN rx |->
              IF id \in k.targets /\ Len(rx[id]) < ChannelSize THEN Append(rx[id], <<k.kind, k.id>>) ELSE rx[id]]
  /\ Becomes(k, [k EXCEPT !.st = IF k.kind = "request" THEN "reply" ELSE "done"])
  /\ UNCHANGED <<conn, entries, pend, replies, owner, retry, fresh>>

(* A request waits for the first reply or its timeout. *)
RequestTimeout(k) ==
  /\ k \in calls /\ k.st = "reply"
  /\ Becomes(k, [k EXCEPT !.st = "failed"])
  /\ UNCHANGED <<conn, entries, rx, pend, replies, owner, retry, fresh>>

(* The handler that waited goes on: the client learns the outcome. *)
CallEnds(k) ==
  /\ k \in calls /\ k.st \in {"done", "failed"}
  /\ calls' = calls \ {k}
  /\ IF k.by = 0 THEN UNCHANGED conn
     ELSE LET c == conn[k.by]
              op == CASE k.st = "failed" -> "error" [] k.kind = "request" -> "reply_result" [] OTHER -> "published"
          IN  /\ c.up => Len(c.out) < SocketSize
              /\ conn' = [conn EXCEPT ![k.by] = ws_send([c EXCEPT !.call = 0, !.cid = NoCid], Frame(op, c.cid, k.id))]
  /\ UNCHANGED <<entries, rx, pend, replies, owner, retry, fresh>>

(* An in-process publisher. *)
PublishLocally ==
  /\ calls' = calls \cup {Call(0, "publish")}
  /\ fresh' = fresh + 1
  /\ UNCHANGED <<conn, entries, rx, pend, replies, owner, retry>>

-----------------------------------------------------------------------------
(* handle_operation                                                         *)

\* A publish or a request: the task does nothing else until it is over.
OpCall(c, kind) ==
  /\ Reads(c, kind)
  /\ calls' = calls \cup {Call(c, kind)}
  /\ conn' = [conn EXCEPT ![c].in = Tail(@), ![c].call = fresh, ![c].cid = Head(conn[c].in).cid]
  /\ fresh' = fresh + 1
  /\ UNCHANGED <<entries, rx, pend, replies, owner, retry>>

(* A client's publish on a reply subject is the answer to the request: the  *)
(* first one counts.  The publish itself is acknowledged either way.        *)
OpReply(c) ==
  /\ Reads(c, "reply")
  /\ calls' = {IF k.id = Head(conn[c].in).id /\ k.st = "reply" THEN [k EXCEPT !.st = "done"] ELSE k : k \in calls}
  /\ conn' = [conn EXCEPT ![c] = Answered(c, Frame("published", Head(conn[c].in).cid, 0))]
  /\ UNCHANGED <<entries, rx, pend, replies, owner, retry, fresh>>

(* An operation that is refused: it does not parse, its pattern or payload  *)
(* is invalid, or the bus returns an error.                                 *)
OpRefused(c) ==
  /\ Reads(c, "invalid")
  /\ conn' = [conn EXCEPT ![c] = Answered(c, ErrorFrame)]
  /\ UNCHANGED <<entries, rx, pend, replies, calls, owner, retry, fresh>>

OpSubscribe(c) ==
  /\ Reads(c, "subscribe")
  /\ IF Cardinality(conn[c].subs) >= MaxSubscriptions
     THEN /\ conn' = [conn EXCEPT ![c] = Answered(c, ErrorFrame)]
          /\ UNCHANGED <<entries, rx, fresh>>
     ELSE /\ entries' = entries \cup {[id |-> fresh, conn |-> c, kind |-> "sub", cid |-> Head(conn[c].in).cid]}
          /\ rx' = [id \in DOMAIN rx \cup {fresh} |-> IF id = fresh THEN <<>> ELSE rx[id]]
          /\ conn' = [conn EXCEPT ![c] =
                        [Answered(c, Frame("subscribed", Head(conn[c].in).cid, fresh))
                           EXCEPT !.subs = @ \cup {fresh}]]
          /\ fresh' = fresh + 1
  /\ UNCHANGED <<pend, replies, calls, owner, retry>>

(* The forwarder is aborted and the subscription leaves the bus. *)
Unforward(ids) ==
  /\ entries' = {e \in entries : e.id \notin ids}
  /\ rx' = [id \in DOMAIN rx \ ids |-> rx[id]]

(* cancel_all: every pending call of the proxies gets a pass (or a failure, *)
(* for a channel).                                                          *)
CancelAll(proxies) ==
  LET cancelled == {p \in pend : p.proxy \in proxies}
  IN  /\ pend' = pend \ cancelled
      /\ replies' = replies \cup {[req |-> p.req, action |-> "pass"] : p \in cancelled}

(* Unsubscribing an interceptor cancels its calls before it leaves the bus. *)
OpUnsubscribe(c) ==
  /\ Reads(c, "unsubscribe")
  /\ LET id == Head(conn[c].in).id
     IN  CASE id \in conn[c].subs ->
                /\ conn' = [conn EXCEPT ![c].in = Tail(@), ![c].subs = @ \ {id}]
                /\ Unforward({id})
                /\ UNCHANGED <<pend, replies>>
           [] id \in conn[c].icpts ->
                /\ conn' = [conn EXCEPT ![c].in = Tail(@), ![c].icpts = @ \ {id}, ![c].call = id]
                /\ CancelAll({Icpt(id)})
                /\ UNCHANGED <<entries, rx>>
           [] OTHER ->
                /\ conn' = [conn EXCEPT ![c].in = Tail(@)]
                /\ UNCHANGED <<entries, rx, pend, replies>>
  /\ UNCHANGED <<calls, owner, retry, fresh>>

InterceptorLeaves(c) ==
  /\ conn[c].st = "open" /\ \E e \in entries : e.id = conn[c].call /\ e.kind = "icpt"
  /\ conn' = [conn EXCEPT ![c].call = 0]
  /\ entries' = {e \in entries : e.id # conn[c].call}
  /\ UNCHANGED <<rx, pend, replies, calls, owner, retry, fresh>>

OpRegisterInterceptor(c) ==
  /\ Reads(c, "register_interceptor")
  /\ IF Cardinality(conn[c].icpts) >= MaxInterceptors
     THEN conn' = [conn EXCEPT ![c] = Answered(c, ErrorFrame)] /\ UNCHANGED <<entries, fresh>>
     ELSE /\ entries' = entries \cup {[id |-> fresh, conn |-> c, kind |-> "icpt", cid |-> NoCid]}
          /\ conn' = [conn EXCEPT ![c] =
                        [Answered(c, Frame("interceptor_registered", Head(conn[c].in).cid, fresh))
                           EXCEPT !.icpts = @ \cup {fresh}]]
          /\ fresh' = fresh + 1
  /\ UNCHANGED <<rx, pend, replies, calls, owner, retry>>

(* A second connection replaces the first in the registry of the bus. *)
OpRegisterChannelType(c) ==
  /\ Reads(c, "register_channel_type")
  /\ IF conn[c].chan
     THEN conn' = [conn EXCEPT ![c] = Answered(c, ErrorFrame)] /\ UNCHANGED owner
     ELSE /\ conn' = [conn EXCEPT ![c] =
                        [Answered(c, Frame("channel_registered", Head(conn[c].in).cid, 0)) EXCEPT !.chan = TRUE]]
          /\ owner' = c
  /\ UNCHANGED <<entries, rx, pend, replies, calls, retry, fresh>>

(* intercept_result and deliver_result: a result goes to the call that      *)
(* waits for it at a proxy this connection still has, and is dropped else.  *)
OpResult(c) ==
  /\ Reads(c, "result")
  /\ LET f == Head(conn[c].in)
         match == {p \in pend : p.req = f.id /\ p.proxy \in {Icpt(id) : id \in conn[c].icpts} \cup {Chan(c)}}
     IN  /\ pend' = pend \ match
         /\ replies' = replies \cup {[req |-> p.req, action |-> f.action] : p \in match}
  /\ conn' = [conn EXCEPT ![c].in = Tail(@)]
  /\ UNCHANGED <<entries, rx, calls, owner, retry, fresh>>

-----------------------------------------------------------------------------
(* Forwarders and the write half of the connection task                     *)

Forward(id) ==
  /\ id \in DOMAIN rx /\ rx[id] # <<>>
  /\ LET c == ConnOf(id)
     IN  /\ Len(conn[c].fwd) < ForwardSize
         /\ conn' = [conn EXCEPT ![c].fwd = Append(@, Frame("event", Head(rx[id]), id))]
  /\ rx' = [rx EXCEPT ![id] = Tail(@)]
  /\ UNCHANGED <<entries, pend, replies, calls, owner, retry, fresh>>

WriteForwarded(c) ==
  LET k == conn[c]
  IN  /\ Ready(c) /\ k.fwd # <<>>
      /\ conn' = [conn EXCEPT ![c] = IF k.up THEN ws_send([k EXCEPT !.fwd = Tail(@)], Head(k.fwd))
                                    ELSE [k EXCEPT !.st = "subs"]]
      /\ UNCHANGED <<entries, rx, pend, replies, calls, owner, retry, fresh>>

(* The end of the stream is seen after the frames sent before it. *)
ReadClosed(c) ==
  /\ Ready(c) /\ ~conn[c].up /\ conn[c].in = <<>>
  /\ conn' = [conn EXCEPT ![c].st = "subs"]
  /\ UNCHANGED <<entries, rx, pend, replies, calls, owner, retry, fresh>>

-----------------------------------------------------------------------------
(* Cleanup after a disconnect: subscriptions, channels, then interceptors,  *)
(* which leave the bus before their calls are cancelled.                    *)

\* Mutant: only the subscriptions of the connection are cleaned up.
CleanInterceptorsForgotten(c) ==
  /\ conn[c].st = "icpts"
  /\ conn' = [conn EXCEPT ![c].st = "closed"]
  /\ UNCHANGED <<entries, rx, pend, replies, calls, owner, retry, fresh>>

CleanSubscriptions(c) ==
  /\ conn[c].st = "subs"
  /\ \/ /\ conn[c].subs = {}
        /\ conn' = [conn EXCEPT ![c].st = "chan"] /\ UNCHANGED <<entries, rx>>
     \/ \E id \in conn[c].subs :
          conn' = [conn EXCEPT ![c].subs = @ \ {id}] /\ Unforward({id})
  /\ UNCHANGED <<pend, replies, calls, owner, retry, fresh>>

(* The channel type stays in the registry: what is sent to it later fails.  *)
CleanChannels(c) ==
  /\ conn[c].st = "chan"
  /\ CancelAll({Chan(c)})
  /\ conn' = [conn EXCEPT ![c].st = "icpts"]
  /\ UNCHANGED <<entries, rx, calls, owner, retry, fresh>>

CleanInterceptors(c) ==
  /\ conn[c].st = "icpts"
  /\ entries' = {e \in entries : e.id \notin conn[c].icpts}
  /\ conn' = [conn EXCEPT ![c].st = "cancel"]
  /\ UNCHANGED <<rx, pend, replies, calls, owner, retry, fresh>>

(* The task returns and drops the receiving end of the forward channel. *)
CancelInterceptors(c) ==
  /\ conn[c].st = "cancel"
  /\ CancelAll({Icpt(id) : id \in conn[c].icpts})
  /\ conn' = [conn EXCEPT ![c].st = "closed", ![c].icpts = {}, ![c].fwd = <<>>]
  /\ UNCHANGED <<entries, rx, calls, owner, retry, fresh>>

-----------------------------------------------------------------------------
(* WsRemoteChannel::deliver, called by the retry task.  Its timeout starts  *)
(* when the frame has been queued.                                          *)

DeliverStart ==
  /\ retry.st = "idle" /\ owner # 0
  /\ retry' = [st |-> "send", req |-> fresh, to |-> owner]
  /\ pend' = pend \cup {[req |-> fresh, proxy |-> Chan(owner)]}
  /\ fresh' = fresh + 1
  /\ UNCHANGED <<conn, entries, rx, replies, calls, owner>>

DeliverSend ==
  /\ retry.st = "send"
  /\ IF conn[retry.to].st = "closed"
     THEN retry' = NoRetry /\ Forget(retry.req) /\ UNCHANGED conn
     ELSE /\ Len(conn[retry.to].fwd) < ForwardSize
          /\ conn' = [conn EXCEPT ![retry.to].fwd = Append(@, Frame("deliver", NoCid, retry.req))]
          /\ retry' = [retry EXCEPT !.st = "wait"]
          /\ UNCHANGED <<pend, replies>>
  /\ UNCHANGED <<entries, rx, calls, owner, fresh>>

DeliverReplied ==
  /\ retry.st = "wait"
  /\ \E r \in replies : r.req = retry.req /\ replies' = replies \ {r}
  /\ retry' = NoRetry
  /\ UNCHANGED <<conn, entries, rx, pend, calls, owner, fresh>>

DeliverTimedOut ==
  /\ retry.st = "wait"
  /\ Forget(retry.req)
  /\ retry' = NoRetry
  /\ UNCHANGED <<conn, entries, rx, calls, owner, fresh>>
=============================================================================
