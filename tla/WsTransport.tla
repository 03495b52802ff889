----------------------------- MODULE WsTransport -----------------------------
(***************************************************************************)
(* The WebSocket server with its clients: a WsClient whose connections are *)
(* lost and made again, and peers that speak the protocol themselves,      *)
(* register interceptors and channels, and answer as they like.            *)
(***************************************************************************)
EXTENDS WsClient

CONSTANTS
  Workloads   \* bound: what happens in a behaviour, see Init

VARIABLES
  peers,      \* the connections that peers may make
  budget      \* what is left of the operations of the workload

vars == <<serverVars, clientVars, peers, budget>>

Spend(what) == budget[what] > 0 /\ budget' = [budget EXCEPT ![what] = @ - 1]

-----------------------------------------------------------------------------
(* Peers and the network                                                    *)

ToConn(c, frame) == [conn EXCEPT ![c].in = Append(@, frame)]

PeerConnects(c) ==
  /\ c \in peers
  /\ Accept(c)
  /\ UNCHANGED <<clientVars, peers, budget>>

PeerSends(c, op) ==
  /\ c \in peers /\ conn[c].up
  /\ op \in budget.ops
  /\ Spend("frames")
  /\ conn' = ToConn(c, Frame(op, <<"peer", c>>, 0))
  /\ UNCHANGED <<entries, rx, pend, replies, calls, owner, retry, fresh, clientVars, peers>>

PeerUnsubscribes(c, id) ==
  /\ c \in peers /\ conn[c].up /\ id \in conn[c].subs \cup conn[c].icpts
  /\ Spend("frames")
  /\ conn' = ToConn(c, Frame("unsubscribe", <<"peer", c>>, id))
  /\ UNCHANGED <<entries, rx, pend, replies, calls, owner, retry, fresh, clientVars, peers>>

(* A peer reads a frame and may send the result, or the reply, it asks for. *)
PeerReads(c) ==
  /\ c \in peers /\ conn[c].up /\ conn[c].out # <<>>
  /\ LET f == Head(conn[c].out)
         k == [conn[c] EXCEPT !.out = Tail(@)]
         sends == CASE f.op \in {"intercept", "deliver"} ->
                         {[Frame("result", NoCid, f.id) EXCEPT !.action = a] : a \in {"pass", "drop"}}
                    [] f.op = "event" /\ f.cid[1] = "request" ->
                         {Frame("reply", NoCid, f.cid[2])}
                    [] OTHER -> {}
     IN  conn' \in {[conn EXCEPT ![c] = k]} \cup {[conn EXCEPT ![c] = [k EXCEPT !.in = Append(@, g)]] : g \in sends}
  /\ UNCHANGED <<entries, rx, pend, replies, calls, owner, retry, fresh, clientVars, peers, budget>>

(* A connection is closed or lost: what was sent to the client does not     *)
(* arrive any more, what it sent may.                                       *)
Lost(c) ==
  /\ conn[c].up
  /\ Spend("losses")
  /\ \E in \in {conn[c].in, <<>>} :
       conn' = [conn EXCEPT ![c].up = FALSE, ![c].out = <<>>, ![c].in = in]
  /\ UNCHANGED <<entries, rx, pend, replies, calls, owner, retry, fresh, clientVars, peers>>

-----------------------------------------------------------------------------
Server(step) == step /\ UNCHANGED <<clientVars, peers, budget>>
Client(step) == step /\ UNCHANGED <<peers, budget>>

CallStep(k) ==
  InterceptStart(k) \/ InterceptSend(k) \/ InterceptReplied(k) \/ InterceptTimeout(k)
  \/ FanOut(k) \/ RequestTimeout(k) \/ CallEnds(k)

(* The task of a connection. *)
ConnStep(c) ==
  \/ OpCall(c, "publish") \/ OpCall(c, "request") \/ OpReply(c) \/ OpRefused(c) \/ OpSubscribe(c)
  \/ OpUnsubscribe(c) \/ InterceptorLeaves(c) \/ OpRegisterInterceptor(c)
  \/ OpRegisterChannelType(c) \/ OpResult(c)
  \/ WriteForwarded(c) \/ ReadClosed(c)
  \/ CleanSubscriptions(c) \/ CleanChannels(c) \/ CleanInterceptors(c) \/ CancelInterceptors(c)

RetryStep == DeliverSend \/ DeliverReplied \/ DeliverTimedOut

ServerStep ==
  \/ \E k \in calls : CallStep(k)
  \/ \E c \in Conns : ConnStep(c)
  \/ \E id \in DOMAIN rx : Forward(id)
  \/ RetryStep

ManagerStep ==
  \/ \E c \in Conns \ peers : Connect(c)
  \/ Resubscribe \/ SendCommand \/ ReceiveFrame \/ ConnectionLost \/ FailAllPending

CallerStep ==
  \/ \E k \in Callers : Enqueue(k) \/ Returns(k) \/ Register(k)
  \/ \E n \in DOMAIN inbox : Read(n)

Next ==
  \/ Server(ServerStep)
  \/ Client(ManagerStep)
  \/ Client(CallerStep)
  \/ \E k \in Callers, op \in budget.client : Client(Begin(k, op))
  \/ \E k \in Callers, h \in handles : Client(Unsubscribe(k, h))
  \/ Spend("failures") /\ ConnectFails /\ UNCHANGED peers
  \/ Spend("locals") /\ PublishLocally /\ UNCHANGED <<clientVars, peers>>
  \/ Spend("deliveries") /\ DeliverStart /\ UNCHANGED <<clientVars, peers>>
  \/ \E c \in Conns : Lost(c)
  \/ \E c \in peers : \/ PeerConnects(c) \/ PeerReads(c)
                      \/ \E op \in budget.ops : PeerSends(c, op)
                      \/ \E id \in conn[c].subs \cup conn[c].icpts : PeerUnsubscribes(c, id)

Init ==
  /\ conn = [c \in Conns |-> NewConn]
  /\ entries = {} /\ rx = <<>> /\ pend = {} /\ replies = {} /\ calls = {}
  /\ owner = 0 /\ retry = NoRetry /\ fresh = 1
  /\ mgr = <<>> /\ pending = {} /\ answers = {} /\ handles = {} /\ inbox = <<>>
  /\ caller = [k \in Callers |-> IdleCaller]
  /\ \E w \in Workloads :
       /\ peers = w.peers
       /\ budget = w.budget
       /\ manager = IF w.peers = Conns THEN [NewManager EXCEPT !.st = "gone"] ELSE NewManager

(* Tasks run, timeouts fire; nothing is assumed of the clients. *)
Spec ==
  /\ Init /\ [][Next]_vars
  /\ WF_vars(Server(\E k \in calls : CallStep(k)))
  /\ \A c \in Conns : WF_vars(Server(ConnStep(c)))

-----------------------------------------------------------------------------
(* Whoever was connected leaves nothing behind: when the task of a lost     *)
(* connection has returned, none of its subscriptions and interceptors is   *)
(* on the bus and no forwarder of it runs.                                  *)
NothingLeftOfClosed ==
  \A c \in Conns :
    conn[c].st = "closed" =>
      /\ \A e \in entries : e.conn # c
      /\ \A f \in DOMAIN rx : \E e \in entries : e.id = f

(* pending_replies does not leak and does not mix up: an entry, and a       *)
(* result, belongs to a call that waits for it, however calls are cut off   *)
(* by timeouts, cancelled, answered late, twice or by another connection.   *)
PendingMatched ==
  LET waits == {k.req : k \in {x \in calls : x.st \in {"send", "wait"}}}
               \cup (IF retry.st = "idle" THEN {} ELSE {retry.req})
  IN  /\ \A p \in pend : p.req \in waits
      /\ \A r \in replies : r.req \in waits /\ \A p \in pend : p.req # r.req

(* A call of the client does not outlive the connection its frame was sent  *)
(* on: when the manager has gone on to another one, the caller has got the  *)
(* error.                                                                   *)
CallsDieWithConnection ==
  \A k \in Callers :
    /\ caller[k].st = "waiting" /\ caller[k].on # 0
    /\ manager.conn # caller[k].on \/ manager.st \in {"down", "gone"}
    => CallCid(caller[k].n) \notin pending

(* A publish returns whatever the clients behind remote interceptors do:    *)
(* not answer, not read, register and leave, or be the publisher itself,    *)
(* whose connection reads nothing until the publish is over.                *)
PublishesEnd == []<>(\A k \in calls : k.st \in {"done", "failed"})
=============================================================================
