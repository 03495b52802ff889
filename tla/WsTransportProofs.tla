-------------------------- MODULE WsTransportProofs --------------------------
(***************************************************************************)
(* What the WebSocket transport keeps for any number of connections,       *)
(* callers and proxies and any sizes of the queues: a closed connection    *)
(* leaves nothing on the bus, the pending replies belong to calls that     *)
(* wait for them, and a client's call ends with its connection.            *)
(***************************************************************************)
EXTENDS WsTransport, TLAPS

ConnFields == {"st", "up", "in", "out", "fwd", "subs", "icpts", "chan", "call", "cid"}
CallFields == {"id", "by", "kind", "st", "todo", "targets", "req"}
EntryFields == {"id", "conn", "kind", "cid"}
CallerFields == {"st", "op", "n", "id", "on"}

IsConn(x) == x = [f \in ConnFields |-> x[f]]
IsCall(x) == x = [f \in CallFields |-> x[f]]
IsCaller(x) == x = [f \in CallerFields |-> x[f]]

ServerShape ==
  /\ fresh \in Nat \ {0}
  /\ conn = [c \in Conns |-> conn[c]]
  /\ \A c \in Conns : IsConn(conn[c])
  /\ \A k \in calls : IsCall(k)

(* Ids of calls are given out once; a connection's task waits for its own   *)
(* call.                                                                    *)
CallsOK ==
  /\ \A k \in calls : k.id \in Nat \ {0} /\ k.id < fresh
  /\ \A k, l \in calls : k.id = l.id => k = l
  /\ \A k \in calls : k.by # 0 => k.by \in Conns /\ conn[k.by].call = k.id
  /\ \A c \in Conns : conn[c].call \in Nat /\ conn[c].call < fresh

(* An entry of the bus is known to its connection, which has not come to    *)
(* the step that removes it.                                                *)
SubKnown(e) == e.id \in conn[e.conn].subs /\ conn[e.conn].st \in {"open", "subs"}
IcptKnown(e) ==
  \/ e.id \in conn[e.conn].icpts /\ conn[e.conn].st \in {"open", "subs", "chan", "icpts"}
  \/ e.id = conn[e.conn].call /\ conn[e.conn].st = "open"
EntriesOK ==
  /\ \A e \in entries : e.id \in Nat \ {0} /\ e.id < fresh /\ e.conn \in Conns /\ e.kind \in {"sub", "icpt"}
  /\ \A e, f \in entries : e.id = f.id => e = f
  /\ \A e \in entries, k \in calls : e.id # k.id
  /\ \A e \in entries : e.kind = "sub" => SubKnown(e)
  /\ \A e \in entries : e.kind = "icpt" => IcptKnown(e)
  /\ \A c \in Conns : \A id \in conn[c].subs :
       \E e \in entries : e.id = id /\ e.kind = "sub" /\ e.conn = c
  /\ \A c \in Conns, e \in entries : conn[c].call = e.id => e.conn = c /\ e.id \notin conn[c].icpts
  /\ \A c \in Conns : conn[c].st \in {"new", "open", "subs", "chan", "icpts"} =>
       \A id \in conn[c].icpts : \E e \in entries : e.id = id /\ e.kind = "icpt" /\ e.conn = c
  /\ \A id \in DOMAIN rx : \E e \in entries : e.id = id /\ e.kind = "sub"

(* The requests somebody waits for: a publish at a remote interceptor, or   *)
(* the retry task.                                                          *)
Calling(k) == k.st \in {"send", "wait"}
WaitedFor(r) == (\E k \in calls : Calling(k) /\ k.req = r) \/ (retry.st # "idle" /\ retry.req = r)
PendingOK ==
  /\ \A k \in calls : Calling(k) => k.req \in Nat /\ k.req < fresh
  /\ \A k, l \in calls : Calling(k) /\ Calling(l) /\ k.req = l.req => k = l
  /\ retry = [f \in {"st", "req", "to"} |-> retry[f]]
  /\ retry.st # "idle" => retry.req \in Nat /\ retry.req < fresh
  /\ \A k \in calls : Calling(k) /\ retry.st # "idle" => k.req # retry.req
  /\ \A p \in pend : WaitedFor(p.req)
  /\ \A p, q \in pend : p.req = q.req => p = q
  /\ \A r \in replies : WaitedFor(r.req)
  /\ \A r, s \in replies : r.req = s.req => r = s
  /\ \A r \in replies, p \in pend : p.req # r.req

CallersOK ==
  /\ caller = [k \in Callers |-> caller[k]]
  /\ \A k \in Callers : IsCaller(caller[k]) /\ caller[k].n \in Nat /\ caller[k].n < fresh
  /\ \A k \in Callers : caller[k].st \in {"checked", "waiting"} => caller[k].n # 0
  /\ \A k \in Callers : caller[k].st = "checked" => caller[k].on = 0
  /\ \A k, l \in Callers : caller[k].n = caller[l].n /\ caller[k].n # 0 => k = l
  /\ manager = [f \in {"st", "conn", "failed"} |-> manager[f]]
  /\ \A k \in Callers :
       caller[k].st = "waiting" /\ caller[k].on # 0 /\ CallCid(caller[k].n) \in pending =>
         manager.conn = caller[k].on /\ manager.st \in {"up", "fail"}

BusOK == ServerShape /\ CallsOK /\ EntriesOK
TransportInv == BusOK /\ PendingOK /\ CallersOK

-----------------------------------------------------------------------------
(* The server's connections, calls and entries                              *)

(* The connections but for their queues. *)
Kept ==
  /\ conn' = [c \in Conns |-> conn'[c]]
  /\ \A c \in Conns :
       /\ IsConn(conn'[c])
       /\ conn'[c].st = conn[c].st /\ conn'[c].subs = conn[c].subs
       /\ conn'[c].icpts = conn[c].icpts /\ conn'[c].call = conn[c].call

(* The calls go on: none is new. *)
CallsGoOn ==
  /\ \A k \in calls' : IsCall(k) /\ \E l \in calls : k.id = l.id /\ k.by = l.by
  /\ \A k, l \in calls' : k.id = l.id => k = l

(* ws_send writes to the socket and touches nothing else of the connection. *)
LEMMA SendKeeps ==
  ASSUME NEW k, IsConn(k), NEW frame
  PROVE  LET s == ws_send(k, frame)
         IN  IsConn(s) /\ \A f \in ConnFields \ {"out"} : s[f] = k[f]
  BY DEF IsConn, ConnFields, ws_send

(* An update of one connection's queues keeps the rest, whichever it is. *)
LEMMA QueuesKept ==
  ASSUME ServerShape, NEW c, NEW k, conn' = [conn EXCEPT ![c] = k],
         c \in Conns => IsConn(k) /\ k.st = conn[c].st /\ k.subs = conn[c].subs
                         /\ k.icpts = conn[c].icpts /\ k.call = conn[c].call
  PROVE  Kept
  BY DEF ServerShape, Kept

(* A connection that stays as it is, is kept. *)
LEMMA SameKept ==
  ASSUME ServerShape, UNCHANGED conn
  PROVE  Kept
  BY DEF ServerShape, Kept

(* Calls that stay as they are, go on. *)
LEMMA SameGoOn ==
  ASSUME ServerShape, CallsOK, UNCHANGED calls
  PROVE  CallsGoOn
  BY DEF ServerShape, CallsOK, CallsGoOn

(* One call that takes a step goes on with the others. *)
LEMMA OneGoesOn ==
  ASSUME ServerShape, CallsOK, NEW k \in calls, NEW l, IsCall(l), l.id = k.id, l.by = k.by, Becomes(k, l)
  PROVE  CallsGoOn
  BY DEF ServerShape, CallsOK, CallsGoOn, Becomes

(* Nothing that the bus knows of a connection is touched. *)
LEMMA QuietStep ==
  ASSUME BusOK, Kept, CallsGoOn, UNCHANGED entries, DOMAIN rx' \subseteq DOMAIN rx,
         fresh' \in Nat, fresh' >= fresh
  PROVE  BusOK'
<1> USE DEF BusOK
<1>1. ServerShape'
  BY DEF ServerShape, Kept, CallsGoOn
<1>2. CallsOK'
  BY DEF ServerShape, CallsOK, Kept, CallsGoOn
<1>3. EntriesOK'
  <2>1. \A e \in entries : e.id \in Nat \ {0} /\ e.id < fresh' /\ e.conn \in Conns /\ e.kind \in {"sub", "icpt"}
    BY DEF ServerShape, EntriesOK
  <2>2. \A e \in entries, k \in calls' : e.id # k.id
    BY DEF EntriesOK, CallsGoOn
  <2>3. \A e \in entries : e.kind = "sub" => SubKnown(e)'
    BY <2>1 DEF EntriesOK, SubKnown, Kept
  <2>4. \A e \in entries : e.kind = "icpt" => IcptKnown(e)'
    BY <2>1 DEF EntriesOK, IcptKnown, Kept
  <2> QED
    BY <2>1, <2>2, <2>3, <2>4 DEF EntriesOK, Kept
<1> QED
  BY <1>1, <1>2, <1>3

(* The steps of a call before it ends: intercept() at each proxy, then the  *)
(* fan-out and the wait for a reply.                                        *)
LEMMA CallStepsKeepBus ==
  ASSUME BusOK, NEW k \in calls,
         InterceptStart(k) \/ InterceptSend(k) \/ InterceptReplied(k) \/ InterceptTimeout(k)
         \/ FanOut(k) \/ RequestTimeout(k)
  PROVE  BusOK'
<1>1. ServerShape /\ CallsOK /\ fresh \in Nat /\ IsCall(k)
  BY DEF BusOK, ServerShape
<1> DEFINE Going(l) == IsCall(l) /\ l.id = k.id /\ l.by = k.by
<1>2. Going(Passed(k)) /\ Going([Passed(k) EXCEPT !.st = "done"])
  BY <1>1 DEF Passed, IsCall, CallFields
<1>3. \A st : Going([k EXCEPT !.st = st]) /\ \A r : Going([k EXCEPT !.st = st, !.req = r])
  BY <1>1 DEF IsCall, CallFields
<1> HIDE DEF Going
<1>4. ASSUME NEW l, Going(l), Becomes(k, l)
      PROVE  CallsGoOn
  BY <1>1, <1>4, OneGoesOn DEF Going
<1>5. ASSUME UNCHANGED conn PROVE Kept
  BY <1>1, <1>5, SameKept
<1>6. CASE InterceptStart(k)
  <2>1. CallsGoOn
    BY <1>2, <1>3, <1>4, <1>6 DEF InterceptStart
  <2> QED
    BY <1>1, <1>5, <1>6, <2>1, QuietStep DEF InterceptStart
<1>7. CASE InterceptSend(k)
  <2>1. CallsGoOn
    BY <1>2, <1>3, <1>4, <1>7 DEF InterceptSend
  <2>2. CASE UNCHANGED conn
    BY <1>1, <1>5, <1>7, <2>1, <2>2, QuietStep DEF InterceptSend
  <2>3. CASE ~UNCHANGED conn
    <3> DEFINE c == Head(k.todo).conn
               x == [conn[c] EXCEPT !.fwd = Append(@, Frame("intercept", NoCid, k.req))]
    <3>1. conn' = [conn EXCEPT ![c] = x]
      BY <1>7, <2>3 DEF InterceptSend
    <3>2. c \in Conns => IsConn(x) /\ x.st = conn[c].st /\ x.subs = conn[c].subs
                         /\ x.icpts = conn[c].icpts /\ x.call = conn[c].call
      BY <1>1, ZenonT(40) DEF ServerShape, IsConn, ConnFields
    <3> HIDE DEF c, x
    <3>3. Kept
      BY <1>1, <3>1, <3>2, QueuesKept
    <3> QED
      BY <1>1, <1>7, <2>1, <3>3, QuietStep DEF InterceptSend
  <2> QED
    BY <2>2, <2>3
<1>8. CASE InterceptReplied(k)
  <2>1. CallsGoOn
    BY <1>2, <1>4, <1>8 DEF InterceptReplied
  <2> QED
    BY <1>1, <1>5, <1>8, <2>1, QuietStep DEF InterceptReplied
<1>9. CASE InterceptTimeout(k)
  BY <1>1, <1>2, <1>4, <1>5, <1>9, QuietStep DEF InterceptTimeout
<1>10. CASE FanOut(k)
  <2>1. CallsGoOn
    BY <1>3, <1>4, <1>10 DEF FanOut
  <2>2. DOMAIN rx' = DOMAIN rx
    BY <1>10 DEF FanOut
  <2> QED
    BY <1>1, <1>5, <1>10, <2>1, <2>2, QuietStep DEF FanOut
<1>11. CASE RequestTimeout(k)
  <2>1. CallsGoOn
    BY <1>3, <1>4, <1>11 DEF RequestTimeout
  <2> QED
    BY <1>1, <1>5, <1>11, <2>1, QuietStep DEF RequestTimeout
<1> QED
  BY <1>6, <1>7, <1>8, <1>9, <1>10, <1>11

(* The end of a call lets the connection's task go on. *)
LEMMA CallEndsKeepsBus ==
  ASSUME BusOK, NEW k \in calls, CallEnds(k)
  PROVE  BusOK'
<1>1. ServerShape /\ CallsOK /\ EntriesOK /\ IsCall(k) /\ calls' = calls \ {k}
  BY DEF BusOK, ServerShape, CallEnds
<1>2. CallsGoOn
  BY <1>1 DEF ServerShape, CallsOK, CallsGoOn
<1>3. CASE k.by = 0
  BY <1>1, <1>2, <1>3, SameKept, QuietStep DEF CallEnds, ServerShape
<1>4. CASE k.by # 0
  <2> DEFINE c == k.by
  <2>1. c \in Conns /\ conn[c].call = k.id
    BY <1>1, <1>4 DEF CallsOK
  <2>2. PICK frame : conn' = [conn EXCEPT ![c] = ws_send([conn[c] EXCEPT !.call = 0, !.cid = NoCid], frame)]
    BY <1>4 DEF CallEnds
  <2> DEFINE x == [conn[c] EXCEPT !.call = 0, !.cid = NoCid]
             y == ws_send(x, frame)
  <2>3. IsConn(x) /\ x.call = 0 /\ x.st = conn[c].st /\ x.subs = conn[c].subs /\ x.icpts = conn[c].icpts
    BY <1>1, <2>1, ZenonT(40) DEF ServerShape, IsConn, ConnFields
  <2>4. IsConn(y) /\ \A f \in ConnFields \ {"out"} : y[f] = x[f]
    <3> HIDE DEF x
    <3> QED
      BY <2>3, SendKeeps
  <2>5. IsConn(y) /\ y.call = 0 /\ y.st = conn[c].st /\ y.subs = conn[c].subs /\ y.icpts = conn[c].icpts
    <3> HIDE DEF x, y
    <3> QED
      BY <2>3, <2>4 DEF ConnFields
  <2>6. conn' = [conn EXCEPT ![c] = y]
    BY <2>2
  <2> HIDE DEF x, y, c
  <2>7. /\ conn' = [d \in Conns |-> conn'[d]]
        /\ conn'[c] = y
        /\ \A d \in Conns \ {c} : conn'[d] = conn[d]
    BY <1>1, <2>1, <2>6 DEF ServerShape
  <2>8. UNCHANGED <<entries, rx, fresh>>
    BY DEF CallEnds
  <2>9. ServerShape'
    BY <1>1, <2>5, <2>7, <2>8 DEF ServerShape
  <2>10. CallsOK'
    <3>1. \A l \in calls' : l.by # 0 => l.by # c
      BY <1>1, <2>1 DEF CallsOK
    <3> QED
      BY <1>1, <2>1, <2>5, <2>7, <2>8, <3>1 DEF CallsOK, ServerShape
  <2>11. EntriesOK'
    <3>1. \A e \in entries : e.id # conn[c].call
      BY <1>1, <2>1 DEF EntriesOK
    <3>2. \A e \in entries : e.kind = "sub" => SubKnown(e)'
      BY <1>1, <2>1, <2>5, <2>7, <2>8 DEF EntriesOK, SubKnown
    <3>3. \A e \in entries : e.kind = "icpt" => IcptKnown(e)'
      BY <1>1, <2>1, <2>5, <2>7, <2>8, <3>1 DEF EntriesOK, IcptKnown
    <3>4. \A d \in Conns : conn'[d].st = conn[d].st /\ conn'[d].subs = conn[d].subs /\ conn'[d].icpts = conn[d].icpts
      BY <2>1, <2>5, <2>7
    <3>5. \A d \in Conns, e \in entries : conn'[d].call = e.id => conn[d].call = e.id
      BY <1>1, <2>5, <2>7 DEF EntriesOK
    <3> QED
      BY <1>1, <2>8, <3>2, <3>3, <3>4, <3>5 DEF EntriesOK
  <2> QED
    BY <2>9, <2>10, <2>11 DEF BusOK
<1> QED
  BY <1>3, <1>4

(* A new record for one connection. *)
LEMMA OneConn ==
  ASSUME ServerShape, NEW c \in Conns, NEW y, IsConn(y), conn' = [conn EXCEPT ![c] = y]
  PROVE  /\ conn' = [d \in Conns |-> conn'[d]]
         /\ \A d \in Conns : IsConn(conn'[d])
         /\ conn'[c] = y
         /\ \A d \in Conns \ {c} : conn'[d] = conn[d]
  BY DEF ServerShape

(* A publish or a request begins, in the process or for a connection that   *)
(* was between two operations.                                              *)
LEMMA CallBeginsKeepsBus ==
  ASSUME BusOK, NEW by, NEW kind,
         \/ by = 0 /\ Kept
         \/ /\ by \in Conns /\ conn[by].call = 0
            /\ \E y : /\ IsConn(y) /\ conn' = [conn EXCEPT ![by] = y] /\ y.call = fresh
                      /\ y.st = conn[by].st /\ y.subs = conn[by].subs /\ y.icpts = conn[by].icpts,
         calls' = calls \cup {Call(by, kind)}, fresh' = fresh + 1, UNCHANGED <<entries, rx>>
  PROVE  BusOK'
<1>1. ServerShape /\ CallsOK /\ EntriesOK /\ fresh \in Nat \ {0}
  BY DEF BusOK, ServerShape
<1>2. /\ conn' = [d \in Conns |-> conn'[d]]
      /\ \A d \in Conns : IsConn(conn'[d])
      /\ \A d \in Conns : conn'[d].st = conn[d].st /\ conn'[d].subs = conn[d].subs /\ conn'[d].icpts = conn[d].icpts
      /\ \A d \in Conns : \/ conn'[d].call = conn[d].call
                          \/ d = by /\ conn[d].call = 0 /\ conn'[d].call = fresh
      /\ by # 0 => by \in Conns /\ conn'[by].call = fresh
  <2>1. CASE by = 0 /\ Kept
    BY <2>1 DEF Kept
  <2>2. CASE ~(by = 0 /\ Kept)
    <3>1. PICK y : /\ IsConn(y) /\ conn' = [conn EXCEPT ![by] = y] /\ y.call = fresh
                   /\ y.st = conn[by].st /\ y.subs = conn[by].subs /\ y.icpts = conn[by].icpts
      BY <2>2
    <3>2. /\ conn' = [d \in Conns |-> conn'[d]]
          /\ \A d \in Conns : IsConn(conn'[d])
          /\ conn'[by] = y
          /\ \A d \in Conns \ {by} : conn'[d] = conn[d]
      BY <1>1, <2>2, <3>1, OneConn
    <3> QED
      BY <2>2, <3>1, <3>2
  <2> QED
    BY <2>1, <2>2
<1> DEFINE k == Call(by, kind)
<1>3. IsCall(k) /\ k.id = fresh /\ k.by = by
  BY DEF Call, IsCall, CallFields
<1>4. calls' = calls \cup {k}
  OBVIOUS
<1> HIDE DEF k
<1>5. ServerShape'
  BY <1>1, <1>2, <1>3, <1>4 DEF ServerShape
<1>7. CallsOK'
  <2>1. \A l \in calls : l.by # 0 => l.by \in Conns /\ conn'[l.by].call = l.id
    BY <1>1, <1>2 DEF CallsOK
  <2>2. by # 0 => by \in Conns /\ conn'[by].call = fresh
    BY <1>2
  <2> QED
    BY <1>1, <1>2, <1>3, <1>4, <2>1, <2>2 DEF CallsOK
<1>8. EntriesOK'
  <2>1. \A e \in entries : e.kind = "sub" => SubKnown(e)'
    BY <1>1, <1>2 DEF EntriesOK, SubKnown
  <2>2. \A e \in entries : e.kind = "icpt" => IcptKnown(e)'
    BY <1>1, <1>2 DEF EntriesOK, IcptKnown
  <2>3. \A e \in entries, l \in calls' : e.id # l.id
    BY <1>1, <1>3, <1>4 DEF EntriesOK
  <2>4. \A d \in Conns, e \in entries : conn'[d].call = e.id => conn[d].call = e.id
    BY <1>1, <1>2 DEF EntriesOK
  <2>5. \A e \in entries : e.id < fresh'
    BY <1>1 DEF EntriesOK
  <2> QED
    BY <1>1, <1>2, <2>1, <2>2, <2>3, <2>4, <2>5 DEF EntriesOK
<1> QED
  BY <1>5, <1>7, <1>8 DEF BusOK

(* A new entry of a connection: the id is known to nobody yet. *)
LEMMA EntryBeginsKeepsBus ==
  ASSUME BusOK, NEW c \in Conns, conn[c].st = "open", NEW kind \in {"sub", "icpt"}, NEW cid,
         NEW y, IsConn(y), conn' = [conn EXCEPT ![c] = y], y.st = conn[c].st, y.call = conn[c].call,
         y.subs = IF kind = "sub" THEN conn[c].subs \cup {fresh} ELSE conn[c].subs,
         y.icpts = IF kind = "icpt" THEN conn[c].icpts \cup {fresh} ELSE conn[c].icpts,
         entries' = entries \cup {[id |-> fresh, conn |-> c, kind |-> kind, cid |-> cid]},
         kind = "sub" => DOMAIN rx' = DOMAIN rx \cup {fresh}, kind = "icpt" => UNCHANGED rx,
         fresh' = fresh + 1, UNCHANGED calls
  PROVE  BusOK'
<1>1. ServerShape /\ CallsOK /\ EntriesOK /\ fresh \in Nat \ {0}
  BY DEF BusOK, ServerShape
<1>2. /\ conn' = [d \in Conns |-> conn'[d]]
      /\ \A d \in Conns : IsConn(conn'[d])
      /\ conn'[c] = y
      /\ \A d \in Conns \ {c} : conn'[d] = conn[d]
  BY <1>1, OneConn
<1>3. \A d \in Conns : conn'[d].st = conn[d].st /\ conn'[d].call = conn[d].call
                       /\ conn[d].subs \subseteq conn'[d].subs /\ conn[d].icpts \subseteq conn'[d].icpts
                       /\ conn'[d].subs \subseteq conn[d].subs \cup {fresh}
                       /\ conn'[d].icpts \subseteq conn[d].icpts \cup {fresh}
  BY <1>2
<1>4. PICK new : /\ new.id = fresh /\ new.conn = c /\ new.kind = kind
                 /\ entries' = entries \cup {new}
  OBVIOUS
<1>5. ServerShape'
  BY <1>1, <1>2 DEF ServerShape
<1>6. CallsOK'
  BY <1>1, <1>3 DEF CallsOK
<1>7. EntriesOK'
  <2>1. \A e \in entries : e.id \in Nat \ {0} /\ e.id < fresh /\ e.conn \in Conns /\ e.kind \in {"sub", "icpt"}
    BY <1>1 DEF EntriesOK
  <2>2. \A e \in entries' : e.id \in Nat \ {0} /\ e.id < fresh' /\ e.conn \in Conns /\ e.kind \in {"sub", "icpt"}
    BY <1>1, <1>4, <2>1
  <2>3. \A e, f \in entries' : e.id = f.id => e = f
    BY <1>1, <1>4, <2>1 DEF EntriesOK
  <2>4. \A e \in entries', k \in calls' : e.id # k.id
    BY <1>1, <1>4 DEF EntriesOK, CallsOK
  <2>5. \A e \in entries' : e.kind = "sub" => SubKnown(e)'
    BY <1>1, <1>2, <1>3, <1>4, <2>1 DEF EntriesOK, SubKnown
  <2>6. \A e \in entries' : e.kind = "icpt" => IcptKnown(e)'
    BY <1>1, <1>2, <1>3, <1>4, <2>1 DEF EntriesOK, IcptKnown
  <2>7. \A d \in Conns : \A id \in conn'[d].subs : \E e \in entries' : e.id = id /\ e.kind = "sub" /\ e.conn = d
    BY <1>1, <1>2, <1>4 DEF EntriesOK
  <2>8. \A d \in Conns, e \in entries' : conn'[d].call = e.id => e.conn = d /\ e.id \notin conn'[d].icpts
    BY <1>1, <1>3, <1>4, <2>1 DEF EntriesOK, CallsOK
  <2>9. \A d \in Conns : conn'[d].st \in {"new", "open", "subs", "chan", "icpts"} =>
          \A id \in conn'[d].icpts : \E e \in entries' : e.id = id /\ e.kind = "icpt" /\ e.conn = d
    BY <1>1, <1>2, <1>4 DEF EntriesOK
  <2>10. \A id \in DOMAIN rx' : \E e \in entries' : e.id = id /\ e.kind = "sub"
    BY <1>1, <1>4 DEF EntriesOK
  <2> QED
    BY <2>2, <2>3, <2>4, <2>5, <2>6, <2>7, <2>8, <2>9, <2>10 DEF EntriesOK
<1> QED
  BY <1>5, <1>6, <1>7 DEF BusOK

(* Entries of one connection leave the bus together with what the           *)
(* connection knew of them, and its task may have come to another place.    *)
Early == {"new", "open", "subs", "chan", "icpts"}
Leaves(c, gone, y) ==
  /\ IsConn(y) /\ conn' = [conn EXCEPT ![c] = y]
  /\ entries' = {e \in entries : e.id \notin gone}
  /\ \A e \in entries : e.id \in gone => e.conn = c
  /\ \/ DOMAIN rx' \subseteq DOMAIN rx \ gone
     \/ DOMAIN rx' = DOMAIN rx /\ \A e \in entries : e.id \in gone => e.kind = "icpt"
  /\ y.subs = conn[c].subs \ gone /\ y.icpts \subseteq conn[c].icpts
  /\ y.st \in Early => conn[c].st \in Early /\ y.icpts \cap gone = {}
  /\ \/ y.call = conn[c].call
     \/ y.call = 0 /\ \A k \in calls : k.by # 0 => k.by # c
  /\ \A e \in entries : e.conn = c /\ e.id \notin gone /\ e.kind = "sub" => y.st \in {"open", "subs"}
  /\ \A e \in entries : e.conn = c /\ e.id \notin gone /\ e.kind = "icpt" =>
       \/ e.id \in y.icpts /\ y.st \in {"open", "subs", "chan", "icpts"}
       \/ e.id = y.call /\ y.st = "open"
  /\ UNCHANGED <<calls, fresh>>

(* The bus and its connections still agree when entries have left. *)
LEMMA EntriesEndKeepsBus ==
  ASSUME BusOK, NEW c \in Conns, NEW gone, NEW y, Leaves(c, gone, y)
  PROVE  BusOK'
<1> USE DEF Leaves, Early
<1>1. ServerShape /\ CallsOK /\ EntriesOK /\ fresh \in Nat \ {0}
  BY DEF BusOK, ServerShape
<1>2. /\ conn' = [d \in Conns |-> conn'[d]]
      /\ \A d \in Conns : IsConn(conn'[d])
      /\ conn'[c] = y
      /\ \A d \in Conns \ {c} : conn'[d] = conn[d]
  BY <1>1, OneConn
<1>5. ServerShape'
  BY <1>1, <1>2 DEF ServerShape
<1>6. CallsOK'
  <2>1. \A k \in calls : k.by # 0 => k.by \in Conns /\ conn'[k.by].call = k.id
    BY <1>1, <1>2 DEF CallsOK
  <2>2. \A d \in Conns : conn'[d].call \in Nat /\ conn'[d].call < fresh
    BY <1>1, <1>2 DEF CallsOK
  <2> QED
    BY <1>1, <2>1, <2>2 DEF CallsOK
<1>7. EntriesOK'
  <2>1. \A e \in entries' : e \in entries /\ e.id \notin gone
    OBVIOUS
  <2>5. \A e \in entries' : e.kind = "sub" => SubKnown(e)'
    BY <1>1, <1>2, <2>1 DEF EntriesOK, SubKnown
  <2>6. \A e \in entries' : e.kind = "icpt" => IcptKnown(e)'
    BY <1>1, <1>2, <2>1 DEF EntriesOK, IcptKnown
  <2>7. \A d \in Conns : \A id \in conn'[d].subs : \E e \in entries' : e.id = id /\ e.kind = "sub" /\ e.conn = d
    BY <1>1, <1>2 DEF EntriesOK
  <2>8. \A d \in Conns, e \in entries' : conn'[d].call = e.id => e.conn = d /\ e.id \notin conn'[d].icpts
    BY <1>1, <1>2, <2>1 DEF EntriesOK
  <2>9. \A d \in Conns : conn'[d].st \in {"new", "open", "subs", "chan", "icpts"} =>
          \A id \in conn'[d].icpts : \E e \in entries' : e.id = id /\ e.kind = "icpt" /\ e.conn = d
    BY <1>1, <1>2 DEF EntriesOK
  <2>10. \A id \in DOMAIN rx' : \E e \in entries' : e.id = id /\ e.kind = "sub"
    BY <1>1 DEF EntriesOK
  <2> QED
    BY <1>1, <2>1, <2>5, <2>6, <2>7, <2>8, <2>9, <2>10 DEF EntriesOK
<1> QED
  BY <1>5, <1>6, <1>7 DEF BusOK

(* The connection after its next frame was answered. *)
LEMMA AnsweredKeeps ==
  ASSUME ServerShape, NEW c \in Conns, NEW frame
  PROVE  /\ IsConn(Answered(c, frame))
         /\ Answered(c, frame).st = conn[c].st /\ Answered(c, frame).subs = conn[c].subs
         /\ Answered(c, frame).icpts = conn[c].icpts /\ Answered(c, frame).call = conn[c].call
<1> DEFINE x == [conn[c] EXCEPT !.in = Tail(@)]
<1>1. IsConn(x) /\ x.st = conn[c].st /\ x.subs = conn[c].subs /\ x.icpts = conn[c].icpts /\ x.call = conn[c].call
  BY DEF ServerShape, IsConn, ConnFields
<1>2. Answered(c, frame) = ws_send(x, frame)
  BY DEF Answered
<1> HIDE DEF x
<1>3. IsConn(ws_send(x, frame)) /\ \A f \in ConnFields \ {"out"} : ws_send(x, frame)[f] = x[f]
  BY <1>1, SendKeeps
<1> QED
  BY <1>1, <1>2, <1>3 DEF ConnFields

(* The operations that leave the bus's entries alone. *)
LEMMA QuietOpsKeepBus ==
  ASSUME BusOK, NEW c \in Conns,
         \/ OpReply(c) \/ OpRefused(c) \/ OpRegisterChannelType(c) \/ OpResult(c)
         \/ OpCall(c, "publish") \/ OpCall(c, "request")
  PROVE  BusOK'
<1>1. ServerShape /\ CallsOK /\ fresh \in Nat
  BY DEF BusOK, ServerShape
<1>2. ASSUME NEW frame, conn' = [conn EXCEPT ![c] = Answered(c, frame)]
      PROVE  Kept
  <2> DEFINE y == Answered(c, frame)
  <2>1. /\ IsConn(y) /\ y.st = conn[c].st /\ y.subs = conn[c].subs
        /\ y.icpts = conn[c].icpts /\ y.call = conn[c].call
    BY <1>1, AnsweredKeeps
  <2>2. conn' = [conn EXCEPT ![c] = y]
    BY <1>2
  <2> HIDE DEF y
  <2> QED
    BY <1>1, <2>1, <2>2, QueuesKept
<1>3. CASE OpReply(c)
  <2>1. Kept
    BY <1>2, <1>3 DEF OpReply
  <2> DEFINE G(k) == IF k.id = Head(conn[c].in).id /\ k.st = "reply" THEN [k EXCEPT !.st = "done"] ELSE k
  <2>2. calls' = {G(k) : k \in calls}
    BY <1>3 DEF OpReply
  <2>3. \A k \in calls : IsCall(G(k)) /\ G(k).id = k.id /\ G(k).by = k.by
    BY <1>1 DEF ServerShape, IsCall, CallFields
  <2> HIDE DEF G
  <2>4. CallsGoOn
    BY <1>1, <2>2, <2>3 DEF CallsGoOn, CallsOK
  <2> QED
    BY <1>1, <1>3, <2>1, <2>4, QuietStep DEF OpReply
<1>4. CASE OpRefused(c)
  <2>1. Kept
    BY <1>2, <1>4 DEF OpRefused
  <2> QED
    BY <1>1, <1>4, <2>1, SameGoOn, QuietStep DEF OpRefused
<1>5. CASE OpRegisterChannelType(c)
  <2> DEFINE frame == Frame("channel_registered", Head(conn[c].in).cid, 0)
             x == Answered(c, frame)
             y == [x EXCEPT !.chan = TRUE]
  <2>1. conn[c].chan => Kept
    BY <1>2, <1>5 DEF OpRegisterChannelType
  <2>2. ~conn[c].chan => conn' = [conn EXCEPT ![c] = y]
    BY <1>5 DEF OpRegisterChannelType
  <2>3. /\ IsConn(x) /\ x.st = conn[c].st /\ x.subs = conn[c].subs
        /\ x.icpts = conn[c].icpts /\ x.call = conn[c].call
    BY <1>1, AnsweredKeeps
  <2> HIDE DEF x
  <2>4. /\ IsConn(y) /\ y.st = conn[c].st /\ y.subs = conn[c].subs
        /\ y.icpts = conn[c].icpts /\ y.call = conn[c].call
    BY <2>3 DEF IsConn, ConnFields
  <2> HIDE DEF y
  <2>5. ~conn[c].chan => Kept
    BY <1>1, <2>2, <2>4, QueuesKept
  <2> QED
    BY <1>1, <1>5, <2>1, <2>5, SameGoOn, QuietStep DEF OpRegisterChannelType
<1>6. CASE OpResult(c)
  <2> DEFINE y == [conn[c] EXCEPT !.in = Tail(@)]
  <2>1. conn' = [conn EXCEPT ![c] = y]
    BY <1>6 DEF OpResult
  <2>2. /\ IsConn(y) /\ y.st = conn[c].st /\ y.subs = conn[c].subs
        /\ y.icpts = conn[c].icpts /\ y.call = conn[c].call
    BY <1>1 DEF ServerShape, IsConn, ConnFields
  <2> HIDE DEF y
  <2>3. Kept
    BY <1>1, <2>1, <2>2, QueuesKept
  <2> QED
    BY <1>1, <1>6, <2>3, SameGoOn, QuietStep DEF OpResult
<1>7. ASSUME NEW kind, OpCall(c, kind)
      PROVE  BusOK'
  <2> DEFINE y == [conn[c] EXCEPT !.in = Tail(@), !.call = fresh, !.cid = Head(conn[c].in).cid]
  <2>1. /\ conn' = [conn EXCEPT ![c] = y] /\ conn[c].call = 0
        /\ calls' = calls \cup {Call(c, kind)} /\ fresh' = fresh + 1 /\ UNCHANGED <<entries, rx>>
    BY <1>7 DEF OpCall, Reads, Ready
  <2>2. /\ IsConn(y) /\ y.st = conn[c].st /\ y.subs = conn[c].subs
        /\ y.icpts = conn[c].icpts /\ y.call = fresh
    BY <1>1 DEF ServerShape, IsConn, ConnFields
  <2> HIDE DEF y
  <2> QED
    BY <2>1, <2>2, CallBeginsKeepsBus
<1> QED
  BY <1>3, <1>4, <1>5, <1>6, <1>7

(* Subscriptions and interceptors are entered. *)
LEMMA EnterKeepsBus ==
  ASSUME BusOK, NEW c \in Conns, OpSubscribe(c) \/ OpRegisterInterceptor(c)
  PROVE  BusOK'
<1>1. ServerShape /\ CallsOK /\ fresh \in Nat /\ conn[c].st = "open"
  BY DEF BusOK, ServerShape, OpSubscribe, OpRegisterInterceptor, Reads, Ready
<1>2. ASSUME conn' = [conn EXCEPT ![c] = Answered(c, ErrorFrame)], UNCHANGED <<entries, rx, fresh, calls>>
      PROVE  BusOK'
  <2> DEFINE y == Answered(c, ErrorFrame)
  <2>1. /\ IsConn(y) /\ y.st = conn[c].st /\ y.subs = conn[c].subs
        /\ y.icpts = conn[c].icpts /\ y.call = conn[c].call
    BY <1>1, AnsweredKeeps
  <2>2. conn' = [conn EXCEPT ![c] = y]
    BY <1>2
  <2> HIDE DEF y
  <2>3. Kept
    BY <1>1, <2>1, <2>2, QueuesKept
  <2> QED
    BY <1>1, <1>2, <2>3, SameGoOn, QuietStep
<1>3. CASE OpSubscribe(c) /\ Cardinality(conn[c].subs) >= MaxSubscriptions
  BY <1>2, <1>3 DEF OpSubscribe
<1>4. CASE OpRegisterInterceptor(c) /\ Cardinality(conn[c].icpts) >= MaxInterceptors
  BY <1>2, <1>4 DEF OpRegisterInterceptor
<1>5. CASE OpSubscribe(c) /\ ~(Cardinality(conn[c].subs) >= MaxSubscriptions)
  <2> DEFINE cid == Head(conn[c].in).cid
             x == Answered(c, Frame("subscribed", cid, fresh))
             y == [x EXCEPT !.subs = @ \cup {fresh}]
  <2>1. /\ conn' = [conn EXCEPT ![c] = y]
        /\ entries' = entries \cup {[id |-> fresh, conn |-> c, kind |-> "sub", cid |-> cid]}
        /\ DOMAIN rx' = DOMAIN rx \cup {fresh}
        /\ fresh' = fresh + 1 /\ UNCHANGED calls
    BY <1>5 DEF OpSubscribe
  <2>2. /\ IsConn(x) /\ x.st = conn[c].st /\ x.subs = conn[c].subs
        /\ x.icpts = conn[c].icpts /\ x.call = conn[c].call
    BY <1>1, AnsweredKeeps
  <2> HIDE DEF x
  <2>3. /\ IsConn(y) /\ y.st = conn[c].st /\ y.subs = conn[c].subs \cup {fresh}
        /\ y.icpts = conn[c].icpts /\ y.call = conn[c].call
    BY <2>2 DEF IsConn, ConnFields
  <2> HIDE DEF y
  <2> QED
    BY <1>1, <2>1, <2>3, EntryBeginsKeepsBus
<1>6. CASE OpRegisterInterceptor(c) /\ ~(Cardinality(conn[c].icpts) >= MaxInterceptors)
  <2> DEFINE x == Answered(c, Frame("interceptor_registered", Head(conn[c].in).cid, fresh))
             y == [x EXCEPT !.icpts = @ \cup {fresh}]
  <2>1. /\ conn' = [conn EXCEPT ![c] = y]
        /\ entries' = entries \cup {[id |-> fresh, conn |-> c, kind |-> "icpt", cid |-> NoCid]}
        /\ fresh' = fresh + 1 /\ UNCHANGED <<calls, rx>>
    BY <1>6 DEF OpRegisterInterceptor
  <2>2. /\ IsConn(x) /\ x.st = conn[c].st /\ x.subs = conn[c].subs
        /\ x.icpts = conn[c].icpts /\ x.call = conn[c].call
    BY <1>1, AnsweredKeeps
  <2> HIDE DEF x
  <2>3. /\ IsConn(y) /\ y.st = conn[c].st /\ y.subs = conn[c].subs
        /\ y.icpts = conn[c].icpts \cup {fresh} /\ y.call = conn[c].call
    BY <2>2 DEF IsConn, ConnFields
  <2> HIDE DEF y
  <2> QED
    BY <1>1, <2>1, <2>3, EntryBeginsKeepsBus
<1> QED
  BY <1>3, <1>4, <1>5, <1>6

(* What EntriesOK says of one connection. *)
LEMMA OfOneConnection ==
  ASSUME BusOK, NEW c \in Conns
  PROVE  /\ \A e \in entries : e.id \in conn[c].subs => e.conn = c /\ e.kind = "sub"
         /\ conn[c].st \in {"new", "open", "subs", "chan", "icpts"} =>
              \A e \in entries : e.id \in conn[c].icpts => e.conn = c /\ e.kind = "icpt"
         /\ conn[c].st \in {"new", "open", "subs", "chan", "icpts"} => conn[c].subs \cap conn[c].icpts = {}
         /\ \A e \in entries : e.conn = c /\ e.kind = "sub" => e.id \in conn[c].subs /\ conn[c].st \in {"open", "subs"}
         /\ \A e \in entries : e.conn = c /\ e.kind = "icpt" =>
              \/ e.id \in conn[c].icpts /\ conn[c].st \in {"open", "subs", "chan", "icpts"}
              \/ e.id = conn[c].call /\ conn[c].st = "open"
         /\ \A e \in entries : e.id # 0 /\ e.kind \in {"sub", "icpt"}
         /\ \A e \in entries : e.id = conn[c].call => e.conn = c /\ e.id \notin conn[c].icpts
         /\ IsConn(conn[c])
<1>1. EntriesOK /\ ServerShape
  BY DEF BusOK
<1>2. \A e \in entries : e.id \in conn[c].subs => e.conn = c /\ e.kind = "sub"
  BY <1>1 DEF EntriesOK
<1>3. conn[c].st \in {"new", "open", "subs", "chan", "icpts"} =>
              \A e \in entries : e.id \in conn[c].icpts => e.conn = c /\ e.kind = "icpt"
  BY <1>1 DEF EntriesOK
<1>4. conn[c].st \in {"new", "open", "subs", "chan", "icpts"} => conn[c].subs \cap conn[c].icpts = {}
  BY <1>1, <1>2, <1>3 DEF EntriesOK
<1>5. \A e \in entries : e.conn = c /\ e.kind = "sub" => e.id \in conn[c].subs /\ conn[c].st \in {"open", "subs"}
  BY <1>1 DEF EntriesOK, SubKnown
<1>6. \A e \in entries : e.conn = c /\ e.kind = "icpt" =>
              \/ e.id \in conn[c].icpts /\ conn[c].st \in {"open", "subs", "chan", "icpts"}
              \/ e.id = conn[c].call /\ conn[c].st = "open"
  BY <1>1 DEF EntriesOK, IcptKnown
<1>7. \A e \in entries : e.id # 0 /\ e.kind \in {"sub", "icpt"}
  BY <1>1 DEF EntriesOK
<1>8. \A e \in entries : e.id = conn[c].call => e.conn = c /\ e.id \notin conn[c].icpts
  BY <1>1 DEF EntriesOK
<1> QED
  BY <1>1, <1>2, <1>3, <1>4, <1>5, <1>6, <1>7, <1>8 DEF ServerShape

(* An interceptor that unsubscribes waits, known as the task's call. *)
LEMMA InterceptorStopsKeepsBus ==
  ASSUME BusOK, NEW c \in Conns, conn[c].st = "open", conn[c].call = 0, NEW id \in conn[c].icpts,
         NEW y, IsConn(y), conn' = [conn EXCEPT ![c] = y], y.st = "open", y.subs = conn[c].subs,
         y.icpts = conn[c].icpts \ {id}, y.call = id, UNCHANGED <<entries, rx, calls, fresh>>
  PROVE  BusOK'
<1>1. ServerShape /\ CallsOK /\ EntriesOK
  BY DEF BusOK
<1>2. /\ conn' = [d \in Conns |-> conn'[d]]
      /\ \A d \in Conns : IsConn(conn'[d])
      /\ conn'[c] = y
      /\ \A d \in Conns \ {c} : conn'[d] = conn[d]
  BY <1>1, OneConn
<1>3. PICK own \in entries : own.id = id /\ own.kind = "icpt" /\ own.conn = c
  BY <1>1 DEF EntriesOK
<1>4. ServerShape'
  BY <1>1, <1>2 DEF ServerShape
<1>5. CallsOK'
  <2>1. \A k \in calls : k.by # 0 => k.by # c
    BY <1>1 DEF CallsOK
  <2>2. id \in Nat /\ id < fresh
    BY <1>1, <1>3 DEF EntriesOK
  <2> QED
    BY <1>1, <1>2, <2>1, <2>2 DEF CallsOK
<1>6. EntriesOK'
  <2>5. \A e \in entries : e.kind = "sub" => SubKnown(e)'
    BY <1>1, <1>2 DEF EntriesOK, SubKnown
  <2>6. \A e \in entries : e.kind = "icpt" => IcptKnown(e)'
    BY <1>1, <1>2 DEF EntriesOK, IcptKnown
  <2>7. \A d \in Conns : conn'[d].subs = conn[d].subs /\ conn'[d].st = conn[d].st /\ conn'[d].icpts \subseteq conn[d].icpts
    BY <1>2
  <2>8. \A d \in Conns, e \in entries : conn'[d].call = e.id => e.conn = d /\ e.id \notin conn'[d].icpts
    <3>1. \A e \in entries : e.id = id => e = own
      BY <1>1, <1>3 DEF EntriesOK
    <3> QED
      BY <1>1, <1>2, <1>3, <3>1 DEF EntriesOK
  <2> QED
    BY <1>1, <2>5, <2>6, <2>7, <2>8 DEF EntriesOK
<1> QED
  BY <1>4, <1>5, <1>6 DEF BusOK

(* A connection's task ends an entry, or goes on with its cleanup. *)
LEMMA LeaveKeepsBus ==
  ASSUME BusOK, NEW c \in Conns,
         \/ OpUnsubscribe(c) \/ InterceptorLeaves(c) \/ WriteForwarded(c) \/ ReadClosed(c)
         \/ CleanSubscriptions(c) \/ CleanChannels(c) \/ CleanInterceptors(c) \/ CancelInterceptors(c)
  PROVE  BusOK'
<1>1. ServerShape /\ CallsOK /\ EntriesOK /\ IsConn(conn[c]) /\ fresh \in Nat
  BY DEF BusOK, ServerShape
<1> DEFINE Known ==
         /\ \A e \in entries : e.id \in conn[c].subs => e.conn = c /\ e.kind = "sub"
         /\ conn[c].st \in {"new", "open", "subs", "chan", "icpts"} =>
              \A e \in entries : e.id \in conn[c].icpts => e.conn = c /\ e.kind = "icpt"
         /\ conn[c].st \in {"new", "open", "subs", "chan", "icpts"} => conn[c].subs \cap conn[c].icpts = {}
         /\ \A e \in entries : e.conn = c /\ e.kind = "sub" => e.id \in conn[c].subs /\ conn[c].st \in {"open", "subs"}
         /\ \A e \in entries : e.conn = c /\ e.kind = "icpt" =>
              \/ e.id \in conn[c].icpts /\ conn[c].st \in {"open", "subs", "chan", "icpts"}
              \/ e.id = conn[c].call /\ conn[c].st = "open"
         /\ \A e \in entries : e.id # 0 /\ e.kind \in {"sub", "icpt"}
         /\ \A e \in entries : e.id = conn[c].call => e.conn = c /\ e.id \notin conn[c].icpts
<1>2. Known
  BY OfOneConnection
<1>3. ASSUME NEW y, IsConn(y), conn' = [conn EXCEPT ![c] = y], y.st = conn[c].st, y.subs = conn[c].subs,
             y.icpts = conn[c].icpts, y.call = conn[c].call, UNCHANGED <<entries, rx, calls, fresh>>
      PROVE  BusOK'
  <2>1. Kept
    BY <1>1, <1>3, QueuesKept
  <2> QED
    BY <1>1, <1>3, <2>1, SameGoOn, QuietStep
<1>4. ASSUME NEW y, IsConn(y), conn' = [conn EXCEPT ![c] = y], y.subs = conn[c].subs,
             y.icpts = conn[c].icpts, y.call = conn[c].call, UNCHANGED <<entries, rx, calls, fresh>>,
             \/ conn[c].st = "open" /\ conn[c].call = 0 /\ y.st = "subs"
             \/ conn[c].st = "subs" /\ conn[c].subs = {} /\ y.st = "chan"
             \/ conn[c].st = "chan" /\ y.st = "icpts"
      PROVE  BusOK'
  <2>1. Leaves(c, {}, y)
    BY <1>2, <1>4 DEF Leaves, Early
  <2> QED
    BY <2>1, EntriesEndKeepsBus
<1>5. ASSUME NEW id \in conn[c].subs, conn[c].st \in {"open", "subs"},
             NEW y, IsConn(y), conn' = [conn EXCEPT ![c] = y], y.st = conn[c].st, y.subs = conn[c].subs \ {id},
             y.icpts = conn[c].icpts, y.call = conn[c].call, Unforward({id}), UNCHANGED <<calls, fresh>>
      PROVE  BusOK'
  <2>1. /\ entries' = {e \in entries : e.id \notin {id}} /\ \A e \in entries : e.id \in {id} => e.conn = c
        /\ DOMAIN rx' \subseteq DOMAIN rx \ {id} /\ y.icpts \subseteq conn[c].icpts
        /\ conn[c].st \in {"new", "open", "subs", "chan", "icpts"} /\ y.icpts \cap {id} = {}
        /\ UNCHANGED <<calls, fresh>>
    BY <1>2, <1>5 DEF Unforward
  <2>2. \A e \in entries : e.conn = c /\ e.id \notin {id} /\ e.kind = "sub" => y.st \in {"open", "subs"}
    BY <1>2, <1>5
  <2>3. \A e \in entries : e.conn = c /\ e.id \notin {id} /\ e.kind = "icpt" =>
            \/ e.id \in y.icpts /\ y.st \in {"open", "subs", "chan", "icpts"}
            \/ e.id = y.call /\ y.st = "open"
    BY <1>2, <1>5
  <2>4. Leaves(c, {id}, y)
    BY <1>5, <2>1, <2>2, <2>3 DEF Leaves, Early
  <2> QED
    BY <2>4, EntriesEndKeepsBus
<1> HIDE DEF Known
<1>6. CASE OpUnsubscribe(c)
  <2> DEFINE id == Head(conn[c].in).id
             x == [conn[c] EXCEPT !.in = Tail(@)]
             y == [conn[c] EXCEPT !.in = Tail(@), !.subs = @ \ {id}]
             z == [conn[c] EXCEPT !.in = Tail(@), !.icpts = @ \ {id}, !.call = id]
  <2>1. conn[c].st = "open" /\ conn[c].call = 0 /\ UNCHANGED <<calls, fresh>>
    BY <1>6 DEF OpUnsubscribe, Reads, Ready
  <2>2. id \in conn[c].subs => id \notin conn[c].icpts
    BY <1>2, <2>1 DEF Known
  <2>3. /\ id \in conn[c].subs => conn' = [conn EXCEPT ![c] = y] /\ Unforward({id})
        /\ id \in conn[c].icpts => conn' = [conn EXCEPT ![c] = z] /\ UNCHANGED <<entries, rx>>
        /\ id \notin conn[c].subs \cup conn[c].icpts => conn' = [conn EXCEPT ![c] = x] /\ UNCHANGED <<entries, rx>>
    BY <1>6, <2>2 DEF OpUnsubscribe
  <2>4. /\ IsConn(x) /\ x.st = conn[c].st /\ x.subs = conn[c].subs /\ x.icpts = conn[c].icpts /\ x.call = conn[c].call
        /\ IsConn(y) /\ y.st = conn[c].st /\ y.subs = conn[c].subs \ {id} /\ y.icpts = conn[c].icpts /\ y.call = conn[c].call
        /\ IsConn(z) /\ z.st = conn[c].st /\ z.subs = conn[c].subs /\ z.icpts = conn[c].icpts \ {id} /\ z.call = id
    BY <1>1 DEF IsConn, ConnFields
  <2> HIDE DEF id, x, y, z
  <2>5. CASE id \in conn[c].subs
    BY <1>5, <2>1, <2>3, <2>4, <2>5
  <2>6. CASE id \in conn[c].icpts
    BY <2>1, <2>3, <2>4, <2>6, InterceptorStopsKeepsBus
  <2>7. CASE id \notin conn[c].subs \cup conn[c].icpts
    BY <1>3, <2>1, <2>3, <2>4, <2>7
  <2> QED
    BY <2>5, <2>6, <2>7
<1>7. CASE InterceptorLeaves(c)
  <2> DEFINE y == [conn[c] EXCEPT !.call = 0]
             gone == {conn[c].call}
  <2>1. /\ IsConn(y) /\ y.st = conn[c].st /\ y.subs = conn[c].subs /\ y.icpts = conn[c].icpts /\ y.call = 0
    BY <1>1 DEF IsConn, ConnFields
  <2>2. /\ conn[c].st = "open" /\ conn' = [conn EXCEPT ![c] = y]
        /\ entries' = {e \in entries : e.id \notin gone} /\ UNCHANGED <<rx, calls, fresh>>
    BY <1>7 DEF InterceptorLeaves
  <2>3. PICK own \in entries : own.id = conn[c].call /\ own.kind = "icpt"
    BY <1>7 DEF InterceptorLeaves
  <2>4. \A e \in entries : e.id \in gone => e = own /\ e.conn = c /\ e.kind = "icpt" /\ e.id \notin conn[c].icpts
    BY <1>1, <1>2, <2>3 DEF Known, EntriesOK
  <2>5. \A k \in calls : k.by # 0 => k.by # c
    BY <1>1, <2>3 DEF CallsOK, EntriesOK
  <2>6. conn[c].subs = conn[c].subs \ gone
    BY <1>2, <2>3 DEF Known
  <2>7. y.icpts \cap gone = {}
    BY <2>1, <2>3, <2>4
  <2>8. \A e \in entries : e.conn = c /\ e.id \notin gone /\ e.kind = "icpt" => e.id \in y.icpts /\ y.st = "open"
    BY <1>2, <2>1, <2>2 DEF Known
  <2> HIDE DEF y, gone
  <2>9. Leaves(c, gone, y)
    BY <2>1, <2>2, <2>4, <2>5, <2>6, <2>7, <2>8 DEF Leaves, Early
  <2> QED
    BY <2>9, EntriesEndKeepsBus
<1>8. CASE WriteForwarded(c)
  <2> DEFINE x == [conn[c] EXCEPT !.fwd = Tail(@)]
             y == ws_send(x, Head(conn[c].fwd))
             z == [conn[c] EXCEPT !.st = "subs"]
  <2>1. /\ conn[c].st = "open" /\ conn[c].call = 0 /\ UNCHANGED <<entries, rx, calls, fresh>>
        /\ conn' = [conn EXCEPT ![c] = IF conn[c].up THEN y ELSE z]
    BY <1>1, <1>8 DEF WriteForwarded, Ready, ServerShape
  <2>2. /\ IsConn(x) /\ x.st = conn[c].st /\ x.subs = conn[c].subs /\ x.icpts = conn[c].icpts /\ x.call = conn[c].call
        /\ IsConn(z) /\ z.st = "subs" /\ z.subs = conn[c].subs /\ z.icpts = conn[c].icpts /\ z.call = conn[c].call
    BY <1>1 DEF IsConn, ConnFields
  <2>3. IsConn(y) /\ \A f \in ConnFields \ {"out"} : y[f] = x[f]
    <3> HIDE DEF x
    <3> QED
      BY <2>2, SendKeeps
  <2>4. IsConn(y) /\ y.st = conn[c].st /\ y.subs = conn[c].subs /\ y.icpts = conn[c].icpts /\ y.call = conn[c].call
    <3> HIDE DEF x, y
    <3> QED
      BY <2>2, <2>3 DEF ConnFields
  <2> HIDE DEF x, y, z
  <2>5. CASE conn[c].up
    BY <1>3, <2>1, <2>4, <2>5
  <2>6. CASE ~conn[c].up
    BY <1>4, <2>1, <2>2, <2>6
  <2> QED
    BY <2>5, <2>6
<1>9. ASSUME NEW st, conn' = [conn EXCEPT ![c].st = st], UNCHANGED <<entries, rx, calls, fresh>>,
             \/ conn[c].st = "open" /\ conn[c].call = 0 /\ st = "subs"
             \/ conn[c].st = "subs" /\ conn[c].subs = {} /\ st = "chan"
             \/ conn[c].st = "chan" /\ st = "icpts"
      PROVE  BusOK'
  <2> DEFINE z == [conn[c] EXCEPT !.st = st]
  <2>1. IsConn(z) /\ z.st = st /\ z.subs = conn[c].subs /\ z.icpts = conn[c].icpts /\ z.call = conn[c].call
    BY <1>1 DEF IsConn, ConnFields
  <2>2. conn' = [conn EXCEPT ![c] = z]
    BY <1>9
  <2> HIDE DEF z
  <2> QED
    BY <1>4, <1>9, <2>1, <2>2
<1>10. CASE ReadClosed(c)
  BY <1>9, <1>10 DEF ReadClosed, Ready
<1>11. CASE CleanSubscriptions(c)
  <2>1. CASE conn[c].subs = {} /\ conn' = [conn EXCEPT ![c].st = "chan"] /\ UNCHANGED <<entries, rx>>
    BY <1>9, <1>11, <2>1 DEF CleanSubscriptions
  <2>2. ASSUME NEW id \in conn[c].subs, conn' = [conn EXCEPT ![c].subs = @ \ {id}], Unforward({id})
        PROVE  BusOK'
    <3> DEFINE y == [conn[c] EXCEPT !.subs = @ \ {id}]
    <3>1. /\ IsConn(y) /\ y.st = conn[c].st /\ y.subs = conn[c].subs \ {id} /\ y.icpts = conn[c].icpts
          /\ y.call = conn[c].call
      BY <1>1 DEF IsConn, ConnFields
    <3>2. conn' = [conn EXCEPT ![c] = y]
      BY <2>2
    <3>3. conn[c].st = "subs" /\ UNCHANGED <<calls, fresh>>
      BY <1>11 DEF CleanSubscriptions
    <3> HIDE DEF y
    <3> QED
      BY <1>5, <2>2, <3>1, <3>2, <3>3
  <2> QED
    BY <1>11, <2>1, <2>2 DEF CleanSubscriptions
<1>12. CASE CleanChannels(c)
  BY <1>9, <1>12 DEF CleanChannels
<1>13. CASE CleanInterceptors(c)
  <2> DEFINE gone == conn[c].icpts
             y == [conn[c] EXCEPT !.st = "cancel"]
  <2>1. IsConn(y) /\ y.st = "cancel" /\ y.subs = conn[c].subs /\ y.icpts = conn[c].icpts /\ y.call = conn[c].call
    BY <1>1 DEF IsConn, ConnFields
  <2>2. /\ conn[c].st = "icpts" /\ conn' = [conn EXCEPT ![c] = y]
        /\ entries' = {e \in entries : e.id \notin gone} /\ UNCHANGED <<rx, calls, fresh>>
    BY <1>13 DEF CleanInterceptors
  <2>3. /\ \A e \in entries : e.id \in gone => e.conn = c /\ e.kind = "icpt"
        /\ conn[c].subs = conn[c].subs \ gone
        /\ \A e \in entries : ~(e.conn = c /\ e.id \notin gone)
    BY <1>2, <2>2 DEF Known
  <2> HIDE DEF y, gone
  <2>4. y.icpts \subseteq conn[c].icpts
    BY <2>1
  <2>5. Leaves(c, gone, y)
    BY <2>1, <2>2, <2>3, <2>4 DEF Leaves, Early
  <2> QED
    BY <2>5, EntriesEndKeepsBus
<1>14. CASE CancelInterceptors(c)
  <2> DEFINE y == [conn[c] EXCEPT !.st = "closed", !.icpts = {}, !.fwd = <<>>]
  <2>1. IsConn(y) /\ y.st = "closed" /\ y.subs = conn[c].subs /\ y.icpts = {} /\ y.call = conn[c].call
    BY <1>1 DEF IsConn, ConnFields
  <2>2. /\ conn[c].st = "cancel" /\ conn' = [conn EXCEPT ![c] = y]
        /\ entries' = {e \in entries : e.id \notin {}} /\ UNCHANGED <<rx, calls, fresh>>
    BY <1>14 DEF CancelInterceptors
  <2>3. \A e \in entries : e.conn # c
    BY <1>2, <2>2 DEF Known
  <2>4. y.icpts \subseteq conn[c].icpts /\ DOMAIN rx' \subseteq DOMAIN rx \ {} /\ conn[c].subs = conn[c].subs \ {}
    BY <2>1, <2>2
  <2> HIDE DEF y
  <2>5. Leaves(c, {}, y)
    BY <2>1, <2>2, <2>3, <2>4 DEF Leaves, Early
  <2> QED
    BY <2>5, EntriesEndKeepsBus
<1> QED
  BY <1>6, <1>7, <1>8, <1>10, <1>11, <1>12, <1>13, <1>14

(* A connection is made. *)
LEMMA AcceptKeepsBus ==
  ASSUME BusOK, NEW c \in Conns, Accept(c)
  PROVE  BusOK'
<1> DEFINE y == [conn[c] EXCEPT !.st = "open", !.up = TRUE]
<1>1. ServerShape /\ CallsOK /\ EntriesOK /\ IsConn(conn[c])
  BY DEF BusOK, ServerShape
<1>2. IsConn(y) /\ y.st = "open" /\ y.subs = conn[c].subs /\ y.icpts = conn[c].icpts /\ y.call = conn[c].call
  BY <1>1 DEF IsConn, ConnFields
<1>3. conn[c].st = "new" /\ conn' = [conn EXCEPT ![c] = y] /\ UNCHANGED <<entries, rx, calls, fresh>>
  BY DEF Accept
<1>4. \A e \in entries : e.conn = c => e.id \in y.icpts /\ y.st = "open"
  BY <1>1, <1>3 DEF EntriesOK, SubKnown, IcptKnown
<1> HIDE DEF y
<1>5. Leaves(c, {}, y)
  BY <1>2, <1>3, <1>4 DEF Leaves, Early
<1> QED
  BY <1>5, EntriesEndKeepsBus

(* A step that changes at most the queues of one connection. *)
QueuesOnly(c) ==
  /\ \/ UNCHANGED conn
     \/ \E y : /\ conn' = [conn EXCEPT ![c] = y]
               /\ c \in Conns => IsConn(y) /\ y.st = conn[c].st /\ y.subs = conn[c].subs
                                 /\ y.icpts = conn[c].icpts /\ y.call = conn[c].call
  /\ UNCHANGED <<entries, calls>> /\ DOMAIN rx' = DOMAIN rx /\ fresh' \in {fresh, fresh + 1}

(* Such a step keeps the bus and its connections in agreement. *)
LEMMA QueuesOnlyKeepsBus ==
  ASSUME BusOK, NEW c, QueuesOnly(c)
  PROVE  BusOK'
<1>1. ServerShape /\ CallsOK /\ fresh \in Nat
  BY DEF BusOK, ServerShape
<1>2. Kept
  <2>1. CASE UNCHANGED conn
    BY <1>1, <2>1, SameKept
  <2>2. CASE ~UNCHANGED conn
    <3>1. PICK y : /\ conn' = [conn EXCEPT ![c] = y]
                   /\ c \in Conns => IsConn(y) /\ y.st = conn[c].st /\ y.subs = conn[c].subs
                                     /\ y.icpts = conn[c].icpts /\ y.call = conn[c].call
      BY <2>2 DEF QueuesOnly
    <3> QED
      BY <1>1, <3>1, QueuesKept
  <2> QED
    BY <2>1, <2>2
<1>3. CallsGoOn
  BY <1>1, SameGoOn DEF QueuesOnly
<1> QED
  BY <1>1, <1>2, <1>3, QuietStep DEF QueuesOnly

(* The forwarders, the retry task, clients, peers and the network touch no  *)
(* more than queues.                                                        *)
LEMMA OthersTouchQueues ==
  ASSUME BusOK,
         \/ \E id : Forward(id)
         \/ RetryStep \/ DeliverStart
         \/ Resubscribe \/ SendCommand \/ ReceiveFrame
         \/ \E k, op : Begin(k, op)
         \/ \E c \in Conns : Lost(c)
         \/ \E c : PeerReads(c) \/ (\E op : PeerSends(c, op)) \/ (\E id : PeerUnsubscribes(c, id))
         \/ UNCHANGED serverVars
  PROVE  \E c : QueuesOnly(c)
<1>1. ServerShape /\ fresh \in Nat
  BY DEF BusOK, ServerShape
<1> DEFINE Like(x, y) == /\ IsConn(y) /\ y.st = x.st /\ y.subs = x.subs
                         /\ y.icpts = x.icpts /\ y.call = x.call
<1>2. ASSUME NEW c, NEW y, conn' = [conn EXCEPT ![c] = y], c \in Conns => Like(conn[c], y),
             UNCHANGED <<entries, calls>>, DOMAIN rx' = DOMAIN rx, fresh' \in {fresh, fresh + 1}
      PROVE  \E d : QueuesOnly(d)
  BY <1>2 DEF QueuesOnly
<1>3. ASSUME UNCHANGED <<conn, entries, calls>>, DOMAIN rx' = DOMAIN rx, fresh' \in {fresh, fresh + 1}
      PROVE  \E d : QueuesOnly(d)
  BY <1>3 DEF QueuesOnly
<1>4. \A c \in Conns : /\ \A v : Like(conn[c], [conn[c] EXCEPT !.in = v])
                       /\ \A v : Like(conn[c], [conn[c] EXCEPT !.out = v])
                       /\ \A v : Like(conn[c], [conn[c] EXCEPT !.fwd = v])
                       /\ \A u, v : Like(conn[c], [conn[c] EXCEPT !.out = u, !.in = v])
                       /\ \A u, v : Like(conn[c], [conn[c] EXCEPT !.up = FALSE, !.out = u, !.in = v])
  <2>1. ASSUME NEW x, IsConn(x)
        PROVE  /\ \A v : Like(x, [x EXCEPT !.in = v])
               /\ \A v : Like(x, [x EXCEPT !.out = v])
               /\ \A v : Like(x, [x EXCEPT !.fwd = v])
    BY <2>1 DEF IsConn, ConnFields
  <2>2. ASSUME NEW x, IsConn(x)
        PROVE  \A u, v : Like(x, [x EXCEPT !.out = u, !.in = v])
    BY <2>2 DEF IsConn, ConnFields
  <2>3. ASSUME NEW x, IsConn(x)
        PROVE  \A u, v : Like(x, [x EXCEPT !.up = FALSE, !.out = u, !.in = v])
    BY <2>3 DEF IsConn, ConnFields
  <2> HIDE DEF Like
  <2> QED
    BY <1>1, <2>1, <2>2, <2>3 DEF ServerShape
<1> HIDE DEF Like
<1>5. ASSUME NEW id, Forward(id)
      PROVE  \E d : QueuesOnly(d)
  <2> DEFINE c == ConnOf(id)
             y == [conn[c] EXCEPT !.fwd = Append(@, Frame("event", Head(rx[id]), id))]
  <2>1. conn' = [conn EXCEPT ![c] = y] /\ UNCHANGED <<entries, calls, fresh>> /\ DOMAIN rx' = DOMAIN rx
    BY <1>5 DEF Forward
  <2>2. c \in Conns => Like(conn[c], y)
    BY <1>4
  <2> HIDE DEF c, y
  <2> QED
    BY <1>2, <2>1, <2>2
<1>6. CASE DeliverSend
  <2> DEFINE c == retry.to
             y == [conn[c] EXCEPT !.fwd = Append(@, Frame("deliver", NoCid, retry.req))]
  <2>1. /\ conn' = conn \/ conn' = [conn EXCEPT ![c] = y]
        /\ UNCHANGED <<entries, calls, fresh, rx>>
    BY <1>6 DEF DeliverSend
  <2>2. c \in Conns => Like(conn[c], y)
    BY <1>4
  <2> HIDE DEF c, y
  <2> QED
    BY <1>2, <1>3, <2>1, <2>2
<1>7. CASE DeliverReplied \/ DeliverTimedOut \/ DeliverStart
  BY <1>3, <1>7 DEF DeliverReplied, DeliverTimedOut, DeliverStart
<1>8. CASE Resubscribe
  <2> DEFINE c == manager.conn
  <2>1. /\ conn' = conn \/ \E frames : ToServer(frames)
        /\ UNCHANGED <<entries, calls, fresh, rx>>
    BY <1>8 DEF Resubscribe
  <2>2. ASSUME NEW frames, ToServer(frames)
        PROVE  \E d : QueuesOnly(d)
    <3> DEFINE y == [conn[c] EXCEPT !.in = @ \o frames]
    <3>1. conn' = [conn EXCEPT ![c] = y]
      BY <2>2 DEF ToServer
    <3>2. c \in Conns => Like(conn[c], y)
      BY <1>4
    <3> HIDE DEF c, y
    <3> QED
      BY <1>2, <2>1, <3>1, <3>2
  <2> QED
    BY <1>3, <2>1, <2>2
<1>9. CASE SendCommand
  <2> DEFINE c == manager.conn
             y == [conn[c] EXCEPT !.in = @ \o <<Head(mgr)>>]
  <2>1. /\ conn' = conn \/ conn' = [conn EXCEPT ![c] = y]
        /\ UNCHANGED <<entries, calls, fresh, rx>>
    BY <1>9 DEF SendCommand, ToServer
  <2>2. c \in Conns => Like(conn[c], y)
    BY <1>4
  <2> HIDE DEF c, y
  <2> QED
    BY <1>2, <1>3, <2>1, <2>2
<1>10. CASE ReceiveFrame
  <2> DEFINE c == manager.conn
             y == [conn[c] EXCEPT !.out = Tail(@)]
  <2>1. conn' = [conn EXCEPT ![c] = y] /\ UNCHANGED <<entries, calls, fresh, rx>>
    BY <1>10 DEF ReceiveFrame
  <2>2. c \in Conns => Like(conn[c], y)
    BY <1>4
  <2> HIDE DEF c, y
  <2> QED
    BY <1>2, <2>1, <2>2
<1>11. ASSUME NEW k, NEW op, Begin(k, op)
       PROVE  \E d : QueuesOnly(d)
  BY <1>3, <1>11 DEF Begin
<1>12. ASSUME NEW c \in Conns, Lost(c)
       PROVE  \E d : QueuesOnly(d)
  <2>1. PICK v : conn' = [conn EXCEPT ![c].up = FALSE, ![c].out = <<>>, ![c].in = v]
    BY <1>12 DEF Lost
  <2> DEFINE y == [conn[c] EXCEPT !.up = FALSE, !.out = <<>>, !.in = v]
  <2>2. conn' = [conn EXCEPT ![c] = y] /\ UNCHANGED <<entries, calls, fresh, rx>>
    BY <1>1, <1>12, <2>1 DEF Lost, ServerShape
  <2>3. Like(conn[c], y)
    BY <1>4
  <2> HIDE DEF y
  <2> QED
    BY <1>2, <2>2, <2>3
<1>13. ASSUME NEW c, PeerReads(c)
       PROVE  \E d : QueuesOnly(d)
  <2> DEFINE k == [conn[c] EXCEPT !.out = Tail(@)]
  <2>1. /\ conn' = [conn EXCEPT ![c] = k] \/ \E g : conn' = [conn EXCEPT ![c] = [k EXCEPT !.in = Append(@, g)]]
        /\ UNCHANGED <<entries, calls, fresh, rx>>
    BY <1>13 DEF PeerReads
  <2>2. c \in Conns => Like(conn[c], k)
    BY <1>4
  <2>3. ASSUME NEW g, conn' = [conn EXCEPT ![c] = [k EXCEPT !.in = Append(@, g)]]
        PROVE  \E d : QueuesOnly(d)
    <3> DEFINE y == [k EXCEPT !.in = Append(@, g)]
    <3>1. c \in Conns => Like(conn[c], y)
      <4> HIDE DEF k
      <4> QED
        BY <2>2 DEF Like, IsConn, ConnFields
    <3>2. conn' = [conn EXCEPT ![c] = y]
      BY <2>3
    <3> HIDE DEF y, k
    <3> QED
      BY <1>2, <2>1, <3>1, <3>2
  <2> HIDE DEF k
  <2> QED
    BY <1>2, <2>1, <2>2, <2>3
<1>14. ASSUME NEW c, NEW frame, conn' = ToConn(c, frame), UNCHANGED <<entries, calls, fresh, rx>>
       PROVE  \E d : QueuesOnly(d)
  <2> DEFINE y == [conn[c] EXCEPT !.in = Append(@, frame)]
  <2>1. conn' = [conn EXCEPT ![c] = y]
    BY <1>14 DEF ToConn
  <2>2. c \in Conns => Like(conn[c], y)
    BY <1>4
  <2> HIDE DEF y
  <2> QED
    BY <1>2, <1>14, <2>1, <2>2
<1>15. ASSUME NEW c, (\E op : PeerSends(c, op)) \/ (\E id : PeerUnsubscribes(c, id))
       PROVE  \E d : QueuesOnly(d)
  BY <1>14, <1>15 DEF PeerSends, PeerUnsubscribes
<1>16. CASE UNCHANGED serverVars
  BY <1>3, <1>16 DEF serverVars
<1> QED
  BY <1>5, <1>6, <1>7, <1>8, <1>9, <1>10, <1>11, <1>12, <1>13, <1>15, <1>16 DEF RetryStep

-----------------------------------------------------------------------------
(* The pending replies                                                      *)

(* Nobody begins or ends to wait for a result. *)
LEMMA QuietKeepsPending ==
  ASSUME PendingOK, fresh \in Nat, fresh' \in Nat, fresh' >= fresh, UNCHANGED <<pend, replies, retry>>,
         \A k \in calls' : Calling(k) => k \in calls, \A k \in calls : Calling(k) => k \in calls'
  PROVE  PendingOK'
<1>1. \A r : WaitedFor(r)' <=> WaitedFor(r)
  BY DEF WaitedFor
<1> QED
  BY <1>1 DEF PendingOK

(* Pending requests are answered: by a result or by cancel_all. *)
LEMMA AnswersKeepPending ==
  ASSUME PendingOK, UNCHANGED <<calls, retry, fresh>>, NEW done, done \subseteq pend, NEW action,
         pend' = pend \ done, replies' = replies \cup {[req |-> p.req, action |-> action] : p \in done}
  PROVE  PendingOK'
<1>1. \A r : WaitedFor(r)' <=> WaitedFor(r)
  BY DEF WaitedFor
<1>2. \A r \in replies' : r \in replies \/ \E p \in done : r = [req |-> p.req, action |-> action]
  OBVIOUS
<1>3. \A r \in replies' : WaitedFor(r.req)
  BY <1>2 DEF PendingOK
<1>4. \A r \in replies', p \in pend' : p.req # r.req
  BY <1>2 DEF PendingOK
<1>5. \A r, s \in replies' : r.req = s.req => r = s
  BY <1>2 DEF PendingOK
<1> QED
  BY <1>1, <1>3, <1>4, <1>5 DEF PendingOK

(* A call stops to wait, and takes what there is for it with it. *)
LEMMA StopKeepsPending ==
  ASSUME PendingOK, UNCHANGED <<retry, fresh>>, NEW k \in calls, Calling(k), NEW l, ~Calling(l), Becomes(k, l),
         \A p \in pend' : p \in pend /\ p.req # k.req,
         \A r \in replies' : r \in replies /\ r.req # k.req
  PROVE  PendingOK'
<1>1. \A r : WaitedFor(r) /\ r # k.req => WaitedFor(r)'
  BY DEF WaitedFor, Becomes
<1>2. \A x \in calls' : Calling(x) => x \in calls
  BY DEF Becomes
<1> QED
  BY <1>1, <1>2 DEF PendingOK

(* The retry task stops to wait. *)
LEMMA RetryStopKeepsPending ==
  ASSUME PendingOK, UNCHANGED <<calls, fresh>>, retry.st # "idle", retry' = NoRetry,
         \A p \in pend' : p \in pend /\ p.req # retry.req,
         \A r \in replies' : r \in replies /\ r.req # retry.req
  PROVE  PendingOK'
<1>1. \A r : WaitedFor(r) /\ r # retry.req => WaitedFor(r)'
  BY DEF WaitedFor
<1> QED
  BY <1>1 DEF PendingOK, NoRetry

(* Calls at remote interceptors. *)
LEMMA CallStepsKeepPending ==
  ASSUME BusOK, PendingOK, NEW k \in calls, CallStep(k)
  PROVE  PendingOK'
<1>1. IsCall(k) /\ fresh \in Nat
  BY DEF BusOK, ServerShape
<1>2. ~Calling(Passed(k)) /\ ~Calling([Passed(k) EXCEPT !.st = "done"])
  BY <1>1 DEF IsCall, CallFields, Passed, Calling
<1>3. ASSUME NEW st, st \notin {"send", "wait"}
      PROVE  ~Calling([k EXCEPT !.st = st])
  BY <1>1, <1>3 DEF IsCall, CallFields, Calling
<1>4. ASSUME NEW l, Becomes(k, l), ~Calling(k), ~Calling(l), fresh' \in Nat, fresh' >= fresh,
             UNCHANGED <<pend, replies, retry>>
      PROVE  PendingOK'
  BY <1>1, <1>4, QuietKeepsPending DEF Becomes
<1>5. CASE InterceptStart(k)
  <2>1. ~Calling(k)
    BY <1>5 DEF InterceptStart, Calling
  <2>2. CASE Becomes(k, Passed(k)) /\ UNCHANGED <<pend, fresh>>
    BY <1>1, <1>2, <1>4, <1>5, <2>1, <2>2 DEF InterceptStart
  <2>3. CASE ~(Becomes(k, Passed(k)) /\ UNCHANGED <<pend, fresh>>)
    <3> DEFINE l == [k EXCEPT !.st = "send", !.req = fresh]
               new == [req |-> fresh, proxy |-> Icpt(Head(k.todo).id)]
    <3>1. /\ Becomes(k, l) /\ pend' = pend \cup {new} /\ fresh' = fresh + 1 /\ UNCHANGED <<replies, retry>>
      BY <1>5, <2>3 DEF InterceptStart
    <3>2. Calling(l) /\ l.req = fresh /\ new.req = fresh
      BY <1>1 DEF IsCall, CallFields, Calling
    <3> HIDE DEF l, new
    <3>3. \A x \in calls' : Calling(x) => x = l \/ x \in calls
      BY <3>1 DEF Becomes
    <3>4. \A r : WaitedFor(r) => WaitedFor(r)' /\ r \in Nat /\ r < fresh
      BY <2>1, <3>1 DEF WaitedFor, Becomes, PendingOK
    <3>5. \A r : r = fresh => WaitedFor(r)'
      BY <3>1, <3>2 DEF WaitedFor, Becomes
    <3>6. \A x, y \in calls' : Calling(x) /\ Calling(y) /\ x.req = y.req => x = y
      BY <1>1, <3>2, <3>3 DEF PendingOK
    <3>7. \A x \in calls' : Calling(x) => x.req \in Nat /\ x.req < fresh'
      BY <1>1, <3>1, <3>2, <3>3 DEF PendingOK
    <3>8. \A x \in calls' : Calling(x) /\ retry.st # "idle" => x.req # retry.req
      BY <1>1, <3>2, <3>3 DEF PendingOK
    <3>9. \A p, q \in pend' : p.req = q.req => p = q
      BY <1>1, <3>1, <3>2, <3>4 DEF PendingOK
    <3>10. \A p \in pend' : WaitedFor(p.req)'
      BY <3>1, <3>2, <3>4, <3>5 DEF PendingOK
    <3>11. \A r \in replies, p \in pend' : p.req # r.req
      BY <1>1, <3>1, <3>2, <3>4 DEF PendingOK
    <3> QED
      BY <1>1, <3>1, <3>4, <3>6, <3>7, <3>8, <3>9, <3>10, <3>11 DEF PendingOK
  <2> QED
    BY <2>2, <2>3
<1>6. CASE InterceptSend(k)
  <2>1. Calling(k) /\ UNCHANGED <<retry, fresh>>
    BY <1>6 DEF InterceptSend, Calling
  <2>2. CASE Becomes(k, Passed(k)) /\ Forget(k.req)
    BY <1>2, <2>1, <2>2, StopKeepsPending DEF Forget
  <2>3. CASE ~(Becomes(k, Passed(k)) /\ Forget(k.req))
    <3> DEFINE l == [k EXCEPT !.st = "wait"]
    <3>1. Becomes(k, l) /\ UNCHANGED <<pend, replies>>
      BY <1>6, <2>3 DEF InterceptSend
    <3>2. Calling(l) /\ l.req = k.req
      BY <1>1 DEF IsCall, CallFields, Calling
    <3> HIDE DEF l
    <3>3. \A r : WaitedFor(r) <=> WaitedFor(r)'
      BY <2>1, <3>1, <3>2 DEF WaitedFor, Becomes
    <3>4. \A x \in calls' : x = l \/ (x \in calls /\ x # k)
      BY <3>1 DEF Becomes
    <3> QED
      BY <2>1, <3>1, <3>2, <3>3, <3>4 DEF PendingOK
  <2> QED
    BY <2>2, <2>3
<1>7. CASE InterceptReplied(k)
  <2>1. Calling(k) /\ UNCHANGED <<retry, fresh, pend>>
    BY <1>7 DEF InterceptReplied, Calling
  <2>2. PICK r \in replies : /\ r.req = k.req /\ replies' = replies \ {r}
                             /\ Becomes(k, IF r.action = "drop" THEN [Passed(k) EXCEPT !.st = "done"] ELSE Passed(k))
    BY <1>7 DEF InterceptReplied
  <2>3. \A p \in pend : p.req # k.req
    BY <2>2 DEF PendingOK
  <2>4. \A q \in replies' : q \in replies /\ q.req # k.req
    BY <2>2 DEF PendingOK
  <2>5. \E l : ~Calling(l) /\ Becomes(k, l)
    BY <1>2, <2>2
  <2> QED
    BY <2>1, <2>3, <2>4, <2>5, StopKeepsPending
<1>8. CASE InterceptTimeout(k)
  <2>1. Calling(k) /\ UNCHANGED <<retry, fresh>> /\ Becomes(k, Passed(k)) /\ Forget(k.req)
    BY <1>8 DEF InterceptTimeout, Calling
  <2> QED
    BY <1>2, <2>1, StopKeepsPending DEF Forget
<1>9. CASE FanOut(k)
  <2>1. /\ ~Calling(k) /\ fresh' = fresh /\ UNCHANGED <<pend, replies, retry>>
        /\ \E st \in {"reply", "done"} : Becomes(k, [k EXCEPT !.st = st])
    BY <1>9 DEF FanOut, Calling
  <2> QED
    BY <1>1, <1>3, <1>4, <2>1
<1>10. CASE RequestTimeout(k)
  <2>1. /\ ~Calling(k) /\ fresh' = fresh /\ UNCHANGED <<pend, replies, retry>>
        /\ Becomes(k, [k EXCEPT !.st = "failed"])
    BY <1>10 DEF RequestTimeout, Calling
  <2> QED
    BY <1>1, <1>3, <1>4, <2>1
<1>11. CASE CallEnds(k)
  <2>1. ~Calling(k) /\ fresh' = fresh /\ UNCHANGED <<pend, replies, retry>> /\ calls' = calls \ {k}
    BY <1>11 DEF CallEnds, Calling
  <2> QED
    BY <1>1, <2>1, QuietKeepsPending
<1> QED
  BY <1>5, <1>6, <1>7, <1>8, <1>9, <1>10, <1>11 DEF CallStep

(* A connection's task. *)
LEMMA ConnStepKeepsPending ==
  ASSUME BusOK, PendingOK, NEW c \in Conns, ConnStep(c)
  PROVE  PendingOK'
<1>1. fresh \in Nat
  BY DEF BusOK, ServerShape
<1>2. ASSUME UNCHANGED <<calls, pend, replies, retry>>, fresh' \in {fresh, fresh + 1}
      PROVE  PendingOK'
  BY <1>1, <1>2, QuietKeepsPending
<1>3. ASSUME NEW proxies, CancelAll(proxies), UNCHANGED <<calls, retry, fresh>>
      PROVE  PendingOK'
  <2> DEFINE done == {p \in pend : p.proxy \in proxies}
  <2>1. /\ done \subseteq pend /\ pend' = pend \ done
        /\ replies' = replies \cup {[req |-> p.req, action |-> "pass"] : p \in done}
    BY <1>3 DEF CancelAll
  <2> HIDE DEF done
  <2> QED
    BY <1>3, <2>1, AnswersKeepPending
<1>4. CASE OpReply(c)
  <2> DEFINE G(k) == IF k.id = Head(conn[c].in).id /\ k.st = "reply" THEN [k EXCEPT !.st = "done"] ELSE k
  <2>1. calls' = {G(k) : k \in calls} /\ UNCHANGED <<pend, replies, retry, fresh>>
    BY <1>4 DEF OpReply
  <2>2. \A k \in calls : G(k) = k \/ (~Calling(k) /\ ~Calling(G(k)))
    BY DEF BusOK, ServerShape, IsCall, CallFields, Calling
  <2> HIDE DEF G
  <2> QED
    BY <1>1, <2>1, <2>2, QuietKeepsPending
<1>5. ASSUME NEW kind, OpCall(c, kind)
      PROVE  PendingOK'
  <2>1. ~Calling(Call(c, kind))
    BY DEF Call, Calling
  <2>2. calls' = calls \cup {Call(c, kind)} /\ fresh' = fresh + 1 /\ UNCHANGED <<pend, replies, retry>>
    BY <1>5 DEF OpCall
  <2> QED
    BY <1>1, <2>1, <2>2, QuietKeepsPending
<1>6. CASE OpUnsubscribe(c)
  <2>1. UNCHANGED <<calls, retry, fresh>>
    BY <1>6 DEF OpUnsubscribe
  <2>2. UNCHANGED <<pend, replies>> \/ \E proxies : CancelAll(proxies)
    <3> DEFINE id == Head(conn[c].in).id
    <3>1. conn[c].st = "open"
      BY <1>6 DEF OpUnsubscribe, Reads, Ready
    <3>2. id \in conn[c].subs => id \notin conn[c].icpts
      BY <3>1, OfOneConnection
    <3> QED
      BY <1>6, <3>2 DEF OpUnsubscribe
  <2> QED
    BY <1>2, <1>3, <2>1, <2>2
<1>7. CASE OpResult(c)
  <2>1. PICK done, action : /\ done \subseteq pend /\ pend' = pend \ done
                            /\ replies' = replies \cup {[req |-> p.req, action |-> action] : p \in done}
    BY <1>7, ZenonT(40) DEF OpResult
  <2>2. UNCHANGED <<calls, retry, fresh>>
    BY <1>7 DEF OpResult
  <2> QED
    BY <2>1, <2>2, AnswersKeepPending
<1>8. CASE CleanChannels(c) \/ CancelInterceptors(c)
  BY <1>3, <1>8 DEF CleanChannels, CancelInterceptors
<1>9. CASE OpRefused(c) \/ InterceptorLeaves(c) \/ OpRegisterChannelType(c) \/ WriteForwarded(c) \/ ReadClosed(c)
           \/ CleanSubscriptions(c) \/ CleanInterceptors(c)
  BY <1>2, <1>9 DEF OpRefused, InterceptorLeaves, OpRegisterChannelType, WriteForwarded, ReadClosed,
                    CleanSubscriptions, CleanInterceptors
<1>10. CASE OpSubscribe(c) \/ OpRegisterInterceptor(c)
  <2>1. UNCHANGED <<calls, pend, replies, retry>> /\ fresh' \in {fresh, fresh + 1}
    BY <1>10 DEF OpSubscribe, OpRegisterInterceptor
  <2> QED
    BY <1>2, <2>1
<1> QED
  BY <1>4, <1>5, <1>6, <1>7, <1>8, <1>9, <1>10 DEF ConnStep

(* The retry task and its delivery. *)
LEMMA RetryKeepsPending ==
  ASSUME BusOK, PendingOK, RetryStep \/ DeliverStart
  PROVE  PendingOK'
<1>1. fresh \in Nat
  BY DEF BusOK, ServerShape
<1>2. CASE DeliverStart
  <2> DEFINE new == [req |-> fresh, proxy |-> Chan(owner)]
  <2>1. /\ retry.st = "idle" /\ retry'.st = "send" /\ retry'.req = fresh /\ pend' = pend \cup {new}
        /\ fresh' = fresh + 1 /\ UNCHANGED <<replies, calls>> /\ new.req = fresh
    BY <1>2 DEF DeliverStart
  <2> HIDE DEF new
  <2>2. \A r : WaitedFor(r) => WaitedFor(r)' /\ r \in Nat /\ r < fresh
    BY <2>1 DEF WaitedFor, PendingOK
  <2>3. \A r : r = fresh => WaitedFor(r)'
    BY <2>1 DEF WaitedFor
  <2>4. \A k \in calls : Calling(k) => k.req # fresh
    BY <1>1 DEF PendingOK
  <2>5. \A p, q \in pend' : p.req = q.req => p = q
    BY <1>1, <2>1, <2>2 DEF PendingOK
  <2>6. \A r \in replies, p \in pend' : p.req # r.req
    BY <1>1, <2>1, <2>2 DEF PendingOK
  <2>7. retry' = [f \in {"st", "req", "to"} |-> retry'[f]]
    BY <1>2 DEF DeliverStart
  <2> QED
    BY <1>1, <2>1, <2>2, <2>3, <2>4, <2>5, <2>6, <2>7 DEF PendingOK
<1>3. CASE DeliverSend
  <2>1. retry.st # "idle" /\ UNCHANGED <<calls, fresh>>
    BY <1>3 DEF DeliverSend
  <2>2. CASE retry' = NoRetry /\ Forget(retry.req)
    BY <2>1, <2>2, RetryStopKeepsPending DEF Forget
  <2>3. CASE ~(retry' = NoRetry /\ Forget(retry.req))
    <3>1. retry' = [retry EXCEPT !.st = "wait"] /\ UNCHANGED <<pend, replies>>
      BY <1>3, <2>3 DEF DeliverSend
    <3>2. retry'.req = retry.req /\ (retry'.st # "idle")
      BY <2>1, <3>1
    <3>3. \A r : WaitedFor(r) <=> WaitedFor(r)'
      BY <2>1, <3>2 DEF WaitedFor
    <3> QED
      BY <2>1, <3>1, <3>2, <3>3 DEF PendingOK
  <2> QED
    BY <2>2, <2>3
<1>4. CASE DeliverReplied
  <2>1. PICK r \in replies : r.req = retry.req /\ replies' = replies \ {r}
    BY <1>4 DEF DeliverReplied
  <2>2. retry.st # "idle" /\ retry' = NoRetry /\ UNCHANGED <<calls, fresh, pend>>
    BY <1>4 DEF DeliverReplied
  <2>3. \A p \in pend : p.req # retry.req
    BY <2>1 DEF PendingOK
  <2>4. \A q \in replies' : q \in replies /\ q.req # retry.req
    BY <2>1 DEF PendingOK
  <2> QED
    BY <2>2, <2>3, <2>4, RetryStopKeepsPending
<1>5. CASE DeliverTimedOut
  <2>1. retry.st # "idle" /\ retry' = NoRetry /\ UNCHANGED <<calls, fresh>> /\ Forget(retry.req)
    BY <1>5 DEF DeliverTimedOut
  <2> QED
    BY <2>1, RetryStopKeepsPending DEF Forget
<1> QED
  BY <1>2, <1>3, <1>4, <1>5 DEF RetryStep

-----------------------------------------------------------------------------
(* The client's callers                                                     *)

(* Callers, manager and pending calls stay as they are. *)
LEMMA QuietKeepsCallers ==
  ASSUME CallersOK, fresh \in Nat, fresh' \in Nat, fresh' >= fresh, UNCHANGED <<caller, manager, pending>>
  PROVE  CallersOK'
  BY DEF CallersOK

(* The callers and the connection manager: a call that waits with its frame *)
(* sent is pending only on the manager's connection.                        *)
LEMMA ClientKeepsCallers ==
  ASSUME CallersOK, fresh \in Nat,
         \/ ManagerStep \/ CallerStep \/ ConnectFails
         \/ \E k \in Callers : (\E op : Begin(k, op)) \/ (\E h : Unsubscribe(k, h))
  PROVE  CallersOK'
<1> USE DEF CallersOK
<1> DEFINE MF == {"st", "conn", "failed"}
<1>1. ASSUME NEW k \in Callers, NEW y, IsCaller(y), caller' = [caller EXCEPT ![k] = y], UNCHANGED <<fresh, manager>>,
             y.n = caller[k].n, y.on = caller[k].on, y.st \notin {"checked", "waiting"}, UNCHANGED pending
      PROVE  CallersOK'
  BY <1>1
<1>2. ASSUME UNCHANGED <<caller, fresh>>, manager' = [f \in MF |-> manager'[f]],
             \A x \in pending' : x \in pending,
             \/ pending' = {}
             \/ manager.st \notin {"up", "fail"}
             \/ manager'.conn = manager.conn /\ manager'.st \in {"up", "fail"}
      PROVE  CallersOK'
  BY <1>2
<1>3. ASSUME NEW k \in Callers, NEW op, Begin(k, op)
      PROVE  CallersOK'
  <2> DEFINE y == [IdleCaller EXCEPT !.st = "checked", !.op = op, !.n = fresh]
  <2>1. IsCaller(y) /\ y.st = "checked" /\ y.n = fresh /\ y.on = 0
    BY DEF IsCaller, CallerFields, IdleCaller
  <2>2. caller' = [caller EXCEPT ![k] = y] /\ fresh' = fresh + 1 /\ UNCHANGED <<manager, pending>>
    BY <1>3 DEF Begin
  <2>3. \A l \in Callers : caller[l].n # fresh
    OBVIOUS
  <2>4. fresh # 0
    OBVIOUS
  <2> HIDE DEF y
  <2>5. caller' = [l \in Callers |-> caller'[l]] /\ caller'[k] = y /\ \A l \in Callers \ {k} : caller'[l] = caller[l]
    BY <2>2
  <2> QED
    BY <2>1, <2>2, <2>3, <2>4, <2>5
<1>4. ASSUME NEW k \in Callers, Enqueue(k)
      PROVE  CallersOK'
  <2>1. CASE manager.st = "gone"
    <3> DEFINE y == [caller[k] EXCEPT !.st = "failed"]
    <3>1. IsCaller(y) /\ y.n = caller[k].n /\ y.on = caller[k].on /\ y.st = "failed"
      BY DEF IsCaller, CallerFields
    <3>2. caller' = [caller EXCEPT ![k] = y] /\ UNCHANGED <<fresh, manager, pending>>
      BY <1>4, <2>1 DEF Enqueue, serverVars
    <3> HIDE DEF y
    <3> QED
      BY <1>1, <3>1, <3>2
  <2>2. CASE manager.st # "gone"
    <3> DEFINE y == [caller[k] EXCEPT !.st = "waiting"]
    <3>1. IsCaller(y) /\ y.n = caller[k].n /\ y.on = caller[k].on /\ y.st = "waiting"
      BY DEF IsCaller, CallerFields
    <3>2. /\ caller' = [caller EXCEPT ![k] = y] /\ UNCHANGED <<fresh, manager>> /\ caller[k].st = "checked"
          /\ pending' = pending \cup {CallCid(caller[k].n)}
      BY <1>4, <2>2 DEF Enqueue, serverVars
    <3> HIDE DEF y
    <3>3. caller' = [l \in Callers |-> caller'[l]] /\ caller'[k] = y /\ \A l \in Callers \ {k} : caller'[l] = caller[l]
      BY <3>2
    <3>4. y.on = 0 /\ y.n # 0
      BY <3>1, <3>2
    <3>5. \A l \in Callers \ {k} : CallCid(caller[l].n) # CallCid(caller[k].n)
      BY <3>2 DEF CallCid
    <3> QED
      BY <3>1, <3>2, <3>3, <3>4, <3>5
  <2> QED
    BY <2>1, <2>2
<1>5. ASSUME NEW k \in Callers, Returns(k)
      PROVE  CallersOK'
  <2>1. ASSUME NEW y, IsCaller(y), caller' = [caller EXCEPT ![k] = y], y.n = caller[k].n, y.on = caller[k].on,
               y.st \in {"register", "done", "failed"}
        PROVE  CallersOK'
    BY <1>1, <1>5, <2>1 DEF Returns, serverVars
  <2>2. ASSUME NEW a, NEW st \in {"register", "done"}, caller' = [caller EXCEPT ![k].st = st, ![k].id = a.id]
        PROVE  CallersOK'
    <3> DEFINE y == [caller[k] EXCEPT !.st = st, !.id = a.id]
    <3>1. IsCaller(y) /\ y.n = caller[k].n /\ y.on = caller[k].on /\ y.st = st
      BY ZenonT(40) DEF IsCaller, CallerFields
    <3>2. caller' = [caller EXCEPT ![k] = y]
      BY <2>2
    <3> HIDE DEF y
    <3> QED
      BY <2>1, <3>1, <3>2
  <2>3. ASSUME caller' = [caller EXCEPT ![k].st = "failed"]
        PROVE  CallersOK'
    <3> DEFINE y == [caller[k] EXCEPT !.st = "failed"]
    <3>1. IsCaller(y) /\ y.n = caller[k].n /\ y.on = caller[k].on /\ y.st = "failed"
      BY DEF IsCaller, CallerFields
    <3>2. caller' = [caller EXCEPT ![k] = y]
      BY <2>3
    <3> HIDE DEF y
    <3> QED
      BY <2>1, <3>1, <3>2
  <2> HIDE DEF CallersOK
  <2> QED
    BY <1>5, <2>2, <2>3 DEF Returns
<1>6. ASSUME NEW k \in Callers, Register(k) \/ \E h : Unsubscribe(k, h)
      PROVE  CallersOK'
  <2> DEFINE y == [caller[k] EXCEPT !.st = "done"]
  <2>1. IsCaller(y) /\ y.n = caller[k].n /\ y.on = caller[k].on /\ y.st = "done"
    BY DEF IsCaller, CallerFields
  <2>2. caller' = [caller EXCEPT ![k] = y] /\ UNCHANGED <<fresh, manager, pending>>
    BY <1>6 DEF Register, Unsubscribe, serverVars
  <2> HIDE DEF y
  <2> QED
    BY <1>1, <2>1, <2>2
<1>7. ASSUME NEW n, Read(n)
      PROVE  CallersOK'
  BY <1>7, QuietKeepsCallers DEF Read, serverVars
<1>8. ASSUME NEW c, Connect(c)
      PROVE  CallersOK'
  BY <1>2, <1>8 DEF Connect, Accept
<1>9. CASE ConnectFails
  <2>1. UNCHANGED <<caller, fresh>> /\ manager.st = "down"
    BY <1>9 DEF ConnectFails, serverVars
  <2>2. manager' = [f \in MF |-> manager'[f]] /\ \A x \in pending' : x \in pending
    BY <1>9 DEF ConnectFails
  <2> QED
    BY <1>2, <2>1, <2>2
<1>10. CASE Resubscribe
  <2>1. /\ manager' = [f \in MF |-> manager'[f]] /\ manager.st \notin {"up", "fail"}
        /\ UNCHANGED <<caller, fresh, pending>>
    BY <1>10 DEF Resubscribe
  <2> QED
    BY <1>2, <2>1
<1>11. CASE SendCommand
  <2>1. /\ manager' = [f \in MF |-> manager'[f]] /\ manager'.conn = manager.conn /\ manager'.st \in {"up", "fail"}
        /\ UNCHANGED <<fresh, pending>> /\ manager.st = "up"
    BY <1>11 DEF SendCommand
  <2> DEFINE Hit(k) == caller[k].st = "waiting" /\ Head(mgr).cid = CallCid(caller[k].n)
  <2>2. caller' = [k \in Callers |-> IF Hit(k) THEN [caller[k] EXCEPT !.on = manager.conn] ELSE caller[k]]
    BY <1>11 DEF SendCommand
  <2>3. \A k \in Callers : /\ IsCaller(caller'[k]) /\ caller'[k].st = caller[k].st /\ caller'[k].n = caller[k].n
                           /\ caller'[k].on = IF Hit(k) THEN manager.conn ELSE caller[k].on
    BY <2>2, SMTT(40) DEF IsCaller, CallerFields
  <2>4. caller' = [k \in Callers |-> caller'[k]]
    BY <2>2
  <2>5. \A k \in Callers : Hit(k) => caller[k].st = "waiting"
    OBVIOUS
  <2> HIDE DEF Hit
  <2>6. \A k \in Callers : caller'[k].st = "checked" => caller'[k].on = 0
    BY <2>3, <2>5
  <2>7. \A k \in Callers : caller'[k].st = "waiting" /\ caller'[k].on # 0 /\ CallCid(caller'[k].n) \in pending' =>
                             manager'.conn = caller'[k].on /\ manager'.st \in {"up", "fail"}
    BY <2>1, <2>3
  <2> QED
    BY <2>1, <2>3, <2>4, <2>6, <2>7
<1>12. CASE ReceiveFrame
  <2>1. UNCHANGED <<caller, fresh, manager>> /\ manager.st = "up"
    BY <1>12 DEF ReceiveFrame
  <2>2. \A x \in pending' : x \in pending
    <3> DEFINE f == Head(conn[manager.conn].out)
    <3>1. CASE f.op = "event"
      BY <1>12, <3>1 DEF ReceiveFrame
    <3>2. CASE f.op = "subscribed" /\ f.cid[1] = "resub"
      BY <1>12, <3>2 DEF ReceiveFrame
    <3>3. CASE ~(f.op = "event") /\ ~(f.op = "subscribed" /\ f.cid[1] = "resub")
      BY <1>12, <3>3 DEF ReceiveFrame
    <3> QED
      BY <3>1, <3>2, <3>3
  <2> QED
    BY <1>2, <2>1, <2>2
<1>13. CASE ConnectionLost
  BY <1>2, <1>13 DEF ConnectionLost, serverVars
<1>14. CASE FailAllPending
  BY <1>2, <1>14 DEF FailAllPending, serverVars
<1> HIDE DEF CallersOK
<1> QED
  BY <1>3, <1>4, <1>5, <1>6, <1>7, <1>8, <1>9, <1>10, <1>11, <1>12, <1>13, <1>14
     DEF ManagerStep, CallerStep

-----------------------------------------------------------------------------
(* The invariant *)

(* Nobody is connected at the start. *)
LEMMA TransportStart == Init => TransportInv
<1> SUFFICES ASSUME Init PROVE TransportInv
  OBVIOUS
<1> USE DEF Init
<1>1. IsConn(NewConn) /\ NewConn.st = "new" /\ NewConn.subs = {} /\ NewConn.icpts = {} /\ NewConn.call = 0
  BY DEF NewConn, IsConn, ConnFields
<1>2. BusOK
  <2> HIDE DEF IsConn
  <2> QED
    BY <1>1 DEF BusOK, ServerShape, CallsOK, EntriesOK
<1>3. PendingOK
  BY DEF PendingOK, NoRetry
<1>4. IsCaller(IdleCaller) /\ IdleCaller.st = "idle" /\ IdleCaller.n = 0 /\ IdleCaller.on = 0
  BY DEF IdleCaller, IsCaller, CallerFields
<1>5. manager = [f \in {"st", "conn", "failed"} |-> manager[f]]
  BY DEF NewManager
<1>6. CallersOK
  BY <1>4, <1>5 DEF CallersOK
<1> QED
  BY <1>2, <1>3, <1>6 DEF TransportInv

(* Every step of the server, its clients and the network keeps it. *)
LEMMA TransportStep == TransportInv /\ [Next]_vars => TransportInv'
<1> SUFFICES ASSUME TransportInv, [Next]_vars PROVE TransportInv'
  OBVIOUS
<1>1. BusOK /\ PendingOK /\ CallersOK /\ fresh \in Nat
  BY DEF TransportInv, BusOK, ServerShape
<1>2. ASSUME UNCHANGED clientVars, fresh' \in Nat, fresh' >= fresh
      PROVE  CallersOK'
  BY <1>1, <1>2, QuietKeepsCallers DEF clientVars
<1>3. ASSUME UNCHANGED <<calls, pend, replies, retry>>, fresh' \in {fresh, fresh + 1}
      PROVE  PendingOK'
  BY <1>1, <1>3, QuietKeepsPending
<1>4. fresh' \in {fresh, fresh + 1} => fresh' \in Nat /\ fresh' >= fresh
  BY <1>1
<1>5. CASE Server(ServerStep)
  <2>1. UNCHANGED clientVars
    BY <1>5 DEF Server
  <2>2. ASSUME NEW k \in calls, CallStep(k)
        PROVE  TransportInv'
    <3>1. BusOK'
      BY <1>1, <2>2, CallStepsKeepBus, CallEndsKeepsBus DEF CallStep
    <3>2. PendingOK'
      BY <1>1, <2>2, CallStepsKeepPending
    <3>3. fresh' \in {fresh, fresh + 1}
      BY <2>2 DEF CallStep, InterceptStart, InterceptSend, InterceptReplied, InterceptTimeout, FanOut,
                  RequestTimeout, CallEnds
    <3> QED
      BY <1>2, <1>4, <2>1, <3>1, <3>2, <3>3 DEF TransportInv
  <2>3. ASSUME NEW c \in Conns, ConnStep(c)
        PROVE  TransportInv'
    <3>1. BusOK'
      BY <1>1, <2>3, QuietOpsKeepBus, EnterKeepsBus, LeaveKeepsBus DEF ConnStep
    <3>2. PendingOK'
      BY <1>1, <2>3, ConnStepKeepsPending
    <3>3. fresh' \in {fresh, fresh + 1}
      BY <2>3 DEF ConnStep, OpCall, OpReply, OpRefused, OpSubscribe, OpUnsubscribe, InterceptorLeaves,
                  OpRegisterInterceptor, OpRegisterChannelType, OpResult, WriteForwarded, ReadClosed,
                  CleanSubscriptions, CleanChannels, CleanInterceptors, CancelInterceptors
    <3> QED
      BY <1>2, <1>4, <2>1, <3>1, <3>2, <3>3 DEF TransportInv
  <2>4. ASSUME NEW id, Forward(id)
        PROVE  TransportInv'
    <3>1. BusOK'
      BY <1>1, <2>4, OthersTouchQueues, QueuesOnlyKeepsBus
    <3>2. UNCHANGED <<calls, pend, replies, retry, fresh>>
      BY <2>4 DEF Forward
    <3> QED
      BY <1>2, <1>3, <1>4, <2>1, <3>1, <3>2 DEF TransportInv
  <2>5. CASE RetryStep
    <3>1. BusOK'
      BY <1>1, <2>5, OthersTouchQueues, QueuesOnlyKeepsBus
    <3>2. PendingOK'
      BY <1>1, <2>5, RetryKeepsPending
    <3>3. UNCHANGED fresh
      BY <2>5 DEF RetryStep, DeliverSend, DeliverReplied, DeliverTimedOut
    <3> QED
      BY <1>2, <1>4, <2>1, <3>1, <3>2, <3>3 DEF TransportInv
  <2> QED
    BY <1>5, <2>2, <2>3, <2>4, <2>5 DEF Server, ServerStep
<1>6. CASE Client(ManagerStep)
  <2>1. CallersOK'
    BY <1>1, <1>6, ClientKeepsCallers DEF Client
  <2>2. UNCHANGED <<calls, pend, replies, retry, fresh>>
    BY <1>6 DEF Client, ManagerStep, Connect, Accept, Resubscribe, SendCommand, ReceiveFrame, ConnectionLost,
                FailAllPending, serverVars
  <2>3. BusOK'
    <3>1. ASSUME NEW c \in Conns, Connect(c)
          PROVE  BusOK'
      BY <1>1, <3>1, AcceptKeepsBus DEF Connect
    <3>2. CASE Resubscribe \/ SendCommand \/ ReceiveFrame
      BY <1>1, <3>2, OthersTouchQueues, QueuesOnlyKeepsBus
    <3>3. CASE ConnectionLost \/ FailAllPending
      <4>1. UNCHANGED serverVars
        BY <3>3 DEF ConnectionLost, FailAllPending
      <4> QED
        BY <1>1, <4>1, OthersTouchQueues, QueuesOnlyKeepsBus
    <3> QED
      BY <1>6, <3>1, <3>2, <3>3 DEF Client, ManagerStep
  <2> QED
    BY <1>3, <2>1, <2>2, <2>3 DEF TransportInv
<1>7. CASE Client(CallerStep)
  <2>1. CallersOK'
    BY <1>1, <1>7, ClientKeepsCallers DEF Client
  <2>2. UNCHANGED serverVars
    BY <1>7 DEF Client, CallerStep, Enqueue, Returns, Register, Read
  <2>3. BusOK'
    BY <1>1, <2>2, OthersTouchQueues, QueuesOnlyKeepsBus
  <2> QED
    BY <1>3, <2>1, <2>2, <2>3 DEF TransportInv, serverVars
<1>8. ASSUME NEW k \in Callers, NEW op, Begin(k, op)
      PROVE  TransportInv'
  <2>1. CallersOK'
    BY <1>1, <1>8, ClientKeepsCallers
  <2>2. BusOK'
    BY <1>1, <1>8, OthersTouchQueues, QueuesOnlyKeepsBus
  <2> QED
    BY <1>3, <1>8, <2>1, <2>2 DEF TransportInv, Begin
<1>9. ASSUME NEW k \in Callers, NEW h, Unsubscribe(k, h)
      PROVE  TransportInv'
  <2>1. CallersOK'
    BY <1>1, <1>9, ClientKeepsCallers
  <2>2. UNCHANGED serverVars
    BY <1>9 DEF Unsubscribe
  <2>3. BusOK'
    BY <1>1, <2>2, OthersTouchQueues, QueuesOnlyKeepsBus
  <2> QED
    BY <1>3, <2>1, <2>2, <2>3 DEF TransportInv, serverVars
<1>10. CASE ConnectFails
  <2>1. CallersOK'
    BY <1>1, <1>10, ClientKeepsCallers
  <2>2. UNCHANGED serverVars
    BY <1>10 DEF ConnectFails
  <2>3. BusOK'
    BY <1>1, <2>2, OthersTouchQueues, QueuesOnlyKeepsBus
  <2> QED
    BY <1>3, <2>1, <2>2, <2>3 DEF TransportInv, serverVars
<1>11. CASE PublishLocally /\ UNCHANGED clientVars
  <2>1. /\ calls' = calls \cup {Call(0, "publish")} /\ fresh' = fresh + 1
        /\ UNCHANGED <<conn, entries, rx, pend, replies, retry>>
    BY <1>11 DEF PublishLocally
  <2>2. Kept
    BY <1>1, <2>1, SameKept DEF BusOK
  <2>3. BusOK'
    BY <1>1, <2>1, <2>2, CallBeginsKeepsBus
  <2>4. PendingOK'
    <3>1. ~Calling(Call(0, "publish"))
      BY DEF Call, Calling
    <3> QED
      BY <1>1, <2>1, <3>1, QuietKeepsPending
  <2> QED
    BY <1>1, <1>2, <1>11, <2>1, <2>3, <2>4 DEF TransportInv
<1>12. CASE DeliverStart /\ UNCHANGED clientVars
  <2>1. BusOK'
    BY <1>1, <1>12, OthersTouchQueues, QueuesOnlyKeepsBus
  <2>2. PendingOK'
    BY <1>1, <1>12, RetryKeepsPending
  <2>3. fresh' = fresh + 1
    BY <1>12 DEF DeliverStart
  <2> QED
    BY <1>1, <1>2, <1>12, <2>1, <2>2, <2>3 DEF TransportInv
<1>13. ASSUME NEW c \in Conns, Lost(c)
       PROVE  TransportInv'
  <2>1. BusOK'
    BY <1>1, <1>13, OthersTouchQueues, QueuesOnlyKeepsBus
  <2>2. UNCHANGED <<calls, pend, replies, retry, fresh, clientVars>>
    BY <1>13 DEF Lost
  <2> QED
    BY <1>2, <1>3, <1>4, <2>1, <2>2 DEF TransportInv
<1>14. ASSUME NEW c \in peers, PeerConnects(c)
       PROVE  TransportInv'
  <2>1. c \in Conns => BusOK'
    BY <1>1, <1>14, AcceptKeepsBus DEF PeerConnects
  <2>2. UNCHANGED <<calls, pend, replies, retry, fresh, clientVars>>
    BY <1>14 DEF PeerConnects, Accept
  <2>3. c \notin Conns => BusOK'
    <3> DEFINE y == [conn[c] EXCEPT !.st = "open", !.up = TRUE]
    <3>1. conn' = [conn EXCEPT ![c] = y] /\ UNCHANGED <<entries, rx>>
      BY <1>14 DEF PeerConnects, Accept
    <3> HIDE DEF y
    <3>2. c \notin Conns => QueuesOnly(c)
      BY <2>2, <3>1 DEF QueuesOnly
    <3> QED
      BY <1>1, <3>2, QueuesOnlyKeepsBus
  <2> QED
    BY <1>2, <1>3, <1>4, <2>1, <2>2, <2>3 DEF TransportInv
<1>15. ASSUME NEW c \in peers, PeerReads(c) \/ (\E op : PeerSends(c, op)) \/ (\E id : PeerUnsubscribes(c, id))
       PROVE  TransportInv'
  <2>1. BusOK'
    BY <1>1, <1>15, OthersTouchQueues, QueuesOnlyKeepsBus
  <2>2. UNCHANGED <<calls, pend, replies, retry, fresh, clientVars>>
    BY <1>15 DEF PeerReads, PeerSends, PeerUnsubscribes
  <2> QED
    BY <1>2, <1>3, <1>4, <2>1, <2>2 DEF TransportInv
<1>16. CASE UNCHANGED vars
  <2>1. UNCHANGED serverVars /\ UNCHANGED clientVars
    BY <1>16 DEF vars
  <2>2. BusOK'
    BY <1>1, <2>1, OthersTouchQueues, QueuesOnlyKeepsBus
  <2> QED
    BY <1>2, <1>3, <1>4, <2>1, <2>2 DEF TransportInv, serverVars
<1> QED
  BY <1>5, <1>6, <1>7, <1>8, <1>9, <1>10, <1>11, <1>12, <1>13, <1>14, <1>15, <1>16 DEF Next, Client

(* The invariant holds throughout. *)
LEMMA TransportInvariant == Spec => []TransportInv
  BY TransportStart, TransportStep, PTL DEF Spec

(* For any number of connections, sizes and limits: when the task of a lost *)
(* connection has returned (the end of serve_connection), nothing of it is  *)
(* on the bus, whatever it was in the middle of.                            *)
THEOREM ClosedLeavesNothing == Spec => []NothingLeftOfClosed
<1>1. TransportInv => NothingLeftOfClosed
  BY DEF TransportInv, BusOK, EntriesOK, SubKnown, IcptKnown, NothingLeftOfClosed
<1> QED
  BY <1>1, TransportInvariant, PTL

(* pending_replies neither leaks nor mixes up results, for any number of    *)
(* publishes, proxies and connections (WsRemoteInterceptor::intercept,      *)
(* WsRemoteChannel::deliver, cancel_all).                                   *)
THEOREM PendingIsMatched == Spec => []PendingMatched
<1>1. TransportInv => PendingMatched
  <2> SUFFICES ASSUME TransportInv PROVE PendingMatched
    OBVIOUS
  <2> DEFINE waits == {k.req : k \in {x \in calls : x.st \in {"send", "wait"}}}
                      \cup (IF retry.st = "idle" THEN {} ELSE {retry.req})
  <2>1. \A r : WaitedFor(r) => r \in waits
    BY DEF WaitedFor, Calling
  <2> QED
    BY <2>1 DEF TransportInv, PendingOK, PendingMatched
<1> QED
  BY <1>1, TransportInvariant, PTL

(* A client's call ends with its connection, for any number of callers and  *)
(* reconnections (fail_all_pending in connection_manager).                  *)
THEOREM CallsEndWithConnection == Spec => []CallsDieWithConnection
<1>1. TransportInv => CallsDieWithConnection
  BY DEF TransportInv, CallersOK, CallsDieWithConnection
<1> QED
  BY <1>1, TransportInvariant, PTL
=============================================================================
