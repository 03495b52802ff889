------------------------------- MODULE WsClient -------------------------------
(***************************************************************************)
(* The WebSocket client of the plugins: callers that publish, request,     *)
(* subscribe and unsubscribe share one connection manager, which sends     *)
(* their frames, hands the answers back by correlation id, passes events   *)
(* to the subscription handles, and connects again when the connection is  *)
(* lost: it then subscribes again for every handle it knows.               *)
(***************************************************************************)
EXTENDS WsServer

CONSTANTS
  Callers,      \* tasks that use the client, each for one operation
  InboxSize,    \* capacity of a handle's channel (256)
  MaxAttempts   \* max_reconnect_attempts

VARIABLES
  manager,  \* the connection manager: its state, connection and failed attempts
  mgr,      \* the command channel
  pending,  \* the correlation ids of calls that wait
  answers,  \* the answers handed to calls that have not woken up yet
  handles,  \* SubscriberRegistry: the handles with their server ids (0: none)
  inbox,    \* per handle, the events its owner has not read
  caller    \* the state of the callers; on is the connection their frame went out on

clientVars == <<manager, mgr, pending, answers, handles, inbox, caller>>

CallCid(n) == <<"call", n>>
ResubCid(n) == <<"resub", n>>

IdleCaller == [st |-> "idle", op |-> "none", n |-> 0, id |-> 0, on |-> 0]
NewManager == [st |-> "down", conn |-> 0, failed |-> 0]

Connected == manager.st \in {"resub", "up"}

-----------------------------------------------------------------------------
(* Callers: send_and_wait in the steps between which others run             *)

(* is_connected, then the number that is both correlation and stable id. *)
Begin(k, op) ==
  /\ caller[k].st = "idle" /\ Connected
  /\ caller' = [caller EXCEPT ![k] = [IdleCaller EXCEPT !.st = "checked", !.op = op, !.n = fresh]]
  /\ fresh' = fresh + 1
  /\ UNCHANGED <<conn, entries, rx, pend, replies, calls, owner, retry>>
  /\ UNCHANGED <<manager, mgr, pending, answers, handles, inbox>>

Enqueue(k) ==
  /\ caller[k].st = "checked"
  /\ IF manager.st = "gone"
     THEN caller' = [caller EXCEPT ![k].st = "failed"] /\ UNCHANGED <<mgr, pending>>
     ELSE /\ pending' = pending \cup {CallCid(caller[k].n)}
          /\ mgr' = Append(mgr, Frame(caller[k].op, CallCid(caller[k].n), 0))
          /\ caller' = [caller EXCEPT ![k].st = "waiting"]
  /\ UNCHANGED <<serverVars, manager, answers, handles, inbox>>

(* The answer, or the end of the channel when the pending entry was cleared. *)
Returns(k) ==
  /\ caller[k].st = "waiting"
  /\ \/ \E a \in answers :
          /\ a.cid = CallCid(caller[k].n)
          /\ answers' = answers \ {a}
          /\ caller' = [caller EXCEPT ![k].st = IF a.op = "subscribed" THEN "register" ELSE "done", ![k].id = a.id]
     \/ /\ CallCid(caller[k].n) \notin pending
        /\ ~\E a \in answers : a.cid = CallCid(caller[k].n)
        /\ caller' = [caller EXCEPT ![k].st = "failed"]
        /\ UNCHANGED answers
  /\ UNCHANGED <<serverVars, manager, mgr, pending, handles, inbox>>

(* subscribe: the handle is entered and bound after the answer was taken. *)
Register(k) ==
  /\ caller[k].st = "register"
  /\ handles' = handles \cup {[stable |-> caller[k].n, server |-> caller[k].id]}
  /\ inbox' = [n \in DOMAIN inbox \cup {caller[k].n} |-> IF n = caller[k].n THEN <<>> ELSE inbox[n]]
  /\ caller' = [caller EXCEPT ![k].st = "done"]
  /\ UNCHANGED <<serverVars, manager, mgr, pending, answers>>

(* unsubscribe: the server is told only if the handle has a server id. *)
Unsubscribe(k, h) ==
  /\ caller[k].st = "idle" /\ h \in handles
  /\ handles' = handles \ {h}
  /\ inbox' = [n \in DOMAIN inbox \ {h.stable} |-> inbox[n]]
  /\ mgr' = IF h.server = 0 THEN mgr ELSE Append(mgr, Frame("unsubscribe", NoCid, h.server))
  /\ caller' = [caller EXCEPT ![k].st = "done"]
  /\ UNCHANGED <<serverVars, manager, pending, answers>>

Read(n) ==
  /\ n \in DOMAIN inbox /\ inbox[n] # <<>>
  /\ inbox' = [inbox EXCEPT ![n] = Tail(@)]
  /\ UNCHANGED <<serverVars, manager, mgr, pending, answers, handles, caller>>

-----------------------------------------------------------------------------
(* connection_manager                                                       *)

Connect(c) ==
  /\ manager.st = "down"
  /\ Accept(c)
  /\ manager' = [st |-> "resub", conn |-> c, failed |-> 0]
  /\ UNCHANGED <<mgr, pending, answers, handles, inbox, caller>>

(* A failed attempt waits for the backoff, or for a command, which is lost. *)
ConnectFails ==
  /\ manager.st = "down" /\ manager.failed < MaxAttempts
  /\ IF manager.failed + 1 = MaxAttempts
     THEN manager' = [manager EXCEPT !.st = "gone"] /\ pending' = {} /\ mgr' = <<>>
     ELSE /\ manager' = [manager EXCEPT !.failed = @ + 1]
          /\ mgr' \in {mgr, IF mgr = <<>> THEN mgr ELSE Tail(mgr)}
          /\ UNCHANGED pending
  /\ UNCHANGED <<serverVars, answers, handles, inbox, caller>>

ToServer(frames) == conn' = [conn EXCEPT ![manager.conn].in = @ \o frames]

Resubscribe ==
  /\ manager.st = "resub"
  /\ IF conn[manager.conn].up
     THEN /\ LET again == Sorted({h.stable : h \in handles})
             IN  ToServer([i \in DOMAIN again |-> Frame("subscribe", ResubCid(again[i]), 0)])
          /\ manager' = [manager EXCEPT !.st = "up"]
     ELSE manager' = [manager EXCEPT !.st = "fail"] /\ UNCHANGED conn
  /\ UNCHANGED <<entries, rx, pend, replies, calls, owner, retry, fresh>>
  /\ UNCHANGED <<mgr, pending, answers, handles, inbox, caller>>

(* A command on its way to the server; on a lost connection it is lost too. *)
SendCommand ==
  /\ manager.st = "up" /\ mgr # <<>>
  /\ mgr' = Tail(mgr)
  /\ IF conn[manager.conn].up
     THEN ToServer(<<Head(mgr)>>) /\ UNCHANGED manager
     ELSE manager' = [manager EXCEPT !.st = "fail"] /\ UNCHANGED conn
  /\ caller' = [k \in Callers |->
                  IF caller[k].st = "waiting" /\ Head(mgr).cid = CallCid(caller[k].n)
                  THEN [caller[k] EXCEPT !.on = manager.conn] ELSE caller[k]]
  /\ UNCHANGED <<entries, rx, pend, replies, calls, owner, retry, fresh>>
  /\ UNCHANGED <<pending, answers, handles, inbox>>

(* handle_server_msg: an error without a correlation id reaches nobody, nor *)
(* does an event whose handle is not entered; an event for a handle that is *)
(* full keeps the manager waiting.                                          *)
ReceiveFrame ==
  /\ manager.st = "up" /\ conn[manager.conn].out # <<>>
  /\ LET f == Head(conn[manager.conn].out)
         bound == {h \in handles : h.server = f.id}
     IN  CASE f.op = "event" ->
                /\ \A h \in bound : Len(inbox[h.stable]) < InboxSize
                /\ inbox' = [n \in DOMAIN inbox |->
                               IF \E h \in bound : h.stable = n THEN Append(inbox[n], f) ELSE inbox[n]]
                /\ UNCHANGED <<pending, answers, handles>>
           [] f.op = "subscribed" /\ f.cid[1] = "resub" ->
                /\ handles' = {IF h.stable = f.cid[2] THEN [h EXCEPT !.server = f.id] ELSE h : h \in handles}
                /\ UNCHANGED <<pending, answers, inbox>>
           [] OTHER ->
                /\ pending' = pending \ {f.cid}
                /\ answers' = IF f.cid \in pending THEN answers \cup {f} ELSE answers
                /\ UNCHANGED <<handles, inbox>>
  /\ conn' = [conn EXCEPT ![manager.conn].out = Tail(@)]
  /\ UNCHANGED <<entries, rx, pend, replies, calls, owner, retry, fresh>>
  /\ UNCHANGED <<manager, mgr, caller>>

ConnectionLost ==
  /\ manager.st = "up" /\ ~conn[manager.conn].up
  /\ manager' = [manager EXCEPT !.st = "fail"]
  /\ UNCHANGED <<serverVars, mgr, pending, answers, handles, inbox, caller>>

\* Mutant: the calls that wait are forgotten when the connection is lost.
FailAllForgotten ==
  /\ manager.st = "fail"
  /\ handles' = {[h EXCEPT !.server = 0] : h \in handles}
  /\ manager' = [manager EXCEPT !.st = "down"]
  /\ UNCHANGED <<serverVars, mgr, pending, answers, inbox, caller>>

(* fail_all_pending and clear_server_ids, before the next attempt. *)
FailAllPending ==
  /\ manager.st = "fail"
  /\ pending' = {}
  /\ handles' = {[h EXCEPT !.server = 0] : h \in handles}
  /\ manager' = [manager EXCEPT !.st = "down"]
  /\ UNCHANGED <<serverVars, mgr, answers, inbox, caller>>
=============================================================================
