---------------------------- MODULE MCWsTransport ----------------------------
(* Small workloads of WsTransport for TLC. *)
EXTENDS WsTransport

NoBudget == [frames |-> 0, ops |-> {}, client |-> {}, losses |-> 0, failures |-> 0,
             locals |-> 0, deliveries |-> 0]

(* The client reconnects while its callers subscribe and leave. *)
SubscribeLoad ==
  [peers |-> {}, budget |-> [NoBudget EXCEPT !.client = {"subscribe"}, !.losses = 1]]

(* Its handles get events. *)
EventLoad ==
  [peers |-> {}, budget |-> [NoBudget EXCEPT !.client = {"subscribe"}, !.locals = 2]]

(* It reconnects, or gives up, while its callers publish. *)
PublishLoad ==
  [peers |-> {}, budget |-> [NoBudget EXCEPT !.client = {"publish"}, !.losses = 1, !.failures = 2]]

(* One peer intercepts, the other, or it itself, publishes. *)
InterceptLoad ==
  [peers |-> Conns,
   budget |-> [NoBudget EXCEPT !.frames = 3, !.ops = {"register_interceptor", "publish", "invalid"}, !.losses = 1]]

(* One peer intercepts what the process of the bus publishes. *)
LocalLoad ==
  [peers |-> Conns,
   budget |-> [NoBudget EXCEPT !.frames = 1, !.ops = {"register_interceptor"}, !.losses = 1, !.locals = 2]]

(* Peers request from each other and take deliveries. *)
RequestLoad ==
  [peers |-> Conns,
   budget |-> [NoBudget EXCEPT !.frames = 3, !.ops = {"subscribe", "request", "register_channel_type"},
                               !.losses = 1, !.deliveries = 1]]

MCWorkloads == {SubscribeLoad, EventLoad, PublishLoad, InterceptLoad, LocalLoad, RequestLoad}
=============================================================================
