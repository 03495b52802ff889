------------------------------- MODULE MCHttp -------------------------------
(* Small workloads of HttpSubscriptions for TLC. *)
EXTENDS HttpSubscriptions

(* Registrations come and go, with a fault and a restart. *)
Registrations == [endpoint |-> "up", budget |-> [ids |-> 3, faults |-> 1, restarts |-> 1]]

(* The receiver of the one subscription fails and recovers. *)
Deliveries == [endpoint |-> "down", budget |-> [ids |-> 1, faults |-> 0, restarts |-> 1]]

MCWorkloads == {Registrations, Deliveries}
=============================================================================
