---------------------------- MODULE MCHeartbeat -----------------------------
(* An instance of Heartbeat for model checking. *)
EXTENDS Heartbeat

CONSTANTS n1, n2

\* n1 is an MU; n2 runs both services.
MCServices == [n \in Nodes |-> IF n = n1 THEN {"MU"} ELSE {"MU", "SU"}]
=============================================================================
