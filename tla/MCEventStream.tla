---------------------------- MODULE MCEventStream ----------------------------
(* The instances of EventStream that TLC checks. *)
EXTENDS EventStream

CONSTANTS c1, c2   \* clients

TwoClients == {c1, c2}
OneClient == {c1}

=============================================================================
