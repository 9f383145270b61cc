-------------------------- MODULE MCCircuitBreaker --------------------------
(* An instance of CircuitBreaker for TLC: a request task, the health checker *)
(* and an admin task on one node of a multi-node route.                      *)
EXTENDS CircuitBreaker

CONSTANTS r1, hc, adm
=============================================================================
