----------------------------- MODULE MCFailover -----------------------------
(* Instances of Failover for TLC: two or three upstream nodes and one or two *)
(* request tasks.                                                            *)
EXTENDS Failover, TLC

CONSTANTS n1, n2, n3, r1, r2

(* Nodes and request tasks are interchangeable: every strategy modelled is
   symmetric in them. *)
Symmetry == Permutations(Nodes) \cup Permutations(Requests)
=============================================================================
