---------------------------- MODULE MCRelayTunnels --------------------------
(* Instances of RelayTunnels for TLC.                                        *)
EXTENDS RelayTunnels, TLC

CONSTANTS c1, c2, c3, s1, s2, d1, d2, d3

(* Gateways, names and public connections are interchangeable. *)
Symmetry == Permutations(Conns) \cup Permutations(Snis) \cup Permutations(Clients)
=============================================================================
