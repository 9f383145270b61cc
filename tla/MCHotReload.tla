---------------------------- MODULE MCHotReload -----------------------------
(* An instance of HotReload for TLC: a server that moves between two ports,  *)
(* changes its protocol, disappears and returns, and a client of it.         *)
EXTENDS HotReload

CONSTANTS n1, p1, p2, k1
=============================================================================
