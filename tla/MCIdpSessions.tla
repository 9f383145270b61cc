---------------------------- MODULE MCIdpSessions ---------------------------
(* Instances of IdpSessions for TLC.                                         *)
EXTENDS IdpSessions

CONSTANTS s1, k1, d1, d2, b1, b2, i1
=============================================================================
