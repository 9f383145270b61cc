------------------------- MODULE MCTokenRevocation --------------------------
(* An instance of TokenRevocation for TLC.                                   *)
EXTENDS TokenRevocation, TLC

CONSTANTS t1, t2, t3, t4, j1, j2, j4, c1, r1

(* The second token is issued later; the third has no jti, the fourth one that
   is too long. *)
MCExp == (t1 :> 2) @@ (t2 :> 3) @@ (t3 :> 2) @@ (t4 :> 2)
MCJti == (t1 :> j1) @@ (t2 :> j2) @@ (t3 :> None) @@ (t4 :> j4)
=============================================================================
