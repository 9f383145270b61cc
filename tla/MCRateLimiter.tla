---------------------------- MODULE MCRateLimiter ---------------------------
(* An instance of RateLimiter for TLC.                                       *)
EXTENDS RateLimiter, TLC

CONSTANTS w1, w2, u1, v4, v6a, v6b, net

(* Two addresses of an IPv6 /64 count as one client. *)
MCCanonical == (v4 :> v4) @@ (v6a :> net) @@ (v6b :> net)

(* Two addresses of one network, the second behind a proxy's header; a user
   and a certificate, whose addresses are not used. *)
MCRequests ==
    {[sub |-> None, san |-> None, ip |-> v6a,  xff |-> v4,   xrip |-> None],
     [sub |-> None, san |-> None, ip |-> None, xff |-> v6b,  xrip |-> v4],
     [sub |-> u1,   san |-> None, ip |-> v4,   xff |-> None, xrip |-> None],
     [sub |-> None, san |-> u1,   ip |-> v4,   xff |-> None, xrip |-> None]}

Symmetry == Permutations(Workers)

(* The TTL is as short as the limits allow, so that they are tested. *)
ASSUME ShortTtl == TtlOutlasts /\ ~(Ttl - 1 >= Limit)
=============================================================================
