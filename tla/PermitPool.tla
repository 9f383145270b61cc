----------------------------- MODULE PermitPool -----------------------------
(***************************************************************************)
(* What a connection tracker promises, whatever its counters do: a pool of *)
(* permits, handed out one at a time and never more than there are, each   *)
(* given back once.  The gateway's tracker implements it with an atomic    *)
(* counter that is incremented before it is compared.                      *)
(***************************************************************************)
EXTENDS Naturals, FiniteSets

CONSTANTS
    Clients,
    Permits  \* how many there are

VARIABLE holders

Init == holders = {}

Take(c) ==
    /\ c \notin holders
    /\ Cardinality(holders) < Permits
    /\ holders' = holders \cup {c}

Give(c) ==
    /\ c \in holders
    /\ holders' = holders \ {c}

Next == \E c \in Clients : Take(c) \/ Give(c)

Spec == Init /\ [][Next]_holders
=============================================================================
