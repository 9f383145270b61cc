--------------------------- MODULE MCRequestLimits --------------------------
(* An instance of RequestLimits for TLC.                                     *)
EXTENDS RequestLimits, TLC

CONSTANTS r1, r2, r3

(* A plain body at and beyond the limit, declared or not; a gRPC stream longer
   than the limit, with an empty message in it, and one with an oversized
   message after a permitted one. *)
MCBodies ==
    {[grpc |-> FALSE, declared |-> 2, messages |-> <<2>>],
     [grpc |-> FALSE, declared |-> 3, messages |-> <<3>>],
     [grpc |-> FALSE, declared |-> NoLength, messages |-> <<3>>],
     [grpc |-> TRUE, declared |-> NoLength, messages |-> <<2, 0, 1>>],
     [grpc |-> TRUE, declared |-> NoLength, messages |-> <<1, 3>>]}

Symmetry == Permutations(Requests)
=============================================================================
