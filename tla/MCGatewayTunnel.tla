--------------------------- MODULE MCGatewayTunnel --------------------------
(* Public clients share an IPv4 address, which the relay's dual-stack       *)
(* socket reports in its IPv6 form; local ones may come from any address.   *)
EXTENDS GatewayTunnel

CONSTANTS v4, m4, v6a, v6b, zero, c1, c2, c3

MCCanonical == [a \in Addrs |-> CASE a = v6b -> v6a [] a = m4 -> v4
                                  [] OTHER -> a]
MCMapped == [a \in {v4} |-> m4]
=============================================================================
