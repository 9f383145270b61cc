---------------------------- MODULE ProxyHeaders ----------------------------
(* Header rewriting on the way to an upstream: prepare_proxy_headers and       *)
(* inject_real_ip of middleware/router/headers.rs, what the three ways of      *)
(* dispatching add, build_upstream_uri of upstreams.rs, and the path that      *)
(* handle_grpc_web of grpc_web.rs makes instead.  Headers are a function from  *)
(* the names present to a value: `Claimed` (a model value) where a client made *)
(* it up, or what it stands for.                                               *)
EXTENDS ServiceStack

CONSTANTS
    DefaultForwards,  \* 10 in the code
    Claimed,          \* a header value of the client's own making
    Junk              \* a Max-Forwards value that is no number

ASSUME ForwardsAssumption == DefaultForwards \in 0 .. 255

HopByHop == {"connection", "te"}
IdentityHeaders == {"x-client-cert", "x-client-roles", "x-client-ip"}
ForwardingHeaders == {"forwarded", "x-forwarded-for", "x-real-ip",
                      "x-forwarded-host", "x-forwarded-proto"}

Without(h, names) == Restrict(h, DOMAIN h \ names)
Header(h, name) == IF name \in DOMAIN h THEN h[name] ELSE Absent
NoHeaders == [n \in {} |-> Absent]

(* HeaderMap::insert of one header, and of several into h. *)
Only(name, value) == [n \in {name} |-> value]
Inserted(new, h) ==
    [n \in DOMAIN new \cup DOMAIN h |-> IF n \in DOMAIN new THEN new[n] ELSE h[n]]

(* The names that the Connection header declares hop-by-hop, and the names the
   configuration gives to the identity headers it forwards. *)
NamedHops(h) == IF "connection" \in DOMAIN h THEN h["connection"] ELSE {}
ConfiguredNames(c) == {c.forward[k] : k \in DOMAIN c.forward}

(* Loop detection: 0 stops the request, a number that fits a u8 is counted
   down, anything else starts over. *)
LoopDetected(h) == Header(h, "max-forwards") = 0
(* Mutant: the number is checked and not counted down. *)
MaxForwardsKept(h) == LET n == Header(h, "max-forwards")
                      IN IF n \in {Absent, Junk} \/ n > 255 THEN DefaultForwards ELSE n
MaxForwards(h) == LET n == Header(h, "max-forwards")
                  IN IF n \in {Absent, Junk} \/ n > 255 THEN DefaultForwards ELSE n - 1

(* What the gateway itself vouches for: address, protocol and host, its own
   token, and the identity headers if their forwarding is configured. *)
VerifiedAddress(peer) ==
    IF IsUnspecified(peer) THEN NoHeaders
    ELSE [n \in {"x-real-ip", "x-forwarded-for"} |-> peer]
ForwardedHost(h, c) ==
    CASE "host" \in DOMAIN h -> Only("x-forwarded-host", h["host"])
      [] "host" \notin DOMAIN h /\ "tunnel" \in c.sections -> Only("x-forwarded-host", "sni")
      [] OTHER -> NoHeaders
UpstreamToken(c) == IF c.jwt = Absent THEN NoHeaders ELSE Only("authorization", c.jwt)
ForwardedIdentity(c, peer, cert, roles) ==
    LET value == [cert |-> cert, roles |-> roles, ip |-> peer]
        given == {k \in DOMAIN c.forward :
                    /\ k = "cert" => cert # Absent
                    /\ k = "roles" => roles # {}}
    IN [n \in {c.forward[k] : k \in given} |-> value[CHOOSE k \in given : c.forward[k] = n]]

Counted(h) == Inserted(Only("max-forwards", MaxForwards(h)), h)

(* Steps 3 to 6 of prepare_proxy_headers: what a client may not say goes, what
   the gateway vouches for is inserted. *)
Vouched(h, c, peer, cert, roles) ==
    LET own == Without(h, IdentityHeaders \cup ConfiguredNames(c) \cup ForwardingHeaders)
        addressed == Inserted(Only("x-forwarded-proto", c.protocol),
                              Inserted(VerifiedAddress(peer), own))
        located == Inserted(ForwardedHost(addressed, c), addressed)
    IN Inserted(ForwardedIdentity(c, peer, cert, roles), Inserted(UpstreamToken(c), located))

(* Mutant: the headers that Connection names are removed last. *)
HopsRemovedLast(h, c, peer, cert, roles) ==
    Without(Vouched(Counted(h), c, peer, cert, roles), NamedHops(h) \cup HopByHop)

(* The headers sent upstream.  The Connection header is read after
   Max-Forwards was written, so that it may name it. *)
PrepareProxyHeaders(h, c, peer, cert, roles) ==
    Vouched(Without(Counted(h), NamedHops(h) \cup HopByHop), c, peer, cert, roles)

(* trim_end_matches('/'): the segments up to the last that is not empty; of a
   path of slashes alone nothing is left. *)
Trimmed(p) ==
    LET last == CHOOSE n \in DOMAIN p : /\ n = 1 \/ p[n] # <<>>
                                       /\ \A i \in (n + 1) .. Len(p) : p[i] = <<>>
    IN SubSeq(p, 1, last)

(* build_upstream_uri: the upstream's base path and what the route's wildcard
   matched. *)
UpstreamPath(route, p) ==
    LET root == Trimmed(route.base)
    IN CASE p # route.path -> root \o SubSeq(p, Len(WildcardBase(route.path)) + 1, Len(p))
         [] p = route.path /\ root = EmptyPath -> RootPath
         [] OTHER -> root

(* handle_grpc_web: the path that is transcoded names a service and a method in
   its last two segments, both known to the upstream's schema (by reflection,
   external); what is before them and the upstream's base path are not sent. *)
ServiceAndMethod(p) == <<p[Len(p) - 1], p[Len(p)]>>
Transcodable(route, method, p) ==
    method = "POST" /\ Len(p) >= 3 /\ ServiceAndMethod(p) \in route.schema
TranscodedPath(p) == <<<<>>, p[Len(p) - 1], p[Len(p)]>>

(* The headers that a way of dispatching writes itself, in the gateway's words:
   the host is the upstream's, gRPC has its own te and content type, and a
   transcoded body no longer the client's length.  Trace context is left out. *)
WireHeaders(route) ==
    [n \in {"host"} \cup (IF route.backend = "Rest" THEN {} ELSE {"te"})
            \cup (IF route.backend = "GrpcTranscoding" THEN {"content-type"} ELSE {})
       |-> "wire"]
Dispatched(route, h) ==
    Inserted(WireHeaders(route),
             IF route.backend = "GrpcTranscoding" THEN Without(h, {"content-length"}) ELSE h)
=============================================================================
