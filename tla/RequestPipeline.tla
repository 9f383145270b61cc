--------------------------- MODULE RequestPipeline ---------------------------
(* One request at a time through a server: the configuration is read and its  *)
(* stack built, the ConnectionHandler (lib.rs) hands the request to the        *)
(* outermost layer, each layer answers or passes it on, the base service       *)
(* answers or forwards it upstream, and a misconfigured upstream may send it   *)
(* back to this very gateway.                                                  *)
EXTENDS ProxyHeaders

CONSTANTS
    Configs,    \* the configurations that a start may find
    Requests,   \* what clients send: [method, path, query, headers, authority, peer, cert]
    Tokens,     \* the tokens in circulation: id |-> [valid, jti, long, oids]; an empty jti
                \* counts as none, a long one exceeds MAX_JTI_LEN
    MaxRevoked, \* MAX_REVOKED_ENTRIES
    Own         \* the gateway's own address, as a request it sends to itself has it

(* What a configuration, a request and a token are made of; a path is never
   without a segment, as split('/') yields it.  A value of the client's own
   making is nothing that the gateway itself writes. *)
Paths == Seq(Seq(STRING)) \ {<<>>}
ASSUME ConfigsAssumption ==
    \A c \in Configs :
        /\ c.enabled \in Seq(STRING)
        /\ DOMAIN c.forward \subseteq {"cert", "roles", "ip"}
        /\ \A r \in c.routes : r.path \in Paths /\ r.base \in Paths
ASSUME RequestsAssumption ==
    \A r \in Requests :
        /\ DOMAIN r = {"method", "path", "query", "headers", "authority", "peer", "cert"}
        /\ r.path \in Paths
ASSUME TokensAssumption == Absent \notin DOMAIN Tokens /\ MaxRevoked \in Nat
ASSUME ClaimedAssumption ==
    /\ Claimed \notin {Absent, Own}
    /\ \A r \in Requests : Claimed \notin {r.peer, r.cert}
    /\ \A c \in Configs :
         /\ Claimed \notin {c.protocol, c.jwt}
         /\ \A S \in SUBSET ({c.oidMapping[o] : o \in DOMAIN c.oidMapping} \cup {"guest"}) :
              S # Claimed

(* Addresses as the kernel and the parsers of std::net yield them: a peer's, an
   entry's, and a forwarding header's unless it is no address.  A connection
   of the gateway to itself has a definite source. *)
Addresses == [fam : {4}, n : 0 .. (2 ^ V4Bits - 1)] \cup [fam : {6}, n : 0 .. (2 ^ V6Bits - 1)]
ASSUME AddressAssumption ==
    /\ Absent \notin Addresses \cup Nat
    /\ Own \in Addresses /\ ~IsUnspecified(Own)
    /\ \A r \in Requests :
         /\ r.peer \in Addresses
         /\ \A n \in {"x-forwarded-for", "x-real-ip"} :
              Header(r.headers, n) \in Addresses \cup {Absent, Claimed}
    /\ \A c \in Configs : \A e \in c.deny \cup c.allow :
         e.ip \in Addresses /\ e.len \in Nat \cup {Absent}

HealthPath == << <<>>, <<"health">> >>

VARIABLES
    cfg,      \* the configuration in force
    phase,    \* "start", "exited", "idle", "layers", "base", "upstream" or "done"
    pos,      \* the layer of Stack(cfg) the request is at
    req,      \* the request as the layers before pos left it
    roles,    \* its Arc<RoleVec> extension
    token,    \* its Claims extension: the token it was authenticated with
    sent,     \* what the router sent upstream: [path, query, headers]
    secured,  \* the answer passed SecurityHeaders on its way out
    revoked   \* the jtis in the revocation store

request == <<req, roles, token, sent>>
vars == <<cfg, phase, pos, req, roles, token, sent, secured, revoked>>

TypeOK ==
    /\ cfg \in Configs \cup {Absent}
    /\ phase \in {"start", "exited", "idle", "layers", "base", "upstream", "done"}
    /\ phase \notin {"start", "exited"} => pos \in 0 .. (Len(Stack(cfg)) + 1)
    /\ token \in DOMAIN Tokens \cup {Absent}
    /\ secured \in BOOLEAN
    /\ revoked \subseteq {Tokens[t].jti : t \in DOMAIN Tokens}

Init ==
    /\ cfg = Absent /\ phase = "start" /\ pos = 0
    /\ req = Absent /\ roles = {} /\ token = Absent /\ sent = Absent
    /\ secured = FALSE /\ revoked = {}

(* Start-up: a configuration that finalize or build_service_stack refuses ends
   the process. *)
Load(c) ==
    /\ phase = "start"
    /\ cfg' = c
    /\ phase' = IF Finalized(c) /\ Buildable(c) THEN "idle" ELSE "exited"
    /\ UNCHANGED <<pos, request, secured, revoked>>

(* A certificate is the set of OIDs that extract_oids_from_cert finds in it. *)
ClientOids(r) == IF r.cert = Absent THEN {} ELSE r.cert

(* ConnectionHandler::new and handle: address, certificate and the roles of
   the certificate go with the request.  Nothing of an earlier one does. *)
Enter(r) ==
    /\ req' = r /\ pos' = 1 /\ phase' = "layers"
    /\ roles' = MapOids(cfg.oidMapping, ClientOids(r))
    /\ token' = Absent /\ sent' = Absent /\ secured' = FALSE
    /\ UNCHANGED <<cfg, revoked>>

(* What the TLS acceptor lets through. *)
Handshake(r) ==
    CASE cfg.authentication = "ClientCert" -> r.cert # Absent
      [] cfg.authentication = "OptionalClientCert" -> TRUE
      [] OTHER -> r.cert = Absent

Receive(r) == phase = "idle" /\ Handshake(r) /\ Enter(r)

(* handle_h3_connection maps the roles of a QUIC connection by itself, once for
   all its requests. *)
ReceiveH3(r) ==
    /\ phase = "idle" /\ cfg.protocol = "https" /\ "tunnel" \notin cfg.sections
    /\ Handshake(r) /\ Enter(r)

(* The response is written; nothing but the revocation store remembers it. *)
Deliver ==
    /\ phase = "done"
    /\ phase' = "idle" /\ pos' = 0
    /\ req' = Absent /\ roles' = {} /\ token' = Absent /\ sent' = Absent
    /\ secured' = FALSE
    /\ UNCHANGED <<cfg, revoked>>

----------------------------------------------------------------------------
(* Layers *)

At(layers) == phase = "layers" /\ Stack(cfg)[pos] \in layers

PassOn ==
    /\ pos' = pos + 1
    /\ phase' = IF pos = Len(Stack(cfg)) THEN "base" ELSE "layers"
    /\ UNCHANGED <<cfg, sent, secured>>

(* An answer given at pos goes out through the layers before it, and through
   the one at pos unless that gave it. *)
Answer ==
    /\ phase' = "done"
    /\ secured' = \E i \in 1 .. (pos - 1) : Stack(cfg)[i] = "SecurityHeaders"
    /\ UNCHANGED <<cfg, pos, request>>

(* Layers that do nothing to a request: what they do to its answer, to a
   counter, to a log or to the clock is left out, but for `secured`. *)
Observe(l) == At({l}) /\ PassOn /\ UNCHANGED <<req, roles, token, revoked>>
Log == Observe("Logger")
Time == Observe("Timing")
Count == Observe("Counter")
Delay == Observe("Delay")
Compress == Observe("Compression")
AdvertiseH3 == Observe("AltSvc")
SecureHeaders == Observe("SecurityHeaders")

(* TraceIdMiddleware::call: both headers are there afterwards. *)
TraceId ==
    LET h == req.headers
        id == IF "traceparent" \in DOMAIN h THEN h["traceparent"]
              ELSE IF "x-trace-id" \in DOMAIN h THEN h["x-trace-id"] ELSE "generated"
    IN /\ At({"TraceId"})
       /\ req' = [req EXCEPT !.headers =
                     Inserted(h, [n \in {"traceparent", "x-trace-id"} |-> id])]
       /\ PassOn /\ UNCHANGED <<roles, token, revoked>>

(* SrvDecompressionService::call: a decoded body sheds what described the
   encoded one. *)
Decompress ==
    LET encoded == Header(req.headers, "content-encoding") \in {"gzip", "br"}
    IN /\ At({"Decompression"})
       /\ req' = IF encoded
                 THEN [req EXCEPT !.headers = Without(@, {"content-encoding", "content-length"})]
                 ELSE req
       /\ PassOn /\ UNCHANGED <<roles, token, revoked>>

(* Layers that may answer by themselves; when the limiters do is the subject
   of the modules RateLimiter and RequestLimits. *)
MayAnswer(l) ==
    /\ At({l})
    /\ (PassOn /\ UNCHANGED <<req, roles, token>>) \/ Answer
    /\ UNCHANGED revoked
LimitPayload == MayAnswer("MaxPayload")
LimitConcurrency == MayAnswer("ConcurrencyLimit")
LimitSimple == MayAnswer("RateLimiter:Simple")
LimitTokenBucket == MayAnswer("RateLimiter:TokenBucket")

(* The CORS layer takes every OPTIONS request for a preflight. *)
AnswerPreflight ==
    /\ At({"Cors"})
    /\ IF req.method = "OPTIONS" THEN Answer ELSE PassOn /\ UNCHANGED <<req, roles, token>>
    /\ UNCHANGED revoked

(* PathSanitizerService::call. *)
SanitizePath ==
    /\ At({"PathSanitizer"})
    /\ \/ Rejected(req.path) /\ Answer
       \/ /\ ~Rejected(req.path)
          /\ req' = [req EXCEPT !.path = Canonical(@)]
          /\ PassOn /\ UNCHANGED <<roles, token>>
    /\ UNCHANGED revoked

(* IpFilterService::call.  A header that is no address counts as none. *)
AddressIn(h, name) == IF Header(h, name) = Claimed THEN Absent ELSE Header(h, name)
ClientIp(r) == ExtractClientIp(r.peer, cfg.trust, AddressIn(r.headers, "x-forwarded-for"),
                               AddressIn(r.headers, "x-real-ip"))
FilterAddress ==
    /\ At({"IpFilter"})
    /\ IF EvaluateIp(cfg.deny, cfg.allow, ClientIp(req))
       THEN PassOn /\ UNCHANGED <<req, roles, token>>
       ELSE Answer
    /\ UNCHANGED revoked

(* Mutant: the allow list is asked for the path as it arrived. *)
InspectRaw ==
    /\ At({"Inspection"})
    /\ IF IsAllowed(cfg.rules, req.method, req.path, req.query)
       THEN PassOn /\ UNCHANGED <<req, roles, token>>
       ELSE Answer
    /\ UNCHANGED revoked

(* InspectionService::call: decides on the canonical path, passes the request
   on as it is. *)
Inspect ==
    /\ At({"Inspection"})
    /\ IF ~Rejected(req.path) /\ IsAllowed(cfg.rules, req.method, Canonical(req.path), req.query)
       THEN PassOn /\ UNCHANGED <<req, roles, token>>
       ELSE Answer
    /\ UNCHANGED revoked

(* JwtAuthService::call: the bearer token, else the cookie if configured. *)
Bearer(h) ==
    LET bearer == Header(h, "authorization")
    IN CASE bearer \in DOMAIN Tokens -> bearer
         [] bearer \notin DOMAIN Tokens /\ cfg.cookie -> Header(h, "cookie")
         [] OTHER -> Absent
Accepted(t) == t \in DOMAIN Tokens /\ Tokens[t].valid /\ Tokens[t].jti \notin revoked

(* JwtRevocationStore::revoke: what is left of the store with t revoked.  A
   token without a usable jti, or a new one where the store is full, is not
   recorded, and nobody is told (what makes room is the subject of the module
   TokenRevocation). *)
StoreFull == Cardinality(revoked) >= MaxRevoked
Revoke(t) ==
    LET jti == Tokens[t].jti
    IN IF jti = Absent \/ Tokens[t].long \/ (StoreFull /\ jti \notin revoked)
       THEN revoked ELSE revoked \cup {jti}

(* Mutant: the token's roles are added to the certificate's. *)
CheckTokenAdds ==
    LET t == Bearer(req.headers)
    IN /\ At({"JwtAuth"})
       /\ \/ ~Accepted(t) /\ Answer /\ UNCHANGED revoked
          \/ /\ Accepted(t)
             /\ token' = t
             /\ roles' = roles \cup MapOids(cfg.oidMapping, Tokens[t].oids)
             /\ revoked' = IF req.path \in cfg.revokeOn THEN Revoke(t) ELSE revoked
             /\ PassOn /\ UNCHANGED req

(* JwtAuthFuture::poll: an accepted token's roles replace those of the
   certificate, and a logout path revokes it; the request goes on either way. *)
CheckToken ==
    LET t == Bearer(req.headers)
    IN /\ At({"JwtAuth"})
       /\ \/ ~Accepted(t) /\ Answer /\ UNCHANGED revoked
          \/ /\ Accepted(t)
             /\ token' = t
             /\ roles' = MapOids(cfg.oidMapping, Tokens[t].oids)
             /\ revoked' = IF req.path \in cfg.revokeOn THEN Revoke(t) ELSE revoked
             /\ PassOn /\ UNCHANGED req

----------------------------------------------------------------------------
(* The base service *)

(* The services that answer by themselves (the Idp's state is the subject of the
   module IdpSessions). *)
Serve(service) == phase = "base" /\ cfg.service = service /\ Answer /\ UNCHANGED revoked
ServeEcho == Serve("Echo")
ServeAdmin == Serve("Admin")
ServeStaticFiles == Serve("StaticFiles")
ServeIdp == Serve("Idp")

IsHealthCheck == req.method = "GET" /\ req.path = HealthPath
AtRouter == phase = "base" /\ cfg.service = "Router"
Matched == MatchRoute(cfg.routes, Canonical(req.path))
Permitted(r) == EnforceRbac(cfg.rbac, r, roles, Canonical(req.path))

(* RouterService::call, the ways that end here: the health check, a path that
   is refused, no route, a role that is missing, an Admin route, a loop, and
   what cannot be transcoded: for want of a schema, for a method it does not
   know, or for a body that is no JSON of it. *)
RouterAnswers ==
    /\ AtRouter
    /\ \/ IsHealthCheck
       \/ Rejected(req.path)
       \/ Matched = {}
       \/ \E r \in Matched : \/ ~Permitted(r) \/ LoopDetected(req.headers)
                            \/ r.backend \in {"Admin", "GrpcTranscoding"}
    /\ Answer /\ UNCHANGED revoked

(* A request without Host, as HTTP/2 has it, gets it from :authority. *)
WithHost(r) ==
    IF "host" \in DOMAIN r.headers \/ r.authority = Absent THEN r.headers
    ELSE Inserted(Only("host", r.authority), r.headers)

(* What is sent for path p of a route: a transcoded request loses its query. *)
Outgoing(r, p) ==
    LET transcoded == r.backend = "GrpcTranscoding"
        prepared == PrepareProxyHeaders(WithHost(req), cfg, req.peer, req.cert, roles)
    IN [path |-> IF transcoded THEN TranscodedPath(p) ELSE UpstreamPath(r, p),
        query |-> IF transcoded THEN "" ELSE req.query,
        headers |-> Dispatched(r, prepared)]
Deliverable(r, p) ==
    /\ r.backend # "Admin"
    /\ r.backend = "GrpcTranscoding" => Transcodable(r, req.method, p)

(* Mutant: the router trusts the path that the layers left. *)
ForwardAsIs ==
    /\ AtRouter
    /\ ~IsHealthCheck
    /\ \E r \in MatchRoute(cfg.routes, req.path) :
         /\ Permitted(r) /\ Deliverable(r, req.path) /\ ~LoopDetected(req.headers)
         /\ sent' = Outgoing(r, req.path)
    /\ phase' = "upstream"
    /\ UNCHANGED <<cfg, pos, req, roles, token, secured, revoked>>

(* RouterService::call, the way upstream. *)
Forward ==
    /\ AtRouter
    /\ ~IsHealthCheck /\ ~Rejected(req.path)
    /\ \E r \in Matched :
         /\ Permitted(r) /\ Deliverable(r, Canonical(req.path)) /\ ~LoopDetected(req.headers)
         /\ sent' = Outgoing(r, Canonical(req.path))
    /\ req' = [req EXCEPT !.path = Canonical(@)]
    /\ phase' = "upstream"
    /\ UNCHANGED <<cfg, pos, roles, token, secured, revoked>>

UpstreamAnswers == phase = "upstream" /\ Answer /\ UNCHANGED revoked

(* The upstream address is this gateway's own. *)
LoopBack ==
    /\ phase = "upstream"
    /\ LET back == [req EXCEPT !.path = sent.path, !.query = sent.query,
                               !.headers = sent.headers, !.peer = Own, !.cert = Absent]
       IN Handshake(back) /\ Enter(back)

Finished == phase = "exited" /\ UNCHANGED vars

Layer ==
    \/ Log \/ Time \/ Count \/ Delay \/ Compress \/ AdvertiseH3 \/ SecureHeaders
    \/ LimitPayload \/ LimitConcurrency \/ LimitSimple \/ LimitTokenBucket \/ AnswerPreflight
    \/ TraceId \/ Decompress \/ SanitizePath \/ FilterAddress \/ Inspect \/ CheckToken
Base == ServeEcho \/ ServeAdmin \/ ServeStaticFiles \/ ServeIdp \/ RouterAnswers \/ Forward
Upstream == UpstreamAnswers \/ LoopBack

Next ==
    \/ \E c \in Configs : Load(c)
    \/ \E r \in Requests : Receive(r) \/ ReceiveH3(r)
    \/ Layer \/ Base \/ Upstream \/ Deliver
    \/ Finished

Spec == Init /\ [][Next]_vars

(* A request that is being handled is handled on; no client need send one. *)
FairSpec == Spec /\ WF_vars(Layer \/ Base \/ Upstream)

----------------------------------------------------------------------------
(* Properties *)

(* Whatever escapes, dots and slashes a client writes, the path that reaches an
   upstream is one that no further decoding changes and no check would refuse:
   below the base path of the upstream that the route names, or, where the
   route transcodes, the service and the method at the end of the request's
   path and nothing else, without that base path.  The router canonicalises
   what the sanitizer already did, and checks its result (router/mod.rs,
   path_sanitizer.rs, upstreams.rs, grpc_web.rs). *)
UpstreamPathIsCanonical ==
    phase = "upstream" =>
      /\ ~Rejected(sent.path) /\ Canonical(sent.path) = sent.path
      /\ \E r \in MatchRoute(cfg.routes, req.path) :
           IF r.backend = "GrpcTranscoding"
           THEN /\ Len(sent.path) = 3 /\ Len(req.path) >= 3
                /\ sent.path[2] = req.path[Len(req.path) - 1]
                /\ sent.path[3] = req.path[Len(req.path)]
           ELSE IsPrefix(Trimmed(r.base), sent.path)

(* The Inspection layer's allow list holds for the path that is forwarded,
   wherever in the stack the layer is and whatever a layer behind it does to
   the path. *)
InspectedAsForwarded ==
    phase = "upstream" /\ Has(Stack(cfg), "Inspection")
      => IsAllowed(cfg.rules, req.method, req.path, req.query)

(* A server whose authentication is Jwt forwards nothing without a valid
   token, and role rules are decided on the token's roles alone where there is
   one, else on the certificate's (configuration.rs finalize, jwt.rs,
   rbac.rs). *)
AuthorizedOnly ==
    LET oids == IF token # Absent THEN Tokens[token].oids
                ELSE IF req.cert # Absent THEN req.cert ELSE {}
    IN phase = "upstream" =>
         /\ cfg.authentication = "Jwt" => token # Absent /\ Tokens[token].valid
         /\ \E r \in MatchRoute(cfg.routes, req.path) :
              EnforceRbac(cfg.rbac, r, MapOids(cfg.oidMapping, oids), req.path)

(* No client can name its own identity or address: every identity and
   forwarding header an upstream receives is the gateway's, and no Connection
   header makes the gateway leave one out (headers.rs). *)
IdentityIsVerified ==
    phase = "upstream" =>
      LET h == sent.headers
          forwarded == [cert |-> req.cert, roles |-> roles, ip |-> req.peer]
      IN /\ \A n \in IdentityHeaders \cup ConfiguredNames(cfg) \cup
                    (ForwardingHeaders \ {"x-forwarded-host"}) : Header(h, n) # Claimed
         /\ \A k \in DOMAIN cfg.forward : Header(h, cfg.forward[k]) = forwarded[k]
         /\ \A n \in {"x-real-ip", "x-forwarded-for"} :
              Header(h, n) = IF IsUnspecified(req.peer) THEN Absent ELSE req.peer

(* The token t can no longer be used, or the store could not take it: no jti, a
   jti that is too long, or no room. *)
Withdrawn(t) == Tokens[t].jti \in revoked \cup {Absent} \/ Tokens[t].long \/ StoreFull

(* A forwarded request to a logout path leaves its token revoked, however the
   path was spelt, but for a token that the store cannot take, or a
   PathSanitizer that is listed behind JwtAuth (server.rs build_service_stack,
   jwt.rs). *)
LogoutRevokes ==
    phase = "upstream" /\ token # Absent /\ req.path \in cfg.revokeOn
      /\ (Has(cfg.enabled, "PathSanitizer")
            => Position(cfg.enabled, "PathSanitizer") < Position(cfg.enabled, "JwtAuth"))
      => Withdrawn(token)

(* The reference meaning of a CIDR entry: IPv4 is the mapped part of IPv6, and
   an entry covers the addresses that agree with it in the leading bits.
   IpCidr keeps to it for entries that lie in one of the two families. *)
Lift(a) == IF a.fam = 4 THEN MappedHigh * 2 ^ V4Bits + a.n ELSE a.n
Covers(e, a) ==
    LET len == CASE e.len = Absent -> V6Bits
                 [] e.len # Absent /\ e.ip.fam = 4 -> e.len + V6Bits - V4Bits
                 [] OTHER -> e.len
        host == 2 ^ (V6Bits - len)
    IN Lift(e.ip) \div host = Lift(a) \div host
OneFamily(e) == e.ip.fam = 4 \/ e.len = Absent \/ e.len >= V6Bits - V4Bits

(* Nothing is forwarded for an address that the deny list covers or an allow
   list does not, in whichever notation entry and address are written, and
   forwarding headers never stand in for a known address (ip_filter.rs). *)
FilterHolds ==
    LET a == IF IsUnspecified(req.peer) THEN ClientIp(req) ELSE req.peer
    IN phase = "upstream" /\ Has(Stack(cfg), "IpFilter") /\ a # Absent
         => /\ \A e \in cfg.deny : OneFamily(e) => ~Covers(e, a)
            /\ cfg.allow # {} /\ (\A e \in cfg.allow : OneFamily(e))
                 => \E e \in cfg.allow : Covers(e, a)

(* Unless the configuration places SecurityHeaders itself, every answer carries
   the security headers, the refusals of the layers included; only the 400 of a
   PathSanitizer that wraps the whole stack does not (configuration.rs
   build_middleware_layers). *)
AnswersAreSecured ==
    phase = "done" /\ ~Has(cfg.enabled, "SecurityHeaders")
      => secured \/ (pos = 1 /\ Stack(cfg)[1] = "PathSanitizer")

(* A request that a misconfigured route sends round in circles is answered in
   the end, whatever Max-Forwards or Connection header it started with. *)
LoopEnds == phase = "layers" ~> phase = "done"
=============================================================================
