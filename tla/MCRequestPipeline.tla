-------------------------- MODULE MCRequestPipeline --------------------------
(* Configurations and requests for TLC.  IPv4 addresses have two bits, IPv6    *)
(* addresses six, of which the leading four mark an IPv4-mapped one.           *)
EXTENDS RequestPipeline

----------------------------------------------------------------------------
(* Paths: "/a" is forwarded to "/b" at the upstream, "/a/x" is an exact rule,
   "/a/p..." a prefix rule, "/a/out" the logout path, "/st" the Admin route,
   "/r" a route whose upstream is this gateway, "/g/..." is transcoded for
   an upstream at "/b" that knows the service "s" with the method "m", "/s/..."
   is passed through as gRPC. *)
S(segments) == <<<<>>>> \o segments
A == S(<< <<"a">> >>)
AX == S(<< <<"a">>, <<"x">> >>)
AP == S(<< <<"a">>, <<"p">> >>)
Out == S(<< <<"a">>, <<"o">> >>)
R == S(<< <<"r">> >>)
G == S(<< <<"g">> >>)
SM == << <<"s">>, <<"m">> >>

Spellings == {
    EmptyPath, RootPath, A, AX, AP, Out, R, HealthPath, << <<"a">> >>,
    S(<< <<"a">>, <<>> >>), S(<< <<"a">>, <<>>, <<"x">> >>),
    S(<< <<"a">>, <<".">>, <<"x">> >>), S(<< <<"a">>, <<"%2e">>, <<"x">> >>),
    S(<< <<"a">>, <<".", ".">> >>), S(<< <<"a">>, <<".", ".">>, <<"x">> >>),
    S(<< <<"a">>, <<"%2e", ".">>, <<"x">> >>), S(<< <<"%61">>, <<"x">> >>),
    S(<< <<>>, <<"a">>, <<"o">> >>), S(<< <<"a">>, <<".">>, <<"o">> >>),
    S(<< <<"a">>, <<"%25", "%32", "%65">> >>), S(<< <<"a">>, <<"%25", "2", "e">> >>),
    S(<< <<"a">>, <<"%2f">> >>), S(<< <<"a">>, <<"%00">> >>), S(<< <<"a">>, <<"%">> >>),
    S(<< <<"a">>, <<"\\">> >>), S(<< <<"a">>, <<"%3a">>, <<>> >>),
    S(<< <<"a">>, <<"p", "p">> >>), S(<< <<"st">> >>), S(<< <<"st">>, <<"m">> >>),
    S(<< <<"a">>, <<"x">>, <<".">> >>), S(<< <<"n">> >>),
    G, S(SM), G \o SM, G \o << <<"x">> >> \o SM, G \o << <<"s">>, <<"x">> >>,
    G \o << <<"s">>, <<".">>, <<"m">> >>, G \o SM \o << <<>> >>, G \o << <<"%73">>, <<"m">> >>}

Anything == Spellings \X {"", "q"}
NoQuery == Spellings \X {""}

----------------------------------------------------------------------------
(* Configurations *)

Route(path, base, backend, ups, needed) ==
    [path |-> path, base |-> base, backend |-> backend, upstreams |-> ups, roles |-> needed,
     schema |-> IF backend = "GrpcTranscoding" THEN {SM} ELSE {}]

Plain == [
    enabled |-> << >>, sections |-> {"ip", "port", "RouterParams", "server_certs"},
    zero |-> {}, broken |-> {}, wildcardCredentials |-> FALSE,
    deny |-> {}, allow |-> {}, trust |-> FALSE,
    authentication |-> "None", service |-> "Router", hostCookie |-> FALSE,
    protocol |-> "https",
    routes |-> {Route(A, S(<< <<"b">>, <<>> >>), "Rest", {"u"}, {}),
                Route(R, R, "Rest", {"self"}, {}),
                Route(G, S(<< <<"b">> >>), "GrpcTranscoding", {"u"}, {}),
                Route(S(<< <<"s">> >>), RootPath, "GrpcPassthrough", {"self"}, {}),
                Route(S(<< <<"st">> >>), RootPath, "Admin", {}, {"admin"})},
    forward |-> [k \in {} |-> ""], jwt |-> Absent,
    rules |-> [m \in {} |-> {}], rbac |-> {},
    oidMapping |-> [o \in {"1", "2"} |-> IF o = "1" THEN "admin" ELSE "user"],
    cookie |-> FALSE, revokeOn |-> {}]

(* An allow list in front of the sanitizer, certificates and their forwarding. *)
Inspected == [Plain EXCEPT
    !.enabled = <<"TraceId", "Decompression", "Inspection", "PathSanitizer", "Cors">>,
    !.sections = @ \cup {"Decompression", "Cors", "client_certs"},
    !.authentication = "OptionalClientCert",
    !.forward = [cert |-> "x-client-cert", roles |-> "x-client-roles", ip |-> "x-ip"],
    !.rules = [m \in {"GET", "POST"} |->
        IF m = "GET"
        THEN {[path |-> S(<< <<>> >>), star |-> TRUE, res |-> {Anything}],
              [path |-> AX, star |-> FALSE, res |-> {NoQuery}]}
        ELSE {[path |-> AP, star |-> TRUE, res |-> {Anything}]}],
    !.rbac = {[path |-> AX, star |-> FALSE, roles |-> {"admin"}],
              [path |-> AP, star |-> TRUE, roles |-> {"*"}],
              [path |-> S(<< <<"a">>, <<"p", "p">> >>), star |-> TRUE, roles |-> {}]}]

(* Tokens in a header or a cookie, over certificates, with a logout path. *)
TokenAuth == [Plain EXCEPT
    !.enabled = <<"TraceId", "Logger", "JwtAuth">>,
    !.sections = (@ \ {"ip", "port"}) \cup {"JwtAuth", "tunnel"},
    !.authentication = "Jwt", !.cookie = TRUE, !.revokeOn = {Out}, !.jwt = "gateway",
    !.rbac = {[path |-> AX, star |-> FALSE, roles |-> {"admin"}]}]
TwoFactors == [TokenAuth EXCEPT
    !.enabled = <<"SecurityHeaders", "PathSanitizer", "JwtAuth", "MaxPayload", "Compression">>,
    !.sections = @ \cup {"client_certs", "MaxPayload", "SecurityHeaders"},
    !.authentication = "ClientCert", !.jwt = Absent]
SanitizedLate == [TokenAuth EXCEPT !.enabled = <<"JwtAuth", "PathSanitizer">>]

(* Address lists in every notation. *)
Denied == [Plain EXCEPT
    !.enabled = <<"Counter", "IpFilter">>, !.sections = @ \cup {"IpFilter"},
    !.deny = {[ip |-> V4(2), len |-> 1], [ip |-> V6(5), len |-> 6], [ip |-> V6(40), len |-> 3]},
    !.trust = TRUE]
AllowedOnly == [Denied EXCEPT
    !.deny = {}, !.allow = {[ip |-> V6(6), len |-> 5], [ip |-> V6(48), len |-> Absent]}]

Echo == [Plain EXCEPT
    !.enabled = <<"Logger", "Timing", "Counter", "Delay", "AltSvc", "ConcurrencyLimit">>,
    !.sections = @ \cup {"Delay", "ConcurrencyLimit"}, !.service = "Echo"]

(* The other services, for clients with a certificate. *)
Certified == [Plain EXCEPT
    !.sections = @ \cup {"client_certs", "RateLimiter:Simple", "RateLimiter:TokenBucket",
                         "IdpParams", "StaticFilesParams"},
    !.authentication = "ClientCert"]
OtherServices == {
    [Certified EXCEPT !.service = "Admin"],
    [Certified EXCEPT !.service = "StaticFiles", !.enabled = <<"RateLimiter:Simple">>],
    [Certified EXCEPT !.service = "Idp", !.enabled = <<"RateLimiter:TokenBucket">>]}

(* Each breaks one rule of finalize, build_middleware_layers or
   build_service_stack. *)
Refused == {
    [TokenAuth EXCEPT !.enabled = <<"TraceId", "Logger">>],
    [TokenAuth EXCEPT !.zero = {"jwt_public_keys"}],
    [TokenAuth EXCEPT !.broken = {"jwt_public_keys"}],
    [Inspected EXCEPT !.enabled = <<"Inspection", "Decompression">>],
    [Inspected EXCEPT !.enabled = <<"Inspection", "TraceId">>],
    [Inspected EXCEPT !.wildcardCredentials = TRUE],
    [Inspected EXCEPT !.sections = @ \ {"client_certs"}],
    [Plain EXCEPT !.enabled = <<"Inspektion">>],
    [Plain EXCEPT !.sections = @ \ {"RouterParams"}],
    [Plain EXCEPT !.sections = @ \ {"port"}],
    [Plain EXCEPT !.zero = {"max_connections"}],
    [Plain EXCEPT !.service = "Idp"], [Plain EXCEPT !.service = "StaticFiles"],
    [Plain EXCEPT !.routes = @ \cup {Route(AP, A, "Rest", {}, {})}],
    [Echo EXCEPT !.zero = {"ConcurrencyLimit"}],
    [Denied EXCEPT !.deny = {[ip |-> V4(1), len |-> 3]}]}

MCConfigs == {Plain, Inspected, TokenAuth, TwoFactors, SanitizedLate, Denied, AllowedOnly, Echo}
               \cup OtherServices \cup Refused

----------------------------------------------------------------------------
(* Requests *)

MCTokens == [t \in {"user", "admin", "long", "anonymous", "forged", "gateway"} |->
    [valid |-> t # "forged",
     jti |-> IF t \in {"user", "admin", "long"} THEN t ELSE Absent,
     long |-> t = "long",
     oids |-> CASE t \in {"admin", "forged"} -> {"1"} [] t \in {"user", "long"} -> {"2"} [] OTHER -> {"3"}]]

Certs == {Absent, {}, {"1"}, {"2"}}
Peers == {V4(n) : n \in 0 .. 3} \cup {V6(n) : n \in {0, 5, 6, 40, 48, 56}}

Client == [method |-> "GET", path |-> AX, query |-> "", headers |-> NoHeaders,
           authority |-> Absent, peer |-> V4(3), cert |-> Absent]

BySpelling == {[Client EXCEPT !.path = p, !.method = m, !.query = q, !.cert = c] :
                  p \in Spellings, m \in {"GET", "POST"},
                  q \in {"", "q"}, c \in {Absent, {"1"}}}
ByMethod == {[Client EXCEPT !.path = p, !.method = m] :
                p \in {A, AX, AP, HealthPath}, m \in {"HEAD", "OPTIONS", "BREW"}}
Rules == {A, AX, AP, Out, R, S(<< <<"%61">>, <<"x">> >>), S(<< <<>>, <<"a">>, <<"o">> >>),
          S(<< <<"a">>, <<".">>, <<"o">> >>), G \o SM}
ByToken == {[Client EXCEPT !.path = pt[1], !.cert = c, !.headers = (h :> pt[2])] :
               pt \in (Spellings \X {"user"})
                        \cup (Rules \X (DOMAIN MCTokens \ {"gateway"})),
               c \in {Absent, {"1"}, {"2"}}, h \in {"authorization", "cookie"}}
           \cup {[Client EXCEPT !.headers = [n \in {"authorization", "cookie"} |->
                                   IF n = "cookie" THEN "user" ELSE "basic"]]}
ByAddress == {[Client EXCEPT !.peer = a, !.headers =
                 (IF x = Absent THEN NoHeaders ELSE ("x-forwarded-for" :> x))
                   @@ (IF y = Absent THEN NoHeaders ELSE ("x-real-ip" :> y))] :
                 a \in Peers, x \in {Absent, Claimed, V4(2), V6(7), V4(0)},
                 y \in {Absent, V4(1), V6(40)}}
Spoofed == [n \in IdentityHeaders \cup ForwardingHeaders \cup {"x-ip", "te", "traceparent"} |-> Claimed]
ByHeaders == {[Client EXCEPT !.path = p, !.peer = a, !.cert = c, !.authority = u, !.headers =
                 s @@ (IF m = Absent THEN NoHeaders ELSE ("max-forwards" :> m))
                   @@ (IF n = {} THEN NoHeaders ELSE ("connection" :> n))
                   @@ (IF u = Absent THEN ("host" :> Claimed) ELSE ("content-encoding" :> "gzip"))] :
                 p \in {AP, R}, a \in {V4(0), V4(3)}, c \in {Absent, {"1"}}, u \in {Absent, "auth"},
                 s \in {NoHeaders, Spoofed}, m \in {Absent, 0, 1, 2, 300, Junk},
                 n \in {{}, {"x-real-ip", "x-ip", "x-client-roles", "host"}, {"max-forwards"}}}

MCRequests == BySpelling \cup ByMethod \cup ByToken \cup ByAddress \cup ByHeaders
MCOwn == V4(1)
=============================================================================
