---------------------------- MODULE ServiceStack ----------------------------
(* From a server's configuration to the stack of layers that its requests     *)
(* pass: ServerConfig::finalize and Layers::build_middleware_layers            *)
(* (configuration.rs), build_service_stack and apply_layers (server.rs).       *)
(* A configuration is a record; `sections` names the optional TOML sections    *)
(* that are present, `zero` the numeric settings that are 0 or lists that are  *)
(* empty, `broken` the files and patterns that do not load or compile.         *)
EXTENDS AccessRules

Observers == {"TraceId", "Logger", "Timing", "Counter"}

(* The section a layer needs, for the layers that need one. *)
SectionOf == [l \in {"MaxPayload", "Decompression", "Delay", "JwtAuth",
                     "ConcurrencyLimit", "Cors", "SecurityHeaders", "IpFilter",
                     "RateLimiter:Simple", "RateLimiter:TokenBucket"} |-> l]

KnownLayers == DOMAIN SectionOf \cup Observers
                 \cup {"PathSanitizer", "Inspection", "Compression", "AltSvc"}

Position(s, l) == CHOOSE i \in DOMAIN s : s[i] = l /\ \A j \in 1 .. (i - 1) : s[j] # l
Has(s, l) == \E i \in DOMAIN s : s[i] = l

(* validate_middleware_order. *)
ValidOrder(enabled) ==
    /\ Has(enabled, "TraceId") => Position(enabled, "TraceId") = 1
    /\ Has(enabled, "Inspection") /\ Has(enabled, "Decompression")
         => Position(enabled, "Inspection") > Position(enabled, "Decompression")

(* What build_middleware_layers accepts: known names, their sections, no zero
   limit, no wildcard origin with credentials, keys and CIDR entries that
   parse. *)
ValidLayers(c) ==
    /\ ValidOrder(c.enabled)
    /\ \A l \in ToSet(c.enabled) :
         /\ l \in KnownLayers
         /\ l \in DOMAIN SectionOf => SectionOf[l] \in c.sections
         /\ l \in {"ConcurrencyLimit", "RateLimiter:Simple", "RateLimiter:TokenBucket"}
              => l \notin c.zero
         /\ l = "Cors" => ~c.wildcardCredentials
         /\ l = "JwtAuth" => "jwt_public_keys" \notin c.broken
         /\ l = "IpFilter" => \A e \in c.deny \cup c.allow : ValidCidr(e)

(* SecurityHeaders, unless listed, goes before the first layer that may answer
   by itself; in front of everything when there is none. *)
InsertionPoint(enabled) ==
    IF ToSet(enabled) \subseteq Observers
    THEN 1
    ELSE CHOOSE i \in DOMAIN enabled :
           /\ enabled[i] \notin Observers
           /\ \A j \in 1 .. (i - 1) : enabled[j] \in Observers

(* Mutant: SecurityHeaders becomes the innermost layer. *)
SecurityHeadersInnermost(c) ==
    IF Has(c.enabled, "SecurityHeaders") THEN c.enabled
    ELSE Append(c.enabled, "SecurityHeaders")

BuildMiddlewareLayers(c) ==
    IF Has(c.enabled, "SecurityHeaders")
    THEN c.enabled
    ELSE InsertAt(c.enabled, InsertionPoint(c.enabled), "SecurityHeaders")

(* The requirements of the server's authentication method and service. *)
AuthenticationMet(c) ==
    CASE c.authentication \in {"ClientCert", "OptionalClientCert"} ->
             "client_certs" \in c.sections
      [] c.authentication = "Jwt" ->
             /\ "JwtAuth" \in c.sections
             /\ "jwt_public_keys" \notin c.zero
             /\ Has(c.enabled, "JwtAuth")
      [] OTHER -> TRUE
ServiceMet(c) ==
    /\ c.service = "Idp" => /\ "IdpParams" \in c.sections
                            /\ "jwt_private_key" \notin c.broken
                            /\ ~c.hostCookie \/ c.protocol = "https"
    /\ c.service = "StaticFiles" => "StaticFilesParams" \in c.sections

(* init_parsed_routes: a route has upstreams unless it is answered in memory,
   and their addresses parse. *)
RoutesMet(c) ==
    /\ \A r \in c.routes : r.backend = "Admin" \/ r.upstreams # {}
    /\ "upstreams" \notin c.broken

(* ServerConfig::finalize accepts c. *)
Finalized(c) ==
    /\ c.protocol = "https" => "server_certs" \in c.sections \ c.broken
    /\ "tunnel" \in c.sections \/ {"ip", "port"} \subseteq c.sections
    /\ c.zero \cap {"max_connections", "max_connections_per_ip"} = {}
    /\ RoutesMet(c)
    /\ "allowed_pathes" \notin c.broken
    /\ ValidLayers(c)
    /\ AuthenticationMet(c)
    /\ ServiceMet(c)

(* build_service_stack fails where a base service lacks its parameters. *)
Buildable(c) ==
    ValidLayers(c) /\ (c.service = "Router" => "RouterParams" \in c.sections \ c.broken)

(* Mutant: the PathSanitizer that is not listed goes next to the base service. *)
SanitizerInnermost(c) ==
    LET layers == BuildMiddlewareLayers(c)
    IN IF Has(layers, "PathSanitizer") THEN layers ELSE layers \o <<"PathSanitizer">>

(* The layers a request meets from the outside in: a PathSanitizer that is not
   listed wraps all of them. *)
Stack(c) ==
    LET layers == BuildMiddlewareLayers(c)
    IN IF Has(layers, "PathSanitizer") THEN layers ELSE <<"PathSanitizer">> \o layers
=============================================================================
