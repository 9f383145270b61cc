----------------------------- MODULE AccessRules -----------------------------
(* The decisions that admit or refuse a request, as operators: the address    *)
(* filter (middleware/ip_filter.rs), the allow list of the Inspection layer    *)
(* and the path rules (configuration.rs), role mapping (lib.rs, jwt.rs), route *)
(* matching (router/mod.rs) and role checks (router/rbac.rs).                  *)
EXTENDS PathSanitizer, Integers, FiniteSets

CONSTANTS
    V4Bits,      \* width of an IPv4 address: 32 in the code
    V6Bits,      \* width of an IPv6 address: 128 in the code
    MappedHigh,  \* the leading bits of an IPv4-mapped IPv6 address
    Absent       \* no address, no prefix length, no rule, no token

ASSUME WidthAssumption ==
    /\ V4Bits \in Nat /\ V6Bits \in Nat /\ 2 * V4Bits < V6Bits
    /\ MappedHigh \in 1 .. (2 ^ (V6Bits - V4Bits) - 1)

V4(n) == [fam |-> 4, n |-> n]
V6(n) == [fam |-> 6, n |-> n]
Width(fam) == IF fam = 4 THEN V4Bits ELSE V6Bits
IsUnspecified(a) == a.n = 0

(* unwrap_ipv4_mapped: ::ffff:a.b.c.d becomes a.b.c.d. *)
Unwrap(a) == IF a.fam = 6 /\ a.n \div 2 ^ V4Bits = MappedHigh
             THEN V4(a.n % 2 ^ V4Bits)
             ELSE a

(* Mutant: the prefix length of a mapped entry is kept. *)
ParseCidrKeepsLength(e) ==
    LET v4 == Unwrap(e.ip)
    IN IF e.len = Absent THEN [ip |-> v4, len |-> Width(v4.fam)] ELSE e

(* IpCidr::parse of the entry [ip, len]: a mapped address with a length of an
   IPv4 prefix, or of one that leaves only IPv4 bits free, becomes IPv4. *)
ParseCidr(e) ==
    LET v4 == Unwrap(e.ip)
        mapped == e.ip.fam = 6 /\ v4.fam = 4
        high == V6Bits - V4Bits
    IN CASE e.len = Absent -> [ip |-> v4, len |-> Width(v4.fam)]
         [] e.len # Absent /\ mapped /\ e.len <= V4Bits -> [ip |-> v4, len |-> e.len]
         [] e.len # Absent /\ mapped /\ e.len >= high -> [ip |-> v4, len |-> e.len - high]
         [] OTHER -> e

ValidCidr(e) == e.len = Absent \/ e.len <= Width(e.ip.fam)

(* IpCidr::contains: equal after masking all but the first len bits. *)
CidrContains(c, a) ==
    LET u == Unwrap(a)
        host == 2 ^ (Width(c.ip.fam) - c.len)
    IN u.fam = c.ip.fam /\ u.n \div host = c.ip.n \div host

(* extract_client_ip: the peer of the connection unless it is unspecified,
   else, if they are trusted, what the forwarding headers claim. *)
ExtractClientIp(peer, trust, xff, xrip) ==
    CASE ~IsUnspecified(peer) -> Unwrap(peer)
      [] IsUnspecified(peer) /\ trust /\ xff # Absent /\ ~IsUnspecified(xff) -> Unwrap(xff)
      [] IsUnspecified(peer) /\ trust /\ (xff = Absent \/ IsUnspecified(xff))
         /\ xrip # Absent /\ ~IsUnspecified(xrip) -> Unwrap(xrip)
      [] OTHER -> Absent

(* evaluate_ip: deny before allow; without an address only an allow list
   refuses. *)
EvaluateIp(deny, allow, ip) ==
    IF ip = Absent
    THEN allow = {}
    ELSE /\ \A e \in deny : ~CidrContains(ParseCidr(e), ip)
         /\ allow = {} \/ \E e \in allow : CidrContains(ParseCidr(e), ip)

(* MethodRules::is_allowed.  A rule is [path, star, res]; a regular expression
   is the set of <<path, query>> pairs it matches.  An exact rule decides
   alone; prefixes are tried until one matches. *)
MethodAllows(rules, p, q) ==
    LET matches(r) == \E re \in r.res : <<p, q>> \in re
        exact == {r \in rules : ~r.star /\ r.path = p}
    IN IF exact # {}
       THEN \E r \in exact : matches(r)
       ELSE \E r \in rules : r.star /\ StartsWith(p, r.path) /\ matches(r)

RuleMethods == {"GET", "POST", "PUT", "DELETE", "PATCH", "HEAD"}

(* CompiledAllowedPathes::is_allowed: HEAD may do what GET may, OPTIONS what
   any method may, an unknown method nothing. *)
IsAllowed(rules, method, p, q) ==
    \E m \in RuleMethods :
        /\ m \in CASE method = "HEAD" -> {"HEAD", "GET"}
                   [] method = "OPTIONS" -> RuleMethods
                   [] OTHER -> {method}
        /\ m \in DOMAIN rules
        /\ MethodAllows(rules[m], p, q)

(* The rules of a set that are longest among it. *)
Longest(rules) ==
    {r \in rules : \A s \in rules : PathLength(s.path) <= PathLength(r.path)}

(* CompiledRbac::match_path: an exact rule before any prefix, the longest
   prefix before the others.  At most one rule is left. *)
MatchPath(rbac, p) ==
    LET exact == {r \in rbac : ~r.star /\ r.path = p}
    IN IF exact # {} THEN exact ELSE Longest({r \in rbac : r.star /\ StartsWith(p, r.path)})

(* RouterService::new registers a route's prefix and everything below it, once
   a slash is put behind a prefix without one; the router finds the most
   specific one. *)
WildcardBase(prefix) ==
    IF Len(prefix) > 1 /\ Last(prefix) = <<>> THEN Front(prefix) ELSE prefix
RouteMatches(r, p) ==
    LET base == WildcardBase(r.path)
    IN \/ p = r.path
       \/ /\ IsPrefix(base, p) /\ Len(p) > Len(base)
          /\ SubSeq(p, Len(base) + 1, Len(p)) # EmptyPath
MatchRoute(routes, p) == Longest({r \in routes : RouteMatches(r, p)})

(* Role mapping of a certificate's or a token's OIDs, with guest for nothing. *)
MapOids(mapping, oids) ==
    LET roles == {mapping[o] : o \in oids \cap DOMAIN mapping} \ {"guest"}
    IN IF roles = {} THEN {"guest"} ELSE roles

(* enforce_rbac: a path rule decides alone, an empty one denies everybody, "*"
   admits everybody; without a path rule the route's roles decide, if any. *)
EnforceRbac(rbac, route, roles, p) ==
    LET rule == MatchPath(rbac, p)
    IN IF rule # {}
       THEN \A r \in rule : "*" \in r.roles \/ r.roles \cap roles # {}
       ELSE route.roles = {} \/ route.roles \cap roles # {}
=============================================================================
