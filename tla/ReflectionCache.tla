--------------------------- MODULE ReflectionCache ---------------------------
(* The cached gRPC schema of a route target: the double-checked fetch of       *)
(* handle_grpc_web and build_grpc_pool (router/grpc_web.rs), and the health     *)
(* checker that fills an empty cache (server.rs).  The nodes of the target are *)
(* taken to serve one schema at a time.  A retry of the request, which asks     *)
(* the cache again, is a new request here.                                      *)
EXTENDS Integers, Sequences, SequencesExt, TLC

CONSTANTS
    Clients,     \* the concurrent gRPC-Web requests of the route
    Checker,     \* the active health check of one of its nodes
    Absent,      \* no schema
    Listed,      \* the services an upstream of each version lists: version |-> set
    Health,      \* the services that have a method named "health"
    TTL,         \* grpc_reflection_ttl_seconds, in ticks
    MaxLeaves    \* bound: how often a client leaves before its answer

ASSUME CacheAssumption ==
    /\ TTL \in Nat \ {0} /\ MaxLeaves \in Nat
    /\ Checker \notin Clients
    /\ Len(Listed) > 0 /\ \A v \in DOMAIN Listed : Listed[v] # {}

Tasks == Clients \cup {Checker}
Schema(v) == [s \in Listed[v] |-> v]

VARIABLES
    certs,    \* the CA, certificate and key files of router_params can be read
    health,   \* "up": upstream answers, "down": it fails, "stalled": its stream says nothing
    version,  \* the version of the schema it serves
    cache,    \* grpc_pool: Absent or [pool, age, by]; by is the task that wrote it
    lock,     \* grpc_reflection_lock: the tasks that wait, the first one holds it
    pc,       \* where each task is
    asked,    \* the services whose descriptors a fetch still has to ask for
    built,    \* the pool a fetch has built so far: service |-> version
    found,    \* the checker knows its health method
    leaves    \* how many clients have left

fetch == <<asked, built>>
cache_vars == <<certs, health, version, cache, lock, pc, asked, built, found, leaves>>

Fetching == {"connect", "list", "files"}

TypeOK ==
    /\ certs \in BOOLEAN /\ found \in BOOLEAN /\ leaves \in 0 .. MaxLeaves
    /\ health \in {"up", "down", "stalled"}
    /\ version \in DOMAIN Listed
    /\ cache # Absent => cache.age \in 0 .. TTL /\ cache.by \in Tasks
    /\ pc \in [Tasks -> Fetching \cup {"idle", "fast", "lock", "store", "fallback", "ready"}]
    /\ ToSet(lock) \subseteq Clients

CacheInit ==
    /\ certs \in BOOLEAN /\ health = "up" /\ version = 1
    /\ cache = Absent /\ lock = << >>
    /\ pc = [t \in Tasks |-> "idle"]
    /\ asked = [t \in Tasks |-> {}] /\ built = [t \in Tasks |-> << >>]
    /\ found = FALSE /\ leaves = 0

----------------------------------------------------------------------------
(* The environment *)

Tick ==
    /\ cache # Absent /\ cache.age < TTL
    /\ cache' = [cache EXCEPT !.age = @ + 1]
    /\ UNCHANGED <<certs, health, version, lock, pc, fetch, found, leaves>>

Upgrade ==
    /\ version + 1 \in DOMAIN Listed
    /\ version' = version + 1
    /\ UNCHANGED <<certs, health, cache, lock, pc, fetch, found, leaves>>

UpstreamTurns ==
    /\ health' \in {"up", "down", "stalled"} \ {health}
    /\ UNCHANGED <<certs, version, cache, lock, pc, fetch, found, leaves>>

----------------------------------------------------------------------------
(* A request *)

(* Mutant: a cached schema is good for ever. *)
FreshForEver == cache # Absent

Fresh == cache # Absent /\ cache.age < TTL

Goto(t, label) == pc' = [pc EXCEPT ![t] = label]
(* The guard of r, or its place among those that wait for one, is dropped. *)
Unlock(r) == \E i \in DOMAIN lock : lock[i] = r /\ lock' = RemoveAt(lock, i)

ClientArrives(r) ==
    /\ pc[r] = "idle"
    /\ Goto(r, "fast")
    /\ UNCHANGED <<certs, health, version, cache, lock, fetch, found, leaves>>

(* A look under the read lock; tokio's mutex serves its waiters in turn. *)
FastPath(r) ==
    /\ pc[r] = "fast"
    /\ IF Fresh THEN Goto(r, "ready") /\ UNCHANGED lock
                ELSE Goto(r, "lock") /\ lock' = Append(lock, r)
    /\ UNCHANGED <<certs, health, version, cache, fetch, found, leaves>>

EndFetch(t) == asked' = [asked EXCEPT ![t] = {}] /\ built' = [built EXCEPT ![t] = << >>]

(* Mutant: the lock is won and nobody looks at the cache again. *)
RecheckNever(r) ==
    /\ pc[r] = "lock" /\ Head(lock) = r
    /\ Goto(r, "connect")
    /\ UNCHANGED <<certs, health, version, cache, lock, fetch, found, leaves>>

(* The second look, under the fetch lock. *)
Recheck(r) ==
    /\ pc[r] = "lock" /\ Head(lock) = r
    /\ IF Fresh THEN Goto(r, "ready") /\ Unlock(r)
                ELSE Goto(r, "connect") /\ UNCHANGED lock
    /\ UNCHANGED <<certs, health, version, cache, fetch, found, leaves>>

----------------------------------------------------------------------------
(* build_grpc_pool.  Connection and response head have time-outs, the messages
   of the response stream have none. *)

Connect(t) ==
    /\ pc[t] = "connect" /\ certs /\ health # "down"
    /\ Goto(t, "list")
    /\ UNCHANGED <<certs, health, version, cache, lock, fetch, found, leaves>>

ListServices(t) ==
    /\ pc[t] = "list" /\ health = "up"
    /\ asked' = [asked EXCEPT ![t] = Listed[version]]
    /\ Goto(t, "files")
    /\ UNCHANGED <<certs, health, version, cache, lock, built, found, leaves>>

(* The descriptors of one service; an upstream that no longer has it answers
   with an error message, which is passed over. *)
AskFile(t) ==
    /\ pc[t] = "files" /\ health = "up"
    /\ \E s \in asked[t] :
         /\ asked' = [asked EXCEPT ![t] = @ \ {s}]
         /\ built' = [built EXCEPT ![t] =
                        IF s \in Listed[version] THEN (s :> version) @@ @ ELSE @]
    /\ Goto(t, IF asked'[t] = {} THEN "store" ELSE "files")
    /\ UNCHANGED <<certs, health, version, cache, lock, found, leaves>>

(* A file that cannot be read, or any error or time-out on the way. *)
FetchFails(t) ==
    /\ pc[t] \in Fetching
    /\ health = "down" \/ (pc[t] = "connect" /\ ~certs)
    /\ Goto(t, IF t = Checker THEN "idle" ELSE "fallback")
    /\ EndFetch(t)
    /\ UNCHANGED <<certs, health, version, cache, lock, found, leaves>>

----------------------------------------------------------------------------
(* What becomes of the fetched schema *)

Store(r) ==
    /\ pc[r] = "store"
    /\ cache' = [pool |-> built[r], age |-> 0, by |-> r]
    /\ Goto(r, "ready") /\ Unlock(r) /\ EndFetch(r)
    /\ UNCHANGED <<certs, health, version, found, leaves>>

(* A schema that has expired is better than none; without one, 502. *)
Fallback(r) ==
    /\ pc[r] = "fallback"
    /\ Goto(r, IF cache # Absent THEN "ready" ELSE "idle")
    /\ Unlock(r)
    /\ UNCHANGED <<certs, health, version, cache, fetch, found, leaves>>

(* The request is transcoded, sent and answered. *)
Use(r) ==
    /\ pc[r] = "ready"
    /\ Goto(r, "idle")
    /\ UNCHANGED <<certs, health, version, cache, lock, fetch, found, leaves>>

(* The client leaves: the future is dropped at its await, with its lock. *)
ClientLeaves(r) ==
    /\ pc[r] \in Fetching \cup {"lock"} /\ leaves < MaxLeaves
    /\ leaves' = leaves + 1
    /\ Goto(r, "idle") /\ Unlock(r) /\ EndFetch(r)
    /\ UNCHANGED <<certs, health, version, cache, found>>

(* The checker fetches for itself, without the lock, until it has found a
   health method. *)
CheckerTicks ==
    /\ pc[Checker] = "idle" /\ ~found
    /\ Goto(Checker, "connect")
    /\ UNCHANGED <<certs, health, version, cache, lock, fetch, found, leaves>>

CheckerStores ==
    /\ pc[Checker] = "store"
    /\ cache' = IF cache = Absent THEN [pool |-> built[Checker], age |-> 0, by |-> Checker]
                                  ELSE cache
    /\ found' = (DOMAIN built[Checker] \cap Health # {})
    /\ Goto(Checker, "idle") /\ EndFetch(Checker)
    /\ UNCHANGED <<certs, health, version, lock, leaves>>

Step(r) == FastPath(r) \/ Recheck(r) \/ Store(r) \/ Fallback(r) \/ Use(r)
Fetch(t) == Connect(t) \/ ListServices(t) \/ AskFile(t) \/ FetchFails(t)

CacheNext ==
    \/ \E r \in Clients : ClientArrives(r) \/ Step(r) \/ ClientLeaves(r)
    \/ \E t \in Tasks : Fetch(t)
    \/ CheckerTicks \/ CheckerStores
    \/ Tick \/ Upgrade \/ UpstreamTurns

CacheSpec == CacheInit /\ [][CacheNext]_cache_vars

(* Tasks are scheduled, time passes and clients go on asking; no health of the
   upstream is promised. *)
CacheFairSpec ==
    /\ CacheSpec
    /\ WF_cache_vars(Tick) /\ WF_cache_vars(CheckerTicks \/ CheckerStores)
    /\ \A r \in Clients : WF_cache_vars(ClientArrives(r)) /\ WF_cache_vars(Step(r))
    /\ \A t \in Tasks : WF_cache_vars(Fetch(t))

----------------------------------------------------------------------------
(* Properties *)

(* However many requests find the cache expired at once, one of them renews it:
   a schema that a request has stored is replaced only after its TTL.  The one
   the checker put into an empty cache may be, by a fetch already under way
   (grpc_web.rs, the fetch lock and the second look). *)
OneRefreshPerTtl ==
    [][\A r \in Clients :
          pc[r] = "store" /\ pc'[r] = "ready" /\ cache # Absent
            => cache.age = TTL \/ cache.by = Checker]_cache_vars

(* When the upstream stays well, the cache gets to its present schema and keeps
   it, whatever half-upgraded mixture, failed or abandoned fetch there was
   before (grpc_web.rs, TTL and fetch lock). *)
EventuallyCurrent ==
    certs /\ <>[](health = "up") => <>[](cache # Absent /\ cache.pool = Schema(version))
=============================================================================
