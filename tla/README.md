# A TLA+ verification of praeco-rs

praeco-rs is a reverse proxy and API gateway written in Rust on tokio, hyper and
tower. Its state is small, but every connection, request, health check, reload
and tunnel is a task of its own, and they share that state through atomics,
`DashMap`s, `ArcSwap`s, semaphores and hand-written `poll` functions. The
specifications here model those shared structures one atomic operation, map lock
or `await` at a time, let the tasks interleave, and check the promises that
single-threaded unit tests cannot reach.

* `<Component>.tla` is the specification of a component, `MC<Component>.tla` and
  `*.cfg` its instances for TLC, `<Component>Proofs.tla` its theorems for TLAPS.
  Three proof modules serve two components each: `UpstreamProofs` (`Failover`,
  `CircuitBreaker`), `TokenProofs` (`TokenRevocation`, `IdpSessions`) and
  `QueueProofs` (`RequestLimits`, `ReflectionCache`). They extend both, which is why
  the second one's specification has names of its own (`CircuitSpec`, `LoginSpec`,
  `CacheSpec`).
* `PROJECT.json` lists the components, the runs, the source lines behind each
  definition, the mutants that show that each property can fail, the hazards the
  properties are for, and the theorems.

To check one instance: `tlc -config RateLimiter.cfg MCRateLimiter`; to check the
proofs of one module: `tlapm GatewayTunnelProofs.tla`.

## 1. Inventory

Paths are relative to `src/server/src/` unless they start with another crate's
name.

| Component | State it keeps | Operations | Shared with / calls | What is hard | Module |
|---|---|---|---|---|---|
| Circuit breaker of an upstream node (`configuration.rs` `UpstreamNode`, `middleware/router/circuit_breaker.rs`) | five atomics: alive, circuit state, probe in flight, failure timestamp, failure count | `is_available`, `try_enter_half_open_probe`, `record_success`, `record_failure`, `mark_dead`, `mark_alive`, drop of a `ProbeGuard` | all requests of a route, the node's health checker, the admin endpoint | each operation is up to five separate atomic operations, no lock | `CircuitBreaker`, `UpstreamProofs` |
| Failover of a request (`middleware/router/{mod,http_proxy,grpc_passthrough,grpc_web,upstreams}.rs`) | per request: attempts, failed nodes, body kind, guards; per node: `active_connections` | select, dispatch, retry, time out, stream the response | breaker of each node | futures dropped at any `await`, replays, guards moved into bodies | `Failover`, `UpstreamProofs` |
| Connection tracker (`connection_tracker.rs`) | global counter, connections per canonical IP | `acquire`, `bind_ip`, drop of a `ConnectionGuard` | all accept loops and the tunnel | increment-check-undo, late binding of an address | `ConnectionTracker`, `PermitPool`, `GatewayTunnelProofs` |
| Rate limiter (`middleware/rate_limiter.rs`) | map key → window or bucket, time of the last sweep | `check_and_record`, `try_consume`, sweeps | all requests of a server | clock sampled before the lock, lookup and insert apart, sweeps by `try_lock` | `RateLimiter`, `RateLimiterProofs` |
| Payload and concurrency limits (`middleware/limit.rs`) | semaphore and its queue; per request the gRPC framing state | `call`, `poll`, `poll_frame`, drops | all requests of a server | permit travels from future to body; prefixes cut by frames; timeout against grant | `RequestLimits`, `QueueProofs` |
| JWT authentication and revocation (`middleware/jwt.rs`, `/auth/revoke` of `middleware/idp/mod.rs`) | process-wide map jti → expiry, time of the last sweep | verify, `is_revoked`, `revoke`, `cleanup_expired` | all JWT-protected servers, the identity provider | lazy removal, sweep by compare-and-swap, capacity | `TokenRevocation`, `TokenProofs` |
| Identity provider: QR login (`middleware/idp/{session,mod,webhook}.rs`) | sessions with status, failed attempts, expiry; login attempts per IP | `/auth/login`, `/auth/confirm`, `/auth/status`, cleanup | claims webhook, browser, device | the entry is unlocked during the webhook; two polls; lockout | `IdpSessions`, `TokenProofs` |
| Server lifecycle and hot reload (`server.rs`) | active servers with token, configuration and service stack; listeners | start, SIGHUP, Ctrl+C, bind, accept, handshake | configuration, every stack | a new listener starts before the old one stops; stacks swapped under connections | `HotReload`, `HotReloadProofs` |
| Relay: connection limits (`relay-server/src/main.rs`) | global counter, connections per IP | `acquire`, drop of a guard | data plane accept loop | decrement and removal are two locks | `RelayLimits`, inside `GatewayTunnel` |
| Relay: control and data plane (`relay-server/src/main.rs`) | route table name → tunnel; per tunnel a request channel and a Yamux connection | register, drive, tear down; accept, look up, open stream, copy | gateways, public clients | hand-written poll loop and its wakers; generations of a route | `RelayTunnels`, `RelayTunnelsProofs` |
| Gateway side of the tunnel (`server.rs` `run_tunnel`, `common/src/proxy_protocol.rs`) | connection to the relay, streams and their permits | connect, register, accept streams, read the PROXY header, bind the address, reconnect | relay, connection tracker, service stack | reconnection against a relay that still believes in the old tunnel; addresses learnt late; cancellation | `GatewayTunnel`, with both trackers; `GatewayTunnelProofs` |
| gRPC reflection cache (`middleware/router/grpc_web.rs`, `grpc_reflection/`) | schema per route target with its age, fetch lock | fast path, fetch service by service, store, serve stale; fill by the health checker | transcoding handler, health checker | double-checked fetch, abandoned and half-upgraded fetches, a writer without the lock | `ReflectionCache`, `QueueProofs` |
| Service construction (`configuration.rs` `finalize`, `build_middleware_layers`; `server.rs` `build_service_stack`, `apply_layers`) | none after start | validate, order and add layers | every request | the order of layers is configuration, some are added | `ServiceStack` |
| Access rules (`middleware/router/{mod,rbac}.rs`, `middleware/{ip_filter,path_sanitizer,inspection}.rs`) | none | canonicalise a path, match a route, an allow list, roles, CIDR lists | every request | the same path is canonicalised at three places; two notations of one address | `PathSanitizer`, `AccessRules` |
| Header rewriting (`middleware/router/headers.rs`) | none | loop detection, hop-by-hop removal, identity headers | every forwarded request | a client's `Connection` header names headers to remove | `ProxyHeaders` |
| Middleware stack at work (`lib.rs`, all of `middleware/`) | roles and claims of a request, revoked tokens | receive, each layer's pass or answer, serve, forward | all of the above | what one layer checked, another changes | `RequestPipeline`, `RequestPipelineProofs` |
| Compression, logging, TLS set-up | a library's | – | layers of the pipeline | – | as layers only |
| Command-line clients and test servers | none | – | – | – | not modelled |

How they interact: a connection passes the connection tracker, then the stack
that the hot reload last published (rate limiter, limits, JWT, …), and ends in
the router, which rewrites the headers, selects a node by its breaker and counts
it in `active_connections`; a transcoding route looks at the reflection cache
first. Tunnelled connections arrive through the relay instead of a
listener. The health checkers and the admin endpoint write the breakers from
outside. The identity provider issues the tokens that the JWT layer checks.

What makes each component correct, in a sentence:

* breaker – the probe slot is not leaked, `HalfOpen` does not outlive its probe,
  and a health checker whose checks end finds a way back from every state;
* failover – counts balance whatever drops a future; nothing unsafe is replayed;
  retries go elsewhere; no request is held up by dead nodes;
* tracker – the caps hold under any interleaving and no permit is lost;
* rate limiter – the configured rate is exceeded only by what two known races
  give away; the table's size is bounded; `Retry-After` is honest;
* limits – permits are neither lost nor made up, streaming counts, framing never
  loses step;
* revocation – a recorded revocation is not lifted before its token expires;
* login – one confirmation yields one token, for the confirmed identity, with
  the webhook's say; abandoned sessions do not keep new logins out;
* reload – the table of servers is the configuration; a kept listener is not
  touched; nothing is forgotten at shutdown;
* relay – routes lead to live tunnels, an old tunnel never takes a new one's
  route, every waiting client gets an answer, an address is never locked out;
* tunnel – it comes back after every loss, serves nobody under another's
  address, and ends with all its permits when cancelled;
* reflection cache – one fetch per expiry, and in the end the upstream's present
  schema;
* pipeline – whatever the order of the layers, what reaches an upstream is
  canonical, inspected, authorised, from an admitted address, and carries the
  identity the gateway verified.

## 2. Modules and their correspondence to the code

Conventions. A variable has the name of the field it models; an action has the
name of the function, or of the step of it, that it models. Where the code reads
or writes an atomic, locks a map entry or awaits, an action ends; what lies
between is one step. Atomics are modelled as sequentially consistent although
most orderings are `Relaxed`: each of them is a single location that the code
combines with no other data published through it, and every reordering of two
*different* locations' stores by one task that x86-64 can show is within what
interleaving shows here. Addresses, tokens, names and payloads are model values.
Variables marked *history* in a module record what happened for a property and
never influence a guard.

**CircuitBreaker.** One node and the tasks that touch it. `pc[t]` is the next
atomic operation of task `t`: `Av*` are the loads of `is_available`, `Te*` the
steps of `try_enter_half_open_probe`, `Md*`/`Ma*`/`Rs*`/`Rf*` those of
`mark_dead`, `mark_alive`, `record_success`, `record_failure`, `Gd*` the drop of a
probe guard, `Hc*` the health checker's. A check is awaited (`hc_wait`) and may
never end: the 5 s timeout covers the head of the response only. The timestamp is
kept as its age; `NoStamp` is the stored 0. The `failure_age` saturates one tick
after the cooldown and the failure counter at the threshold, beyond which the code
does not distinguish values. `Unavailable` is the fallback of `next_upstream` that
offers a node although it is not available.

**Failover.** The loops of `handle_http_proxy`, `handle_grpc_passthrough` and
`handle_grpc_web` over several nodes; `backend` chooses the handler, so that a
run covers the differences (the third neither clamps its retries nor probes nor
punishes a timeout, and waits 500 ms between attempts). Here the breaker's
operations are single steps (their interleaving is `CircuitBreaker`'s subject).
`Disconnect` drops the handler's future at any await: both guards run. A body is
buffered first (`buffer`), and spills into a stream if it is too large for that.
`HasTimeout` says that `request_timeout_seconds` is not 0; transcoding has a
timeout of 30 s even then.

**ConnectionTracker** and **RelayLimits.** Every `fetch_add`, comparison, undo
and map entry lock is a step. `Canonical` maps an address to its key (IPv6 /64);
`Unspecified` addresses are not counted. `LoopFree` in `RelayLimits` says that
the relay's accept loop acquires for one connection at a time. **PermitPool** is
the abstract specification: a pool of permits, taken and given back one at a
time. `ConnectionTracker!PermitsPooled` says that the tracker implements it, the
holders being the connections past the global check.

**GatewayTunnel** composes the two trackers with the tunnel between them. It
extends `ConnectionTracker` and instantiates `RelayLimits`, and every step of a
tracker is tied to the step of the connection that makes it. `Connect`, `Pause`
and `Leave` are the loop of `start_single_server` and `run_tunnel`; `Register` and
`RelayNotices` the relay's route for the name, with its refusal of a second
tunnel; `Arrive` to `TaskEnds` the way of a public client: relay permit, stream,
PROXY header, gateway permit, `resolve_tunnel_peer`, `bind_ip`, service, end. A
PROXY header names the client, or nobody (`conf.local`: a LOCAL or UNSPEC header,
which this relay never writes). A link may be lost at any time (`net`), and the
two sides learn of it separately. A server without a tunnel accepts from its
sockets in the same module.

**ReflectionCache.** `FastPath`, `Recheck`, `Store`, `Fallback` and `Use` are the
steps of `handle_grpc_web` around the cache, `Connect`, `ListServices`, `AskFile`
and `FetchFails` those of `build_grpc_pool`, service by service, so that an
upgrade may fall between two of them. `queue` is the fetch lock (tokio's is fair);
`Unlock` drops the guard, or the place in the queue. `CheckerTicks` and
`CheckerStores` are the health checker, which writes without that lock. The age
stops at `TTL`.

**PathSanitizer**, **AccessRules**, **ServiceStack**, **ProxyHeaders** hold pure
operators: the canonicalisation of a path (segments of tokens, a token being a
character or an escape), CIDR entries over scaled-down address widths, allow
lists, role rules and route matching, the layers a configuration yields, and
the headers sent upstream. **RequestPipeline** runs a request through them:
`Load` reads a configuration and refuses it or not, `Receive` enters the stack,
each layer has an action of its own that passes the request on or answers,
`Forward` is the router up to the upstream call, with what each of the three
handlers makes of path, query and headers, and `LoopBack` is an upstream
that is this very gateway. The denylist holds `MaxRevoked` tokens and drops the
revocations it cannot take (`Revoke`). Layers whose decisions are other modules' subjects
(limits, rate limiters) may answer or pass here. `HEAD`, unknown methods, tokens
from header or cookie, spoofed headers and mapped addresses are among the
requests.

**RateLimiter.** Both stores under one set of actions, since they share their
structure line by line; `kind` says which. A tick is a second and a token
consists of `Cost` units of which a second adds `Rate`: this is the code's
floating-point bucket in exact rational arithmetic. `Call` samples the clock,
`TryLock`/`SkipSweep`/`Retain` are the sweep, `Hit`, `Miss`, `Recheck`, `Insert`
the rest of the check. `retain` is one step; in the code it locks shard after
shard, which matters to no single key. The history `granted` keeps, for each
instant, how many of a key's requests with a sample up to then were granted, so
that `Granted(k, from, to)` is a difference.

**RequestLimits.** `MaxPayload` outside `ConcurrencyLimit`, as the sample
configurations order them. A body is a sequence of message lengths whose bytes
carry what the framing reads: each byte of a prefix stands for the length, and a
byte of content reads as an oversized length, so that a framing that lost step
is caught. `ReadFrame` delivers any number of the remaining bytes. tokio's
semaphore is a FIFO of waiters (external); `Leave` is the drop of its `Acquire`
future, which passes on a permit that was handed over already.

**TokenRevocation.** `Load`, `Cas`, `Sweep`, `Room`, `Insert` are the steps of
`revoke`; `Check`, `Get`, `Prune` those of `is_revoked`. A token is its `exp` and
`jti`; `Leeway` is the tolerance of the JWT library (external).

**IdpSessions.** Creators, devices and browsers are the handlers of the three
endpoints. Time is abstracted to flags a step may set: a session has expired,
the rate window of an address is over.

**HotReload.** A configuration maps a server's name to port and protocol (or
nothing); an instance is a name and the version that started it. `Reload` is the
apply pass of SIGHUP, which does not await. `Bind`, `Accept`, `Handshake`,
`StopAccept`, `ReleaseUdp` are the listener tasks, `Exit` the end of the
`JoinSet`.

**RelayTunnels.** Control-plane connections register a name and become drivers;
`BeginPoll` and the `Poll*` actions are the arms of the driver's `poll_fn`, with
the wakers it leaves in its channel (`rx_waker`) and in Yamux (`io_waker`) as
state, so that a driver that sleeps on work is visible. Clients look a route up,
send a request through the bounded channel and wait.

## 3. Runs

All runs check deadlock. The state counts are of the distinct states.

| Run | Instance | Shows | States |
|---|---|---|---|
| `CircuitBreaker` | a request, a checker, an admin; threshold 2, cooldown 1 | `ProbeSlotHeld`, `HalfOpenHasProbe`, `DeadNodeIsOpen`: no interleaving leaks the slot or strands the node; `NeverWedged`: a health checker whose checks end revives or stamps a dead node without timestamp, and revives one that has recovered | 263,534 |
| `Failover_shared` | 2 requests on 2 nodes, REST and transcoding, least connections, 2 retries | `ConnectionsBalanced`, `ProbeHasOwner` | 295,129 |
| `Failover_retries` | 1 request on 3 nodes, all three handlers, 3 retries | `RetriesAreSound` (`ReplayIsSafe`, `RetriesAlternate`, `GatewayErrorIsLast`), `EveryRequestEnds` | 100,418 |
| `IdpSessions` | 1 session id used again and again, 2 devices, 2 browsers, 2 attempts, a webhook | `TokensAreEarned` (`OneTimeUse`, `WebhookDecides`), `IdentityIsStable`, `LockoutNearlyExact`, `AbandonedMakeWay` | 73,828 |
| `RelayTunnels` | 2 gateways for 1 name, 2 clients, a channel for 1 | `RoutesAreLive`, `NewTunnelSurvives`, `WakerLeft`, `EveryOpenAnswered` | 170,934 |
| `HotReload` | 1 server, 2 ports, HTTP and HTTPS, 2 reloads, 1 connection | `ReloadIsExact` (`ActiveMatchesConfig`, `StrayIsCancelled`), `ServesNewestStack`, `ShutdownEnds` | 209,809 |
| `RateLimiter` | 2 threads, 4 requests of 3 keys, table for 1, both limiters | `LimitHolds` (`SpacingHolds`, `RateHolds`, `RetryAfterHonest`), `CapNearlyExact` | 738,281 |
| `RequestLimits` | 3 requests, 1 permit, 5 bodies, all three queue modes | `PermitsExact`, `FramingExact` (`OversizeStopped`, `NoFalseReject`) | 28,910 |
| `TokenRevocation` | 4 tokens, 1 client, 1 revoker, denylist for 1 | `RevokedStaysOut` | 1,717,416 |
| `RequestPipeline` | 11 configurations that start and 16 that do not, about 1,500 requests, one at a time; routes of all four backend types, a denylist for 1 | `UpstreamPathIsCanonical`, `InspectedAsForwarded`, `AuthorizedOnly`, `IdentityIsVerified`, `LogoutRevokes`, `FilterHolds`, `AnswersAreSecured`, `LoopEnds` | 74,612 |
| `GatewayTunnel` | 3 connections, 2 of them public; caps 2 and 1 at the gateway, 1 and 1 at the relay; with and without tunnel and PROXY header, the header with and without an address | `PerIpExact`, `RelayCountsHold`, `PeerIsTrue`, `PermitsPooled`, `TunnelComesBack`, `ShutdownDrains` | 188,706 |
| `ReflectionCache` | 2 requests, a health checker, 2 schemas, TTL 2, 1 client that leaves | `OneRefreshPerTtl`, `EventuallyCurrent` | 253,482 |

### Bounds, and why they suffice

* *Tasks.* The races of this code are between two operations on one location, or
  between an operation and a sweep; two or three tasks exhibit each. The breaker
  run has one task of each kind of writer; the theorems below extend its safety
  to any number of each.
* *Capacities.* Caps, queues and tables hold one or two entries, so that full and
  not full, and the boundary between them, all occur with few tasks.
* *Time.* Cooldown, TTL, windows and expiries are one to three ticks, each at
  least as long as the gap between a sample and its use that a race needs.
  `MaxTime` and `MaxCalls` bound `RateLimiter` and `TokenRevocation` (named in the
  guards of `Tick` and `Call`); `Quiet` is the end of such a bounded behaviour.
* *Reloads.* Two reloads reach every pair of a kept, a moved, a removed and a
  returned server.
* *Configurations and requests.* `RequestPipeline` does not enumerate a product
  of all settings: each configuration brings one group of layers into an order
  that matters, and the requests vary one aspect (spelling, method, token,
  address, headers) in full while the others stay. Addresses have 2 and 6 bits,
  enough for entries inside, across and outside the mapped range.
* *Tunnel.* Two public clients compete for the relay's one permit and reuse it,
  and a local connection competes with them for the gateway's two.
* *Clients that leave.* `MaxLeaves` bounds how often a fetch is abandoned; without
  the bound `EventuallyCurrent` does not hold (section 5).
* *Frames.* Bodies are short but are cut into frames in every way, and contain an
  empty message and one at the limit.

### Fairness

Weak fairness is assumed of the steps of a task between its awaits, of the
accept loops and of timers: tokio polls every woken task again and the handlers
have no unbounded loops between two awaits. An await ends only where the code
bounds it, and where it does not, the property says what it needs in a premise:

* `Failover` – fair are the selection, the timeouts and the back-off (`Driven`);
  not the client's body, the upstream's answer or the reading of the response. The
  wait for the fetch lock and the messages of the reflection stream have no
  timeout (`grpc_web.rs:137`, `582`), and `request_timeout_seconds = 0` switches the
  request timeout off: `EveryRequestEnds` assumes that the request does not wait
  for a schema for ever, and that there is a timeout (`HasTimeout`).
* `CircuitBreaker` – fair are the checker's ticker and its steps between awaits.
  The check itself may hang (`server.rs:816`, `858`, `720`), and so may requests and
  the admin's task at any step; `NeverWedged` assumes that the checks end
  (`ChecksEnd`), and that the node is found healthy from some time on for the part
  that says it is used again (`Recovered`).
* `IdpSessions` – time passes, and `create_session`, which awaits nothing, ends. No
  browser has to poll and no device to confirm; `AbandonedMakeWay` assumes that
  logins within the rate limit keep coming, since nothing else triggers the
  cleanup.
* `RelayTunnels` – fair are the driver's polls *when woken*: the wakers are part of
  the state, and whether a wake-up comes is what the property is about.
* `GatewayTunnel` – the accept loop looks at its token and at its streams in
  random order (`select!`), so that `Leave`, which streams that keep arriving
  disable now and then, is strongly fair; connection attempts and back-off end.
* `HotReload` – the process's own tasks; a cancelled accept loop sees its token.
* `RequestPipeline` – a request in hand is handled on.
* `ReflectionCache` – the tasks, time and the arrival of further requests; the
  health of the upstream is in the premise of `EventuallyCurrent`.

Otherwise no client, device, administrator, gateway or signal is assumed to do
anything.

## 4. Proofs

The theorems hold for every value of the constants that the named `ASSUME`s
admit; TLC evaluates these on every run. Most say that thresholds, caps and
bounds are naturals and that "none" is not a value. Those with a content of
their own:

* `ConnsAssumption`, `NodesAssumption`, `RequestsAssumption`, `FiniteAssumption`:
  what is counted is finite;
* `MappedAssumption` (`GatewayTunnel`): an IPv4 address and its mapped IPv6 form
  have one canonical form (`canonical_client_ip`, `common/src/lib.rs`);
* `ClaimsAssumption` (`TokenRevocation`): a jti names one token. The provider makes
  it a random UUID (`idp/mod.rs`);
* `ConfigsAssumption`, `RequestsAssumption`, `TokensAssumption`, `ClaimedAssumption`
  (`RequestPipeline`): what a configuration and a request are made of, and that a
  value of the client's making (`Claimed`) is none that the gateway writes; the
  denylist has some capacity;
* `AddressAssumption` (`RequestPipeline`): the socket yields an address, a forwarding
  header is an address or counts as none, the gateway has an address, and a CIDR
  entry is an address with a length or without;
* `WorkersAssumption` (`RateLimiter`): finitely many threads, by whose number the
  table may exceed its cap;
* `BodiesAssumption` (`RequestLimits`): a body is a sequence of message lengths;
* `CacheAssumption` (`ReflectionCache`): a positive TTL, and the health checker is
  no request.

Each module proves `Init => IInv`, `IInv /\ [Next]_vars => IInv'` with a lemma per
action, and from them its theorems. Candidates for a conjunct of an invariant were
tried with TLC on the instances of section 3 where it can evaluate them.

**UpstreamProofs**, the breaker. The inductive invariant is

    CircuitInv == CircuitTypeOK /\ ProbeSlotHeld /\ HalfOpenHasProbe /\ ClosedIsTransient

Each of the last three says that a state which must not last (slot taken,
`HalfOpen`, `Closed` while dead) has a task at a program point that will end it.
The set of these points is the heart of the argument: a step that leaves a
witness' point either ends the state or moves to another witness point, and a
step that starts the state makes its own task a witness. `ClosedIsTransient` is
needed because `DeadNodeIsOpen` speaks of the state between calls, where neither
of the other two excludes `Closed`. Theorems: `CircuitTypeCorrect`,
`ProbeSlotNeverLeaks` (`ProbeSlotHeld`), `HalfOpenNeverStranded`
(`HalfOpenHasProbe`), `DeadNodeOpen` (`DeadNodeIsOpen`), for any number of
requests, checkers and admins.

**UpstreamProofs**, the retry loops, for any nodes, requests, limits and strategies
and all three handlers:

    IInv == Shape /\ AllSound /\ ProbedIsDead /\ ConnectionsBalanced /\ ProbeHasOwner

`AllSound` speaks of one request at a time: at each program point, how its
attempts, its sends and the nodes it failed at relate. `RetriesAlternate` is only
inductive with it, since that the next node is a new one follows from the clamp of
the retries (fewer sends than nodes, so a node is left that has not failed)
together with the preference of the selection. `GatewayErrorIsLast` is its count
of sends at the end, for the two handlers that retry whatever fails.
`ProbedIsDead` is why any verdict on a probe frees its slot. Theorems:
`TypeCorrect`, `CountersBalanced` (`ConnectionsBalanced`), `ProbeOwned`
(`ProbeHasOwner`), `RetriesSound` (`RetriesAreSound`).

**GatewayTunnelProofs**, first for the tracker alone. The counters are compared
while rejected connections are still counted, so the caps are not inductive by
themselves. The invariant says what each counter counts (`GlobalCountExact`,
`PerIpExact`) along with the caps, with `Shape` in place of `TypeOK` (that the
counter is not negative is a consequence, not an assumption) and
`ReleasingHasIp`. Each step adds one connection to a counted set or removes one;
`OneMore` and `AdmittedCounted` are the lemmas about cardinalities. Theorems:
`TypeCorrect`, `GlobalCapHolds`, `PerIpHolds`, `NoPermitLeaks`, for any number
of connections and addresses and any caps. `ImplementsPool` is the refinement
(`PermitsPooled`): a step past the global check is a `Take`, for which the exact
count says that a permit was free; a release or a rejection after it is a `Give`;
all other steps leave the holders alone.

Then for the tunnel. `TrackersKept` says that the composition implements both
trackers, so that every theorem about the gateway's tracker carries over
(`TunnelledPerIpExact`, `TunnelledPermitsPooled`). The rest needs

    TunnelInv == IInv /\ RelayInv /\ StreamShape /\ StreamsOk

where `RelayInv` says what the relay's counter counts, and that its table counts
at most the connections that will still decrement it: equality, which the code
does not maintain (section 5), is not needed for `RelayCounts`
(`RelayCountsHold`). `StreamsOk` follows a stream through its states on both sides
and says that neither forgets its client while the other holds the stream; a
stream that is served has the address of that client and is counted for it, or was
said to have none by its header. `PeersTrue` (`PeerIsTrue`) is its last line.

**RelayTunnelsProofs**:

    IInv == Shape /\ Named /\ Looked /\ ChannelsOk /\ WaitersAreHeld /\ Routed /\ WakerLeft

`Routed` is `RoutesAreLive` seen from the tunnel: it is in the table under its own
name only, so that its removal cannot take another's route
(`NewTunnelsSurvive`, the action property `NewTunnelSurvives`). `ChannelsOk` and
`WaitersAreHeld` say that the requests in the channel and in the driver's hand are
exactly the waiting clients, each in one place, and that a closed channel is empty:
`NoRequestLost`. Further: `TypeCorrect`, `RoutesLive`, `WakersLeft` (`WakerLeft`).

**HotReloadProofs**:

    IInv == Shape /\ OneSocket /\ FutureUntouched /\ ActiveMatchesConfig /\ StrayIsCancelled

`FutureUntouched` (no version that has not been loaded has an instance, a
listener or a cancelled token) is why the pass of a reload cannot meet, or
cancel, an instance under the name and version it is about to start. Theorems:
`TypeCorrect`, `ReloadExact` (`ReloadIsExact`) and the action property
`NewestStackServes` (`ServesNewestStack`), for any servers, ports and reloads.

**TokenProofs**, the login:

    LoginInv == LoginShape /\ GuessesCounted /\ IssuedIsGone /\ WebhookDecides

The properties speak of what a handler decided in one lock scope and does in the
next; the invariant says what the handlers in between hold. `GuessesCounted` bounds
the guesses of a session in the store by the limit and the requests that have
decided to remove it, `IssuedIsGone` says that a session whose token was issued
has no entry, and `LoginShape` that a request past the webhook holds the webhook's
OIDs. Theorems: `LoginTypes`, `TokensEarned` (`TokensAreEarned`), `LockoutHolds`
(`LockoutNearlyExact`), and the action property `IdentityStable`.

**TokenProofs**, the denylist:

    IInv == Shape /\ EntriesOutlast /\ RecordedBarred /\ TasksOk

`EntriesOutlast`: an entry ends no earlier than the token it bars;
`RecordedBarred`: a recorded token that is still valid is in the denylist. Both
sweeps remove only what has ended, which is enough for `cleanup_expired`. The lazy
removal of `is_revoked` removes whatever is there by then, possibly an entry made
after its look; `TasksOk` carries from the look to the removal that the token had
expired, and the clock does not go back. It also says of every revocation under
way that its entry will outlast its token. Theorems: `RevokedOut`
(`RevokedStaysOut`) and `DenylistSound`.

**RequestPipelineProofs**, for every configuration, stack and request. Assumed of
them is their make: a path of a request, a route or an upstream is what
`split('/')` yields (`Paths`), and what a client may claim is nothing the gateway
writes itself (`ClaimedAssumption`).

    IInv == Started /\ Placed /\ Identified /\ Authenticated /\ Stored
            /\ AuthorizedOnly /\ IdentityWhereDistinct /\ AnswersAreSecured

`Placed` says where in the stack a request is, `Identified` that its roles are those
of its token or else of its certificate, `Authenticated` that a request behind a
`JwtAuth` layer has a valid token. The lemma `StackFacts` says what
`build_middleware_layers` and `build_service_stack` make of any list of enabled
layers: nothing that may answer is in front of an inserted `SecurityHeaders`, but
for an outermost `PathSanitizer`; it carries `AnswersSecured` (`AnswersAreSecured`)
and, with `Finalized`, `Authorized` (`AuthorizedOnly`). `VouchedHeaders` and its
lemmas follow a header through `prepare_proxy_headers`. `IdentityVerified`
(`IdentityIsVerified`) has the hypothesis `DistinctNames(cfg)`: the names under
which identities are forwarded are distinct and none of the gateway's own, nor one
that a way of dispatching writes (`host`, `te`, `content-type`, `content-length`;
`HeaderDispatched` is the lemma for these). The
configuration does not validate them; with two identities under one name the
later one replaces the earlier.

What becomes of the path needs a second invariant on top of the first:

    PathInv == Pathlike /\ Sanitized /\ Allowed /\ LoggedOut
               /\ InspectedAsForwarded /\ LogoutRevokes /\ CanonicalWhereBases

Behind a `PathSanitizer` the path is canonical (`Sanitized`), behind an
`Inspection` layer its canonical form is admitted (`Allowed`), and a token that was
accepted for a logout path is revoked or was one that the denylist cannot take
(`LoggedOut`; once full, it stays so here). A later layer or the router
canonicalises again, so all of it rests on `CanonicalOnce`: doing so twice is doing
so once, for a path of any length. The loop of `sanitize_and_normalize_path` is a
recursive function; `LoopRuns` shows that it has a value and `PushedSettled` and
`SettledStays` what that is, each by considering the first round where it would be
otherwise (`LeastElement`); `CanonicalShaped` and `ShapedStays` say that the
canonical paths are exactly those of one shape. `SanitizerBefore` derives from the
list of enabled layers that a sanitizer precedes every `JwtAuth` of the stack.
`InspectionHolds` (`InspectedAsForwarded`) and `LogoutHolds` (`LogoutRevokes`) follow.
`UpstreamPathCanonical` (`UpstreamPathIsCanonical`) adds what `build_upstream_uri`
joins (`CleanJoined`), under the hypothesis `CanonicalBases(cfg)`: the upstreams' base
paths, which come from the configuration unchecked, are canonical themselves; for
a transcoding route, `TranscodedClean` says that the last two segments of a canonical
path are one. That
the path is not one to refuse needs the stack's sanitizer *and* the router's own
check: `%25%32%65` passes the first and becomes `%252e`, which the second refuses.

The filter of addresses has a third invariant, again on top of the first:

    FilterInv == Addressed /\ Filtered /\ FilterHolds

`Filtered` says that whoever is behind an `IpFilter` was admitted by it; that the
layers in between do not change the address it was judged by is `SameClient`. The
rest is arithmetic. `CidrAgrees` shows that what `IpCidr` computes (unwrapping a
mapped entry, adjusting its length, shifting both sides) is that the entry covers
the address, for addresses of any width and every entry of one family. Powers of
two are counted as subsets, so that `Powers` and `PowerSum` follow from the
library's facts on cardinality; `DivSum` and `DivDiv` are the shifts. Theorem:
`FilterHeld` (`FilterHolds`).

**RateLimiterProofs**, for any threads, keys, capacities, rates and sizes:

    IInv == Shape /\ HistoriesOk /\ EntriesOk /\ RoomCounted

`LimitHolds` compares all windows of a key's past with the configured rate, while
the entry knows two numbers. The invariant is what these two say of the past. For
a bucket it is a balance (`Balanced`): for every instant, the cost of the requests
granted since, together with the tokens that are left, is at most a full bucket,
the refill up to `last_refill` and the `excess` of the two known races. A grant
moves a token from one side of that sum to the other, and a refill adds the same to
both. When a sweep forgets the entry the balance survives without the tokens
(`Spent`), and since the key was idle for a TTL, which refills a bucket, a new
entry balances again. An entry of the simple limiter tells which windows have not
been used (`Spaced`). `Refills` says that a client that comes back at the time it
was promised finds a token, whoever has been there without success.
`RoomCounted` counts the threads that have found room as if they had inserted:
entries and such threads are at most the cap and all *other* threads, because the
last of them to look saw a table below the cap. Theorems: `LimitsHold`
(`LimitHolds`, that is, `RetryAfterHonest` and, where the TTL outlasts the window and
the refill of a bucket (`TtlOutlasts`), `SpacingHolds` and `RateHolds`) and
`CapHolds` (`CapNearlyExact`). The premise is needed in one place, a forgotten entry.

**QueueProofs**, the limits:

    LimitsInv == TasksOk(req) /\ QueueOk(queue, req) /\ CountOk(permits, queue, req)

A waiter is in the queue once; free permits and those held, or handed over to a
waiter that has not run yet, are the configured number; nobody waits while one is
free. `PermitsNeverLost` (`PermitsExact`) follows. The part of `TasksOk` that speaks
of bodies is `FrameOk`: unless the body was cut, `LimitedBody` is in step with it
(`InStep`), which means that there is a message such that the state is that of a
reader of the whole body inside this message's prefix or content, and all before
it were within the limit. `LoopStep` shows that a round of the loop of `poll_frame`
keeps it in step. The loop is a recursive function on the work left; that it has a
value, and which, is shown by considering the least amount of work for which it
would be otherwise (`ScanTable`, `ScanRuns`, `ScanResult`), and the layout of the
body, a flattened sequence of sequences, in the same way (`FlattenJoins`). Theorem:
`FramingHolds` (`FramingExact`), for any messages, cut into frames in any way.

**QueueProofs**, the reflection cache:

    CacheInv == LockOk /\ CacheOk /\ RenewalDue

`LockOk` says that the tasks that fetch or wait are those in the queue of the lock,
and that only its first is past it. With it, `RenewalDue` can say that whoever has
decided to fetch still faces an empty or an expired cache, or one that the health
checker, which writes without the lock, has filled meanwhile. Theorem:
`RefreshedOncePerTtl`, the action property `OneRefreshPerTtl`.

Only model-checked: the liveness properties (`NeverWedged`, `EveryRequestEnds`,
`AbandonedMakeWay`, `EveryOpenAnswered`, `ShutdownEnds`, `ShutdownDrains`,
`TunnelComesBack`, `EventuallyCurrent`, `LoopEnds`), which rest on fairness and
are out of the reach of the provers used here. Every other property of the
runs is a theorem.

## 5. Where the code and its documentation differ

The following promises of comments and documents were stated as definitions of
the modules and found violated by TLC. No run lists them; adding one to its
component's configuration reproduces the counterexample (`OthersHeldBack` and
`SingleProbe` need a second request, `Callers = {r1, r2}`).

* `CircuitBreaker!QuarantineEnds` – "excluded from routing until
  `cooldown_seconds` elapses" (`circuit_breaker.rs:67`). `mark_alive` stores
  timestamp 0 last (`configuration.rs:566`); a `mark_dead` in between leaves a dead
  node with timestamp 0, which `is_available` never lets pass. An active health
  checker heals this as long as its checks end (`NeverWedged`); without one nothing
  does. A check may hang for ever: the timeout covers the head of the response,
  neither its body (`server.rs:816`, `858`) nor the messages of a reflection stream
  (`server.rs:720`, `grpc_web.rs:582`). A node that stalls there is never checked
  again.
* A failed check renews the timestamp of a dead node ("Keep failure timestamp
  fresh", `server.rs:891`). While the checks of a checked node fail, its cooldown
  does not elapse, and only the checker brings it back.
* `CircuitBreaker!OthersHeldBack` – "All other concurrent requests continue
  routing to healthy nodes" (`circuit_breaker.rs:35`). A request that passed
  `is_available` and lost the compare-and-swap is dispatched all the same.
* `CircuitBreaker!SingleProbe` – "exactly 1 probe allowed"
  (`circuit_breaker.rs:20`). `record_failure` frees the slot whoever owns it
  (`configuration.rs:604`).
* `CircuitBreaker!AliveIsClosed`, `!NotWedgedHalfOpen` – "alive
  (`CircuitState::Closed`)" (`configuration.rs:445`), "can never become permanently
  wedged in `HalfOpen`" (`circuit_breaker.rs:41`). A whole `mark_alive` inside
  `mark_dead`, or inside `try_enter_half_open_probe`, leaves an alive node `Open`,
  or `HalfOpen`. Routing looks at `is_alive` only, so this is visible in the admin
  view rather than in traffic.
* `Failover!RetriedBeforeReply` – "Automatic retries on alternate healthy nodes (on
  TCP/timeout errors or `502`/`503`/`504` outlier responses) before returning to
  client" (`Config.md:510`). `handle_grpc_web` retries a failed connection only: a
  schema that could not be fetched (`grpc_web.rs:179`) and a response that is broken
  or cannot be decoded (`393`-`417`) are answered with 502, and a timeout with 504, at
  the first attempt. `GatewayErrorIsLast` speaks of the other two handlers.
* `handle_grpc_web` does not clamp its retries to the number of other nodes
  ("retries on alternate healthy nodes", `Config.md:510`) and does not mark a node
  dead on a timeout ("marks node dead", `Config.md:526`); `Failover` models it as
  it is, and `RetriesAlternate` speaks of the other two handlers.
* `ConnectionTracker!RejectedOnlyWhenFull` – a connection can be turned away
  below the limit while another's rejected increment is still counted.
* `RelayLimits!PerIpCap` – "Enforces … per-canonical-IP concurrency limits"
  (`relay-server/src/main.rs:119`). An acquire between the decrement and the removal
  of a dropped guard's entry is lost.
* `RelayTunnels!HealthyStaysRouted` – "Prevent hijacking/blackholing of an active
  healthy tunnel" (`main.rs:653`). Two registrations pass the check together and
  the second replaces the first.
* `RelayTunnels!RequestsAreTaken` – "It constantly checks for new outbound stream
  requests" (`main.rs:694`). The driver takes one request per poll and leaves no
  waker for the next; it is served at the next event of the Yamux connection,
  which `EveryOpenAnswered` shows to come.
* `HotReload!NoListenerLost` – "Zero-Downtime Configuration Reloads"
  (`Readme.md:61`). A server whose protocol changed is bound before the old
  listener is cancelled; the failed bind is logged and nothing listens.
* `HotReload!AcceptedOnNewConfig` – "All newly accepted connections immediately
  run on the newly loaded configuration" (`Config.md:95`). TLS context, connection
  caps and OID mapping stay those the listener was started with.
* `HotReload!CheckersMatchStack` – "a dedicated background polling task for each
  upstream node" (`Config.md:689`). After a hot swap the checkers poll the nodes of
  the old configuration.
* `HotReload!StoppedBeforeExit` – "ensures all servers stop gracefully before the
  program exits" (`server.rs:165`). Connections, and the listeners of a dual stack,
  are not in the `JoinSet`.

Reading the code for the pipeline, the tunnel and the reflection cache showed
these, which the models reproduce and the properties make an exception for:

* "all short-circuit responses … carry standard security headers"
  (`configuration.rs:2186`). A `PathSanitizer` that is not listed is put around the
  whole stack, outside `SecurityHeaders` and `TraceId`; its 400s carry neither
  (`AnswersAreSecured` excepts them).
* A `PathSanitizer` listed behind `JwtAuth` lets the latter compare the raw path
  with the logout paths, so that `//logout` is forwarded as `/logout` and revokes
  nothing (`LogoutRevokes` excepts this order).
* "longest-prefix-match-wins" (`configuration.rs:1361`). The allow list of the
  Inspection layer falls through from a longer prefix whose patterns do not match
  to shorter ones; the longest decides the order only.
* An IPv4-mapped CIDR entry with a length between the two widths stays an IPv6
  entry and matches no address, since addresses are unwrapped; `::/0` does not
  cover IPv4 (`OneFamily` in `FilterHolds`). With only a deny list, a request
  without any address passes the filter.
* `finalize` accepts a Router without `router_params`, which
  `build_service_stack` then refuses.
* A `Connection` header may name `max-forwards`, which is then not sent on;
  `LoopEnds` holds because the gateway's own requests have no such header.
* A transcoding route sends `/service/method`, the last two segments of the request's
  path, and nothing else: the base path of its upstream, the query and what is
  before these segments are dropped (`grpc_web.rs:205`, `261`). `UpstreamPathIsCanonical`
  states this for such a route.
* `revoke` drops, without telling its caller, a jti longer than 256 bytes
  (`jwt.rs:70`) and a new one when the denylist is full (`jwt.rs:97`); the logout is
  forwarded all the same (`LogoutRevokes` excepts such tokens).
* "strictly fail-closed" (`Config.md:349`). A stream that lacks a valid PROXY header is
  dropped, but one whose header says LOCAL or UNSPEC is served for `0.0.0.0:0`
  (`server.rs:2044`; the comment at `server.rs:2022` says so for LOCAL) and is counted
  against no per-IP limit (`connection_tracker.rs:134`). Only the far end of the
  tunnel can write such a header, and this relay does not. `PeerIsTrue` has this as
  its second case.
* When a tunnel is cancelled its Yamux connection is dropped and requests in
  flight on it are cut. A gateway that asks for PROXY headers from a relay where
  they are disabled drops every stream (`PeerIsTrue` is why).
* The messages of a reflection stream have no timeout (`grpc_web.rs:582`): a
  stalled upstream keeps the fetch lock until its client leaves, although an
  expired schema could be served. A fetch belongs to its request: if every
  client leaves before its fetch ends, an expired schema is never renewed. A pool
  mixed from two versions is cached for a TTL, and a fetch under way may replace
  the newer schema that the health checker stored in between.

Some limits are stated in the properties themselves, with the margin the code
needs: the rate limiter's "hard max_entries cap" is exceeded by the threads in
flight (`CapNearlyExact`), its spacing and rate by the two races that `excess`
accounts for (`SpacingHolds`, `RateHolds`), the lockout by the requests in flight
(`LockoutNearlyExact`). The rate limiter needs a `ttl` that outlasts its window or
the refill of a bucket; the defaults satisfy that, the configuration does not
check it (`TtlOutlasts`, the premise in `LimitHolds`). A revocation lasts until
`exp` while the JWT library accepts a token for 60 s longer, an explicit
revocation lasts for the lifetime of a token issued now, which a token signed
elsewhere may outlive, and a revocation that meets a full denylist is dropped:
`RevokedStaysOut` speaks of recorded revocations of the provider's own tokens, up
to `exp`. A gRPC request that declares a `Content-Length` is refused by the header
check already when its one message has max_bytes, because of the prefix.

## 6. Not modelled

* What compression, logging, tracing, metrics, static files and the diagnostic
  services do to bodies and logs: nothing that another part reads back. Their
  place in the stack is in `RequestPipeline`.
* The relay's accept-rate token bucket in front of `RelayLimits`, the length of
  the tunnel's back-off, and bytes of a path outside ASCII, which the code
  escapes anew at each canonicalisation.
* The permits and tables that a hot swap starts anew with the middleware, and the
  health checkers' nodes (`server.rs:372`): see `CheckersMatchStack` in section 5.
* TLS, JWT signatures, JSON and protobuf transcoding: libraries; where a result
  matters it is a nondeterministic choice.
* The text of the configuration: its result is a constant. What `finalize` and
  the builders reject is modelled in `ServiceStack`.
* `Relaxed` orderings weaker than sequential consistency (see section 2).
* Command-line clients and test servers.

## 7. What is left

* An abstract breaker (alive, quarantined, probing) that `CircuitBreaker`
  implements when calls do not overlap, and that `Failover` uses as its
  environment.
* `RelayLimits` and the semaphore of `RequestLimits` as further implementations of
  `PermitPool`; for the latter `CountOk` is the invariant the refinement needs.
* The accept-rate bucket of the relay, with the balance of `RateLimiterProofs`.
