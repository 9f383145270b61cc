------------------------------ MODULE Failover ------------------------------
(***************************************************************************)
(* The terminal router services of one load-balanced route: the buffering  *)
(* decision of RouterService::call (server/src/middleware/router/mod.rs),  *)
(* RouteTarget::next_upstream (server/src/configuration.rs) and the retry  *)
(* loops handle_http_proxy, handle_grpc_passthrough and handle_grpc_web,   *)
(* with the RAII guards they hold (ConnectionGuard, TrackedBody,           *)
(* ProbeGuard).                                                            *)
(*                                                                         *)
(* The request tasks interleave at their await points and between choosing *)
(* a node and entering it; a breaker method is one step here (module       *)
(* CircuitBreaker opens it up).  With atomic methods the circuit is        *)
(* HalfOpen exactly while half_open_probe_in_flight is set, so probing[n]  *)
(* stands for both.                                                        *)
(***************************************************************************)
EXTENDS Integers, Sequences, FiniteSets

CONSTANTS
    Nodes,       \* route_info.target.upstreams
    Requests,    \* request tasks
    Backends,    \* the kinds of route considered
    Strategy,    \* "LeastConnections", or "Any" for the other strategies
    MaxRetries,  \* target.max_retries
    Threshold,   \* target.failure_threshold
    HasTimeout   \* request_timeout_seconds > 0

BackendTypes == {"Rest", "GrpcPassthrough", "GrpcTranscoding"}
Strategies == {"Any", "LeastConnections"}

ASSUME NodesAssumption    == IsFiniteSet(Nodes) /\ Nodes # {}
ASSUME RequestsAssumption == IsFiniteSet(Requests)
ASSUME BackendAssumption  == Backends \subseteq BackendTypes /\ Backends # {}
ASSUME StrategyAssumption == Strategy \in Strategies
ASSUME RetriesAssumption  == MaxRetries \in Nat /\ Threshold \in Nat \ {0}
ASSUME TimeoutAssumption  == HasTimeout \in BOOLEAN

VARIABLES
    backend,  \* route_info.backend_type, which no step changes
    alive,    \* is_alive of each node
    cooled,   \* the node has a failure timestamp older than cooldown_seconds
    probing,  \* half_open_probe_in_flight
    count,    \* consecutive_failures, saturated at the threshold
    active,   \* active_connections
    req       \* the local state of each request task

(* The route: its kind and the circuit of each of its nodes *)
route == <<backend, alive, cooled, probing, count>>
vars  == <<backend, alive, cooled, probing, count, active, req>>

NoNode == "none"
PCs    == {"idle", "buffer", "select", "enter", "schema", "await", "backoff",
           "stream", "done"}
(* What the client is told: the upstream's own answer, an outlier status of it
   included, a fault of the request, a gateway error, or nothing any more. *)
Replies == {"none", "ok", "outlier", "client", "error", "502", "504", "gone"}

(* is_multi_node; max_retries as each loop computes it *)
Transcoding == backend = "GrpcTranscoding"
MultiNode   == Cardinality(Nodes) > 1
Retries     ==
    IF Transcoding THEN MaxRetries
    ELSE IF MaxRetries < Cardinality(Nodes) - 1 THEN MaxRetries
         ELSE Cardinality(Nodes) - 1

NoRequest == [pc |-> "idle", idempotent |-> FALSE, streamed |-> FALSE,
              attempts |-> 0, failed |-> {}, node |-> NoNode,
              is_probe |-> FALSE, sends |-> << >>, reply |-> "none"]

TypeOK ==
    /\ backend \in Backends
    /\ alive \in [Nodes -> BOOLEAN]
    /\ cooled \in [Nodes -> BOOLEAN]
    /\ probing \in [Nodes -> BOOLEAN]
    /\ count \in [Nodes -> 0..Threshold]
    /\ active \in [Nodes -> Int]
    /\ req \in [Requests ->
          [pc : PCs, idempotent : BOOLEAN, streamed : BOOLEAN,
           attempts : 0..(Retries + 1), failed : SUBSET Nodes,
           node : Nodes \cup {NoNode}, is_probe : BOOLEAN,
           sends : Seq(Nodes), reply : Replies]]

Init ==
    /\ backend \in Backends
    /\ alive = [n \in Nodes |-> TRUE]
    /\ cooled = [n \in Nodes |-> FALSE]
    /\ probing = [n \in Nodes |-> FALSE]
    /\ count = [n \in Nodes |-> 0]
    /\ active = [n \in Nodes |-> 0]
    /\ req = [r \in Requests |-> NoRequest]

-----------------------------------------------------------------------------
(* UpstreamNode's methods, each as one step on node n. *)

Available(n) == alive[n] \/ (~probing[n] /\ cooled[n])

MarkDead(n) ==
    /\ alive' = [alive EXCEPT ![n] = FALSE]
    /\ cooled' = [cooled EXCEPT ![n] = FALSE]
    /\ probing' = [probing EXCEPT ![n] = FALSE]
    /\ UNCHANGED backend

MarkAlive(n) ==
    /\ count' = [count EXCEPT ![n] = 0]
    /\ probing' = [probing EXCEPT ![n] = FALSE]
    /\ alive' = [alive EXCEPT ![n] = TRUE]
    /\ cooled' = [cooled EXCEPT ![n] = FALSE]
    /\ UNCHANGED backend

RecordSuccess(n) ==
    IF ~alive[n] \/ count[n] > 0 THEN MarkAlive(n) ELSE UNCHANGED route

RecordFailure(n) ==
    LET failures == IF count[n] < Threshold THEN count[n] + 1 ELSE Threshold
    IN  /\ count' = [count EXCEPT ![n] = failures]
        /\ IF probing[n] \/ failures >= Threshold
           THEN MarkDead(n)
           ELSE UNCHANGED <<backend, alive, cooled, probing>>

(* Mutant: an uncompleted ProbeGuard keeps the slot. *)
RevertProbeNever(n, is_probe) == UNCHANGED route

(* Drop for ProbeGuard without complete. *)
RevertProbe(n, is_probe) ==
    /\ probing' = IF is_probe THEN [probing EXCEPT ![n] = FALSE] ELSE probing
    /\ UNCHANGED <<backend, alive, cooled, count>>

-----------------------------------------------------------------------------
(* ConnectionGuard::new and its Drop. *)
Acquire(n) == active' = [active EXCEPT ![n] = @ + 1]
Release(n) == active' = [active EXCEPT ![n] = @ - 1]

(* The buffering decision of RouterService::call; declared says that the
   Content-Length exceeds max_retry_buffer_bytes. *)
CanStream(idempotent, declared) ==
    /\ ~Transcoding
    /\ \/ ~MultiNode
       \/ MaxRetries = 0
       \/ backend = "Rest" /\ ~idempotent
       \/ declared

Arrive(r) ==
    /\ req[r].pc \in {"idle", "done"}
    /\ \E idempotent, declared \in BOOLEAN :
          LET streamed == CanStream(idempotent, declared)
          IN  req' = [req EXCEPT ![r] =
                         [NoRequest EXCEPT
                            !.pc = IF streamed THEN "select" ELSE "buffer",
                            !.idempotent = idempotent,
                            !.streamed = streamed]]
    /\ UNCHANGED <<route, active>>

(* The body has been read, or was larger than max_retry_buffer_bytes and spills
   into a stream; a body to be transcoded is read whole. *)
Buffered(r) ==
    /\ req[r].pc = "buffer"
    /\ \E spilled \in BOOLEAN :
          req' = [req EXCEPT ![r].pc = "select",
                             ![r].streamed = spilled /\ ~Transcoding]
    /\ UNCHANGED <<route, active>>

(* Reading the body for buffering fails (413 or 400), or the client leaves
   meanwhile: nothing is dispatched. *)
BodyUnreadable(r) ==
    /\ req[r].pc = "buffer"
    /\ \E reply \in {"client", "gone"} :
          req' = [req EXCEPT ![r].pc = "done", ![r].reply = reply]
    /\ UNCHANGED <<route, active>>

-----------------------------------------------------------------------------
(* Mutant: without an available node the request waits for one. *)
EligibleNoFallback(failed) == {n \in Nodes \ failed : Available(n)}

(* next_upstream.  Every strategy but LeastConnections may return any node of
   the slice: round robin, sticky hash and score depend on other traffic. *)
Eligible(failed) ==
    LET available == {n \in Nodes \ failed : Available(n)}
        fallback1 == Nodes \ failed
    IN  IF ~MultiNode THEN Nodes
        ELSE IF available # {} THEN available
        ELSE IF fallback1 # {} THEN fallback1
        ELSE Nodes

Choices(slice) ==
    IF Strategy = "LeastConnections"
    THEN {n \in slice : \A m \in slice : active[n] <= active[m]}
    ELSE slice

(* The head of the loop: attempts += 1, choose a node. *)
Select(r) ==
    /\ req[r].pc = "select"
    /\ \E n \in Choices(Eligible(req[r].failed)) :
          req' = [req EXCEPT ![r].pc = "enter", ![r].node = n,
                             ![r].attempts = @ + 1]
    /\ UNCHANGED <<route, active>>

(* ProbeGuard::new, ConnectionGuard::new, the upstream URI, and the dispatch,
   which consumes a streamed body. *)
Enter(r) ==
    LET n     == req[r].node
        probe == MultiNode /\ ~alive[n] /\ cooled[n] /\ ~probing[n]
    IN  /\ req[r].pc = "enter" /\ ~Transcoding
        /\ req' = [req EXCEPT ![r].pc = "await", ![r].is_probe = probe,
                              ![r].sends = Append(@, n)]
        /\ probing' = [probing EXCEPT ![n] = @ \/ probe]
        /\ Acquire(n)
        /\ UNCHANGED <<backend, alive, cooled, count>>

(* The URI cannot be built (`?`): both guards are created and dropped. *)
EnterFails(r) ==
    /\ req[r].pc = "enter" /\ ~Transcoding
    /\ req' = [req EXCEPT ![r].pc = "done", ![r].reply = "error"]
    /\ UNCHANGED <<route, active>>

(* handle_grpc_web creates no ProbeGuard, and awaits the reflection schema
   with its ConnectionGuard in hand. *)
EnterTranscoding(r) ==
    /\ req[r].pc = "enter" /\ Transcoding
    /\ req' = [req EXCEPT ![r].pc = "schema"]
    /\ Acquire(req[r].node)
    /\ UNCHANGED route

SchemaReady(r) ==
    /\ req[r].pc = "schema"
    /\ req' = [req EXCEPT ![r].pc = "await",
                          ![r].sends = Append(@, req[r].node)]
    /\ UNCHANGED <<route, active>>

(* No schema (502), or the request does not fit it (400, 404) or cannot be
   encoded (500): answered at once, whatever retries are left. *)
SchemaFails(r) ==
    /\ req[r].pc = "schema"
    /\ \E reply \in {"502", "client", "error"} :
          req' = [req EXCEPT ![r].pc = "done", ![r].reply = reply]
    /\ Release(req[r].node)
    /\ UNCHANGED route

-----------------------------------------------------------------------------
(* Outcomes of the await. *)

(* Mutant: a body that went out as a stream is sent again. *)
MayRetryStreamed(r) ==
    /\ backend = "Rest" => req[r].idempotent
    /\ req[r].attempts <= Retries

(* !is_stream && is_idempotent && attempts <= max_retries, the idempotence
   only for REST *)
MayRetry(r) ==
    /\ ~req[r].streamed
    /\ backend = "Rest" => req[r].idempotent
    /\ req[r].attempts <= Retries

(* The attempt on the node failed: retry elsewhere or answer. *)
RetryOrReply(r, reply) ==
    LET n == req[r].node
        failed == [req[r] EXCEPT !.failed = @ \cup {n}, !.is_probe = FALSE]
    IN  req' = [req EXCEPT ![r] =
                  IF MayRetry(r)
                  THEN [failed EXCEPT !.pc = IF Transcoding THEN "backoff"
                                             ELSE "select"]
                  ELSE [failed EXCEPT !.pc = "done", !.reply = reply]]

(* Mutant: the guard is dropped before the back-off, and again after it. *)
ReleaseBeforeBackoff(r) == Release(req[r].node)

(* A guard held over a back-off is dropped when the loop continues. *)
ReleaseUnlessBackoff(r) ==
    IF Transcoding /\ MayRetry(r) THEN UNCHANGED active
    ELSE Release(req[r].node)

(* tokio::time::timeout, where request_timeout_seconds is not 0. *)
Timeout(r) ==
    /\ req[r].pc = "await" /\ ~Transcoding /\ HasTimeout
    /\ MarkDead(req[r].node)
    /\ UNCHANGED count
    /\ RetryOrReply(r, "504")
    /\ Release(req[r].node)

(* handle_grpc_web answers 504 and leaves the node alone; it has a timeout of
   30 s where none is configured. *)
TranscodingTimeout(r) ==
    /\ req[r].pc = "await" /\ Transcoding
    /\ req' = [req EXCEPT ![r].pc = "done", ![r].reply = "504"]
    /\ Release(req[r].node)
    /\ UNCHANGED route

UpstreamFailure(r) ==
    /\ req[r].pc = "await"
    /\ MarkDead(req[r].node)
    /\ UNCHANGED count
    /\ RetryOrReply(r, "502")
    /\ ReleaseUnlessBackoff(r)

(* 502, 503, 504, grpc-status 14.  failed_nodes grows only on a multi-node
   route; on a single-node one no retry would read it. *)
Outlier(r) ==
    /\ req[r].pc = "await" /\ ~Transcoding
    /\ RecordFailure(req[r].node)
    /\ IF MayRetry(r)
       THEN RetryOrReply(r, "outlier") /\ Release(req[r].node)
       ELSE /\ req' = [req EXCEPT ![r].pc = "stream", ![r].is_probe = FALSE,
                                  ![r].reply = "outlier"]
            /\ UNCHANGED active

(* The response body is returned in a TrackedBody that owns the guard. *)
Success(r) ==
    /\ req[r].pc = "await" /\ ~Transcoding
    /\ RecordSuccess(req[r].node)
    /\ req' = [req EXCEPT ![r].pc = "stream", ![r].is_probe = FALSE,
                          ![r].reply = "ok"]
    /\ UNCHANGED active

(* handle_grpc_web reads the whole response, within the timeout, and records no
   verdict: a success, a status other than 200, a body that breaks off or is no
   message of the schema (502), one that takes too long (504) and one that has
   no JSON form (500) are all just answered, whatever retries are left. *)
TranscodingResponse(r) ==
    /\ req[r].pc = "await" /\ Transcoding
    /\ \E reply \in {"ok", "outlier", "502", "504", "error"} :
          req' = [req EXCEPT ![r].pc = "done", ![r].reply = reply]
    /\ Release(req[r].node)
    /\ UNCHANGED route

(* 413 or 400: the request body was at fault; the guard is not completed. *)
ClientFault(r) ==
    /\ req[r].pc = "await" /\ ~Transcoding
    /\ RevertProbe(req[r].node, req[r].is_probe)
    /\ req' = [req EXCEPT ![r].pc = "done", ![r].is_probe = FALSE,
                          ![r].reply = "client"]
    /\ Release(req[r].node)

(* tokio::time::sleep of 500 ms, then the loop continues. *)
Backoff(r) ==
    /\ req[r].pc = "backoff"
    /\ req' = [req EXCEPT ![r].pc = "select"]
    /\ Release(req[r].node)
    /\ UNCHANGED route

(* The points at which a request holds a ConnectionGuard. *)
Holding == {"schema", "await", "backoff", "stream"}

(* The client is gone: the task's future, or the response body, is dropped at
   an await point with the guards it holds. *)
Disconnect(r) ==
    /\ req[r].pc \in Holding
    /\ RevertProbe(req[r].node, req[r].is_probe)
    /\ req' = [req EXCEPT ![r].pc = "done", ![r].is_probe = FALSE,
                          ![r].reply = "gone"]
    /\ Release(req[r].node)

(* TrackedBody is dropped at the end of the response. *)
BodyEnd(r) ==
    /\ req[r].pc = "stream"
    /\ req' = [req EXCEPT ![r].pc = "done"]
    /\ Release(req[r].node)
    /\ UNCHANGED route

-----------------------------------------------------------------------------
(* cooldown_seconds elapse for a dead node. *)
Cool(n) ==
    /\ ~alive[n] /\ ~cooled[n]
    /\ cooled' = [cooled EXCEPT ![n] = TRUE]
    /\ UNCHANGED <<backend, alive, probing, count, active, req>>

(* A round of the node's health checker that finds it healthy or not. *)
HealthUp(n) ==
    /\ ~alive[n]
    /\ MarkAlive(n)
    /\ UNCHANGED <<active, req>>

HealthDown(n) ==
    /\ IF alive[n] THEN MarkDead(n)
       ELSE /\ cooled' = [cooled EXCEPT ![n] = FALSE]
            /\ UNCHANGED <<backend, alive, probing>>
    /\ UNCHANGED <<count, active, req>>

-----------------------------------------------------------------------------
Await(r) ==
    \/ Timeout(r) \/ TranscodingTimeout(r) \/ UpstreamFailure(r)
    \/ Outlier(r) \/ Success(r) \/ TranscodingResponse(r) \/ ClientFault(r)

Progress(r) ==
    \/ Buffered(r) \/ BodyUnreadable(r) \/ Select(r) \/ Enter(r) \/ EnterFails(r)
    \/ EnterTranscoding(r) \/ SchemaReady(r) \/ SchemaFails(r) \/ Await(r)
    \/ Backoff(r) \/ Disconnect(r) \/ BodyEnd(r)

Next ==
    \/ \E r \in Requests : Arrive(r) \/ Progress(r)
    \/ \E n \in Nodes : Cool(n) \/ HealthUp(n) \/ HealthDown(n)

Spec == Init /\ [][Next]_vars

(* What the code itself sees to: a task runs on between its awaits, and its
   timers fire.  Nothing makes a client send its body or read the response, an
   upstream answer, or a schema arrive: the wait for the fetch lock and the
   messages of the reflection stream have no timeout. *)
Driven(r) ==
    \/ Select(r) \/ Enter(r) \/ EnterFails(r) \/ EnterTranscoding(r)
    \/ Timeout(r) \/ TranscodingTimeout(r) \/ Backoff(r)

FairSpec == Spec /\ \A r \in Requests : WF_vars(Driven(r))

-----------------------------------------------------------------------------
(* Properties *)

Holds(r, n) == req[r].node = n /\ req[r].pc \in Holding
Holders(n)  == {r \in Requests : Holds(r, n)}

(* active_connections of a node, which LeastConnections balances on, counts
   exactly the requests that hold a connection to it, through every retry,
   error reply, client disconnect and streamed response. *)
ConnectionsBalanced == \A n \in Nodes : active[n] = Cardinality(Holders(n))

(* A taken probe slot belongs to a request in flight on that node. *)
ProbeHasOwner ==
    \A n \in Nodes : probing[n] => \E r \in Holders(n) : req[r].is_probe

(* handle_http_proxy and handle_grpc_passthrough never send a request twice to
   the same node: their clamp of max_retries to the number of other nodes and
   the fallbacks of next_upstream fit together.  (handle_grpc_web has no clamp,
   and does.) *)
RetriesAlternate ==
    ~Transcoding => \A r \in Requests : \A i, j \in DOMAIN req[r].sends :
        req[r].sends[i] = req[r].sends[j] => i = j

(* The body was buffered whole and the method may be repeated. *)
Replayable(q) == ~q.streamed /\ (backend = "Rest" => q.idempotent)

(* A request is sent a second time only if its body was buffered whole and, on
   a REST route, its method is idempotent. *)
ReplayIsSafe ==
    \A r \in Requests : Len(req[r].sends) > 1 => Replayable(req[r])

(* handle_http_proxy and handle_grpc_passthrough answer a replayable request
   with 502 or 504 only after every permitted attempt was used. *)
GatewayErrorIsLast ==
    ~Transcoding => \A r \in Requests :
        req[r].reply \in {"502", "504"} /\ Replayable(req[r])
            => Len(req[r].sends) = Retries + 1

(* What a retry is for: it is safe to send again, goes where the request has
   not failed, and no gateway error is returned while one is left. *)
RetriesAreSound == ReplayIsSafe /\ RetriesAlternate /\ GatewayErrorIsLast

(* A request that has begun to choose a node is answered, or its client is
   gone, however its attempts fail and whichever nodes are dead: the attempts
   end, and the selection never waits for a node.  Not so without a timeout, nor
   for a transcoded request whose schema never comes. *)
EveryRequestEnds ==
    HasTimeout \/ Transcoding =>
        \A r \in Requests :
            []<>(req[r].pc # "schema")
                => (req[r].pc = "select" ~> req[r].pc \in {"done", "stream"})

(* "Automatic retries on alternate healthy nodes (on TCP/timeout errors or
   `502`/`503`/`504` outlier responses) before returning to client": true of
   two handlers (GatewayErrorIsLast), not of handle_grpc_web, which retries a
   failed connection only.  No run lists it. *)
RetriedBeforeReply ==
    \A r \in Requests :
        req[r].reply \in {"502", "504"} /\ Replayable(req[r])
            => Len(req[r].sends) = Retries + 1
=============================================================================
