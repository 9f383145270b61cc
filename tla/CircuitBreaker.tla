--------------------------- MODULE CircuitBreaker ---------------------------
(***************************************************************************)
(* The lock-free circuit breaker of ONE upstream node (UpstreamNode of     *)
(* server/src/configuration.rs and ProbeGuard of                           *)
(* server/src/middleware/router/circuit_breaker.rs), shared by every       *)
(* request task routed to the node, by the node's active health checker    *)
(* (server/src/server.rs) and by the admin endpoint.                       *)
(*                                                                         *)
(* The breaker has no lock: each of its methods is a sequence of atomic    *)
(* loads, stores and swaps, and every one of these is a step of its own    *)
(* here.  pc[t] names the next atomic operation of task t:                 *)
(*                                                                         *)
(*   av_*  is_available          te_*  try_enter_half_open_probe           *)
(*   rs_*  record_success        rf_*  record_failure                      *)
(*   ma_*  mark_alive            md_*  mark_dead                           *)
(*   gd_*  Drop for ProbeGuard   hc_*  one health check and its verdict    *)
(*   sent  the request was dispatched and its response is awaited          *)
(*                                                                         *)
(* Two quantities are represented up to what the code can tell apart:      *)
(* last_failure_time by its age in ticks, which saturates one tick beyond  *)
(* the cooldown, and consecutive_failures saturated at the threshold.      *)
(***************************************************************************)
EXTENDS Integers

CONSTANTS
    Callers,    \* request tasks: each serves one request after the other
    Checkers,   \* active health checkers of the node: one, or none (interval 0)
    Admins,     \* tasks serving the admin control action
    FailureThreshold, \* failure_threshold
    Cooldown,   \* cooldown_seconds, in ticks
    OtherNodes, \* is_multi_node: the route has another upstream node
    Fallback    \* every other node of the route may be unavailable

ASSUME ThresholdAssumption == FailureThreshold \in Nat
ASSUME CooldownAssumption  == Cooldown \in Nat
ASSUME OtherNodesAssumption == OtherNodes \in BOOLEAN
ASSUME FallbackAssumption  == Fallback \in BOOLEAN

Tasks == Callers \cup Checkers \cup Admins

VARIABLES
    is_alive,                   \* AtomicBool
    circuit_state,              \* AtomicU8: "Closed", "Open" or "HalfOpen"
    half_open_probe_in_flight,  \* AtomicBool
    failure_age,                \* AtomicU64 last_failure_time, as its age
    consecutive_failures,       \* AtomicUsize, saturated
    pc,                         \* the next atomic operation of each task
    is_probe,                   \* ProbeGuard::is_probe of the task's guard
    failures                    \* record_failure's local

node  == <<is_alive, circuit_state, half_open_probe_in_flight, failure_age,
           consecutive_failures>>
local == <<pc, is_probe, failures>>
circuit_vars == <<node, local>>

NoStamp == -1                            \* last_failure_time = 0
Cooled  == failure_age > Cooldown        \* now > last_fail + cooldown_seconds
Limit   == IF FailureThreshold < 1 THEN 1 ELSE FailureThreshold  \* failure_threshold.max(1)
States  == {"Closed", "Open", "HalfOpen"}
Labels  == {"idle", "av_alive", "av_probe", "av_time",
            "te_alive", "te_time", "te_cas", "te_store", "sent",
            "rs_alive", "rs_count", "rf_add", "rf_swap", "rf_state",
            "ma_count", "ma_probe", "ma_state", "ma_alive", "ma_time",
            "md_alive", "md_state", "md_probe", "md_time",
            "gd_probe", "gd_state", "hc_wait", "hc_ok", "hc_bad", "hc_time"}

CircuitTypeOK ==
    /\ is_alive \in BOOLEAN
    /\ circuit_state \in States
    /\ half_open_probe_in_flight \in BOOLEAN
    /\ failure_age \in {NoStamp} \cup 0..(Cooldown + 1)
    /\ consecutive_failures \in 0..Limit
    /\ pc \in [Tasks -> Labels]
    /\ is_probe \in [Tasks -> BOOLEAN]
    /\ failures \in [Tasks -> 0..Limit]

CircuitInit ==
    /\ is_alive = TRUE
    /\ circuit_state = "Closed"
    /\ half_open_probe_in_flight = FALSE
    /\ failure_age = NoStamp
    /\ consecutive_failures = 0
    /\ pc = [t \in Tasks |-> "idle"]
    /\ is_probe = [t \in Tasks |-> FALSE]
    /\ failures = [t \in Tasks |-> 0]

-----------------------------------------------------------------------------
(* Control flow of a task. *)

At(t, l) == pc[t] = l

Goto(t, l) ==
    /\ pc' = [pc EXCEPT ![t] = l]
    /\ UNCHANGED <<is_probe, failures>>

(* The task leaves the node: its ProbeGuard is gone and, if it retries the
   request, it does so on another node. *)
Leave(t) ==
    /\ pc' = [pc EXCEPT ![t] = "idle"]
    /\ is_probe' = [is_probe EXCEPT ![t] = FALSE]
    /\ failures' = [failures EXCEPT ![t] = 0]

(* One second passes. *)
Tick ==
    /\ failure_age \in 0..Cooldown
    /\ failure_age' = failure_age + 1
    /\ UNCHANGED <<is_alive, circuit_state, half_open_probe_in_flight,
                   consecutive_failures, local>>

-----------------------------------------------------------------------------
(* is_available, as next_upstream calls it.  An available node may be chosen
   or passed over by the balancing strategy; an unavailable one is chosen only
   when the fallbacks of next_upstream apply. *)

AvAlive(t) ==
    /\ At(t, "av_alive")
    /\ \/ ~is_alive /\ Goto(t, "av_probe")
       \/ is_alive /\ (Goto(t, "te_alive") \/ Leave(t))
    /\ UNCHANGED node

Unavailable(t) == Leave(t) \/ (Fallback /\ Goto(t, "te_alive"))

AvProbe(t) ==
    /\ At(t, "av_probe")
    /\ IF half_open_probe_in_flight THEN Unavailable(t) ELSE Goto(t, "av_time")
    /\ UNCHANGED node

AvTime(t) ==
    /\ At(t, "av_time")
    /\ IF failure_age # NoStamp /\ Cooled
       THEN Goto(t, "te_alive") \/ Leave(t)
       ELSE Unavailable(t)
    /\ UNCHANGED node

-----------------------------------------------------------------------------
(* ProbeGuard::new: try_enter_half_open_probe.  Whatever it answers, the
   request is dispatched to the node. *)

TeAlive(t) ==
    /\ At(t, "te_alive")
    /\ Goto(t, IF is_alive THEN "sent" ELSE "te_time")
    /\ UNCHANGED node

TeTime(t) ==
    /\ At(t, "te_time")
    /\ Goto(t, IF failure_age # NoStamp /\ Cooled THEN "te_cas" ELSE "sent")
    /\ UNCHANGED node

(* compare_exchange(false, true) *)
TeCas(t) ==
    /\ At(t, "te_cas")
    /\ Goto(t, IF half_open_probe_in_flight THEN "sent" ELSE "te_store")
    /\ half_open_probe_in_flight' = TRUE
    /\ UNCHANGED <<is_alive, circuit_state, failure_age, consecutive_failures>>

TeStore(t) ==
    /\ At(t, "te_store")
    /\ circuit_state' = "HalfOpen"
    /\ pc' = [pc EXCEPT ![t] = "sent"]
    /\ is_probe' = [is_probe EXCEPT ![t] = TRUE]
    /\ UNCHANGED <<is_alive, half_open_probe_in_flight, failure_age,
                   consecutive_failures, failures>>

-----------------------------------------------------------------------------
(* mark_dead *)

MdAlive(t) ==
    /\ At(t, "md_alive")
    /\ is_alive' = FALSE
    /\ Goto(t, "md_state")
    /\ UNCHANGED <<circuit_state, half_open_probe_in_flight, failure_age,
                   consecutive_failures>>

MdState(t) ==
    /\ At(t, "md_state")
    /\ circuit_state' = "Open"
    /\ Goto(t, "md_probe")
    /\ UNCHANGED <<is_alive, half_open_probe_in_flight, failure_age,
                   consecutive_failures>>

MdProbe(t) ==
    /\ At(t, "md_probe")
    /\ half_open_probe_in_flight' = FALSE
    /\ Goto(t, "md_time")
    /\ UNCHANGED <<is_alive, circuit_state, failure_age, consecutive_failures>>

MdTime(t) ==
    /\ At(t, "md_time")
    /\ failure_age' = 0
    /\ Leave(t)
    /\ UNCHANGED <<is_alive, circuit_state, half_open_probe_in_flight,
                   consecutive_failures>>

-----------------------------------------------------------------------------
(* mark_alive *)

MaCount(t) ==
    /\ At(t, "ma_count")
    /\ consecutive_failures' = 0
    /\ Goto(t, "ma_probe")
    /\ UNCHANGED <<is_alive, circuit_state, half_open_probe_in_flight,
                   failure_age>>

MaProbe(t) ==
    /\ At(t, "ma_probe")
    /\ half_open_probe_in_flight' = FALSE
    /\ Goto(t, "ma_state")
    /\ UNCHANGED <<is_alive, circuit_state, failure_age, consecutive_failures>>

MaState(t) ==
    /\ At(t, "ma_state")
    /\ circuit_state' = "Closed"
    /\ Goto(t, "ma_alive")
    /\ UNCHANGED <<is_alive, half_open_probe_in_flight, failure_age,
                   consecutive_failures>>

(* Mutant: mark_alive closes the circuit without reviving the node. *)
MaAliveForgotten(t) ==
    /\ At(t, "ma_alive")
    /\ Goto(t, "ma_time")
    /\ UNCHANGED node

MaAlive(t) ==
    /\ At(t, "ma_alive")
    /\ is_alive' = TRUE
    /\ Goto(t, "ma_time")
    /\ UNCHANGED <<circuit_state, half_open_probe_in_flight, failure_age,
                   consecutive_failures>>

MaTime(t) ==
    /\ At(t, "ma_time")
    /\ failure_age' = NoStamp
    /\ Leave(t)
    /\ UNCHANGED <<is_alive, circuit_state, half_open_probe_in_flight,
                   consecutive_failures>>

-----------------------------------------------------------------------------
(* record_success *)

RsAlive(t) ==
    /\ At(t, "rs_alive")
    /\ Goto(t, IF is_alive THEN "rs_count" ELSE "ma_count")
    /\ UNCHANGED node

RsCount(t) ==
    /\ At(t, "rs_count")
    /\ IF consecutive_failures > 0 THEN Goto(t, "ma_count") ELSE Leave(t)
    /\ UNCHANGED node

(* record_failure *)

RfAdd(t) ==
    LET count == IF consecutive_failures < Limit
                 THEN consecutive_failures + 1 ELSE Limit
    IN  /\ At(t, "rf_add")
        /\ consecutive_failures' = count
        /\ failures' = [failures EXCEPT ![t] = count]
        /\ pc' = [pc EXCEPT ![t] = "rf_swap"]
        /\ UNCHANGED <<is_alive, circuit_state, half_open_probe_in_flight,
                       failure_age, is_probe>>

RfSwap(t) ==
    /\ At(t, "rf_swap")
    /\ Goto(t, IF half_open_probe_in_flight THEN "md_alive" ELSE "rf_state")
    /\ half_open_probe_in_flight' = FALSE
    /\ UNCHANGED <<is_alive, circuit_state, failure_age, consecutive_failures>>

(* Mutant: only the failure count decides, not the probe. *)
RfStateCountsOnly(t) ==
    /\ At(t, "rf_state")
    /\ IF failures[t] >= Limit THEN Goto(t, "md_alive") ELSE Leave(t)
    /\ UNCHANGED node

RfState(t) ==
    /\ At(t, "rf_state")
    /\ IF circuit_state = "HalfOpen" \/ failures[t] >= Limit
       THEN Goto(t, "md_alive") ELSE Leave(t)
    /\ UNCHANGED node

-----------------------------------------------------------------------------
(* Drop for ProbeGuard, when the guard is a probe's and was not completed *)

GdProbe(t) ==
    /\ At(t, "gd_probe")
    /\ half_open_probe_in_flight' = FALSE
    /\ Goto(t, "gd_state")
    /\ UNCHANGED <<is_alive, circuit_state, failure_age, consecutive_failures>>

GdState(t) ==
    /\ At(t, "gd_state")
    /\ circuit_state' = "Open"
    /\ Leave(t)
    /\ UNCHANGED <<is_alive, half_open_probe_in_flight, failure_age,
                   consecutive_failures>>

-----------------------------------------------------------------------------
(* A request task: handle_http_proxy and handle_grpc_passthrough, one attempt
   on this node.  On a single-node route there is neither availability
   filtering nor a ProbeGuard. *)

StartAttempt(t) ==
    /\ t \in Callers /\ At(t, "idle")
    /\ Goto(t, IF OtherNodes THEN "av_alive" ELSE "sent")
    /\ UNCHANGED node

(* A response that is not an outlier: complete, record_success. *)
SuccessSeen(t) == At(t, "sent") /\ Goto(t, "rs_alive") /\ UNCHANGED node

(* 502, 503, 504 or grpc-status 14: complete, record_failure. *)
OutlierSeen(t) == At(t, "sent") /\ Goto(t, "rf_add") /\ UNCHANGED node

(* Timeout or upstream transport error: complete, mark_dead. *)
HardFailure(t) == At(t, "sent") /\ Goto(t, "md_alive") /\ UNCHANGED node

(* Mutant: no Drop for ProbeGuard. *)
AbortKeepsSlot(t) == At(t, "sent") /\ Leave(t) /\ UNCHANGED node

(* The attempt ends without a verdict on the node: the client disconnected and
   the task was dropped at its await, its body failed, or the upstream URI
   could not be built.  The guard is dropped uncompleted. *)
Abort(t) ==
    /\ At(t, "sent")
    /\ IF is_probe[t] THEN Goto(t, "gd_probe") ELSE Leave(t)
    /\ UNCHANGED node

(* The node's active health checker, one round of its loop: the ticker fires
   and the check is awaited.  Only the head of the response has a timeout: its
   body, and the messages of the reflection stream, may never come. *)
HealthCheck(t) ==
    /\ t \in Checkers /\ At(t, "idle")
    /\ Goto(t, "hc_wait")
    /\ UNCHANGED node

(* The verdict is healthy, unhealthy (bad status, score 0, network error,
   timeout), or, for a gRPC node, a failed reflection. *)
CheckHealthy(t)   == At(t, "hc_wait") /\ Goto(t, "hc_ok") /\ UNCHANGED node
CheckUnhealthy(t) == At(t, "hc_wait") /\ Goto(t, "hc_bad") /\ UNCHANGED node
CheckNoReflection(t) ==
    At(t, "hc_wait") /\ Goto(t, "md_alive") /\ UNCHANGED node

HcOk(t) ==
    /\ At(t, "hc_ok")
    /\ IF is_alive THEN Leave(t) ELSE Goto(t, "ma_count")
    /\ UNCHANGED node

HcBad(t) ==
    /\ At(t, "hc_bad")
    /\ Goto(t, IF is_alive THEN "md_alive" ELSE "hc_time")
    /\ UNCHANGED node

(* Mutant: a failed check of a dead node leaves the timestamp alone. *)
HcTimeSkipped(t) == At(t, "hc_time") /\ Leave(t) /\ UNCHANGED node

HcTime(t) ==
    /\ At(t, "hc_time")
    /\ failure_age' = 0
    /\ Leave(t)
    /\ UNCHANGED <<is_alive, circuit_state, half_open_probe_in_flight,
                   consecutive_failures>>

(* POST to the admin endpoint with action=mark_dead or action=mark_alive. *)
AdminAction(t) ==
    /\ t \in Admins /\ At(t, "idle")
    /\ Goto(t, "md_alive") \/ Goto(t, "ma_count")
    /\ UNCHANGED node

-----------------------------------------------------------------------------
IsAvailable(t)       == AvAlive(t) \/ AvProbe(t) \/ AvTime(t)
TryEnter(t)          == TeAlive(t) \/ TeTime(t) \/ TeCas(t) \/ TeStore(t)
MarkDeadStep(t)      == MdAlive(t) \/ MdState(t) \/ MdProbe(t) \/ MdTime(t)
MarkAliveStep(t)     == MaCount(t) \/ MaProbe(t) \/ MaState(t) \/ MaAlive(t)
                        \/ MaTime(t)
RecordSuccessStep(t) == RsAlive(t) \/ RsCount(t)
RecordFailureStep(t) == RfAdd(t) \/ RfSwap(t) \/ RfState(t)
DropGuard(t)         == GdProbe(t) \/ GdState(t)
Verdict(t)           == HcOk(t) \/ HcBad(t) \/ HcTime(t)

(* How an await ends: that of a request, and that of a health check. *)
Response(t)  == SuccessSeen(t) \/ OutlierSeen(t) \/ HardFailure(t) \/ Abort(t)
CheckEnds(t) == CheckHealthy(t) \/ CheckUnhealthy(t) \/ CheckNoReflection(t)

(* The steps of a task between its awaits. *)
Continue(t) ==
    \/ IsAvailable(t) \/ TryEnter(t)
    \/ MarkDeadStep(t) \/ MarkAliveStep(t) \/ RecordSuccessStep(t) \/ RecordFailureStep(t)
    \/ DropGuard(t) \/ Verdict(t)

CircuitNext ==
    \/ Tick
    \/ \E t \in Tasks :
          \/ Continue(t) \/ Response(t) \/ StartAttempt(t)
          \/ HealthCheck(t) \/ CheckEnds(t) \/ AdminAction(t)

CircuitSpec == CircuitInit /\ [][CircuitNext]_circuit_vars

(* Fairness.  The health checker's ticker fires again and again, and a task runs
   on between its awaits.  No await has to end, and nobody has to send a request
   or an admin command. *)
Fairness ==
    \A t \in Checkers : WF_circuit_vars(Continue(t)) /\ WF_circuit_vars(HealthCheck(t))

CircuitFairSpec == CircuitSpec /\ Fairness

-----------------------------------------------------------------------------
(* Properties that hold under every interleaving. *)

(* The task is about to release the probe slot. *)
ReleasesSlot(t) ==
    \/ pc[t] \in {"te_store", "ma_count", "ma_probe", "rf_add", "rf_swap",
                  "md_alive", "md_state", "md_probe", "gd_probe"}
    \/ is_probe[t] /\ pc[t] \in {"sent", "rs_alive"}

(* The task is about to take the circuit out of HalfOpen. *)
LeavesHalfOpen(t) ==
    \/ pc[t] \in {"ma_count", "ma_probe", "ma_state",
                  "rf_add", "rf_swap", "rf_state",
                  "md_alive", "md_state", "gd_probe", "gd_state"}
    \/ is_probe[t] /\ pc[t] \in {"sent", "rs_alive"}

(* While the node is dead, a taken probe slot has a task that will release it:
   no interleaving of probes, stale responses, dropped guards, health checks
   and admin actions leaks half_open_probe_in_flight, which would keep
   is_available false for ever. *)
ProbeSlotHeld ==
    half_open_probe_in_flight /\ ~is_alive => \E t \in Tasks : ReleasesSlot(t)

(* While the node is dead, HalfOpen has a task that will end it: the promise of
   circuit_breaker.rs that a dropped probe never wedges the node in HalfOpen. *)
HalfOpenHasProbe ==
    circuit_state = "HalfOpen" /\ ~is_alive => \E t \in Tasks : LeavesHalfOpen(t)

(* A dead node shows Closed only inside a mark_alive about to revive it or a
   mark_dead about to open it. *)
ClosedIsTransient ==
    circuit_state = "Closed" /\ ~is_alive
        => \E t \in Tasks : pc[t] \in {"ma_alive", "md_state"}

(* No call on the node is in progress; a health check may be awaited. *)
Quiescent == \A t \in Tasks : pc[t] \in {"idle", "hc_wait"}

(* Between calls a dead node is exactly Open with a free probe slot. *)
DeadNodeIsOpen ==
    Quiescent /\ ~is_alive
        => circuit_state = "Open" /\ ~half_open_probe_in_flight

(* What a property may ask of the checked node: none of its checks hangs; and
   from some time on it is found healthy. *)
ChecksEnd == \A t \in Checkers : []<>(pc[t] # "hc_wait")

Recovered ==
    <>[](\A t \in Checkers :
            pc[t] \in {"idle", "hc_wait", "hc_ok", "ma_count", "ma_probe",
                        "ma_state", "ma_alive", "ma_time"})

(* A health checker whose checks end brings the node back from wherever the
   interleaved stores of mark_dead and mark_alive leave it: a dead node without a
   failure timestamp, which is_available never lets pass, is revived or stamped,
   and a node that has recovered is revived whatever its timestamp, which every
   failed check has renewed.  No request and no admin has to take part, even
   those that hang. *)
NeverWedged ==
    ChecksEnd => /\ []<>(is_alive \/ failure_age # NoStamp)
                 /\ Recovered => []<>is_alive

-----------------------------------------------------------------------------
(* Promises of the documentation that the concurrent code breaks.  Each holds
   when one request at a time uses the node; no run lists them. *)

(* "Tripped / Quarantined: node is excluded from routing until
   `cooldown_seconds` elapses": between calls, a dead node has the timestamp
   that makes its cooldown end. *)
QuarantineEnds == Quiescent /\ ~is_alive => failure_age # NoStamp

(* "All other concurrent requests continue routing to healthy nodes until the
   single probe request proves the backend has recovered": while a probe holds
   the slot of a dead node and another node is healthy, no other request is
   dispatched to the node.  A request that loses the race for the slot is
   dispatched all the same. *)
OthersHeldBack ==
    [][\A t \in Tasks : /\ ~is_alive /\ half_open_probe_in_flight
                        /\ pc[t] # "sent" /\ pc'[t] = "sent"
                        => is_probe'[t]]_circuit_vars

(* "exactly 1 probe allowed": no two tasks hold a probe that is in flight. *)
SingleProbe ==
    \A t, u \in Tasks :
        is_probe[t] /\ is_probe[u] /\ At(t, "sent") /\ At(u, "sent") => t = u

(* "Whether the node is currently considered alive (`CircuitState::Closed`)":
   between calls, a live node's circuit is Closed. *)
AliveIsClosed == Quiescent /\ is_alive => circuit_state # "Open"

(* "the node can never become permanently wedged in `HalfOpen`": between calls
   no probe exists, so the circuit is not HalfOpen. *)
NotWedgedHalfOpen == Quiescent => circuit_state # "HalfOpen"
=============================================================================
