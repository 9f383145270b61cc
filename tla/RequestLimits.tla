--------------------------- MODULE RequestLimits ---------------------------
(***************************************************************************)
(* The two layers of server/src/middleware/limit.rs on one route, in the   *)
(* order the sample configurations enable them: MaxPayload outside,        *)
(* ConcurrencyLimit inside.  A request passes the Content-Length check,    *)
(* takes or waits for a permit, is processed by the inner service, which   *)
(* reads the request body through LimitedBody, and keeps the permit in a   *)
(* PermittedBody until the response has been streamed.                     *)
(*                                                                         *)
(* tokio's Semaphore is external: it queues waiters first in first out and *)
(* hands a released permit to the first of them.                           *)
(***************************************************************************)
EXTENDS Integers, Sequences, FiniteSets, SequencesExt

CONSTANTS
    Requests,    \* request tasks
    Modes,       \* the configurations considered, a subset of QueueModes
    MaxPermits,  \* max_concurrent_requests
    MaxBytes,    \* max_bytes of MaxPayload
    HeaderLen,   \* length of a gRPC message prefix (5 in the code)
    Bodies       \* request bodies: [grpc, declared, messages]

(* load_shed; else queue_timeout_ms is set; else neither *)
QueueModes == {"shed", "timeout", "queue"}
NoLength   == -1

ASSUME ModesAssumption == Modes \subseteq QueueModes /\ Modes # {}
ASSUME BoundsAssumption ==
    /\ MaxPermits \in Nat \ {0} /\ HeaderLen \in Nat \ {0}
    /\ MaxBytes \in Nat
ASSUME BodiesAssumption ==
    Bodies \subseteq [grpc : BOOLEAN, declared : Nat \cup {NoLength}, messages : Seq(Nat)]

VARIABLES
    mode,     \* how the layer is configured; no step changes it
    permits,  \* permits available in the semaphore
    queue,    \* tasks waiting in it
    req       \* the local state of each request task

vars == <<mode, permits, queue, req>>

-----------------------------------------------------------------------------
(* The bytes of a body.  Every byte of a gRPC prefix stands for the length the
   prefix encodes; a byte of content has a value that no permitted length has,
   so that reading content as a prefix is noticed. *)

Junk == MaxBytes + 1
Bytes(value, n) == [i \in 1..n |-> value]

Stream(body) ==
    LET message(m) == (IF body.grpc THEN Bytes(m, HeaderLen) ELSE << >>)
                      \o Bytes(Junk, m)
    IN  FlattenSeq([i \in DOMAIN body.messages |-> message(body.messages[i])])

-----------------------------------------------------------------------------
(* LimitedBody: GrpcFramingState and current_bytes. *)

Header(pos, last) == [in |-> "header", pos |-> pos, last |-> last]
Payload(remaining) == [in |-> "payload", remaining |-> remaining]
Least(a, b) == IF a < b THEN a ELSE b

(* Mutant: the limit grows by the length of the prefix. *)
TooLargeWithPrefix(msg_len) == msg_len > MaxBytes + HeaderLen

TooLarge(msg_len) == msg_len > MaxBytes

(* One round of `while offset < data.len()`. *)
LoopBody(data, c) ==
    IF c.state.in = "header"
    THEN LET copied == Least(HeaderLen - c.state.pos, Len(data) - c.offset)
             pos    == c.state.pos + copied
             last   == data[c.offset + copied]
         IN  IF pos < HeaderLen
             THEN [c EXCEPT !.offset = @ + copied, !.state = Header(pos, last)]
             ELSE [offset |-> c.offset + copied, state |-> Payload(last),
                   refused |-> TooLarge(last)]
    ELSE LET consumed == Least(Len(data) - c.offset, c.state.remaining)
             left     == c.state.remaining - consumed
         IN  [c EXCEPT !.offset = @ + consumed,
                       !.state = IF left = 0 THEN Header(0, 0) ELSE Payload(left)]

(* The loop: every other round at least moves on by a byte. *)
Scan(data, state) ==
    LET round[i \in 0..(2 * Len(data))] ==
            IF i = 0 THEN [offset |-> 0, state |-> state, refused |-> FALSE]
            ELSE LET c == round[i - 1]
                 IN  IF c.refused \/ c.offset >= Len(data) THEN c
                     ELSE LoopBody(data, c)
    IN  round[2 * Len(data)]

-----------------------------------------------------------------------------
NoBody == [grpc |-> FALSE, declared |-> NoLength, messages |-> << >>]

NoRequest == [pc |-> "idle", body |-> NoBody, read |-> 0,
              state |-> Header(0, 0), passed |-> 0, cut |-> FALSE,
              permit |-> FALSE, reply |-> "none"]

Done(reply) == [NoRequest EXCEPT !.pc = "done", !.reply = reply]

Init ==
    /\ mode \in Modes
    /\ permits = MaxPermits
    /\ queue = << >>
    /\ req = [r \in Requests |-> NoRequest]

(* Semaphore::add_permits: the first waiter is served, if there is one. *)
Return(new) ==
    IF queue = << >>
    THEN permits' = permits + 1 /\ queue' = queue /\ req' = new
    ELSE /\ permits' = permits /\ queue' = Tail(queue)
         /\ req' = [new EXCEPT ![Head(queue)].pc = "granted",
                               ![Head(queue)].permit = TRUE]

(* Acquire::drop: a task that stops waiting is taken out of the queue. *)
Leave(r) == \E i \in DOMAIN queue : queue[i] = r /\ queue' = RemoveAt(queue, i)

(* The task ends with what it holds: the OwnedSemaphorePermit is dropped. *)
Finish(r, reply) ==
    LET new == [req EXCEPT ![r] = Done(reply)]
    IN  IF req[r].permit THEN Return(new)
        ELSE req' = new /\ UNCHANGED <<permits, queue>>

-----------------------------------------------------------------------------
(* MaxPayloadService::call, then ConcurrencyLimitService::call. *)

Acquired(r, body) ==
    /\ permits > 0 /\ queue = << >>
    /\ permits' = permits - 1
    /\ req' = [req EXCEPT ![r] = [NoRequest EXCEPT !.pc = "process",
                                    !.body = body, !.permit = TRUE]]
    /\ UNCHANGED queue

Shed(r) ==
    /\ mode = "shed" /\ permits = 0
    /\ req' = [req EXCEPT ![r] = Done("503")]
    /\ UNCHANGED <<permits, queue>>

Enqueue(r, body) ==
    /\ mode # "shed" /\ (permits = 0 \/ queue # << >>)
    /\ queue' = Append(queue, r)
    /\ req' = [req EXCEPT ![r] = [NoRequest EXCEPT !.pc = "wait", !.body = body]]
    /\ UNCHANGED permits

HeaderReject(r, body) ==
    /\ body.declared > MaxBytes
    /\ req' = [req EXCEPT ![r] = Done("413")]
    /\ UNCHANGED <<permits, queue>>

Arrive(r) ==
    /\ req[r].pc \in {"idle", "done"}
    /\ \E body \in Bodies :
          \/ HeaderReject(r, body)
          \/ /\ body.declared <= MaxBytes
             /\ Acquired(r, body) \/ Shed(r) \/ Enqueue(r, body)
    /\ UNCHANGED mode

(* The acquire future is polled after the permit was handed to it. *)
PollGranted(r) ==
    /\ req[r].pc = "granted"
    /\ req' = [req EXCEPT ![r].pc = "process"]
    /\ UNCHANGED <<mode, permits, queue>>

(* tokio::time::timeout polls the acquisition first: a granted permit wins. *)
QueueTimeout(r) ==
    /\ mode = "timeout" /\ req[r].pc = "wait"
    /\ Leave(r)
    /\ req' = [req EXCEPT ![r] = Done("503")]
    /\ UNCHANGED <<mode, permits>>

-----------------------------------------------------------------------------
(* LimitedBody::poll_frame on a frame of n bytes, called by whoever reads the
   request body: the inner service, or the upstream connection after it has
   answered. *)
ReadFrame(r) ==
    LET bytes == Stream(req[r].body)
    IN  /\ req[r].pc \in {"process", "stream"} /\ ~req[r].cut
        /\ \E n \in 1..(Len(bytes) - req[r].read) :
              LET data    == SubSeq(bytes, req[r].read + 1, req[r].read + n)
                  result  == Scan(data, req[r].state)
                  refused == IF req[r].body.grpc THEN result.refused
                             ELSE req[r].read + n > MaxBytes
              IN  req' = [req EXCEPT ![r].read = @ + n,
                            ![r].state = IF req[r].body.grpc THEN result.state ELSE @,
                            ![r].passed = IF refused THEN @ ELSE @ + n,
                            ![r].cut = refused]
        /\ UNCHANGED <<mode, permits, queue>>

(* Mutant: the permit is returned with the response head. *)
RespondReturns(r) ==
    /\ req[r].pc = "process"
    /\ Return([req EXCEPT ![r].pc = "stream", ![r].permit = FALSE,
                          ![r].reply = IF req[r].cut THEN "413" ELSE "ok"])
    /\ UNCHANGED mode

(* ConcurrencyLimitFuture::poll: the inner service answers, with 413 if the
   body failed it, and the permit moves into the PermittedBody. *)
Respond(r) ==
    /\ req[r].pc = "process"
    /\ req' = [req EXCEPT ![r].pc = "stream",
                          ![r].reply = IF req[r].cut THEN "413" ELSE "ok"]
    /\ UNCHANGED <<mode, permits, queue>>

(* The inner service fails: MaxPayloadFuture::poll makes PayloadTooLarge a 413
   and passes any other error on. *)
InnerError(r) ==
    /\ req[r].pc = "process"
    /\ Finish(r, IF req[r].cut THEN "413" ELSE "error")
    /\ UNCHANGED mode

(* PermittedBody::poll_frame ends or fails: permit.take(). *)
BodyEnd(r) ==
    /\ req[r].pc = "stream"
    /\ Finish(r, req[r].reply)
    /\ UNCHANGED mode

(* The client is gone: the future or the response body is dropped, a waiter
   leaves the queue, a permit that was handed over but not yet seen goes on to
   the next one. *)
Disconnect(r) ==
    /\ req[r].pc \in {"wait", "granted", "process", "stream"}
    /\ IF req[r].pc = "wait"
       THEN /\ Leave(r)
            /\ req' = [req EXCEPT ![r] = Done("gone")]
            /\ UNCHANGED permits
       ELSE Finish(r, "gone")
    /\ UNCHANGED mode

Next ==
    \E r \in Requests :
        \/ Arrive(r) \/ PollGranted(r) \/ QueueTimeout(r) \/ ReadFrame(r)
        \/ Respond(r) \/ InnerError(r) \/ BodyEnd(r) \/ Disconnect(r)

Spec == Init /\ [][Next]_vars

-----------------------------------------------------------------------------
(* Properties *)

(* "Retains the concurrency permit across the entire lifecycle of response
   body streaming": the permits that are gone are those of the requests being
   processed or streamed, or about to be, so that none is lost or made up on
   any way out, and none lies idle while a request waits. *)
PermitsExact ==
    /\ permits + Cardinality({r \in Requests :
            req[r].pc \in {"granted", "process", "stream"}}) = MaxPermits
    /\ queue # << >> => permits = 0
    /\ ToSet(queue) = {r \in Requests : req[r].pc = "wait"}

(* Where the prefix of message i is complete. *)
PrefixEnd(body, i) ==
    Len(Stream([body EXCEPT !.messages = SubSeq(@, 1, i - 1)])) + HeaderLen

Oversized(body) == {i \in DOMAIN body.messages : body.messages[i] > MaxBytes}

(* However the body is cut into frames, nothing of a message beyond max_bytes
   is passed on, nor more than max_bytes of another body. *)
OversizeStopped ==
    \A r \in Requests :
        LET body == req[r].body IN
        IF body.grpc
        THEN \A i \in Oversized(body) : req[r].passed < PrefixEnd(body, i)
        ELSE req[r].passed <= MaxBytes

(* However the body is cut into frames, a stream of messages within max_bytes
   is never interrupted, however long: the framing stays in step with it. *)
NoFalseReject ==
    \A r \in Requests :
        LET body == req[r].body IN
        req[r].cut => IF body.grpc THEN Oversized(body) # {}
                      ELSE Len(Stream(body)) > MaxBytes

(* The limit of LimitedBody is exact in both directions: it stops all that is
   too large and nothing that is not, however the frames fall. *)
FramingExact == OversizeStopped /\ NoFalseReject
=============================================================================
