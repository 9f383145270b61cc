---------------------------- MODULE RelayTunnels ----------------------------
(***************************************************************************)
(* The tunnels of relay-server/src/main.rs: the SNI table shared by the    *)
(* control plane (run_control_plane, one task per registered gateway       *)
(* connection) and the data plane (run_data_plane, one task per public     *)
(* connection), and the driver loop between them, a hand-written future    *)
(* that must arrange its own wake-ups.                                     *)
(*                                                                         *)
(* A task sleeps until one of the wakers it registered fires.  rx_waker is *)
(* the one poll_recv leaves in the request channel when it is empty;       *)
(* io_waker stands for those yamux leaves in the socket and in the streams *)
(* opened so far when it has nothing more to do.  One poll of the driver   *)
(* is two steps, PollOutbound and PollInbound, since other threads may act *)
(* between the two calls into yamux.  yamux is external.                   *)
(*                                                                         *)
(* A connection slot is used again only when nobody refers to its last     *)
(* use, so a slot in the table is as good as a generation number.          *)
(***************************************************************************)
EXTENDS Naturals, Sequences, SequencesExt

CONSTANTS
    Conns,     \* control connections: gateways that hold a certificate
    Snis,      \* host names their certificates name
    Clients,   \* public connections
    NoConn, NoSni, NoClient,
    QueueCap   \* capacity of a tunnel's request channel (32)

ASSUME QueueAssumption == QueueCap \in Nat \ {0}
ASSUME NoneAssumption  ==
    NoConn \notin Conns /\ NoSni \notin Snis /\ NoClient \notin Clients

VARIABLES
    tunnels,    \* the session map
    pc, sni,    \* where a control connection's task is, and for which name
    queue,      \* its request channel
    pending,    \* pending_outbound
    woken,      \* the task is scheduled for a poll
    rx_waker, io_waker,
    down,       \* the gateway's socket failed or was closed
    cpc, csni,  \* where a public connection's task is, and its name
    via         \* the tunnel whose Control it cloned

tvars == <<tunnels, pc, sni>>
dvars == <<queue, pending, woken, rx_waker, io_waker, down>>
cvars == <<cpc, csni, via>>
vars  == <<tunnels, pc, sni, queue, pending, woken, rx_waker, io_waker, down,
           cpc, csni, via>>

PCs  == {"idle", "check", "insert", "driving", "inbound", "remove", "drop"}
CPCs == {"idle", "lookup", "send", "wait", "write", "copy"}

(* Types; the request channel never holds more than its capacity. *)
TypeOK ==
    /\ tunnels \in [Snis -> Conns \cup {NoConn}]
    /\ pc \in [Conns -> PCs]
    /\ sni \in [Conns -> Snis \cup {NoSni}]
    /\ queue \in [Conns -> Seq(Clients)]
    /\ pending \in [Conns -> Clients \cup {NoClient}]
    /\ woken \in [Conns -> BOOLEAN]
    /\ rx_waker \in [Conns -> BOOLEAN]
    /\ io_waker \in [Conns -> BOOLEAN]
    /\ down \in [Conns -> BOOLEAN]
    /\ cpc \in [Clients -> CPCs]
    /\ csni \in [Clients -> Snis \cup {NoSni}]
    /\ via \in [Clients -> Conns \cup {NoConn}]
    /\ \A c \in Conns : Len(queue[c]) <= QueueCap

Init ==
    /\ tunnels = [s \in Snis |-> NoConn]
    /\ pc = [c \in Conns |-> "idle"]
    /\ sni = [c \in Conns |-> NoSni]
    /\ queue = [c \in Conns |-> <<>>]
    /\ pending = [c \in Conns |-> NoClient]
    /\ woken = [c \in Conns |-> FALSE]
    /\ rx_waker = [c \in Conns |-> FALSE]
    /\ io_waker = [c \in Conns |-> FALSE]
    /\ down = [c \in Conns |-> FALSE]
    /\ cpc = [d \in Clients |-> "idle"]
    /\ csni = [d \in Clients |-> NoSni]
    /\ via = [d \in Clients |-> NoConn]

-----------------------------------------------------------------------------
At(c, l)   == pc[c] = l
Goto(c, l) == pc' = [pc EXCEPT ![c] = l]
Driven(c)  == pc[c] \in {"driving", "inbound"}

(* The receiver rx of a tunnel exists until the end of its task, hence past
   the removal of the route: what Sender::is_closed and send see. *)
RxOpen(c) == pc[c] \in {"driving", "inbound", "remove", "drop"}

(* The yamux connection can still carry data. *)
Carries(c) == Driven(c) /\ ~down[c]

CAt(d, l)   == cpc[d] = l
CGoto(d, l) == cpc' = [cpc EXCEPT ![d] = l]

(* The tasks of the public connections in D end. *)
Leave(D) ==
    /\ cpc'  = [d \in Clients |-> IF d \in D THEN "idle" ELSE cpc[d]]
    /\ csni' = [d \in Clients |-> IF d \in D THEN NoSni ELSE csni[d]]
    /\ via'  = [d \in Clients |-> IF d \in D THEN NoConn ELSE via[d]]

(* A stream handle of c was used or dropped by its owner. *)
WakeIo(c) ==
    /\ woken' = [woken EXCEPT ![c] = @ \/ io_waker[c]]
    /\ io_waker' = [io_waker EXCEPT ![c] = FALSE]

-----------------------------------------------------------------------------
(* The task of one control connection (run_control_plane). *)

(* mTLS handshake and REGISTER line accepted: s is a DNS name of the
   connection's certificate.  Every failure before this ends the task
   without a trace. *)
Register(c, s) ==
    /\ At(c, "idle")
    /\ \A d \in Clients : via[d] # c
    /\ Goto(c, "check")
    /\ sni' = [sni EXCEPT ![c] = s]
    /\ UNCHANGED <<tunnels, dvars, cvars>>

(* Overwrite protection: rejected while the name's route is open. *)
CheckExisting(c) ==
    LET existing == tunnels[sni[c]] IN
    /\ At(c, "check")
    /\ IF existing # NoConn /\ RxOpen(existing)
       THEN Goto(c, "idle") /\ sni' = [sni EXCEPT ![c] = NoSni]
       ELSE Goto(c, "insert") /\ UNCHANGED sni
    /\ UNCHANGED <<tunnels, dvars, cvars>>

(* The channel, the generation, the route; the driver's first poll is due. *)
Insert(c) ==
    /\ At(c, "insert")
    /\ tunnels' = [tunnels EXCEPT ![sni[c]] = c]
    /\ Goto(c, "driving")
    /\ woken' = [woken EXCEPT ![c] = TRUE]
    /\ UNCHANGED <<sni, queue, pending, rx_waker, io_waker, down, cvars>>

(* The request in hand, or the oldest one of the channel. *)
Requested(c) ==
    IF pending[c] # NoClient THEN pending[c]
    ELSE IF queue[c] # <<>> THEN Head(queue[c]) ELSE NoClient

(* poll_recv is called only without a request in hand; it takes one request,
   and leaves its waker only when the channel is empty. *)
PollRecv(c) ==
    /\ queue' = [queue EXCEPT ![c] =
                    IF pending[c] = NoClient /\ @ # <<>> THEN Tail(@) ELSE @]
    /\ rx_waker' = [rx_waker EXCEPT ![c] = @ \/ Requested(c) = NoClient]

BeginPoll(c) ==
    /\ At(c, "driving") /\ woken[c]
    /\ woken' = [woken EXCEPT ![c] = FALSE]
    /\ PollRecv(c)
    /\ UNCHANGED <<tunnels, sni, io_waker, down>>

(* Nothing is requested. *)
PollNoRequest(c) ==
    /\ BeginPoll(c) /\ Requested(c) = NoClient
    /\ Goto(c, "inbound")
    /\ UNCHANGED <<pending, cvars>>

(* poll_new_outbound opens a stream; the request is answered with it. *)
PollOpened(c) ==
    /\ BeginPoll(c) /\ Requested(c) # NoClient
    /\ pending' = [pending EXCEPT ![c] = NoClient]
    /\ CGoto(Requested(c), "write")
    /\ Goto(c, "inbound")
    /\ UNCHANGED <<csni, via>>

(* poll_new_outbound fails: the request is answered with the error, and the
   yamux connection is closed, which poll_next_inbound reports at once. *)
PollRefused(c) ==
    /\ BeginPoll(c) /\ Requested(c) # NoClient
    /\ pending' = [pending EXCEPT ![c] = NoClient]
    /\ Leave({Requested(c)})
    /\ Goto(c, "remove")

(* Too many unacknowledged streams: the request is kept. *)
PollBacklogged(c) ==
    /\ BeginPoll(c) /\ Requested(c) # NoClient
    /\ pending' = [pending EXCEPT ![c] = Requested(c)]
    /\ Goto(c, "inbound")
    /\ UNCHANGED cvars

(* poll_next_inbound has no stream: yamux has registered its wakers. *)
PollQuiet(c) ==
    /\ At(c, "inbound") /\ ~down[c]
    /\ io_waker' = [io_waker EXCEPT ![c] = TRUE]
    /\ Goto(c, "driving")
    /\ UNCHANGED <<tunnels, sni, queue, pending, woken, rx_waker, down, cvars>>

(* Mutant: the driver waits without having polled to Pending. *)
PollUnexpectedAsleep(c) ==
    /\ At(c, "inbound") /\ ~down[c]
    /\ Goto(c, "driving")
    /\ UNCHANGED <<tunnels, sni, dvars, cvars>>

(* Mutant: inbound streams are drained before the driver looks elsewhere. *)
PollUnexpectedDrains(c) ==
    /\ At(c, "inbound") /\ ~down[c]
    /\ woken' = [woken EXCEPT ![c] = ~@]
    /\ UNCHANGED <<tvars, queue, pending, rx_waker, io_waker, down, cvars>>

(* The gateway opened a stream: dropped, and the task wakes itself, since
   this poll_next_inbound registered nothing. *)
PollUnexpected(c) ==
    /\ At(c, "inbound") /\ ~down[c]
    /\ woken' = [woken EXCEPT ![c] = TRUE]
    /\ Goto(c, "driving")
    /\ UNCHANGED <<tunnels, sni, queue, pending, rx_waker, io_waker, down, cvars>>

(* Mutant: the task returns from the loop, past the removal of its route. *)
PollEndedReturns(c) ==
    /\ At(c, "inbound") /\ down[c]
    /\ Goto(c, "drop")
    /\ UNCHANGED <<tunnels, sni, dvars, cvars>>

(* poll_next_inbound reports an error or the end: the loop is left. *)
PollEnded(c) ==
    /\ At(c, "inbound") /\ down[c]
    /\ Goto(c, "remove")
    /\ UNCHANGED <<tunnels, sni, dvars, cvars>>

(* Mutant: the route is removed whatever generation it is of. *)
RemoveRouteAny(c) ==
    /\ At(c, "remove")
    /\ tunnels' = [tunnels EXCEPT ![sni[c]] = NoConn]
    /\ Goto(c, "drop")
    /\ UNCHANGED <<sni, dvars, cvars>>

(* remove_if: only a route of this generation. *)
RemoveRoute(c) ==
    /\ At(c, "remove")
    /\ tunnels' = [tunnels EXCEPT ![sni[c]] = IF @ = c THEN NoConn ELSE @]
    /\ Goto(c, "drop")
    /\ UNCHANGED <<sni, dvars, cvars>>

(* Who waits for an answer of c: in its channel, or in hand. *)
Waiting(c) == ToSet(queue[c]) \cup ({pending[c]} \ {NoClient})

(* End of the task: rx, pending_outbound and the yamux connection are
   dropped; every oneshot left resolves to an error. *)
DropRx(c) ==
    /\ At(c, "drop")
    /\ Goto(c, "idle")
    /\ sni' = [sni EXCEPT ![c] = NoSni]
    /\ queue' = [queue EXCEPT ![c] = <<>>]
    /\ pending' = [pending EXCEPT ![c] = NoClient]
    /\ woken' = [woken EXCEPT ![c] = FALSE]
    /\ rx_waker' = [rx_waker EXCEPT ![c] = FALSE]
    /\ io_waker' = [io_waker EXCEPT ![c] = FALSE]
    /\ down' = [down EXCEPT ![c] = FALSE]
    /\ Leave(Waiting(c))
    /\ UNCHANGED tunnels

-----------------------------------------------------------------------------
(* The gateway's side of the socket. *)

(* Bytes arrive: data, window updates, acknowledgements. *)
IoEvent(c) ==
    /\ Driven(c) /\ io_waker[c]
    /\ WakeIo(c)
    /\ UNCHANGED <<tvars, queue, pending, rx_waker, down, cvars>>

(* The socket is closed or fails; TCP keepalive notices a silent peer. *)
LinkFails(c) ==
    /\ Carries(c)
    /\ down' = [down EXCEPT ![c] = TRUE]
    /\ WakeIo(c)
    /\ UNCHANGED <<tvars, queue, pending, rx_waker, cvars>>

-----------------------------------------------------------------------------
(* The task of one public connection (run_data_plane). *)

(* ClientHello read, SNI extracted and valid. *)
Arrive(d, s) ==
    /\ CAt(d, "idle")
    /\ CGoto(d, "lookup")
    /\ csni' = [csni EXCEPT ![d] = s]
    /\ UNCHANGED <<tvars, dvars, via>>

Lookup(d) ==
    LET c == tunnels[csni[d]] IN
    /\ CAt(d, "lookup")
    /\ \/ /\ c = NoConn
          /\ Leave({d})
       \/ /\ c # NoConn
          /\ via' = [via EXCEPT ![d] = c]
          /\ CGoto(d, "send")
          /\ UNCHANGED csni
    /\ UNCHANGED <<tvars, dvars>>

(* open_stream: the request is sent once the channel has room, and wakes the
   driver if poll_recv left its waker. *)
Send(d) ==
    LET c == via[d] IN
    /\ CAt(d, "send") /\ RxOpen(c)
    /\ Len(queue[c]) < QueueCap
    /\ queue' = [queue EXCEPT ![c] = Append(@, d)]
    /\ CGoto(d, "wait")
    /\ woken' = [woken EXCEPT ![c] = @ \/ rx_waker[c]]
    /\ rx_waker' = [rx_waker EXCEPT ![c] = FALSE]
    /\ UNCHANGED <<tvars, pending, io_waker, down, csni, via>>

(* open_stream on a closed channel. *)
SendClosed(d) ==
    /\ CAt(d, "send") /\ ~RxOpen(via[d])
    /\ Leave({d})
    /\ UNCHANGED <<tvars, dvars>>

(* PROXY header and ClientHello go down the stream, then the copy starts. *)
Write(d) ==
    /\ CAt(d, "write") /\ Carries(via[d])
    /\ CGoto(d, "copy")
    /\ WakeIo(via[d])
    /\ UNCHANGED <<tvars, queue, pending, rx_waker, down, csni, via>>

(* The write fails, or the copy ends (closed by a side, an I/O error, the
   idle timeout): the stream is dropped. *)
Finish(d) ==
    /\ \/ CAt(d, "write") /\ ~Carries(via[d])
       \/ CAt(d, "copy")
    /\ Leave({d})
    /\ WakeIo(via[d])
    /\ UNCHANGED <<tvars, queue, pending, rx_waker, down>>

-----------------------------------------------------------------------------
PollOutbound(c) ==
    PollNoRequest(c) \/ PollOpened(c) \/ PollRefused(c) \/ PollBacklogged(c)

PollInbound(c) == PollQuiet(c) \/ PollUnexpected(c) \/ PollEnded(c)

Control(c) ==
    \/ CheckExisting(c) \/ Insert(c) \/ PollOutbound(c) \/ PollInbound(c)
    \/ RemoveRoute(c) \/ DropRx(c)

Data(d) == Lookup(d) \/ Send(d) \/ SendClosed(d) \/ Write(d)

Next ==
    \/ \E c \in Conns :
          \/ \E s \in Snis : Register(c, s)
          \/ Control(c) \/ IoEvent(c) \/ LinkFails(c)
    \/ \E d \in Clients :
          \/ \E s \in Snis : Arrive(d, s)
          \/ Data(d) \/ Finish(d)

Spec == Init /\ [][Next]_vars

(* Tasks that are scheduled run, and a permit of the channel is handed out in
   order.  The gateway is external: while it is connected it acknowledges the
   streams it is sent (none is backlogged for ever) and is not silent for
   ever. *)
FairSpec ==
    /\ Spec
    /\ \A c \in Conns :
          /\ WF_vars(Control(c))
          /\ SF_vars(PollOpened(c) \/ PollRefused(c))
          /\ WF_vars(IoEvent(c))
    /\ \A d \in Clients :
          /\ SF_vars(Data(d))
          /\ WF_vars(Finish(d) /\ cpc[d] = "write")

-----------------------------------------------------------------------------
(* Properties *)

(* Every route leads to a tunnel of that very name whose request channel is
   still open, at every moment of every registration and tear-down: the data
   plane never finds a dead Control in the table. *)
RoutesAreLive ==
    \A s \in Snis : tunnels[s] # NoConn =>
        /\ sni[tunnels[s]] = s
        /\ pc[tunnels[s]] \in {"driving", "inbound", "remove"}

(* A driver that sleeps has left its waker in yamux, whatever the order of
   requests, streams and failures: a socket event always reaches it, so that
   a failed link is noticed and no stream stalls. *)
WakerLeft ==
    \A c \in Conns : pc[c] = "driving" /\ ~woken[c] => io_waker[c]

(* "an old dying connection might delete the newly established connection's
   map entry": a route disappears only by the end of its own tunnel. *)
NewTunnelSurvives ==
    [][\A s \in Snis :
          tunnels[s] # NoConn /\ tunnels'[s] = NoConn
              => pc[tunnels[s]] = "remove"]_vars

(* Every public connection that asked a tunnel for a stream gets one or an
   error, although open_stream has no timeout. *)
EveryOpenAnswered ==
    \A d \in Clients :
        cpc[d] \in {"send", "wait"} ~> cpc[d] \notin {"send", "wait"}

-----------------------------------------------------------------------------
(* Promises of the documentation that the code breaks; no run lists them. *)

(* "Prevent hijacking/blackholing of an active healthy tunnel": a tunnel that
   is up stays the route of its name. *)
HealthyStaysRouted ==
    \A c \in Conns : Carries(c) => tunnels[sni[c]] = c

(* "It constantly checks for new outbound stream requests": the driver never
   sleeps on a channel with a request it could take. *)
RequestsAreTaken ==
    \A c \in Conns :
        pc[c] = "driving" /\ ~woken[c] /\ pending[c] = NoClient
            => queue[c] = <<>>
=============================================================================
