--------------------------- MODULE GatewayTunnel ----------------------------
(***************************************************************************)
(* Connections from the public side of the relay to a gateway, end to end: *)
(* the relay's data plane (relay-server/src/main.rs) takes a permit of its *)
(* tracker, opens a stream on the tunnel the gateway registered and writes *)
(* the client's address (common/src/proxy_protocol.rs) before the          *)
(* ClientHello; run_tunnel (server/src/server.rs) takes a permit without   *)
(* an address, reads the address from the stream and binds it.             *)
(* start_single_server keeps the tunnel up: it runs run_tunnel again and   *)
(* again, after a pause, until it is cancelled.                            *)
(*                                                                         *)
(* A server without a tunnel accepts from its own sockets instead.  The    *)
(* connection trackers of both sides are the modules ConnectionTracker and *)
(* RelayLimits; here their steps are tied to the streams.                  *)
(*                                                                         *)
(* Pauses and timeouts are steps that may be taken at any time: of the     *)
(* back-off of 1 s to 64 s only that it ends is kept, and with it          *)
(* retry_count, which only sets its length.                                *)
(***************************************************************************)
EXTENDS ConnectionTracker

CONSTANTS
    Tunnelled,     \* connections made to the relay, if the server has a tunnel
    Public,        \* addresses they come from
    V6, Mapped,    \* IPv6 addresses; the IPv6 form of an IPv4 address
    RelayMax, RelayMaxPerIp

ASSUME PublicAssumption == Tunnelled \subseteq Conns /\ Public \subseteq Addrs \ Unspecified
ASSUME MappedAssumption ==
    /\ V6 \subseteq Addrs
    /\ Mapped \in [Addrs \ (V6 \cup Unspecified) -> V6]
    /\ \A a \in DOMAIN Mapped : Canonical[Mapped[a]] = Canonical[a]
ASSUME RelayCapsAssumption ==
    RelayMax \in Nat \ {0} /\ RelayMaxPerIp \in Nat \ {0}

VARIABLES
    conf,       \* the server has a tunnel; it asks for, the relay grants PROXY v2;
                \* the far end also writes headers without an address
    cancelled,  \* the server's cancel_token
    net,        \* the relay can be reached
    loop,       \* where start_single_server's tunnel loop is
    session,    \* what became of the connection run_tunnel made
    route,      \* whose connection the relay's route for the SNI belongs to
    r_global, r_counts, r_pc, r_ip,  \* the relay's tracker
    client,     \* the address a public client connects from
    pipe,       \* a client's yamux stream
    stage,      \* of the gateway's task for the stream
    peer        \* the address the gateway serves the stream for

relay_vars  == <<r_global, r_counts, r_pc, r_ip>>
tunnel_vars == <<cancelled, net, loop, session, route>>
stream_vars == <<client, pipe, stage, peer>>
all_vars    == <<vars, conf, relay_vars, tunnel_vars, stream_vars>>

relay == INSTANCE RelayLimits
    WITH MaxGlobal <- RelayMax, MaxPerIp <- RelayMaxPerIp,
         global_count <- r_global, ip_counts <- r_counts,
         pc <- r_pc, ip <- r_ip

Loops    == {"start", "up", "sleep", "ended"}
Sessions == {"none", "new", "routed", "refused", "lost"}
Pipes    == {"none", "open", "addr", "sent", "fin", "reset", "lost"}
Stages   == {"none", "peer", "tls", "serving", "drop"}

TunnelInit ==
    /\ Init /\ relay!Init
    /\ conf \in [tunnel : BOOLEAN, asks : BOOLEAN, grants : BOOLEAN, local : BOOLEAN]
    /\ (conf.asks => conf.tunnel) /\ (conf.grants => conf.asks)
    /\ (conf.local => conf.grants)
    /\ cancelled = FALSE /\ net = TRUE
    /\ loop = IF conf.tunnel THEN "start" ELSE "ended"
    /\ session = "none" /\ route = "none"
    /\ client = [c \in Conns |-> NoAddr]
    /\ pipe = [c \in Conns |-> "none"]
    /\ stage = [c \in Conns |-> "none"]
    /\ peer = [c \in Conns |-> NoAddr]

RelayHolds(c)   == r_pc[c] = "open"
GatewayHolds(c) == stage[c] # "none"

(* A client is forgotten with its connection and its stream. *)
ForgetGone ==
    client' = [c \in Conns |->
                 IF pipe'[c] = "none" /\ r_pc'[c] \notin {"ip", "open"}
                 THEN NoAddr ELSE client[c]]

(* REGISTER ... PROXY_V2, and enable_proxy_protocol of the relay. *)
SupportsProxyV2 == conf.asks /\ conf.grants

-----------------------------------------------------------------------------
(* The tunnel loop of the gateway. *)

(* The streams die with the connection they run on; the side that still holds
   one learns of it later. *)
Dead(c) == IF RelayHolds(c) \/ GatewayHolds(c) THEN "lost" ELSE "none"
StreamsDie ==
    pipe' = [c \in Conns |-> IF pipe[c] = "none" THEN "none" ELSE Dead(c)]

(* run_tunnel up to the REGISTER line, which nobody answers; an attempt that
   fails or times out goes on to the pause.  The token is not looked at. *)
Connect ==
    /\ loop = "start"
    /\ \/ cancelled /\ loop' = "ended" /\ UNCHANGED session
       \/ ~cancelled /\ net /\ loop' = "up" /\ session' = "new"
       \/ ~cancelled /\ ~net /\ loop' = "sleep" /\ UNCHANGED session
    /\ UNCHANGED <<vars, conf, relay_vars, stream_vars, cancelled, net, route>>

(* Mutant: the accept loop waits for streams only. *)
LeaveIgnoresToken ==
    /\ loop = "up"
    /\ session \in {"refused", "lost"}
    /\ loop' = "sleep" /\ session' = "none"
    /\ route' = IF route = "this" THEN "old" ELSE route
    /\ StreamsDie /\ UNCHANGED relay_vars /\ ForgetGone
    /\ UNCHANGED <<vars, conf, cancelled, net, stage, peer>>

(* The accept loop of run_tunnel is left when the connection ends and when the
   server is cancelled; the connection is dropped, and its streams with it. *)
Leave ==
    /\ loop = "up"
    /\ cancelled \/ session \in {"refused", "lost"}
    /\ \A c \in Conns : pc[c] \notin {"ip", "undo"}
    /\ loop' = "sleep" /\ session' = "none"
    /\ route' = IF route = "this" THEN "old" ELSE route
    /\ StreamsDie /\ UNCHANGED relay_vars /\ ForgetGone
    /\ UNCHANGED <<vars, conf, cancelled, net, stage, peer>>

(* Mutant: the loop gives up on a tunnel that was refused. *)
PauseOnce ==
    /\ loop = "sleep"
    /\ loop' = IF cancelled \/ route = "old" THEN "ended" ELSE "start"
    /\ UNCHANGED <<vars, conf, relay_vars, stream_vars, cancelled, net,
                   session, route>>

(* The pause, cut short by the token. *)
Pause ==
    /\ loop = "sleep"
    /\ loop' = IF cancelled THEN "ended" ELSE "start"
    /\ UNCHANGED <<vars, conf, relay_vars, stream_vars, cancelled, net,
                   session, route>>

Cancel ==
    /\ ~cancelled /\ cancelled' = TRUE
    /\ UNCHANGED <<vars, conf, relay_vars, stream_vars, net, loop, session,
                   route>>

-----------------------------------------------------------------------------
(* The relay's control plane and the network between the two. *)

(* The relay reads REGISTER: a second tunnel for an SNI is closed as long as
   the first looks alive. *)
Register ==
    /\ session = "new"
    /\ session' = IF route = "none" THEN "routed" ELSE "refused"
    /\ route' = IF route = "none" THEN "this" ELSE route
    /\ UNCHANGED <<vars, conf, relay_vars, stream_vars, cancelled, net, loop>>

(* The relay notices (an error, a FIN or a missing keep-alive answer) that the
   tunnel is gone, and closes what runs on it. *)
RelayNotices ==
    /\ route = "old" \/ (route = "this" /\ session = "lost")
    /\ route' = "none"
    /\ pipe' = [c \in Conns |-> IF pipe[c] = "lost" /\ RelayHolds(c)
                                THEN "reset" ELSE pipe[c]]
    /\ UNCHANGED <<vars, conf, relay_vars, cancelled, net, loop, session,
                   client, stage, peer>>

NetFails ==
    /\ conf.tunnel /\ net /\ net' = FALSE
    /\ session' = IF session = "none" THEN "none" ELSE "lost"
    /\ StreamsDie /\ UNCHANGED relay_vars /\ ForgetGone
    /\ UNCHANGED <<vars, conf, cancelled, loop, route, stage, peer>>

NetHeals ==
    /\ ~net /\ net' = TRUE
    /\ UNCHANGED <<vars, conf, relay_vars, stream_vars, cancelled, loop,
                   session, route>>

-----------------------------------------------------------------------------
(* The relay's data plane, for one public connection. *)

Arrive(c, a) ==
    /\ conf.tunnel /\ pc[c] = "closed" /\ pipe[c] = "none"
    /\ relay!Acquire(c, Canonical[a])
    /\ client' = [client EXCEPT ![c] = a]
    /\ UNCHANGED <<vars, conf, tunnel_vars, pipe, stage, peer>>

RelayAcquires(c) ==
    /\ relay!AcquireIp(c) \/ relay!Undo(c)
    /\ UNCHANGED pipe /\ ForgetGone
    /\ UNCHANGED <<vars, conf, tunnel_vars, stage, peer>>

(* The ClientHello names the SNI of a route and open_stream succeeds, even on
   a tunnel that is dead already. *)
OpenStream(c) ==
    /\ RelayHolds(c) /\ pipe[c] = "none" /\ route # "none"
    /\ pipe' = [pipe EXCEPT ![c] = IF route = "this" /\ session = "routed"
                                   THEN "open" ELSE "lost"]
    /\ UNCHANGED <<vars, conf, relay_vars, tunnel_vars, client, stage, peer>>

(* The PROXY header, if the route supports it, then the ClientHello. *)
WriteStream(c) ==
    /\ RelayHolds(c) /\ pipe[c] \in {"open", "addr"}
    /\ pipe' = [pipe EXCEPT ![c] = IF pipe[c] = "open" /\ SupportsProxyV2
                                   THEN "addr" ELSE "sent"]
    /\ UNCHANGED <<vars, conf, relay_vars, tunnel_vars, client, stage, peer>>

(* Any failure, the end of the copy and the idle timeout: the task ends, its
   stream is closed and its permit dropped.  What was written stays readable,
   but a stream nothing was written to was never announced. *)
RelayCloses(c) ==
    /\ relay!Drop(c)
    /\ pipe' = [pipe EXCEPT ![c] =
                  CASE @ \in {"addr", "sent"} -> "fin"
                    [] @ \in {"reset", "lost"} /\ GatewayHolds(c) -> "lost"
                    [] OTHER -> "none"]
    /\ ForgetGone
    /\ UNCHANGED <<vars, conf, tunnel_vars, stage, peer>>

RelayReleases(c) ==
    /\ relay!DropIp(c) \/ relay!DropRemove(c)
    /\ UNCHANGED <<vars, conf, tunnel_vars, stream_vars>>

-----------------------------------------------------------------------------
(* The gateway's accept loop and its task for one stream. *)

(* poll_next_inbound, then acquire(None).  The loop takes one at a time. *)
AcceptStream(c) ==
    /\ loop = "up" /\ pipe[c] \in {"addr", "sent", "fin"} /\ stage[c] = "none"
    /\ \A d \in Conns : pc[d] \notin {"ip", "undo"}
    /\ Acquire(c, NoAddr)
    /\ stage' = [stage EXCEPT ![c] = "peer"]
    /\ UNCHANGED <<conf, relay_vars, tunnel_vars, client, pipe, peer>>

(* A server without a tunnel: the accept loops of its TCP and UDP sockets. *)
AcceptSocket(c, a) ==
    /\ ~conf.tunnel
    /\ Acquire(c, a)
    /\ UNCHANGED <<conf, relay_vars, tunnel_vars, stream_vars>>

GatewayAcquires(c) ==
    /\ AcquireIp(c)
    /\ UNCHANGED <<conf, relay_vars, tunnel_vars, stream_vars>>

(* The gateway lets go of a stream. *)
DropStream(c) ==
    /\ stage' = [stage EXCEPT ![c] = "none"]
    /\ peer' = [peer EXCEPT ![c] = NoAddr]
    /\ pipe' = [pipe EXCEPT ![c] = IF ~RelayHolds(c) THEN "none"
                                   ELSE IF @ = "lost" THEN "lost" ELSE "reset"]
    /\ UNCHANGED relay_vars /\ ForgetGone

GatewayRejects(c) ==
    /\ Undo(c) /\ DropStream(c)
    /\ UNCHANGED <<conf, tunnel_vars>>

(* encode_proxy_v2 writes the address in the family of the relay's socket;
   read_proxy_v2 turns a mapped IPv4 address back. *)
EncodeProxyV2(a) == [family |-> IF a \in V6 THEN "AF_INET6" ELSE "AF_INET",
                     source |-> a]
ReadProxyV2(h) ==
    IF h.family = "AF_INET6" /\ \E v \in DOMAIN Mapped : Mapped[v] = h.source
    THEN CHOOSE v \in DOMAIN Mapped : Mapped[v] = h.source
    ELSE h.source

HasHeader(c) == pipe[c] \in {"addr", "sent", "fin"} /\ SupportsProxyV2

(* What a header says.  This relay always names its client; a header that the
   far end of the tunnel writes for itself (command LOCAL, family UNSPEC) names
   nobody, and read_proxy_v2 answers Ok(None). *)
HeaderPeers(c) ==
    {ReadProxyV2(EncodeProxyV2(client[c]))}
      \cup IF conf.local THEN Unspecified ELSE {}

(* Mutant: without a header the stream is served for the unspecified address. *)
PeerOrUnspecified(c) ==
    IF conf.asks /\ HasHeader(c) THEN HeaderPeers(c) ELSE Unspecified

(* resolve_tunnel_peer: the addresses it may answer.  A stream that does not
   begin with a header, that ends or stays silent has none and is dropped; one
   whose header names nobody is served for the unspecified address. *)
ResolveTunnelPeer(c) ==
    IF ~conf.asks THEN Unspecified
    ELSE {NoAddr} \cup IF HasHeader(c) THEN HeaderPeers(c) ELSE {}

(* The task finds out for whom it serves, and binds the permit to it; an
   unspecified address is not bound, and no per-IP limit applies. *)
BindPeer(c) ==
    /\ stage[c] = "peer" /\ pc[c] = "open"
    /\ \E p \in ResolveTunnelPeer(c) :
         \/ /\ \/ p = NoAddr
               \/ Countable(p) /\ ip_counts[Canonical[p]] >= MaxPerIp
            /\ stage' = [stage EXCEPT ![c] = "drop"]
            /\ UNCHANGED <<vars, peer>>
         \/ /\ \/ Countable(p) /\ BindIp(c, p)
               \/ p \in Unspecified /\ UNCHANGED vars
            /\ stage' = [stage EXCEPT ![c] = "tls"]
            /\ peer' = [peer EXCEPT ![c] = p]
    /\ UNCHANGED <<conf, relay_vars, tunnel_vars, client, pipe>>

(* The TLS handshake with the client succeeds. *)
Serve(c) ==
    /\ stage[c] = "tls" /\ pipe[c] = "sent"
    /\ stage' = [stage EXCEPT ![c] = "serving"]
    /\ UNCHANGED <<vars, conf, relay_vars, tunnel_vars, client, pipe, peer>>

(* The task ends: no address, no permit for it, no handshake in time, or the
   connection is over. *)
TaskEnds(c) ==
    /\ ~conf.tunnel \/ stage[c] \in {"drop", "tls", "serving"}
    /\ Release(c) /\ DropStream(c)
    /\ UNCHANGED <<conf, tunnel_vars>>

GatewayReleases(c) ==
    /\ ReleaseIp(c)
    /\ UNCHANGED <<conf, relay_vars, tunnel_vars, stream_vars>>

-----------------------------------------------------------------------------
TunnelNext ==
    \/ Connect \/ Leave \/ Pause \/ Cancel
    \/ Register \/ RelayNotices \/ NetFails \/ NetHeals
    \/ \E c \in Tunnelled, a \in Public : Arrive(c, a)
    \/ \E c \in Conns :
         \/ RelayAcquires(c) \/ OpenStream(c) \/ WriteStream(c)
         \/ RelayCloses(c) \/ RelayReleases(c)
         \/ AcceptStream(c) \/ GatewayAcquires(c) \/ GatewayRejects(c)
         \/ BindPeer(c) \/ Serve(c) \/ TaskEnds(c) \/ GatewayReleases(c)
         \/ \E a \in Addrs \ Unspecified : AcceptSocket(c, a)

TunnelSpec == TunnelInit /\ [][TunnelNext]_all_vars

(* The tunnel loop, the relay and the tasks of the trackers never stop by
   themselves; every wait of theirs has a timeout or ends with the stream it
   waits for.  The accept loop looks at the token and at the streams in random
   order (tokio::select!), so that no run of streams keeps it from leaving.
   The network need not heal, clients need not come or go. *)
TunnelFairSpec ==
    /\ TunnelSpec
    /\ WF_all_vars(Connect \/ Pause) /\ SF_all_vars(Leave)
    /\ WF_all_vars(Register) /\ WF_all_vars(RelayNotices)
    /\ \A c \in Conns :
         /\ WF_all_vars(GatewayAcquires(c) \/ GatewayRejects(c)
                        \/ GatewayReleases(c) \/ BindPeer(c))
         /\ WF_all_vars(TaskEnds(c) /\ (\/ stage[c] \in {"drop", "tls"}
                                        \/ pipe[c] \in {"fin", "reset", "lost"}))

-----------------------------------------------------------------------------
(* Properties *)

(* No interleaving of the relay's accepts and of the ends of its tasks lets in
   more than the relay's maximum, and its table never counts more than the
   connections of an address, so that none is locked out. *)
RelayCountsHold ==
    /\ Cardinality({c \in Conns : r_pc[c] \in {"ip", "open"}}) <= RelayMax
    /\ relay!NeverOvercounts

(* With proxy_protocol on, a tunnelled request is served for the address its
   client really has, in its IPv4 form if it has one, and counts against that
   address.  It is served for nobody, and counted for nobody, only if a header
   said so; a relay that sends no headers is not trusted to have no clients,
   and no stream is ever served or counted for another client's address. *)
PeerIsTrue ==
    \A c \in Conns : stage[c] = "serving" =>
        \/ /\ conf.asks /\ conf.grants
           /\ Canonical[peer[c]] = Canonical[client[c]]
           /\ ip[c] = Canonical[client[c]]
        \/ /\ ~conf.asks \/ conf.local
           /\ peer[c] \in Unspecified /\ ip[c] = NoAddr

(* Once the network stays up the tunnel is registered and stays so, unless the
   server is cancelled: the relay's refusal of a second tunnel while it still
   believes in the first does not last. *)
TunnelComesBack ==
    <>[]net => <>[](~conf.tunnel \/ cancelled \/ session = "routed")

(* A cancelled server ends its loop and gets every permit back, whatever its
   tasks were waiting for. *)
ShutdownDrains ==
    (conf.tunnel /\ cancelled) ~> (loop = "ended" /\ current_connections = 0)
=============================================================================
