----------------------------- MODULE HotReload ------------------------------
(***************************************************************************)
(* Listeners, hot reload and shutdown of the gateway: main_async,          *)
(* start_single_server, run_dual_stack, run_tcp_listener, run_udp_listener *)
(* and handle_h3_connection of server/src/server.rs.                       *)
(*                                                                         *)
(* A server is known by its name.  What a running listener is compared by  *)
(* (ip, port, protocol, tunnel) is its Server record; everything else of   *)
(* its configuration is the version, the number of the reload that brought *)
(* it.  An instance <<n, v>> is the task started for name n by version v:  *)
(* its TLS context, connection limits, role mapping and health checkers    *)
(* are those of version v for as long as it lives; its service stack (an   *)
(* ArcSwap) is replaced by later reloads.                                  *)
(*                                                                         *)
(* Names are unique in a configuration and no two of its servers share a   *)
(* port.  Servers behind a tunnel bind nothing and are left out.           *)
(***************************************************************************)
EXTENDS Naturals, FiniteSets

CONSTANTS
    Names, Ports,
    NoServer, NoInst,
    MaxReloads,   \* bound: reloads applied
    Conns         \* client connections

ASSUME ReloadsAssumption == MaxReloads \in Nat \ {0}
ASSUME NoneAssumption    == NoInst \notin Nat

Protocols  == {"Http", "Https"}
Transports == {"tcp", "udp"}
Server     == [port : Ports, protocol : Protocols]
Versions   == 0..MaxReloads
Instances  == Names \X Versions

(* Configurations as documented ("Unique name identifier", Config.md:289): some
   of the names, each once, on different ports.  Config::load does not check
   it. *)
Configs ==
    {c \in [Names -> Server \cup {NoServer}] :
        \A m, n \in Names :
            m # n /\ c[m] # NoServer /\ c[n] # NoServer => c[m].port # c[n].port}

VARIABLES
    config,      \* the configuration the entries of active_servers hold
    version,
    active,      \* active_servers: the version that started a name's instance
    bind,        \* the configuration an instance was started with
    stack,       \* dynamic_stack: the version of an instance's service stack
    cancelled,   \* instances whose token is cancelled
    listener,    \* per instance and transport
    conn,        \* client connections
    mode         \* of main_async

vars == <<config, version, active, bind, stack, cancelled, listener, conn, mode>>

NoConn == [pc |-> "none", inst |-> NoInst, transport |-> "tcp", stack |-> 0]

TypeOK ==
    /\ config \in Configs
    /\ version \in Versions
    /\ active \in [Names -> Versions \cup {NoInst}]
    /\ bind \in [Instances -> Server \cup {NoServer}]
    /\ stack \in [Instances -> Versions]
    /\ cancelled \in SUBSET Instances
    /\ listener \in [Instances -> [Transports ->
           {"none", "bind", "listen", "failed", "draining", "closed"}]]
    /\ \A k \in Conns :
          \/ conn[k] = NoConn
          \/ conn[k] \in [pc : {"handshake", "serving"}, inst : Instances,
                          transport : Transports, stack : Versions]
    /\ mode \in {"run", "stopping", "exited"}
    (* one socket per port and transport *)
    /\ \A i, j \in Instances : \A t \in Transports :
          /\ listener[i][t] \in {"listen", "draining"}
          /\ listener[j][t] \in {"listen", "draining"}
          /\ bind[i].port = bind[j].port
          => i = j

-----------------------------------------------------------------------------
(* start_single_server: HTTP binds TCP, HTTPS both transports. *)
Started(s) ==
    [t \in Transports |->
        IF t = "tcp" \/ s.protocol = "Https" THEN "bind" ELSE "none"]

(* The listeners and the spawned instances after version v started the names
   in N as configured by c. *)
Spawn(N, c, v) ==
    /\ bind' = [i \in Instances |->
                   IF i[1] \in N /\ i[2] = v THEN c[i[1]] ELSE bind[i]]
    /\ listener' = [i \in Instances |->
                   IF i[1] \in N /\ i[2] = v THEN Started(c[i[1]]) ELSE listener[i]]

(* main_async: every enabled server whose stack could be built is started. *)
Init ==
    /\ config \in Configs
    /\ version = 0
    /\ active = [n \in Names |-> IF config[n] = NoServer THEN NoInst ELSE 0]
    /\ bind = [i \in Instances |-> IF i[2] = 0 THEN config[i[1]] ELSE NoServer]
    /\ stack = [i \in Instances |-> 0]
    /\ cancelled = {}
    /\ listener = [i \in Instances |->
          IF i[2] = 0 /\ config[i[1]] # NoServer THEN Started(config[i[1]])
          ELSE [t \in Transports |-> "none"]]
    /\ conn = [k \in Conns |-> NoConn]
    /\ mode = "run"

ActiveInst == {<<n, active[n]>> : n \in {m \in Names : active[m] # NoInst}}

NeedsRestart(n, c) ==
    c[n] # NoServer /\ (active[n] = NoInst \/ c[n] # config[n])

(* Mutant: only the names the new configuration lacks are stopped. *)
DrainedRemovedOnly(c) == {i \in ActiveInst : c[i[1]] = NoServer}

(* What is left of active_servers when the kept ones have been taken out. *)
Drained(c) ==
    {i \in ActiveInst : c[i[1]] = NoServer \/ NeedsRestart(i[1], c)}

(* The stack of a fresh instance, and the hot-swapped one of a kept one. *)
Swapped(i, c, v) ==
    IF \/ i[2] = v
       \/ i \in ActiveInst /\ c[i[1]] # NoServer /\ ~NeedsRestart(i[1], c)
    THEN v ELSE stack[i]

(* SIGHUP, loaded and built without an error: the apply pass, which does not
   await.  A configuration that fails to load or to build changes nothing. *)
Reload(c) ==
    LET v == version + 1
        N == {n \in Names : NeedsRestart(n, c)}
    IN
    /\ mode = "run" /\ version < MaxReloads
    /\ version' = v
    /\ config' = c
    /\ Spawn(N, c, v)
    /\ stack' = [i \in Instances |-> Swapped(i, c, v)]
    /\ cancelled' = cancelled \cup Drained(c)
    /\ active' = [n \in Names |->
          IF c[n] = NoServer THEN NoInst ELSE IF n \in N THEN v ELSE active[n]]
    /\ UNCHANGED <<conn, mode>>

(* Mutant: Ctrl+C leaves the loop without cancelling the servers' tokens. *)
ShutdownForgetsTokens ==
    /\ mode = "run"
    /\ mode' = "stopping"
    /\ UNCHANGED <<config, version, active, bind, stack, listener, conn,
                   cancelled>>

(* Ctrl+C: the loop ends, the listeners in active_servers are cancelled. *)
Shutdown ==
    /\ mode = "run"
    /\ mode' = "stopping"
    /\ cancelled' = cancelled \cup ActiveInst
    /\ UNCHANGED <<config, version, active, bind, stack, listener, conn>>

(* What the JoinSet waits for: an HTTP task is its accept loop, an HTTPS task
   (run_dual_stack) ends as soon as its listeners are spawned. *)
TaskEnded(i) ==
    IF bind[i].protocol = "Http" THEN listener[i]["tcp"] \in {"closed", "failed"}
    ELSE \A t \in Transports : listener[i][t] # "bind"

Exit ==
    /\ mode = "stopping"
    /\ \A i \in Instances : bind[i] # NoServer => TaskEnded(i)
    /\ mode' = "exited"
    /\ UNCHANGED <<config, version, active, bind, stack, cancelled, listener, conn>>

-----------------------------------------------------------------------------
SetListener(i, t, l) == listener' = [listener EXCEPT ![i][t] = l]

Running == mode # "exited"

Taken(t, p) ==
    \E i \in Instances :
        listener[i][t] \in {"listen", "draining"} /\ bind[i].port = p

(* TcpListener::bind, Endpoint::server.  An error is logged (HTTP) or dropped
   (HTTPS): nobody tries again. *)
Bind(i, t) ==
    /\ Running /\ listener[i][t] = "bind"
    /\ SetListener(i, t, IF Taken(t, bind[i].port) THEN "failed" ELSE "listen")
    /\ UNCHANGED <<config, version, active, bind, stack, cancelled, conn, mode>>

(* The accept loop sees the token and drops its listener.  A QUIC endpoint
   keeps its socket until its last connection is gone. *)
StopAccept(i, t) ==
    /\ Running /\ listener[i][t] = "listen" /\ i \in cancelled
    /\ SetListener(i, t, IF t = "tcp" THEN "closed" ELSE "draining")
    /\ UNCHANGED <<config, version, active, bind, stack, cancelled, conn, mode>>

ReleaseUdp(i) ==
    /\ Running /\ listener[i]["udp"] = "draining"
    /\ \A k \in Conns : ~(conn[k].inst = i /\ conn[k].transport = "udp")
    /\ SetListener(i, "udp", "closed")
    /\ UNCHANGED <<config, version, active, bind, stack, cancelled, conn, mode>>

-----------------------------------------------------------------------------
(* One client connection.  select! picks either branch: a cancelled loop may
   still accept.  Plaintext HTTP loads the stack at once, the others once the
   handshake, with the TLS context of the instance, is over. *)
Accept(k, i, t) ==
    /\ Running /\ conn[k] = NoConn /\ listener[i][t] = "listen"
    /\ conn' = [conn EXCEPT ![k] =
          [pc |-> IF bind[i].protocol = "Http" THEN "serving" ELSE "handshake",
           inst |-> i, transport |-> t, stack |-> stack[i]]]
    /\ UNCHANGED <<config, version, active, bind, stack, cancelled, listener, mode>>

(* Mutant: the stack is the one loaded at accept. *)
HandshakeKeepsStack(k) ==
    /\ Running /\ conn[k].pc = "handshake"
    /\ conn' = [conn EXCEPT ![k].pc = "serving"]
    /\ UNCHANGED <<config, version, active, bind, stack, cancelled, listener, mode>>

Handshake(k) ==
    /\ Running /\ conn[k].pc = "handshake"
    /\ conn' = [conn EXCEPT ![k].pc = "serving", ![k].stack = stack[conn[k].inst]]
    /\ UNCHANGED <<config, version, active, bind, stack, cancelled, listener, mode>>

(* The client leaves, the handshake fails or times out, or (TCP) the token
   asks for a graceful end. *)
Disconnect(k) ==
    /\ Running /\ conn[k] # NoConn
    /\ conn' = [conn EXCEPT ![k] = NoConn]
    /\ UNCHANGED <<config, version, active, bind, stack, cancelled, listener, mode>>

-----------------------------------------------------------------------------
Exited == mode = "exited" /\ UNCHANGED vars

Next ==
    \/ \E c \in Configs : Reload(c)
    \/ Shutdown \/ Exit \/ Exited
    \/ \E i \in Instances :
          \/ \E t \in Transports : Bind(i, t) \/ StopAccept(i, t)
          \/ ReleaseUdp(i)
    \/ \E k \in Conns :
          \/ \E i \in Instances : \E t \in Transports : Accept(k, i, t)
          \/ Handshake(k) \/ Disconnect(k)

Spec == Init /\ [][Next]_vars

(* Tasks run; select! draws its branch at random, so that an accept loop sees
   its token sooner or later.  Clients need not leave. *)
FairSpec ==
    /\ Spec
    /\ WF_vars(Exit)
    /\ \A i \in Instances : \A t \in Transports :
          WF_vars(Bind(i, t)) /\ WF_vars(StopAccept(i, t))

-----------------------------------------------------------------------------
(* Properties *)

(* After any sequence of reloads, the table holds exactly the configured
   servers; each runs the newest stack on the binding the configuration
   asks for. *)
ActiveMatchesConfig ==
    \A n \in Names :
        /\ active[n] = NoInst <=> config[n] = NoServer
        /\ active[n] # NoInst =>
              /\ bind[<<n, active[n]>>] = config[n]
              /\ stack[<<n, active[n]>>] = version

(* No listener outlives its place in the table unnoticed: an instance that is
   no longer active has been told to stop, and an active one has not. *)
StrayIsCancelled ==
    mode = "run" =>
        \A i \in Instances : bind[i] # NoServer =>
            (i \in cancelled <=> i \notin ActiveInst)

(* After any sequence of reloads, what listens is what is configured: the table
   is the configuration, and whatever it no longer holds was told to stop. *)
ReloadIsExact == ActiveMatchesConfig /\ StrayIsCancelled

(* A reload that lands between a connection's accept and the end of its
   handshake already counts: what an active listener starts to serve, it
   serves with the newest stack. *)
ServesNewestStack ==
    [][\A k \in Conns :
          /\ conn[k].pc # "serving" /\ conn'[k].pc = "serving"
          /\ conn'[k].inst \in ActiveInst
          => conn'[k].stack = version]_vars

(* Whatever was reloaded before, Ctrl+C ends the process: no task the JoinSet
   waits for was forgotten by a reload. *)
ShutdownEnds == mode = "stopping" ~> mode = "exited"

-----------------------------------------------------------------------------
(* Promises of the documentation that the code breaks; no run lists them. *)

(* "Crash-Safe Zero-Downtime Configuration Reloads": the listeners of the
   configured servers never end up unbound. *)
NoListenerLost ==
    \A i \in ActiveInst : \A t \in Transports : listener[i][t] # "failed"

(* "All newly accepted connections immediately run on the newly loaded
   configuration": a connection is accepted with the TLS context, limits and
   roles of the version in force. *)
AcceptedOnNewConfig ==
    [][\A k \in Conns : \A i \in ActiveInst :
          conn[k] = NoConn /\ conn'[k].inst = i => i[2] = version]_vars

(* "Praeco launches a dedicated background polling task for each upstream
   node": the nodes an active server's checkers poll (those of the version
   that started it) are the nodes its stack routes to. *)
CheckersMatchStack == \A i \in ActiveInst : stack[i] = i[2]

(* "It ensures all servers stop gracefully before the program exits". *)
StoppedBeforeExit ==
    mode = "exited" =>
        /\ \A i \in Instances : \A t \in Transports : listener[i][t] # "listen"
        /\ \A k \in Conns : conn[k] = NoConn
=============================================================================
