-------------------------- MODULE HotReloadProofs ---------------------------
(***************************************************************************)
(* Proofs of the hot reload for any servers, ports, connections and number *)
(* of reloads.                                                             *)
(*                                                                         *)
(* The table of listeners and the tokens are kept in step by one pass over *)
(* active_servers.  That the pass never touches an instance of an earlier  *)
(* reload by mistake rests on the future being untouched: no version that  *)
(* has not been loaded yet has an instance, a listener or a token.         *)
(***************************************************************************)
EXTENDS HotReload, TLAPS

ListenerStates == {"none", "bind", "listen", "failed", "draining", "closed"}

OpenConn ==
    [pc : {"handshake", "serving"}, inst : Instances,
     transport : Transports, stack : Versions]

Shape ==
    /\ config \in Configs
    /\ version \in Versions
    /\ active \in [Names -> Versions \cup {NoInst}]
    /\ bind \in [Instances -> Server \cup {NoServer}]
    /\ stack \in [Instances -> Versions]
    /\ cancelled \in SUBSET Instances
    /\ listener \in [Instances -> [Transports -> ListenerStates]]
    /\ conn \in [Conns -> OpenConn \cup {NoConn}]
    /\ mode \in {"run", "stopping", "exited"}

(* The port of an instance is bound by at most one listener per transport. *)
OneSocket ==
    \A i, j \in Instances : \A t \in Transports :
        /\ listener[i][t] \in {"listen", "draining"}
        /\ listener[j][t] \in {"listen", "draining"}
        /\ bind[i].port = bind[j].port
        => i = j

(* What no reload has brought yet does not exist. *)
FutureUntouched ==
    /\ \A i \in Instances : i[2] > version =>
          /\ bind[i] = NoServer
          /\ \A t \in Transports : listener[i][t] = "none"
          /\ i \notin cancelled
    /\ \A n \in Names : active[n] # NoInst => active[n] <= version

(* The inductive invariant. *)
IInv ==
    /\ Shape /\ OneSocket /\ FutureUntouched
    /\ ActiveMatchesConfig /\ StrayIsCancelled

(* An instance is a name and a version. *)
LEMMA InstanceParts ==
    /\ \A i \in Instances :
          i[1] \in Names /\ i[2] \in Versions /\ i = <<i[1], i[2]>>
    /\ \A n \in Names : \A v \in Versions :
          <<n, v>> \in Instances /\ <<n, v>>[1] = n /\ <<n, v>>[2] = v
  BY DEF Instances

(* The active instances, ActiveInst, are those of the table a. *)
LEMMA ActiveParts ==
    ASSUME NEW a \in [Names -> Versions \cup {NoInst}], NEW i \in Instances
    PROVE  i \in {<<n, a[n]>> : n \in {m \in Names : a[m] # NoInst}}
           <=> a[i[1]] # NoInst /\ a[i[1]] = i[2]
<1> DEFINE Act == {<<n, a[n]>> : n \in {m \in Names : a[m] # NoInst}}
<1>1. i[1] \in Names /\ i[2] \in Versions /\ i = <<i[1], i[2]>>
  BY InstanceParts
<1>2. ASSUME i \in Act PROVE a[i[1]] # NoInst /\ a[i[1]] = i[2]
  <2>1. PICK n \in Names : a[n] # NoInst /\ i = <<n, a[n]>>
    BY <1>2
  <2> QED
    BY <2>1, <1>1
<1>3. ASSUME a[i[1]] # NoInst, a[i[1]] = i[2] PROVE i \in Act
  BY <1>1, <1>3
<1> QED
  BY <1>2, <1>3

(* The start of the gateway: main_async has spawned what is configured. *)
LEMMA InitIInv == Init => IInv
<1> SUFFICES ASSUME Init PROVE IInv
  OBVIOUS
<1>0. 0 \in Versions /\ 0 # NoInst
  BY ReloadsAssumption, NoneAssumption DEF Versions
<1>1. Shape
  BY <1>0, InstanceParts
  DEF Init, Shape, Configs, Started, ListenerStates, Transports
<1>2. OneSocket
  BY InstanceParts DEF Init, OneSocket, Started
<1>3. FutureUntouched
  BY <1>0, InstanceParts DEF Init, FutureUntouched, Versions
<1>4. ActiveMatchesConfig
  BY <1>0, InstanceParts DEF Init, ActiveMatchesConfig
<1>5. StrayIsCancelled
  BY <1>0, <1>1, InstanceParts, ActiveParts
  DEF Init, StrayIsCancelled, ActiveInst, Shape
<1> QED
  BY <1>1, <1>2, <1>3, <1>4, <1>5 DEF IInv

(* A listener that moves: it leaves another state than "none", and it takes the
   port only if it already had it or nobody has it (bind in Bind, the end of an
   accept loop in StopAccept and ReleaseUdp). *)
LEMMA ListenerStep ==
    ASSUME IInv, NEW i \in Instances, NEW t \in Transports,
           NEW l \in ListenerStates,
           listener[i][t] # "none", SetListener(i, t, l),
           l \in {"listen", "draining"} =>
              \/ listener[i][t] \in {"listen", "draining"}
              \/ ~Taken(t, bind[i].port),
           UNCHANGED <<config, version, active, bind, stack, cancelled, conn,
                       mode>>
    PROVE  IInv'
<1> USE DEF IInv
<1>1. /\ listener \in [Instances -> [Transports -> ListenerStates]]
      /\ \A j \in Instances : \A u \in Transports :
            listener'[j][u] = IF j = i /\ u = t THEN l ELSE listener[j][u]
      /\ listener' \in [Instances -> [Transports -> ListenerStates]]
  BY DEF Shape, SetListener
<1>2. Shape'
  BY <1>1 DEF Shape
<1>3. OneSocket'
  <2> SUFFICES ASSUME NEW j \in Instances, NEW k \in Instances,
                      NEW u \in Transports,
                      listener'[j][u] \in {"listen", "draining"},
                      listener'[k][u] \in {"listen", "draining"},
                      bind[j].port = bind[k].port
               PROVE  j = k
    BY DEF OneSocket
  <2>1. CASE u # t
    BY <1>1, <2>1 DEF OneSocket
  <2>2. CASE u = t
    BY <1>1, <2>2 DEF OneSocket, Taken
  <2> QED
    BY <2>1, <2>2
<1>4. FutureUntouched'
  BY <1>1 DEF FutureUntouched
<1>5. ActiveMatchesConfig' /\ StrayIsCancelled'
  BY DEF ActiveMatchesConfig, StrayIsCancelled, ActiveInst
<1> QED
  BY <1>2, <1>3, <1>4, <1>5

(* Every step of a reload, a shutdown, a listener or a connection preserves
   the invariant. *)
LEMMA Inductive == IInv /\ [Next]_vars => IInv'
<1> SUFFICES ASSUME IInv, [Next]_vars PROVE IInv'
  OBVIOUS
<1> USE DEF IInv
<1>1. CASE UNCHANGED vars
  BY <1>1 DEF vars, Shape, OneSocket, FutureUntouched, ActiveMatchesConfig,
     StrayIsCancelled, ActiveInst
<1>2. ASSUME NEW c \in Configs, Reload(c) PROVE IInv'
  <2> DEFINE v == version + 1
             N == {n \in Names : NeedsRestart(n, c)}
  <2> USE <1>2
  <2>1. /\ mode = "run" /\ v \in Versions /\ version' = v /\ version \in Nat
        /\ config' = c /\ v # NoInst
        /\ \A i \in Instances : i[2] \in Nat
    BY InstanceParts, ReloadsAssumption, NoneAssumption
    DEF Reload, Shape, Versions
  <2>2. /\ bind' = [i \in Instances |->
                      IF i[1] \in N /\ i[2] = v THEN c[i[1]] ELSE bind[i]]
        /\ listener' = [i \in Instances |->
                      IF i[1] \in N /\ i[2] = v THEN Started(c[i[1]])
                      ELSE listener[i]]
        /\ stack' = [i \in Instances |-> Swapped(i, c, v)]
        /\ cancelled' = cancelled \cup Drained(c)
        /\ active' = [n \in Names |->
                      IF c[n] = NoServer THEN NoInst
                      ELSE IF n \in N THEN v ELSE active[n]]
        /\ UNCHANGED <<conn, mode>>
    BY DEF Reload, Spawn
  <2>3. \A i \in Instances : Swapped(i, c, v) \in Versions
    BY <2>1 DEF Swapped, Shape
  <2>4. \A i \in Instances : i \in Drained(c) <=>
            /\ active[i[1]] # NoInst /\ active[i[1]] = i[2]
            /\ c[i[1]] = NoServer \/ NeedsRestart(i[1], c)
    BY ActiveParts DEF Drained, ActiveInst, Shape
  <2>5. Drained(c) \subseteq Instances
    BY InstanceParts DEF Drained, ActiveInst, Shape
  <2>6. \A n \in Names : c[n] \in Server \cup {NoServer}
    BY DEF Configs
  <2>7. \A s : Started(s) \in [Transports -> ListenerStates]
               /\ \A t \in Transports : Started(s)[t] \in {"none", "bind"}
    BY DEF Started, Transports, ListenerStates
  <2>8. Shape'
    <3>1. bind' \in [Instances -> Server \cup {NoServer}]
      BY <2>2, <2>6, InstanceParts DEF Shape
    <3>2. listener' \in [Instances -> [Transports -> ListenerStates]]
      BY <2>2, <2>7 DEF Shape
    <3>3. active' \in [Names -> Versions \cup {NoInst}]
      BY <2>1, <2>2 DEF Shape
    <3> QED
      BY <3>1, <3>2, <3>3, <2>1, <2>2, <2>3, <2>5 DEF Shape
  <2>9. OneSocket'
    <3> SUFFICES ASSUME NEW i \in Instances, NEW j \in Instances,
                        NEW t \in Transports,
                        listener'[i][t] \in {"listen", "draining"},
                        listener'[j][t] \in {"listen", "draining"},
                        bind'[i].port = bind'[j].port
                 PROVE  i = j
      BY DEF OneSocket
    <3>1. /\ listener'[i][t] = listener[i][t] /\ bind'[i] = bind[i]
          /\ listener'[j][t] = listener[j][t] /\ bind'[j] = bind[j]
      BY <2>2, <2>7
    <3> QED
      BY <3>1 DEF OneSocket
  <2>10. FutureUntouched'
    <3>1. \A i \in Instances : i[2] > v =>
             /\ bind'[i] = NoServer
             /\ \A t \in Transports : listener'[i][t] = "none"
             /\ i \notin cancelled'
      BY <2>1, <2>2, <2>4, InstanceParts DEF FutureUntouched
    <3>2. \A n \in Names : active'[n] # NoInst => active'[n] <= v
      BY <2>1, <2>2 DEF FutureUntouched, Shape, Versions
    <3> QED
      BY <3>1, <3>2, <2>1 DEF FutureUntouched
  <2>11. ActiveMatchesConfig'
    <3> SUFFICES ASSUME NEW n \in Names
                 PROVE  /\ active'[n] = NoInst <=> c[n] = NoServer
                        /\ active'[n] # NoInst =>
                              /\ bind'[<<n, active'[n]>>] = c[n]
                              /\ stack'[<<n, active'[n]>>] = v
      BY <2>1 DEF ActiveMatchesConfig
    <3>1. CASE c[n] = NoServer
      BY <3>1, <2>2
    <3>2. CASE c[n] # NoServer /\ n \in N
      <4>1. active'[n] = v /\ <<n, v>> \in Instances
        BY <3>2, <2>1, <2>2, InstanceParts
      <4> QED
        BY <4>1, <3>2, <2>1, <2>2, InstanceParts DEF Swapped
    <3>3. CASE c[n] # NoServer /\ n \notin N
      <4>1. active[n] # NoInst /\ c[n] = config[n] /\ active'[n] = active[n]
        BY <3>3, <2>2 DEF NeedsRestart
      <4>2. active[n] \in Versions /\ active[n] # v
        BY <4>1, <2>1 DEF Shape, FutureUntouched, Versions
      <4>3. <<n, active[n]>> \in Instances /\ <<n, active[n]>> \in ActiveInst
        BY <4>1, <4>2, InstanceParts DEF ActiveInst
      <4>4. Swapped(<<n, active[n]>>, c, v) = v
        BY <4>3, <3>3, InstanceParts DEF Swapped
      <4> QED
        BY <4>1, <4>2, <4>3, <4>4, <2>1, <2>2, InstanceParts
        DEF ActiveMatchesConfig
    <3> QED
      BY <3>1, <3>2, <3>3
  <2>12. StrayIsCancelled'
    <3> SUFFICES ASSUME NEW i \in Instances, bind'[i] # NoServer
                 PROVE  i \in cancelled' <=> i \notin ActiveInst'
      BY DEF StrayIsCancelled
    <3> DEFINE n == i[1]
    <3>1. n \in Names /\ i[2] \in Versions /\ i = <<n, i[2]>>
      BY InstanceParts
    <3>2. i \in ActiveInst' <=> active'[n] # NoInst /\ active'[n] = i[2]
      BY <2>8, ActiveParts DEF ActiveInst, Shape
    <3>3. i \in ActiveInst <=> active[n] # NoInst /\ active[n] = i[2]
      BY ActiveParts DEF ActiveInst, Shape
    <3>4. CASE i[2] = v
      <4>1. i \notin cancelled /\ bind[i] = NoServer
        BY <3>4, <2>1 DEF FutureUntouched
      <4>2. n \in N /\ c[n] # NoServer
        BY <4>1, <2>2, <3>4
      <4>3. active'[n] = v
        BY <4>2, <3>1, <2>2
      <4>4. i \notin Drained(c)
        BY <3>4, <2>1, <2>4, <3>1 DEF FutureUntouched, Shape, Versions
      <4> QED
        BY <4>1, <4>3, <4>4, <3>2, <3>4, <2>1, <2>2
    <3>5. CASE i[2] # v
      <4>1. bind[i] # NoServer
        BY <3>5, <2>2
      <4>2. i \in cancelled <=> ~(active[n] # NoInst /\ active[n] = i[2])
        BY <4>1, <3>3, <2>1 DEF StrayIsCancelled
      <4>3. active'[n] # NoInst /\ active'[n] = i[2] <=>
              /\ active[n] # NoInst /\ active[n] = i[2]
              /\ ~(c[n] = NoServer \/ NeedsRestart(n, c))
        BY <3>1, <3>5, <2>1, <2>2 DEF NeedsRestart
      <4> QED
        BY <4>2, <4>3, <3>2, <2>2, <2>4
    <3> QED
      BY <3>4, <3>5
  <2> QED
    BY <2>8, <2>9, <2>10, <2>11, <2>12
<1>3. CASE Shutdown
  BY <1>3
  DEF Shutdown, Shape, OneSocket, FutureUntouched, ActiveMatchesConfig,
      StrayIsCancelled, ActiveInst, Instances
<1>4. CASE Exit \/ Exited
  BY <1>4 DEF Exit, Exited, vars, Shape, OneSocket, FutureUntouched,
     ActiveMatchesConfig, StrayIsCancelled, ActiveInst
<1>5. ASSUME NEW i \in Instances, NEW t \in Transports, Bind(i, t)
      PROVE  IInv'
  <2> DEFINE l == IF Taken(t, bind[i].port) THEN "failed" ELSE "listen"
  <2>1. l \in ListenerStates
    BY DEF ListenerStates
  <2>2. l \in {"listen", "draining"} => ~Taken(t, bind[i].port)
    OBVIOUS
  <2> QED
    BY <1>5, <2>1, <2>2, ListenerStep DEF Bind
<1>6. ASSUME NEW i \in Instances, NEW t \in Transports, StopAccept(i, t)
      PROVE  IInv'
  <2>1. (IF t = "tcp" THEN "closed" ELSE "draining") \in ListenerStates
    BY DEF ListenerStates
  <2> QED
    BY <1>6, <2>1, ListenerStep DEF StopAccept
<1>7. ASSUME NEW i \in Instances, ReleaseUdp(i) PROVE IInv'
  <2>1. "udp" \in Transports /\ "closed" \in ListenerStates
    BY DEF Transports, ListenerStates
  <2> QED
    BY <1>7, <2>1, ListenerStep DEF ReleaseUdp
<1>8. ASSUME NEW k \in Conns, NEW i \in Instances, NEW t \in Transports,
             Accept(k, i, t)
      PROVE  IInv'
  <2>1. conn' \in [Conns -> OpenConn \cup {NoConn}]
    BY <1>8 DEF Accept, Shape, OpenConn
  <2> QED
    BY <1>8, <2>1 DEF Accept, Shape, OneSocket, FutureUntouched,
       ActiveMatchesConfig, StrayIsCancelled, ActiveInst
<1>9. ASSUME NEW k \in Conns, Handshake(k) PROVE IInv'
  <2>1. conn[k] \in OpenConn
    BY <1>9 DEF Handshake, Shape, NoConn
  <2>2. conn' \in [Conns -> OpenConn \cup {NoConn}]
    BY <1>9, <2>1 DEF Handshake, Shape, OpenConn
  <2> QED
    BY <1>9, <2>2 DEF Handshake, Shape, OneSocket, FutureUntouched,
       ActiveMatchesConfig, StrayIsCancelled, ActiveInst
<1>10. ASSUME NEW k \in Conns, Disconnect(k) PROVE IInv'
  BY <1>10 DEF Disconnect, Shape, OneSocket, FutureUntouched,
     ActiveMatchesConfig, StrayIsCancelled, ActiveInst
<1> QED
  BY <1>1, <1>2, <1>3, <1>4, <1>5, <1>6, <1>7, <1>8, <1>9, <1>10 DEF Next

(* The invariant holds in every reachable state. *)
LEMMA Invariance == Spec => []IInv
<1> QED
  BY InitIInv, Inductive, PTL DEF Spec

(* Every variable keeps its type, and no two listeners of a gateway hold the
   same port of the same transport, whatever reloads and drains overlap. *)
THEOREM TypeCorrect == Spec => []TypeOK
<1>1. IInv => TypeOK
  <2> SUFFICES ASSUME IInv PROVE TypeOK
    OBVIOUS
  <2>1. \A k \in Conns : conn[k] = NoConn \/ conn[k] \in OpenConn
    BY DEF IInv, Shape
  <2> QED
    BY <2>1 DEF IInv, Shape, OneSocket, TypeOK, OpenConn, ListenerStates
<1> QED
  BY <1>1, Invariance, PTL

(* After any sequence of reloads the table of listeners is the configuration,
   each listener runs the newest stack, and exactly the listeners that left
   the table have been told to stop (the apply pass of main_async). *)
THEOREM ReloadExact == Spec => []ReloadIsExact
<1>1. IInv => ReloadIsExact
  BY DEF IInv, ReloadIsExact
<1> QED
  BY <1>1, Invariance, PTL

(* A connection of an active listener starts to be served with the stack of
   the newest reload, even one that landed during its handshake. *)
THEOREM NewestStackServes == Spec => ServesNewestStack
<1> DEFINE Newest ==
      \A k \in Conns :
          /\ conn[k].pc # "serving" /\ conn'[k].pc = "serving"
          /\ conn'[k].inst \in ActiveInst
          => conn'[k].stack = version
<1>1. IInv /\ [Next]_vars => [Newest]_vars
  <2> SUFFICES ASSUME IInv, Next, NEW k \in Conns,
                      conn[k].pc # "serving", conn'[k].pc = "serving",
                      conn'[k].inst \in ActiveInst
               PROVE  conn'[k].stack = version
    OBVIOUS
  <2>1. \A i \in ActiveInst : stack[i] = version
    BY DEF IInv, ActiveMatchesConfig, ActiveInst
  <2>2. conn \in [Conns -> OpenConn \cup {NoConn}]
    BY DEF IInv, Shape
  <2>3. conn' # conn
    OBVIOUS
  <2>4. PICK m \in Conns :
           \/ \E i \in Instances, t \in Transports : Accept(m, i, t)
           \/ Handshake(m) \/ Disconnect(m)
    BY <2>3 DEF Next, Reload, Shutdown, Exit, Exited, vars, Bind, StopAccept,
       ReleaseUdp
  <2>5. CASE m # k
    BY <2>2, <2>4, <2>5 DEF Accept, Handshake, Disconnect
  <2>6. CASE m = k
    <3>1. ASSUME NEW i \in Instances, NEW t \in Transports, Accept(k, i, t)
          PROVE  conn'[k].inst = i /\ conn'[k].stack = stack[i]
      BY <3>1, <2>2 DEF Accept
    <3>2. ASSUME Handshake(k)
          PROVE  /\ conn'[k].inst = conn[k].inst
                 /\ conn'[k].stack = stack[conn[k].inst]
      <4>1. conn[k] \in OpenConn
        BY <3>2, <2>2 DEF Handshake, NoConn
      <4> QED
        BY <4>1, <3>2, <2>2 DEF Handshake, OpenConn
    <3>3. ~Disconnect(k)
      BY <2>2 DEF Disconnect, NoConn
    <3> QED
      BY <2>1, <2>4, <2>6, <3>1, <3>2, <3>3
  <2> QED
    BY <2>5, <2>6
<1> QED
  BY <1>1, Invariance, PTL DEF Spec, ServesNewestStack
=============================================================================
