------------------------ MODULE GatewayTunnelProofs -------------------------
(***************************************************************************)
(* Proofs about the gateway's connection tracker, alone and in the tunnel, *)
(* for any number of connections, any addresses and any caps.              *)
(*                                                                         *)
(* The counters are compared before they are exact (a rejected connection  *)
(* is counted until its fetch_sub), so the caps follow from what exactly   *)
(* each counter counts: the invariant carries the counted sets along with  *)
(* the counters, and each step adds one connection to a set, removes one   *)
(* from it, or leaves it.                                                  *)
(*                                                                         *)
(* The tracker takes only its own steps in the composition, so that what   *)
(* is shown of it carries over.  The relay's table is shown to count at    *)
(* most the connections that will decrement it.  And the client a stream   *)
(* was opened for is the one it is served for, because neither side        *)
(* forgets it while the other still holds the stream.                      *)
(***************************************************************************)
EXTENDS GatewayTunnel, FiniteSetTheorems, TLAPS

-----------------------------------------------------------------------------
(* The gateway's tracker: ConnectionTracker *)

(* TypeOK, but for the sign of the global counter: that fetch_sub never makes
   it negative follows from what it counts. *)
Shape ==
    /\ current_connections \in Int
    /\ ip_counts \in [Addrs -> Int]
    /\ pc \in [Conns -> PCs]
    /\ ip \in [Conns -> Addrs \cup {NoAddr}]

(* A connection that still has to give back a per-IP count has an address. *)
ReleasingHasIp == \A c \in Conns : pc[c] = "release_ip" => Countable(ip[c])

(* The inductive invariant. *)
IInv ==
    /\ Shape /\ ReleasingHasIp
    /\ GlobalCountExact /\ GlobalCap /\ PerIpExact

(* Adding one connection to a set of connections, or removing one. *)
LEMMA OneMore ==
    ASSUME NEW S \in SUBSET Conns, NEW c \in Conns
    PROVE  /\ Cardinality(S) \in Nat
           /\ c \notin S => Cardinality(S \cup {c}) = Cardinality(S) + 1
           /\ c \in S => /\ Cardinality(S \ {c}) = Cardinality(S) - 1
                         /\ Cardinality(S) >= 1
           /\ Cardinality(S \ {c}) <= Cardinality(S)
           /\ Cardinality(S \ {c}) \in Nat
<1>1. IsFiniteSet(S)
  BY ConnsAssumption, FS_Subset
<1>2. Cardinality(S) \in Nat
  BY <1>1, FS_CardinalityType
<1>3. c \notin S => Cardinality(S \cup {c}) = Cardinality(S) + 1
  BY <1>1, FS_AddElement
<1>4. c \in S => Cardinality(S \ {c}) = Cardinality(S) - 1
  BY <1>1, FS_RemoveElement
<1>5. IsFiniteSet(S \ {c}) /\ Cardinality(S \ {c}) \in Nat
  BY <1>1, FS_RemoveElement, FS_CardinalityType
<1>6. c \notin S => S \ {c} = S
  OBVIOUS
<1> QED
  BY <1>2, <1>3, <1>4, <1>5, <1>6

(* Admitted connections are counted ones. *)
LEMMA AdmittedCounted ==
    /\ Admitted \in SUBSET Conns /\ Counted \in SUBSET Conns
    /\ Cardinality(Admitted) \in Nat /\ Cardinality(Counted) \in Nat
    /\ Cardinality(Admitted) <= Cardinality(Counted)
<1>1. IsFiniteSet(Counted)
  BY ConnsAssumption, FS_Subset DEF Counted
<1>2. Admitted \subseteq Counted
  BY DEF Admitted, Counted
<1> QED
  BY <1>1, <1>2, FS_Subset, FS_CardinalityType DEF Admitted, Counted

(* The initial tracker satisfies the invariant. *)
LEMMA InitIInv == Init => IInv
<1> SUFFICES ASSUME Init PROVE IInv
  OBVIOUS
<1>1. Shape /\ ReleasingHasIp
  BY DEF Init, Shape, PCs, ReleasingHasIp
<1>2. Counted = {} /\ Admitted = {} /\ \A a \in Addrs : Bound(a) = {}
  BY DEF Init, Counted, Admitted, Bound
<1>3. Cardinality({}) = 0
  BY FS_EmptySet
<1> QED
  BY <1>1, <1>2, <1>3, CapsAssumption
  DEF Init, IInv, GlobalCountExact, GlobalCap, PerIpExact

(* Every step of acquire, bind_ip and release preserves the invariant. *)
LEMMA Inductive == IInv /\ [Next]_vars => IInv'
<1> SUFFICES ASSUME IInv, [Next]_vars PROVE IInv'
  OBVIOUS
<1> USE DEF IInv
<1> DEFINE Real == Addrs \ Unspecified
<1>a. /\ Counted \in SUBSET Conns /\ Admitted \in SUBSET Conns
      /\ \A a : Bound(a) \in SUBSET Conns
  BY DEF Counted, Admitted, Bound
<1>1. CASE UNCHANGED vars
  BY <1>1 DEF vars, Shape, ReleasingHasIp, Countable, GlobalCountExact,
              GlobalCap, PerIpExact, Counted, Admitted, Bound
<1>2. ASSUME NEW c \in Conns, NEW a \in Addrs \cup {NoAddr}, Acquire(c, a)
      PROVE  IInv'
  <2>1. Shape' /\ ReleasingHasIp'
    BY <1>2, CanonicalAssumption
    DEF Acquire, Shape, PCs, ReleasingHasIp, Countable
  <2>2. Counted' = Counted \cup {c} /\ c \notin Counted
    BY <1>2 DEF Acquire, Shape, Counted
  <2>3. GlobalCountExact'
    BY <1>2, <2>2, <1>a, OneMore DEF Acquire, Shape, GlobalCountExact
  <2>4. GlobalCap'
    <3>1. CASE current_connections >= MaxConns
      <4>1. Admitted' = Admitted
        BY <1>2, <3>1 DEF Acquire, Shape, Admitted
      <4> QED BY <4>1 DEF GlobalCap
    <3>2. CASE ~(current_connections >= MaxConns)
      <4>1. Admitted' = Admitted \cup {c} /\ c \notin Admitted
        BY <1>2, <3>2 DEF Acquire, Shape, Admitted
      <4>2. Cardinality(Admitted) + 1 <= MaxConns
        BY <3>2, AdmittedCounted, CapsAssumption DEF GlobalCountExact, Shape
      <4> QED BY <4>1, <4>2, <1>a, OneMore DEF GlobalCap
    <3> QED BY <3>1, <3>2
  <2>5. PerIpExact'
    <3>1. \A x \in Real : Bound(x)' = Bound(x)
      BY <1>2 DEF Acquire, Shape, Bound
    <3> QED BY <1>2, <3>1 DEF Acquire, PerIpExact
  <2> QED BY <2>1, <2>3, <2>4, <2>5
<1>3. ASSUME NEW c \in Conns, AcquireIp(c)
      PROVE  IInv'
  <2>1. Shape' /\ ReleasingHasIp'
    BY <1>3 DEF AcquireIp, Shape, PCs, ReleasingHasIp, Countable
  <2>2. Counted' = Counted
    BY <1>3 DEF AcquireIp, Shape, Counted
  <2>3. Admitted' = Admitted \/ Admitted' = Admitted \ {c}
    BY <1>3 DEF AcquireIp, Shape, Admitted
  <2>4. GlobalCountExact' /\ GlobalCap'
    <3>1. /\ Cardinality(Admitted) \in Nat
          /\ Cardinality(Admitted \ {c}) <= Cardinality(Admitted)
          /\ Cardinality(Admitted \ {c}) \in Nat
      BY <1>a, OneMore
    <3>2. GlobalCap'
      BY <2>3, <3>1, CapsAssumption DEF GlobalCap
    <3>3. GlobalCountExact'
      BY <1>3, <2>2 DEF AcquireIp, GlobalCountExact
    <3> QED BY <3>2, <3>3
  <2>5. PerIpExact'
    <3>1. CASE UNCHANGED ip_counts /\ ~(Countable(ip[c]) /\ pc'[c] = "open")
      <4>1. \A x \in Real : Bound(x)' = Bound(x)
        BY <1>3, <3>1, AddrsAssumption DEF AcquireIp, Shape, Bound, Countable
      <4> QED BY <3>1, <4>1 DEF PerIpExact
    <3>2. CASE /\ Countable(ip[c]) /\ ip_counts[ip[c]] < MaxPerIp
               /\ pc' = [pc EXCEPT ![c] = "open"]
               /\ ip_counts' = [ip_counts EXCEPT ![ip[c]] = @ + 1]
      <4>1. PICK j \in Real : j = ip[c]
        BY <3>2 DEF Countable, Shape
      <4>2. \A x \in Real : Bound(x)' = IF x = j THEN Bound(x) \cup {c}
                                        ELSE Bound(x)
        BY <1>3, <3>2, <4>1 DEF AcquireIp, Shape, Bound
      <4>3. c \notin Bound(j)
        BY <1>3 DEF AcquireIp, Bound
      <4>4. Cardinality(Bound(j) \cup {c}) = Cardinality(Bound(j)) + 1
        BY <4>3, <1>a, OneMore
      <4>5. ASSUME NEW x \in Real
            PROVE  /\ ip_counts'[x] = Cardinality(Bound(x)')
                   /\ ip_counts'[x] <= MaxPerIp
        <5>1. /\ ip_counts[x] = Cardinality(Bound(x))
              /\ ip_counts[x] <= MaxPerIp /\ ip_counts[x] \in Int
          BY DEF PerIpExact, Shape
        <5>2. CASE x = j
          <6>1. ip_counts'[x] = ip_counts[x] + 1 /\ ip_counts[x] < MaxPerIp
            BY <3>2, <4>1, <5>2 DEF Shape
          <6>2. Bound(x)' = Bound(x) \cup {c}
            BY <4>2, <5>2
          <6> QED BY <4>4, <5>1, <5>2, <6>1, <6>2, CapsAssumption
        <5>3. CASE x # j
          BY <3>2, <4>1, <4>2, <5>1, <5>3 DEF Shape
        <5> QED BY <5>2, <5>3
      <4> QED BY <4>5 DEF PerIpExact
    <3>3. \/ UNCHANGED ip_counts /\ ~(Countable(ip[c]) /\ pc'[c] = "open")
          \/ /\ Countable(ip[c]) /\ ip_counts[ip[c]] < MaxPerIp
             /\ pc' = [pc EXCEPT ![c] = "open"]
             /\ ip_counts' = [ip_counts EXCEPT ![ip[c]] = @ + 1]
      BY <1>3, CapsAssumption DEF AcquireIp, Shape, Countable
    <3> QED BY <3>1, <3>2, <3>3
  <2> QED BY <2>1, <2>4, <2>5
<1>4. ASSUME NEW c \in Conns, Undo(c)
      PROVE  IInv'
  <2>1. Shape' /\ ReleasingHasIp'
    BY <1>4 DEF Undo, Shape, PCs, ReleasingHasIp, Countable
  <2>2. Counted' = Counted \ {c} /\ c \in Counted /\ Admitted' = Admitted
    BY <1>4 DEF Undo, Shape, Counted, Admitted
  <2>3. GlobalCountExact' /\ GlobalCap'
    BY <1>4, <2>2, <1>a, OneMore DEF Undo, GlobalCountExact, GlobalCap, Shape
  <2>4. \A x \in Real : Bound(x)' = Bound(x)
    BY <1>4 DEF Undo, Shape, Bound
  <2>5. PerIpExact'
    BY <1>4, <2>4 DEF Undo, PerIpExact
  <2> QED BY <2>1, <2>3, <2>5
<1>5. ASSUME NEW c \in Conns, NEW a \in Addrs, BindIp(c, a)
      PROVE  IInv'
  <2> DEFINE i == Canonical[a]
  <2>0. i \in Real
    BY <1>5, CanonicalAssumption DEF BindIp
  <2>1. Shape' /\ ReleasingHasIp'
    BY <1>5, <2>0 DEF BindIp, Shape, PCs, ReleasingHasIp, Countable
  <2>2. Counted' = Counted /\ Admitted' = Admitted
    BY <1>5 DEF BindIp, Counted, Admitted
  <2>3. GlobalCountExact' /\ GlobalCap'
    BY <1>5, <2>2 DEF BindIp, GlobalCountExact, GlobalCap
  <2>4. \A x \in Real : Bound(x)' = IF x = i THEN Bound(x) \cup {c}
                                    ELSE Bound(x)
    BY <1>5, AddrsAssumption DEF BindIp, Shape, Bound
  <2>5. c \notin Bound(i)
    BY <1>5, <2>0, AddrsAssumption DEF BindIp, Bound
  <2>6. Cardinality(Bound(i)') = Cardinality(Bound(i)) + 1
    BY <2>0, <2>4, <2>5, <1>a, OneMore
  <2>7. PerIpExact'
    BY <1>5, <2>0, <2>4, <2>6, CapsAssumption DEF BindIp, PerIpExact, Shape
  <2> QED BY <2>1, <2>3, <2>7
<1>6. ASSUME NEW c \in Conns, Release(c)
      PROVE  IInv'
  <2>1. Shape' /\ ReleasingHasIp'
    BY <1>6 DEF Release, Shape, PCs, ReleasingHasIp, Countable
  <2>2. /\ Counted' = Counted \ {c} /\ c \in Counted
        /\ Admitted' = Admitted \ {c} /\ c \in Admitted
    BY <1>6 DEF Release, Shape, Counted, Admitted
  <2>3. GlobalCountExact' /\ GlobalCap'
    BY <1>6, <2>2, <1>a, OneMore, CapsAssumption
    DEF Release, GlobalCountExact, GlobalCap, Shape
  <2>4. \A x \in Real : Bound(x)' = Bound(x)
    BY <1>6, AddrsAssumption DEF Release, Shape, Bound, Countable
  <2>5. PerIpExact'
    BY <1>6, <2>4 DEF Release, PerIpExact
  <2> QED BY <2>1, <2>3, <2>5
<1>7. ASSUME NEW c \in Conns, ReleaseIp(c)
      PROVE  IInv'
  <2>0. ip[c] \in Real
    BY <1>7 DEF ReleaseIp, ReleasingHasIp, Countable, Shape
  <2>1. Shape' /\ ReleasingHasIp'
    BY <1>7, <2>0 DEF ReleaseIp, Shape, PCs, ReleasingHasIp, Countable
  <2>2. Counted' = Counted /\ Admitted' = Admitted
    BY <1>7 DEF ReleaseIp, Shape, Counted, Admitted
  <2>3. GlobalCountExact' /\ GlobalCap'
    BY <1>7, <2>2 DEF ReleaseIp, GlobalCountExact, GlobalCap
  <2>4. \A x \in Real : Bound(x)' = IF x = ip[c] THEN Bound(x) \ {c}
                                    ELSE Bound(x)
    BY <1>7, AddrsAssumption DEF ReleaseIp, Shape, Bound
  <2>5. c \in Bound(ip[c])
    BY <1>7 DEF ReleaseIp, Bound
  <2>6. /\ Cardinality(Bound(ip[c]) \ {c}) = Cardinality(Bound(ip[c])) - 1
        /\ Cardinality(Bound(ip[c])) >= 1 /\ Cardinality(Bound(ip[c])) \in Nat
    BY <2>5, <1>a, OneMore
  <2>7. ASSUME NEW x \in Real
        PROVE  ip_counts'[x] = Cardinality(Bound(x)') /\ ip_counts'[x] <= MaxPerIp
    <3>1. CASE x = ip[c]
      <4>1. ip_counts[x] = Cardinality(Bound(x)) /\ ip_counts[x] <= MaxPerIp
        BY DEF PerIpExact
      <4>2. ip_counts'[x] = ip_counts[x] - 1
        BY <1>7, <2>0, <2>6, <3>1, <4>1 DEF ReleaseIp, Shape
      <4>3. Bound(x)' = Bound(x) \ {c}
        BY <2>4, <3>1
      <4>4. /\ Cardinality(Bound(x) \ {c}) = Cardinality(Bound(x)) - 1
            /\ Cardinality(Bound(x)) \in Nat
        BY <2>6, <3>1
      <4> QED BY <4>1, <4>2, <4>3, <4>4, CapsAssumption
    <3>2. CASE x # ip[c]
      BY <1>7, <2>4, <3>2 DEF ReleaseIp, Shape, PerIpExact
    <3> QED BY <3>1, <3>2
  <2>8. PerIpExact'
    BY <2>7 DEF PerIpExact
  <2> QED BY <2>1, <2>3, <2>8
<1> QED
  BY <1>1, <1>2, <1>3, <1>4, <1>5, <1>6, <1>7 DEF Next

(* The inductive invariant holds in every reachable state. *)
THEOREM Invariance == Spec => []IInv
<1>1. QED
  BY InitIInv, Inductive, PTL DEF Spec

(* Every variable keeps its type: in particular no sequence of rejections and
   drops makes the unsigned global counter wrap below 0. *)
THEOREM TypeCorrect == Spec => []TypeOK
<1>1. IInv => TypeOK
  BY AdmittedCounted DEF IInv, Shape, TypeOK, GlobalCountExact
<1> QED
  BY Invariance, <1>1, PTL

(* No interleaving of accepts, rejections and closes admits more connections
   than max_connections. *)
THEOREM GlobalCapHolds == Spec => []GlobalCap
<1>1. IInv => GlobalCap
  BY DEF IInv
<1> QED
  BY Invariance, <1>1, PTL

(* The per-IP map counts exactly the connections bound to each address, and
   never more than max_connections_per_ip. *)
THEOREM PerIpHolds == Spec => []PerIpExact
<1>1. IInv => PerIpExact
  BY DEF IInv
<1> QED
  BY Invariance, <1>1, PTL

(* The global counter leaks no permit: it equals the number of connections
   that hold one. *)
THEOREM NoPermitLeaks == Spec => []GlobalCountExact
<1>1. IInv => GlobalCountExact
  BY DEF IInv
<1> QED
  BY Invariance, <1>1, PTL

(* The counter, incremented before it is compared and corrected afterwards,
   implements the pool of permits: a step of acquire takes one, a rejection
   and a release give one back, and every other step leaves the holders. *)
THEOREM ImplementsPool == Spec => PermitsPooled
<1>1. Init => Pool!Init
  BY DEF Init, Admitted, Pool!Init
<1>2. IInv /\ [Next]_vars => [Pool!Next]_Admitted
  <2> SUFFICES ASSUME IInv, [Next]_vars
               PROVE  Pool!Next \/ Admitted' = Admitted
    OBVIOUS
  <2> USE DEF IInv
  <2>1. CASE UNCHANGED vars
    BY <2>1 DEF vars, Admitted
  <2>2. ASSUME NEW c \in Conns, NEW a \in Addrs \cup {NoAddr}, Acquire(c, a)
        PROVE  Pool!Next \/ Admitted' = Admitted
    <3>1. CASE current_connections >= MaxConns
      BY <2>2, <3>1 DEF Acquire, Shape, Admitted
    <3>2. CASE ~(current_connections >= MaxConns)
      <4>1. Admitted' = Admitted \cup {c} /\ c \notin Admitted
        BY <2>2, <3>2 DEF Acquire, Shape, Admitted
      <4>2. Cardinality(Admitted) < MaxConns
        BY <3>2, AdmittedCounted, CapsAssumption DEF GlobalCountExact, Shape
      <4>3. Pool!Take(c)
        BY <4>1, <4>2 DEF Pool!Take, Pool!Cardinality, Cardinality
      <4> QED BY <4>3 DEF Pool!Next
    <3> QED BY <3>1, <3>2
  <2>3. ASSUME NEW c \in Conns, AcquireIp(c)
        PROVE  Pool!Next \/ Admitted' = Admitted
    <3>1. \/ Admitted' = Admitted
          \/ c \in Admitted /\ Admitted' = Admitted \ {c}
      BY <2>3 DEF AcquireIp, Shape, Admitted
    <3> QED BY <3>1 DEF Pool!Next, Pool!Give
  <2>4. ASSUME NEW c \in Conns, Undo(c)
        PROVE  Admitted' = Admitted
    BY <2>4 DEF Undo, Shape, Admitted
  <2>5. ASSUME NEW c \in Conns, NEW a \in Addrs, BindIp(c, a)
        PROVE  Admitted' = Admitted
    BY <2>5 DEF BindIp, Admitted
  <2>6. ASSUME NEW c \in Conns, Release(c)
        PROVE  Pool!Next
    <3>1. c \in Admitted /\ Admitted' = Admitted \ {c}
      BY <2>6 DEF Release, Shape, Admitted
    <3> QED BY <3>1 DEF Pool!Next, Pool!Give
  <2>7. ASSUME NEW c \in Conns, ReleaseIp(c)
        PROVE  Admitted' = Admitted
    BY <2>7 DEF ReleaseIp, Shape, Admitted
  <2> QED
    BY <2>1, <2>2, <2>3, <2>4, <2>5, <2>6, <2>7 DEF Next
<1> QED
  BY <1>1, <1>2, Invariance, PTL DEF Spec, PermitsPooled, Pool!Spec

-----------------------------------------------------------------------------
(* The tunnel: GatewayTunnel *)

(* The connections the relay's global counter stands for, and those it let
   in. *)
RelayCounted  == {c \in Conns : r_pc[c] \in {"ip", "undo", "open"}}
RelayAdmitted == {c \in Conns : r_pc[c] \in {"ip", "open"}}

RelayShape ==
    /\ r_global \in Int
    /\ r_counts \in [Addrs -> 0..RelayMaxPerIp]
    /\ r_pc \in [Conns -> relay!PCs]
    /\ r_ip \in [Conns -> Addrs \cup {NoAddr}]
    /\ \A c \in Conns : r_pc[c] # "closed" => r_ip[c] \in Addrs

(* The relay's tracker: a rejected connection is counted until it gives its
   permit back, hence the cap on the admitted ones. *)
RelayInv ==
    /\ RelayShape
    /\ r_global = Cardinality(RelayCounted)
    /\ RelayCountsHold

StreamShape ==
    /\ conf \in [tunnel : BOOLEAN, asks : BOOLEAN, grants : BOOLEAN, local : BOOLEAN]
    /\ conf.local => conf.grants
    /\ client \in [Conns -> Public \cup {NoAddr}]
    /\ pipe \in [Conns -> Pipes]
    /\ stage \in [Conns -> Stages]
    /\ peer \in [Conns -> Addrs \cup {NoAddr}]

(* Stream and client exist as long as one of the two sides holds them, and a
   stream with a peer has a permit that is bound to it. *)
StreamOk(c) ==
    /\ pipe[c] # "none" \/ r_pc[c] \in {"ip", "open"} => client[c] \in Public
    /\ pipe[c] # "none" => r_pc[c] \notin {"ip", "undo"}
    /\ pipe[c] = "fin" => r_pc[c] # "open"
    /\ pipe[c] = "open" => stage[c] = "none"
    /\ stage[c] # "none" => pipe[c] # "none"
    /\ stage[c] \in {"tls", "serving"} =>
          /\ pc[c] = "open"
          /\ \/ /\ conf.asks /\ conf.grants
                /\ Canonical[peer[c]] = Canonical[client[c]]
                /\ ip[c] = Canonical[client[c]]
             \/ /\ ~conf.asks \/ conf.local
                /\ peer[c] \in Unspecified /\ ip[c] = NoAddr
    /\ stage[c] = "peer" => pc[c] \in {"ip", "undo", "open"} /\ ip[c] = NoAddr

StreamsOk == \A c \in Conns : StreamOk(c)

(* The inductive invariant of the composition. *)
TunnelInv == IInv /\ RelayInv /\ StreamShape /\ StreamsOk

(* RelayLimits counts with the Cardinality of its own FiniteSets. *)
LEMMA SameCardinality == \A S : relay!Cardinality(S) = Cardinality(S)
  BY DEF relay!Cardinality, Cardinality

(* The start: nothing is connected. *)
LEMMA TunnelInitInv == TunnelInit => TunnelInv
<1> SUFFICES ASSUME TunnelInit PROVE TunnelInv
  OBVIOUS
<1>1. IInv
  BY InitIInv DEF TunnelInit
<1>2. RelayShape
  BY RelayCapsAssumption DEF TunnelInit, relay!Init, RelayShape, relay!PCs
<1>3. RelayCounted = {} /\ RelayAdmitted = {} /\ \A a \in Addrs : relay!Holders(a) = {}
  BY DEF TunnelInit, relay!Init, RelayCounted, RelayAdmitted, relay!Holders
<1>4. Cardinality({}) = 0
  BY FS_EmptySet
<1>5. RelayCountsHold
  BY <1>3, <1>4, RelayCapsAssumption, SameCardinality
  DEF TunnelInit, relay!Init, RelayCountsHold, relay!NeverOvercounts, RelayAdmitted
<1>6. RelayInv
  BY <1>2, <1>3, <1>4, <1>5 DEF RelayInv, TunnelInit, relay!Init
<1>7. StreamShape /\ StreamsOk
  BY DEF TunnelInit, relay!Init, StreamShape, StreamsOk, StreamOk, Pipes, Stages
<1> QED
  BY <1>1, <1>6, <1>7 DEF TunnelInv

(* The relay's tracker keeps its counts, whatever its accept loop and the tasks
   that drop their guards do between each other's steps. *)
LEMMA RelayInductive == RelayInv /\ [relay!Next]_relay_vars => RelayInv'
<1> SUFFICES ASSUME RelayInv, [relay!Next]_relay_vars PROVE RelayInv'
  OBVIOUS
<1> USE DEF RelayInv
<1>0. /\ RelayCounted \in SUBSET Conns /\ RelayAdmitted \in SUBSET Conns
      /\ \A a \in Addrs : relay!Holders(a) \in SUBSET Conns
      /\ RelayShape /\ r_global = Cardinality(RelayCounted)
      /\ Cardinality(RelayAdmitted) <= RelayMax
      /\ \A a \in Addrs : r_counts[a] <= Cardinality(relay!Holders(a))
  BY SameCardinality DEF RelayCounted, RelayAdmitted, relay!Holders,
                         RelayCountsHold, relay!NeverOvercounts
<1>1. CASE UNCHANGED relay_vars
  BY <1>1 DEF relay_vars, RelayShape, RelayCounted, RelayCountsHold,
              relay!NeverOvercounts, relay!Holders
<1>2. ASSUME NEW c \in Conns, NEW a \in Addrs, relay!Acquire(c, a) PROVE RelayInv'
  <2>1. RelayShape'
    BY <1>0, <1>2 DEF relay!Acquire, relay!Goto, RelayShape, relay!PCs
  <2>2. RelayCounted' = RelayCounted \cup {c} /\ c \notin RelayCounted
    BY <1>0, <1>2 DEF relay!Acquire, relay!At, relay!Goto, RelayShape, RelayCounted
  <2>3. r_global' = Cardinality(RelayCounted')
    BY <1>0, <1>2, <2>2, OneMore DEF relay!Acquire
  <2>4. \A b \in Addrs : relay!Holders(b)' = relay!Holders(b) /\ r_counts' = r_counts
    BY <1>0, <1>2 DEF relay!Acquire, relay!At, relay!Goto, RelayShape, relay!Holders
  <2>5. Cardinality(RelayAdmitted') <= RelayMax
    <3>1. RelayAdmitted \subseteq RelayCounted /\ c \notin RelayAdmitted
      BY <2>2 DEF RelayAdmitted, RelayCounted
    <3>2. Cardinality(RelayAdmitted) <= Cardinality(RelayCounted)
      BY <1>0, <3>1, ConnsAssumption, FS_Subset
    <3>3. CASE r_global >= RelayMax
      <4>1. RelayAdmitted' = RelayAdmitted
        BY <1>0, <1>2, <3>3
        DEF relay!Acquire, relay!At, relay!Goto, RelayShape, RelayAdmitted
      <4> QED
        BY <1>0, <4>1
    <3>4. CASE ~(r_global >= RelayMax)
      <4>1. RelayAdmitted' = RelayAdmitted \cup {c}
        BY <1>0, <1>2, <3>4
        DEF relay!Acquire, relay!At, relay!Goto, RelayShape, RelayAdmitted
      <4>2. Cardinality(RelayAdmitted') = Cardinality(RelayAdmitted) + 1
        BY <1>0, <3>1, <4>1, OneMore
      <4>3. Cardinality(RelayAdmitted) \in Nat /\ r_global \in Int
        BY <1>0, OneMore DEF RelayShape
      <4> QED
        BY <1>0, <3>2, <3>4, <4>2, <4>3, RelayCapsAssumption
    <3> QED
      BY <3>3, <3>4
  <2> QED
    BY <1>0, <2>1, <2>3, <2>4, <2>5, SameCardinality
    DEF RelayCountsHold, relay!NeverOvercounts, RelayAdmitted
<1>3. ASSUME NEW c \in Conns, relay!AcquireIp(c) PROVE RelayInv'
  <2>0. PICK a \in Addrs : a = r_ip[c]
    BY <1>0, <1>3 DEF relay!AcquireIp, relay!At, RelayShape
  <2>1. RelayShape'
    BY <1>0, <1>3, RelayCapsAssumption
    DEF relay!AcquireIp, relay!At, relay!Goto, RelayShape, relay!PCs
  <2>2. RelayCounted' = RelayCounted /\ r_global' = r_global
    BY <1>0, <1>3
    DEF relay!AcquireIp, relay!At, relay!Goto, RelayShape, RelayCounted
  <2>3. Cardinality(RelayAdmitted') <= RelayMax
    <3>1. RelayAdmitted' = RelayAdmitted \/ RelayAdmitted' = RelayAdmitted \ {c}
      BY <1>0, <1>3
      DEF relay!AcquireIp, relay!At, relay!Goto, RelayShape, RelayAdmitted
    <3>2. /\ Cardinality(RelayAdmitted \ {c}) <= Cardinality(RelayAdmitted)
          /\ Cardinality(RelayAdmitted \ {c}) \in Nat
          /\ Cardinality(RelayAdmitted) \in Nat
      BY <1>0, OneMore
    <3>3. CASE RelayAdmitted' = RelayAdmitted
      BY <1>0, <3>3
    <3>4. CASE RelayAdmitted' = RelayAdmitted \ {c}
      BY <1>0, <3>2, <3>4, RelayCapsAssumption
    <3> QED
      BY <3>1, <3>3, <3>4
  <2>4. ASSUME NEW b \in Addrs PROVE r_counts'[b] <= Cardinality(relay!Holders(b)')
    <3>1. \/ relay!Holders(b)' = relay!Holders(b) /\ r_counts'[b] = r_counts[b]
          \/ /\ c \notin relay!Holders(b)
             /\ relay!Holders(b)' = relay!Holders(b) \cup {c}
             /\ r_counts'[b] = r_counts[b] + 1
      <4>1. CASE r_counts' = r_counts
        BY <1>0, <1>3, <4>1
        DEF relay!AcquireIp, relay!At, relay!Goto, RelayShape, relay!Holders
      <4>2. CASE r_counts' # r_counts
        <5>1. /\ r_pc[c] = "ip" /\ r_pc' = [r_pc EXCEPT ![c] = "open"] /\ r_ip' = r_ip
              /\ r_counts' = [r_counts EXCEPT ![a] = r_counts[a] + 1]
          BY <1>3, <2>0, <4>2 DEF relay!AcquireIp, relay!At, relay!Goto
        <5>2. CASE b = a
          BY <1>0, <2>0, <5>1, <5>2 DEF RelayShape, relay!Holders
        <5>3. CASE b # a
          BY <1>0, <2>0, <5>1, <5>3 DEF RelayShape, relay!Holders
        <5> QED
          BY <5>2, <5>3
      <4> QED
        BY <4>1, <4>2
    <3>2. r_counts[b] \in Int /\ r_counts[b] <= Cardinality(relay!Holders(b))
      BY <1>0 DEF RelayShape
    <3>3. Cardinality(relay!Holders(b)) \in Nat
      BY <1>0, OneMore
    <3>4. CASE relay!Holders(b)' = relay!Holders(b) /\ r_counts'[b] = r_counts[b]
      BY <3>2, <3>4
    <3>5. CASE /\ c \notin relay!Holders(b)
               /\ relay!Holders(b)' = relay!Holders(b) \cup {c}
               /\ r_counts'[b] = r_counts[b] + 1
      <4>1. Cardinality(relay!Holders(b)') = Cardinality(relay!Holders(b)) + 1
        BY <1>0, <3>5, OneMore
      <4> QED
        BY <3>2, <3>3, <3>5, <4>1
    <3> QED
      BY <3>1, <3>4, <3>5
  <2> QED
    BY <1>0, <2>1, <2>2, <2>3, <2>4, SameCardinality
    DEF RelayCountsHold, relay!NeverOvercounts, RelayAdmitted
<1>4. ASSUME NEW c \in Conns, relay!Undo(c) \/ relay!Drop(c) PROVE RelayInv'
  <2>1. RelayShape'
    BY <1>0, <1>4
    DEF relay!Undo, relay!Drop, relay!Closed, relay!Goto, relay!At, RelayShape, relay!PCs
  <2>2. /\ RelayCounted' = RelayCounted \ {c} /\ c \in RelayCounted
        /\ r_global' = r_global - 1
        /\ RelayAdmitted' = RelayAdmitted \ {c}
        /\ r_counts' = r_counts
    BY <1>0, <1>4
    DEF relay!Undo, relay!Drop, relay!Closed, relay!Goto, relay!At, RelayShape,
        RelayCounted, RelayAdmitted
  <2>3. \A b \in Addrs : relay!Holders(b)' = relay!Holders(b)
    BY <1>0, <1>4, AddrsAssumption
    DEF relay!Undo, relay!Drop, relay!Closed, relay!Goto, relay!At, RelayShape,
        relay!Holders
  <2>4. r_global' = Cardinality(RelayCounted')
    BY <1>0, <2>2, OneMore
  <2>5. Cardinality(RelayAdmitted') <= RelayMax
    <3>1. /\ Cardinality(RelayAdmitted \ {c}) <= Cardinality(RelayAdmitted)
          /\ Cardinality(RelayAdmitted \ {c}) \in Nat
          /\ Cardinality(RelayAdmitted) \in Nat
      BY <1>0, OneMore
    <3> QED
      BY <1>0, <2>2, <3>1, RelayCapsAssumption
  <2> QED
    BY <1>0, <2>1, <2>2, <2>3, <2>4, <2>5, SameCardinality
    DEF RelayCountsHold, relay!NeverOvercounts, RelayAdmitted
<1>5. ASSUME NEW c \in Conns, relay!DropIp(c) \/ relay!DropRemove(c) PROVE RelayInv'
  <2>0. PICK a \in Addrs : a = r_ip[c]
    BY <1>0, <1>5 DEF relay!DropIp, relay!DropRemove, relay!At, RelayShape
  <2>1. RelayShape'
    BY <1>0, <1>5, RelayCapsAssumption
    DEF relay!DropIp, relay!DropRemove, relay!Closed, relay!Goto, relay!At,
        RelayShape, relay!PCs
  <2>2. /\ RelayCounted' = RelayCounted /\ RelayAdmitted' = RelayAdmitted
        /\ r_global' = r_global
    BY <1>0, <1>5
    DEF relay!DropIp, relay!DropRemove, relay!Closed, relay!Goto, relay!At,
        RelayShape, RelayCounted, RelayAdmitted
  <2>3. ASSUME NEW b \in Addrs PROVE r_counts'[b] <= Cardinality(relay!Holders(b)')
    <3>0. /\ r_counts[b] \in Nat /\ r_counts[b] <= Cardinality(relay!Holders(b))
          /\ Cardinality(relay!Holders(b)) \in Nat
      <4>1. r_counts[b] \in 0..RelayMaxPerIp
        BY <1>0 DEF RelayShape
      <4>2. Cardinality(relay!Holders(b)) \in Nat
        BY <1>0, OneMore
      <4> QED
        BY <1>0, <4>1, <4>2, RelayCapsAssumption
    <3>1. CASE b # a
      <4>1. relay!Holders(b)' = relay!Holders(b) /\ r_counts'[b] = r_counts[b]
        BY <1>0, <1>5, <2>0, <3>1, AddrsAssumption
        DEF relay!DropIp, relay!DropRemove, relay!Closed, relay!Goto, relay!At,
            RelayShape, relay!Holders
      <4> QED
        BY <3>0, <4>1
    <3>2. CASE b = a /\ relay!DropIp(c)
      <4>1. c \in relay!Holders(b) /\ relay!Holders(b)' = relay!Holders(b) \ {c}
        BY <1>0, <2>0, <3>2, AddrsAssumption
        DEF relay!DropIp, relay!Closed, relay!Goto, relay!At, RelayShape, relay!Holders
      <4>2. r_counts'[b] = IF r_counts[b] > 0 THEN r_counts[b] - 1 ELSE r_counts[b]
        BY <1>0, <2>0, <3>2 DEF relay!DropIp, RelayShape
      <4>3. /\ Cardinality(relay!Holders(b)') = Cardinality(relay!Holders(b)) - 1
            /\ Cardinality(relay!Holders(b)) >= 1
        BY <1>0, <4>1, OneMore
      <4> QED
        BY <3>0, <4>2, <4>3
    <3>3. CASE b = a /\ relay!DropRemove(c)
      <4>1. relay!Holders(b)' = relay!Holders(b) /\ r_counts'[b] = 0
        BY <1>0, <2>0, <3>3, AddrsAssumption
        DEF relay!DropRemove, relay!Closed, relay!Goto, relay!At, RelayShape,
            relay!Holders
      <4> QED
        BY <3>0, <4>1
    <3> QED
      BY <1>5, <3>1, <3>2, <3>3
  <2> QED
    BY <1>0, <2>1, <2>2, <2>3, SameCardinality
    DEF RelayCountsHold, relay!NeverOvercounts, RelayAdmitted
<1> QED
  BY <1>1, <1>2, <1>3, <1>4, <1>5 DEF relay!Next

(* The address that read_proxy_v2 finds is one, has the canonical form of the
   client's, and is never unspecified. *)
LEMMA ProxyAddress ==
    ASSUME NEW a \in Public
    PROVE  LET p == ReadProxyV2(EncodeProxyV2(a))
           IN p \in Addrs \ Unspecified /\ Canonical[p] = Canonical[a]
<1>1. a \in Addrs \ Unspecified
  BY PublicAssumption
<1>2. CASE a \in V6 /\ \E v \in DOMAIN Mapped : Mapped[v] = a
  <2>1. PICK v \in DOMAIN Mapped : Mapped[v] = a /\ v = ReadProxyV2(EncodeProxyV2(a))
    BY <1>2 DEF ReadProxyV2, EncodeProxyV2
  <2> QED
    BY <2>1, MappedAssumption
<1>3. CASE ~(a \in V6 /\ \E v \in DOMAIN Mapped : Mapped[v] = a)
  BY <1>1, <1>3 DEF ReadProxyV2, EncodeProxyV2
<1> QED
  BY <1>2, <1>3

(* Only the gateway's own steps touch its tracker, each as one of its steps. *)
LEMMA TrackerStep == TunnelInv /\ [TunnelNext]_all_vars => [Next]_vars
<1> SUFFICES ASSUME TunnelInv, [TunnelNext]_all_vars PROVE [Next]_vars
  OBVIOUS
<1>1. CASE UNCHANGED all_vars
  BY <1>1 DEF all_vars
<1>2. CASE Connect \/ Leave \/ Pause \/ Cancel \/ Register \/ RelayNotices
             \/ NetFails \/ NetHeals
  BY <1>2 DEF Connect, Leave, Pause, Cancel, Register, RelayNotices, NetFails, NetHeals
<1>3. ASSUME NEW c \in Tunnelled, NEW a \in Public, Arrive(c, a) PROVE UNCHANGED vars
  BY <1>3 DEF Arrive
<1>4. ASSUME NEW c \in Conns,
             \/ RelayAcquires(c) \/ OpenStream(c) \/ WriteStream(c)
             \/ RelayCloses(c) \/ RelayReleases(c) \/ Serve(c)
      PROVE  UNCHANGED vars
  BY <1>4 DEF RelayAcquires, OpenStream, WriteStream, RelayCloses, RelayReleases, Serve
<1>5. ASSUME NEW c \in Conns,
             \/ AcceptStream(c) \/ GatewayAcquires(c) \/ GatewayRejects(c)
             \/ TaskEnds(c) \/ GatewayReleases(c)
             \/ \E a \in Addrs \ Unspecified : AcceptSocket(c, a)
      PROVE  Next
  BY <1>5 DEF AcceptStream, GatewayAcquires, GatewayRejects, TaskEnds,
              GatewayReleases, AcceptSocket, Next
<1>6. ASSUME NEW c \in Conns, BindPeer(c) PROVE Next \/ UNCHANGED vars
  <2> SUFFICES ASSUME NEW p \in ResolveTunnelPeer(c), Countable(p), BindIp(c, p)
               PROVE  Next
    BY <1>6 DEF BindPeer
  <2>1. /\ pipe[c] \in {"addr", "sent", "fin"}
        /\ p = ReadProxyV2(EncodeProxyV2(client[c]))
    BY DEF ResolveTunnelPeer, HeaderPeers, HasHeader, Countable
  <2>2. client[c] \in Public
    BY <2>1 DEF TunnelInv, StreamsOk, StreamOk
  <2>3. p \in Addrs
    BY <2>1, <2>2, ProxyAddress
  <2> QED
    BY <2>3 DEF Next
<1> QED
  BY <1>1, <1>2, <1>3, <1>4, <1>5, <1>6 DEF TunnelNext

(* Likewise for the relay's tracker. *)
LEMMA RelayStep == TunnelInv /\ [TunnelNext]_all_vars => [relay!Next]_relay_vars
<1> SUFFICES ASSUME TunnelInv, [TunnelNext]_all_vars
             PROVE  relay!Next \/ UNCHANGED relay_vars
  OBVIOUS
<1>1. CASE UNCHANGED all_vars
  BY <1>1 DEF all_vars
<1>2. CASE Connect \/ Leave \/ Pause \/ Cancel \/ Register \/ RelayNotices
             \/ NetFails \/ NetHeals
  BY <1>2 DEF Connect, Leave, Pause, Cancel, Register, RelayNotices, NetFails, NetHeals
<1>3. ASSUME NEW c \in Tunnelled, NEW a \in Public, Arrive(c, a) PROVE relay!Next
  <2>1. c \in Conns /\ Canonical[a] \in Addrs
    BY PublicAssumption, CanonicalAssumption
  <2> QED
    BY <1>3, <2>1 DEF Arrive, relay!Next
<1>4. ASSUME NEW c \in Conns, RelayAcquires(c) \/ RelayCloses(c) \/ RelayReleases(c)
      PROVE  relay!Next
  BY <1>4 DEF RelayAcquires, RelayCloses, RelayReleases, relay!Next
<1>5. ASSUME NEW c \in Conns,
             \/ OpenStream(c) \/ WriteStream(c) \/ Serve(c)
             \/ AcceptStream(c) \/ GatewayAcquires(c) \/ GatewayRejects(c)
             \/ BindPeer(c) \/ TaskEnds(c) \/ GatewayReleases(c)
             \/ \E a \in Addrs \ Unspecified : AcceptSocket(c, a)
      PROVE  UNCHANGED relay_vars
  BY <1>5 DEF OpenStream, WriteStream, Serve, AcceptStream, GatewayAcquires,
              GatewayRejects, BindPeer, TaskEnds, GatewayReleases, AcceptSocket,
              DropStream
<1> QED
  BY <1>1, <1>2, <1>3, <1>4, <1>5 DEF TunnelNext

(* A client is kept as long as its stream or its permit of the relay. *)
LEMMA Forgotten ==
    ASSUME TunnelInv, ForgetGone
    PROVE  /\ client' \in [Conns -> Public \cup {NoAddr}]
           /\ \A b \in Conns : pipe'[b] # "none" \/ r_pc'[b] \in {"ip", "open"}
                 => client'[b] = client[b]
  BY DEF TunnelInv, StreamShape, ForgetGone

(* Steps that leave every stream alone, and no permit of one that is served. *)
LEMMA StreamsUntouched ==
    ASSUME TunnelInv, UNCHANGED <<conf, stream_vars>>,
           \A b \in Conns :
              /\ r_pc'[b] = r_pc[b] \/ r_pc'[b] \notin {"ip", "undo", "open"}
              /\ pc[b] = "open" => pc'[b] = "open"
              /\ pc[b] \in {"ip", "undo", "open"} =>
                    pc'[b] \in {"ip", "undo", "open"} /\ ip'[b] = ip[b]
    PROVE  StreamShape' /\ StreamsOk'
<1>1. StreamShape'
  BY DEF TunnelInv, StreamShape, stream_vars
<1>2. ASSUME NEW b \in Conns PROVE StreamOk(b)'
  <2>1. /\ StreamOk(b) /\ UNCHANGED <<client, pipe, stage, peer, conf>>
        /\ r_pc'[b] = r_pc[b] \/ r_pc'[b] \notin {"ip", "undo", "open"}
        /\ pc[b] = "open" => pc'[b] = "open"
        /\ pc[b] \in {"ip", "undo", "open"} =>
              pc'[b] \in {"ip", "undo", "open"} /\ ip'[b] = ip[b]
    BY DEF TunnelInv, StreamsOk, stream_vars
  <2> QED
    BY <2>1 DEF StreamOk
<1> QED
  BY <1>1, <1>2 DEF StreamsOk

(* The tunnel is lost, given up, or its loss noticed by the relay: no stream
   goes while a side holds it. *)
LEMMA TunnelEndPreserves ==
    ASSUME TunnelInv, Leave \/ NetFails \/ RelayNotices
    PROVE  StreamShape' /\ StreamsOk'
<1> USE DEF TunnelInv
<1>0. UNCHANGED <<conf, vars, relay_vars, stage, peer>>
  BY DEF Leave, NetFails, RelayNotices
<1>1. pc' = pc /\ ip' = ip /\ r_pc' = r_pc
  BY <1>0 DEF vars, relay_vars
<1>2. /\ pipe' \in [Conns -> Pipes]
      /\ \A b \in Conns :
           \/ pipe'[b] = pipe[b]
           \/ pipe[b] # "none" /\ pipe'[b] \in {"lost", "reset"}
           \/ pipe'[b] = "none" /\ stage[b] = "none"
  <2>1. CASE RelayNotices
    BY <2>1 DEF RelayNotices, StreamShape, Pipes
  <2>2. CASE StreamsDie
    BY <2>2 DEF StreamsDie, Dead, GatewayHolds, StreamShape, Pipes
  <2> QED
    BY <2>1, <2>2 DEF Leave, NetFails
<1>3. /\ client' \in [Conns -> Public \cup {NoAddr}]
      /\ \A b \in Conns : pipe'[b] # "none" \/ r_pc'[b] \in {"ip", "open"}
                 => client'[b] = client[b]
  BY Forgotten DEF Leave, NetFails, RelayNotices, StreamShape
<1>4. StreamShape'
  BY <1>0, <1>2, <1>3 DEF StreamShape
<1>5. ASSUME NEW b \in Conns PROVE StreamOk(b)'
  <2>1. /\ StreamOk(b) /\ stage'[b] = stage[b] /\ peer'[b] = peer[b]
        /\ pc'[b] = pc[b] /\ ip'[b] = ip[b] /\ r_pc'[b] = r_pc[b] /\ conf' = conf
    BY <1>0, <1>1 DEF StreamsOk
  <2>2. /\ \/ pipe'[b] = pipe[b]
           \/ pipe[b] # "none" /\ pipe'[b] \in {"lost", "reset"}
           \/ pipe'[b] = "none" /\ stage[b] = "none"
        /\ pipe'[b] # "none" \/ r_pc[b] \in {"ip", "open"} => client'[b] = client[b]
    BY <1>1, <1>2, <1>3
  <2> QED
    BY <2>1, <2>2 DEF StreamOk
<1> QED
  BY <1>4, <1>5 DEF StreamsOk

(* The relay's data plane: from the accepted connection to its end. *)
LEMMA RelaySidePreserves ==
    ASSUME TunnelInv, NEW c \in Conns,
           \/ \E a \in Public : Arrive(c, a)
           \/ RelayAcquires(c) \/ OpenStream(c) \/ WriteStream(c) \/ RelayCloses(c)
    PROVE  StreamShape' /\ StreamsOk'
<1> USE DEF TunnelInv
<1>0. UNCHANGED <<conf, vars, stage, peer>>
  BY DEF Arrive, RelayAcquires, OpenStream, WriteStream, RelayCloses
<1>1. pc' = pc /\ ip' = ip
  BY <1>0 DEF vars
<1>2. \A b \in Conns : StreamOk(b)
  BY DEF StreamsOk
<1>3. ASSUME NEW a \in Public, Arrive(c, a) PROVE StreamShape' /\ StreamsOk'
  <2>1. /\ pipe[c] = "none" /\ pipe' = pipe /\ client' = [client EXCEPT ![c] = a]
        /\ \A b \in Conns : b # c => r_pc'[b] = r_pc[b]
    BY <1>3 DEF Arrive, relay!Acquire, relay!Goto, RelayInv, RelayShape
  <2>2. StreamShape'
    BY <1>0, <2>1 DEF StreamShape
  <2>3. ASSUME NEW b \in Conns PROVE StreamOk(b)'
    <3>1. CASE b = c
      <4>1. stage[b] = "none" /\ pipe'[b] = "none" /\ client'[b] = a /\ stage' = stage
        BY <1>0, <1>2, <2>1, <3>1 DEF StreamOk, StreamShape
      <4> QED
        BY <4>1 DEF StreamOk
    <3>2. CASE b # c
      <4>1. client'[b] = client[b] /\ r_pc'[b] = r_pc[b] /\ pipe' = pipe
        BY <2>1, <3>2 DEF StreamShape
      <4> QED
        BY <1>0, <1>1, <1>2, <4>1 DEF StreamOk
    <3> QED
      BY <3>1, <3>2
  <2> QED
    BY <2>2, <2>3 DEF StreamsOk
<1>4. CASE RelayAcquires(c)
  <2>1. /\ r_pc[c] \in {"ip", "undo"} /\ pipe' = pipe
        /\ \A b \in Conns : b # c => r_pc'[b] = r_pc[b]
        /\ r_pc[c] = "undo" => r_pc'[c] = "closed"
    BY <1>4 DEF RelayAcquires, relay!AcquireIp, relay!Undo, relay!At, relay!Goto,
                relay!Closed, RelayInv, RelayShape
  <2>2. /\ client' \in [Conns -> Public \cup {NoAddr}]
        /\ \A b \in Conns : pipe'[b] # "none" \/ r_pc'[b] \in {"ip", "open"}
                 => client'[b] = client[b]
    BY <1>4, Forgotten DEF RelayAcquires
  <2>3. StreamShape'
    BY <1>0, <2>1, <2>2 DEF StreamShape
  <2>4. ASSUME NEW b \in Conns PROVE StreamOk(b)'
    <3>1. CASE b = c
      <4>1. pipe[b] = "none" /\ stage[b] = "none"
        BY <1>2, <2>1, <3>1 DEF StreamOk
      <4>2. r_pc[b] = "ip" => client[b] \in Public
        BY <1>2 DEF StreamOk
      <4> QED
        BY <1>0, <2>1, <2>2, <3>1, <4>1, <4>2 DEF StreamOk
    <3>2. CASE b # c
      <4>1. /\ r_pc'[b] = r_pc[b] /\ pipe' = pipe
            /\ pipe[b] # "none" \/ r_pc[b] \in {"ip", "open"} => client'[b] = client[b]
        BY <2>1, <2>2, <3>2
      <4> QED
        BY <1>0, <1>1, <1>2, <4>1 DEF StreamOk
    <3> QED
      BY <3>1, <3>2
  <2> QED
    BY <2>3, <2>4 DEF StreamsOk
<1>5. CASE OpenStream(c) \/ WriteStream(c)
  <2>1. r_pc' = r_pc /\ client' = client /\ r_pc[c] = "open"
    BY <1>5 DEF OpenStream, WriteStream, relay_vars, RelayHolds
  <2>2. /\ pipe' \in [Conns -> Pipes] /\ \A b \in Conns : b # c => pipe'[b] = pipe[b]
        /\ \/ pipe[c] = "none" /\ pipe'[c] \in {"open", "lost"}
           \/ pipe[c] # "none" /\ pipe'[c] \in {"addr", "sent"}
    BY <1>5 DEF OpenStream, WriteStream, StreamShape, Pipes
  <2>3. StreamShape'
    BY <1>0, <2>1, <2>2 DEF StreamShape
  <2>4. ASSUME NEW b \in Conns PROVE StreamOk(b)'
    <3>1. CASE b = c
      BY <1>0, <1>1, <1>2, <2>1, <2>2, <3>1 DEF StreamOk
    <3>2. CASE b # c
      BY <1>0, <1>1, <1>2, <2>1, <2>2, <3>2 DEF StreamOk
    <3> QED
      BY <3>1, <3>2
  <2> QED
    BY <2>3, <2>4 DEF StreamsOk
<1>6. CASE RelayCloses(c)
  <2>1. /\ r_pc[c] = "open" /\ r_pc'[c] = "drop_ip"
        /\ \A b \in Conns : b # c => r_pc'[b] = r_pc[b]
    BY <1>6 DEF RelayCloses, relay!Drop, relay!At, relay!Goto, RelayInv, RelayShape
  <2>2. pipe[c] \in Pipes \ {"fin"} /\ (pipe[c] = "open" => stage[c] = "none")
    BY <1>2, <2>1 DEF StreamOk, StreamShape
  <2>3. /\ pipe' \in [Conns -> Pipes] /\ \A b \in Conns : b # c => pipe'[b] = pipe[b]
        /\ \/ pipe[c] # "none" /\ pipe'[c] \in {"fin", "lost"}
           \/ pipe'[c] = "none" /\ (stage[c] = "none" \/ pipe[c] = "none")
    BY <1>6, <2>2 DEF RelayCloses, GatewayHolds, StreamShape, Pipes
  <2>4. /\ client' \in [Conns -> Public \cup {NoAddr}]
        /\ \A b \in Conns : pipe'[b] # "none" \/ r_pc'[b] \in {"ip", "open"}
                 => client'[b] = client[b]
    BY <1>6, Forgotten DEF RelayCloses
  <2>5. StreamShape'
    BY <1>0, <2>3, <2>4 DEF StreamShape
  <2>6. ASSUME NEW b \in Conns PROVE StreamOk(b)'
    <3>1. CASE b = c
      BY <1>0, <1>1, <1>2, <2>1, <2>3, <2>4, <3>1 DEF StreamOk
    <3>2. CASE b # c
      <4>1. /\ r_pc'[b] = r_pc[b] /\ pipe'[b] = pipe[b]
            /\ pipe[b] # "none" \/ r_pc[b] \in {"ip", "open"} => client'[b] = client[b]
        BY <2>1, <2>3, <2>4, <3>2
      <4> QED
        BY <1>0, <1>1, <1>2, <4>1 DEF StreamOk
    <3> QED
      BY <3>1, <3>2
  <2> QED
    BY <2>5, <2>6 DEF StreamsOk
<1> QED
  BY <1>3, <1>4, <1>5, <1>6

(* The gateway's task for a stream: from the accepted stream to its end. *)
LEMMA GatewaySidePreserves ==
    ASSUME TunnelInv, NEW c \in Conns,
           \/ AcceptStream(c) \/ GatewayRejects(c) \/ TaskEnds(c)
           \/ BindPeer(c) \/ Serve(c)
    PROVE  StreamShape' /\ StreamsOk'
<1> USE DEF TunnelInv
<1>0. /\ conf' = conf /\ r_pc' = r_pc
      /\ pc \in [Conns -> PCs] /\ ip \in [Conns -> Addrs \cup {NoAddr}]
  BY DEF AcceptStream, GatewayRejects, TaskEnds, DropStream, BindPeer, Serve,
         relay_vars, IInv, Shape
<1>1. \A b \in Conns : StreamOk(b)
  BY DEF StreamsOk
<1>2. CASE AcceptStream(c)
  <2>1. /\ pipe[c] \in {"addr", "sent", "fin"} /\ stage' = [stage EXCEPT ![c] = "peer"]
        /\ pipe' = pipe /\ client' = client /\ peer' = peer
        /\ \A b \in Conns : b # c => pc'[b] = pc[b] /\ ip'[b] = ip[b]
        /\ pc'[c] \in {"ip", "undo"} /\ ip'[c] = NoAddr
    BY <1>0, <1>2 DEF AcceptStream, Acquire
  <2>2. StreamShape'
    BY <1>0, <2>1 DEF StreamShape, Stages
  <2>3. ASSUME NEW b \in Conns PROVE StreamOk(b)'
    <3>1. CASE b = c
      <4>1. stage'[b] = "peer"
        BY <2>1, <3>1 DEF StreamShape
      <4> QED
        BY <1>0, <1>1, <2>1, <3>1, <4>1 DEF StreamOk
    <3>2. CASE b # c
      <4>1. stage'[b] = stage[b]
        BY <2>1, <3>2 DEF StreamShape
      <4> QED
        BY <1>0, <1>1, <2>1, <3>2, <4>1 DEF StreamOk
    <3> QED
      BY <3>1, <3>2
  <2> QED
    BY <2>2, <2>3 DEF StreamsOk
<1>3. CASE GatewayRejects(c) \/ TaskEnds(c)
  <2>1. \A b \in Conns : b # c => pc'[b] = pc[b] /\ ip'[b] = ip[b]
    BY <1>0, <1>3 DEF GatewayRejects, TaskEnds, Undo, Release
  <2>2. DropStream(c)
    BY <1>3 DEF GatewayRejects, TaskEnds
  <2>3. /\ stage' \in [Conns -> Stages] /\ peer' \in [Conns -> Addrs \cup {NoAddr}]
        /\ pipe' \in [Conns -> Pipes]
        /\ stage'[c] = "none"
        /\ pipe'[c] = "none" \/ (r_pc[c] = "open" /\ pipe'[c] \in {"lost", "reset"})
        /\ \A b \in Conns : b # c =>
              pipe'[b] = pipe[b] /\ stage'[b] = stage[b] /\ peer'[b] = peer[b]
    BY <2>2 DEF DropStream, RelayHolds, StreamShape, Stages, Pipes
  <2>4. /\ client' \in [Conns -> Public \cup {NoAddr}]
        /\ \A b \in Conns : pipe'[b] # "none" \/ r_pc'[b] \in {"ip", "open"}
                 => client'[b] = client[b]
    BY <2>2, Forgotten DEF DropStream
  <2>5. StreamShape'
    BY <1>0, <2>3, <2>4 DEF StreamShape
  <2>6. ASSUME NEW b \in Conns PROVE StreamOk(b)'
    <3>1. CASE b = c
      BY <1>0, <1>1, <2>3, <2>4, <3>1 DEF StreamOk
    <3>2. CASE b # c
      <4>1. /\ pipe'[b] = pipe[b] /\ stage'[b] = stage[b] /\ peer'[b] = peer[b]
            /\ pc'[b] = pc[b] /\ ip'[b] = ip[b]
            /\ pipe[b] # "none" \/ r_pc[b] \in {"ip", "open"} => client'[b] = client[b]
        BY <1>0, <2>1, <2>3, <2>4, <3>2
      <4> QED
        BY <1>0, <1>1, <4>1 DEF StreamOk
    <3> QED
      BY <3>1, <3>2
  <2> QED
    BY <2>5, <2>6 DEF StreamsOk
<1>4. CASE BindPeer(c)
  <2>0. stage[c] = "peer" /\ pc[c] = "open" /\ client' = client /\ pipe' = pipe
    BY <1>4 DEF BindPeer
  <2>1. PICK p \in ResolveTunnelPeer(c) :
          \/ stage' = [stage EXCEPT ![c] = "drop"] /\ UNCHANGED <<vars, peer>>
          \/ /\ \/ Countable(p) /\ BindIp(c, p)
                \/ p \in Unspecified /\ UNCHANGED vars
             /\ stage' = [stage EXCEPT ![c] = "tls"]
             /\ peer' = [peer EXCEPT ![c] = p]
    BY <1>4 DEF BindPeer
  <2>2. CASE stage' = [stage EXCEPT ![c] = "drop"] /\ UNCHANGED <<vars, peer>>
    <3>1. StreamShape'
      BY <1>0, <2>0, <2>2 DEF StreamShape, Stages
    <3>2. ASSUME NEW b \in Conns PROVE StreamOk(b)'
      <4>1. /\ stage'[b] = stage[b] \/ (b = c /\ stage'[b] = "drop")
            /\ peer' = peer /\ pc' = pc /\ ip' = ip
        BY <2>2 DEF StreamShape, vars
      <4> QED
        BY <1>0, <1>1, <2>0, <4>1 DEF StreamOk
    <3> QED
      BY <3>1, <3>2 DEF StreamsOk
  <2>3. CASE /\ Countable(p) /\ BindIp(c, p)
             /\ stage' = [stage EXCEPT ![c] = "tls"]
             /\ peer' = [peer EXCEPT ![c] = p]
    <3>1. /\ conf.asks /\ conf.grants /\ pipe[c] \in {"addr", "sent", "fin"}
          /\ p = ReadProxyV2(EncodeProxyV2(client[c]))
      BY <2>3 DEF ResolveTunnelPeer, HeaderPeers, HasHeader, SupportsProxyV2, Countable
    <3>2. client[c] \in Public
      BY <1>1, <3>1 DEF StreamOk
    <3>3. p \in Addrs /\ Canonical[p] = Canonical[client[c]]
      BY <3>1, <3>2, ProxyAddress
    <3>4. pc' = pc /\ ip' = [ip EXCEPT ![c] = Canonical[p]]
      BY <2>3 DEF BindIp
    <3>5. StreamShape'
      BY <1>0, <2>0, <2>3, <3>3 DEF StreamShape, Stages
    <3>6. ASSUME NEW b \in Conns PROVE StreamOk(b)'
      <4>1. CASE b = c
        <5>1. stage'[b] = "tls" /\ peer'[b] = p /\ ip'[b] = Canonical[p]
          BY <1>0, <2>3, <3>4, <4>1 DEF StreamShape
        <5> QED
          BY <1>0, <1>1, <2>0, <3>1, <3>2, <3>3, <3>4, <4>1, <5>1 DEF StreamOk
      <4>2. CASE b # c
        <5>1. stage'[b] = stage[b] /\ peer'[b] = peer[b] /\ ip'[b] = ip[b]
          BY <1>0, <2>3, <3>4, <4>2 DEF StreamShape
        <5> QED
          BY <1>0, <1>1, <2>0, <3>4, <5>1 DEF StreamOk
      <4> QED
        BY <4>1, <4>2
    <3> QED
      BY <3>5, <3>6 DEF StreamsOk
  <2>4. CASE /\ p \in Unspecified /\ UNCHANGED vars
             /\ stage' = [stage EXCEPT ![c] = "tls"]
             /\ peer' = [peer EXCEPT ![c] = p]
    <3>1. pipe[c] # "none" /\ pipe[c] # "open"
      BY <1>1, <2>0 DEF StreamOk
    <3>2. (~conf.asks \/ conf.local) /\ ip[c] = NoAddr
      <4> SUFFICES ASSUME conf.asks, ~conf.local PROVE FALSE
        BY <1>1, <2>0 DEF StreamOk
      <4>1. p = ReadProxyV2(EncodeProxyV2(client[c]))
        BY <2>4, AddrsAssumption DEF ResolveTunnelPeer, HeaderPeers
      <4>2. client[c] \in Public
        BY <1>1, <3>1 DEF StreamOk
      <4> QED
        BY <2>4, <4>1, <4>2, ProxyAddress
    <3>3. StreamShape'
      BY <1>0, <2>0, <2>4, AddrsAssumption DEF StreamShape, Stages
    <3>4. ASSUME NEW b \in Conns PROVE StreamOk(b)'
      <4>1. pc' = pc /\ ip' = ip
        BY <2>4 DEF vars
      <4>2. CASE b = c
        <5>1. stage'[b] = "tls" /\ peer'[b] = p
          BY <2>4, <4>2 DEF StreamShape
        <5> QED
          BY <1>0, <1>1, <2>0, <2>4, <3>1, <3>2, <4>1, <4>2, <5>1 DEF StreamOk
      <4>3. CASE b # c
        <5>1. stage'[b] = stage[b] /\ peer'[b] = peer[b]
          BY <2>4, <4>3 DEF StreamShape
        <5> QED
          BY <1>0, <1>1, <2>0, <4>1, <5>1 DEF StreamOk
      <4> QED
        BY <4>2, <4>3
    <3> QED
      BY <3>3, <3>4 DEF StreamsOk
  <2> QED
    BY <2>1, <2>2, <2>3, <2>4
<1>5. CASE Serve(c)
  <2>1. /\ stage[c] = "tls" /\ stage' = [stage EXCEPT ![c] = "serving"]
        /\ pc' = pc /\ ip' = ip /\ client' = client /\ pipe' = pipe /\ peer' = peer
    BY <1>5 DEF Serve, vars
  <2>2. StreamShape'
    BY <1>0, <2>1 DEF StreamShape, Stages
  <2>3. ASSUME NEW b \in Conns PROVE StreamOk(b)'
    <3>1. stage'[b] = stage[b] \/ (stage[b] = "tls" /\ stage'[b] = "serving")
      BY <2>1 DEF StreamShape
    <3> QED
      BY <1>0, <1>1, <2>1, <3>1 DEF StreamOk
  <2> QED
    BY <2>2, <2>3 DEF StreamsOk
<1> QED
  BY <1>2, <1>3, <1>4, <1>5

(* Every step of the two sides keeps the invariant. *)
LEMMA TunnelInductive == TunnelInv /\ [TunnelNext]_all_vars => TunnelInv'
<1> SUFFICES ASSUME TunnelInv, [TunnelNext]_all_vars PROVE TunnelInv'
  OBVIOUS
<1>1. IInv'
  BY TrackerStep, Inductive DEF TunnelInv
<1>2. RelayInv'
  BY RelayStep, RelayInductive DEF TunnelInv
<1>3. StreamShape' /\ StreamsOk'
  <2>0. /\ pc \in [Conns -> PCs] /\ ip \in [Conns -> Addrs \cup {NoAddr}]
        /\ r_pc \in [Conns -> relay!PCs]
    BY DEF TunnelInv, IInv, Shape, RelayInv, RelayShape
  <2>1. CASE \/ UNCHANGED all_vars \/ Connect \/ Pause \/ Cancel \/ Register \/ NetHeals
    BY <2>1, StreamsUntouched
    DEF all_vars, vars, relay_vars, Connect, Pause, Cancel, Register, NetHeals
  <2>2. CASE Leave \/ NetFails \/ RelayNotices
    BY <2>2, TunnelEndPreserves
  <2>3. ASSUME NEW c \in Tunnelled, NEW a \in Public, Arrive(c, a)
        PROVE  StreamShape' /\ StreamsOk'
    BY <2>3, PublicAssumption, RelaySidePreserves
  <2>4. ASSUME NEW c \in Conns,
               RelayAcquires(c) \/ OpenStream(c) \/ WriteStream(c) \/ RelayCloses(c)
        PROVE  StreamShape' /\ StreamsOk'
    BY <2>4, RelaySidePreserves
  <2>5. ASSUME NEW c \in Conns, RelayReleases(c)
        PROVE  StreamShape' /\ StreamsOk'
    <3>1. /\ UNCHANGED <<conf, stream_vars>> /\ pc' = pc /\ ip' = ip
      BY <2>5 DEF RelayReleases, vars
    <3>2. \A b \in Conns : r_pc'[b] = r_pc[b] \/ r_pc'[b] \in {"closed", "drop_remove"}
      BY <2>0, <2>5
      DEF RelayReleases, relay!DropIp, relay!DropRemove, relay!Closed, relay!Goto
    <3> QED
      BY <3>1, <3>2, StreamsUntouched
  <2>6. ASSUME NEW c \in Conns,
               \/ GatewayAcquires(c) \/ GatewayReleases(c)
               \/ \E a \in Addrs \ Unspecified : AcceptSocket(c, a)
        PROVE  StreamShape' /\ StreamsOk'
    <3>1. UNCHANGED <<conf, stream_vars>> /\ r_pc' = r_pc
      BY <2>6 DEF GatewayAcquires, GatewayReleases, AcceptSocket, relay_vars
    <3>2. \A b \in Conns :
            /\ pc[b] = "open" => pc'[b] = "open"
            /\ pc[b] \in {"ip", "undo", "open"} =>
                  pc'[b] \in {"ip", "undo", "open"} /\ ip'[b] = ip[b]
      BY <2>0, <2>6
      DEF GatewayAcquires, GatewayReleases, AcceptSocket, AcquireIp, ReleaseIp, Acquire
    <3> QED
      BY <3>1, <3>2, StreamsUntouched
  <2>7. ASSUME NEW c \in Conns,
               \/ AcceptStream(c) \/ GatewayRejects(c) \/ TaskEnds(c)
               \/ BindPeer(c) \/ Serve(c)
        PROVE  StreamShape' /\ StreamsOk'
    BY <2>7, GatewaySidePreserves
  <2> QED
    BY <2>1, <2>2, <2>3, <2>4, <2>5, <2>6, <2>7 DEF TunnelNext
<1> QED
  BY <1>1, <1>2, <1>3 DEF TunnelInv

(* The invariant holds in every reachable state. *)
LEMMA TunnelInvariance == TunnelSpec => []TunnelInv
  BY TunnelInitInv, TunnelInductive, PTL DEF TunnelSpec

(* The composition uses both connection trackers as they are: between the two
   programs each takes only steps of its own specification. *)
THEOREM TrackersKept == TunnelSpec => Spec /\ relay!Spec
<1>1. TunnelInit => Init /\ relay!Init
  BY DEF TunnelInit
<1>2. relay!vars = relay_vars
  BY DEF relay!vars, relay_vars
<1>3. TunnelInv /\ [TunnelNext]_all_vars => [relay!Next]_(relay!vars)
  <2>1. (relay!vars)' = relay_vars'
    BY DEF relay!vars, relay_vars
  <2> QED
    BY <1>2, <2>1, RelayStep
<1> QED
  BY <1>1, <1>3, TrackerStep, TunnelInvariance, PTL DEF TunnelSpec, Spec, relay!Spec

(* A late bind_ip, once the PROXY header is read, keeps the gateway's per-IP
   counts exact and within the cap, as an accept with an address does. *)
THEOREM TunnelledPerIpExact == TunnelSpec => []PerIpExact
  BY TunnelInvariance, PTL DEF TunnelInv, IInv

(* With a tunnel as without, the gateway hands out its permits as a pool of
   max_connections. *)
THEOREM TunnelledPermitsPooled == TunnelSpec => PermitsPooled
  BY TrackersKept, ImplementsPool, PTL

(* The relay never admits more than its maximum, and its per-IP table, though
   an entry is decremented and removed under two locks, never counts more than
   the connections of an address. *)
THEOREM RelayCounts == TunnelSpec => []RelayCountsHold
  BY TunnelInvariance, PTL DEF TunnelInv, RelayInv

(* A stream is served for the address its client has, in canonical form, from
   the relay's PROXY header through resolve_tunnel_peer to the guard that
   counts it, however late the two sides learn of each other's end; for the
   unspecified address, uncounted, only where no header was asked for or the
   header named nobody (LOCAL, UNSPEC). *)
THEOREM PeersTrue == TunnelSpec => []PeerIsTrue
<1>1. TunnelInv => PeerIsTrue
  BY DEF TunnelInv, StreamsOk, StreamOk, PeerIsTrue
<1> QED
  BY <1>1, TunnelInvariance, PTL
=============================================================================
