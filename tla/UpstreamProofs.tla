--------------------------- MODULE UpstreamProofs ---------------------------
(***************************************************************************)
(* Proofs about the way of a request to an upstream node: the retry loops  *)
(* of module Failover, for any nodes, requests, retry limit and failure    *)
(* threshold and for every strategy and kind of route, and the circuit     *)
(* breaker of one node, module CircuitBreaker, whose state is its own.     *)
(*                                                                         *)
(* What a request may do next is decided by its own history (what it sent, *)
(* where it failed, how often it tried), so the invariant of the loops has *)
(* a part that speaks of one request at a time, SoundRequest, and two that *)
(* tie the counters shared by all requests to the guards they hold.        *)
(***************************************************************************)
EXTENDS Failover, CircuitBreaker, FiniteSetTheorems, TLAPS

RequestType ==
    [pc : PCs, idempotent : BOOLEAN, streamed : BOOLEAN,
     attempts : Nat, failed : SUBSET Nodes,
     node : Nodes \cup {NoNode}, is_probe : BOOLEAN,
     sends : Seq(Nodes), reply : Replies]

Shape ==
    /\ backend \in Backends
    /\ alive \in [Nodes -> BOOLEAN]
    /\ cooled \in [Nodes -> BOOLEAN]
    /\ probing \in [Nodes -> BOOLEAN]
    /\ count \in [Nodes -> 0..Threshold]
    /\ active \in [Nodes -> Int]
    /\ req \in [Requests -> RequestType]

(* What a request that is not transcoded has sent went to different nodes; the
   nodes it marked as failed are as many as its attempts, and until it is
   answered they are those it was sent to. *)
Alternates(q) ==
    /\ \A i, j \in 1..Len(q.sends) : q.sends[i] = q.sends[j] => i = j
    /\ q.pc \in {"idle", "buffer", "select", "enter"} =>
          /\ Cardinality(q.failed) <= Len(q.sends)
          /\ \A i \in 1..Len(q.sends) : q.sends[i] \in q.failed
    /\ q.pc = "enter" => q.node \notin q.failed
    /\ q.pc = "await" =>
          /\ Cardinality(q.failed) <= Len(q.sends) - 1
          /\ \A i \in 1..Len(q.sends) : q.sends[i] \in q.failed \cup {q.node}

(* The history of one request, at each point of its loop. *)
SoundRequest(q) ==
    /\ q.pc = "enter" \/ q.pc \in Holding => q.node \in Nodes
    /\ q.is_probe => q.pc = "await" /\ ~Transcoding
    /\ q.pc \in {"schema", "backoff"} => Transcoding
    /\ q.attempts <= Retries + 1
    /\ q.pc \in {"idle", "buffer", "select", "backoff"} =>
          q.attempts = Len(q.sends) /\ q.attempts <= Retries
    /\ q.pc = "buffer" => q.attempts = 0
    /\ q.pc \in {"enter", "schema"} => q.attempts = Len(q.sends) + 1
    /\ q.pc \in {"await", "stream"} =>
          q.attempts = Len(q.sends) /\ q.attempts >= 1
    /\ q.pc \in {"select", "backoff", "enter", "schema"} /\ Len(q.sends) >= 1
          => Replayable(q)
    /\ Len(q.sends) > 1 => Replayable(q)
    /\ q.pc \notin {"stream", "done"} => q.reply = "none"
    /\ ~Transcoding =>
          /\ q.reply \in {"502", "504"} /\ Replayable(q)
                => Len(q.sends) = Retries + 1
          /\ Alternates(q)

AllSound == \A r \in Requests : SoundRequest(req[r])

(* A probe is of a dead node, so that every verdict on it frees the slot. *)
ProbedIsDead == \A n \in Nodes : probing[n] => ~alive[n]

(* The inductive invariant. *)
IInv ==
    /\ Shape /\ AllSound /\ ProbedIsDead
    /\ ConnectionsBalanced /\ ProbeHasOwner

(* The number of nodes and the clamp of max_retries to it. *)
LEMMA RetriesClamped ==
    /\ Cardinality(Nodes) \in Nat /\ Cardinality(Nodes) >= 1
    /\ Retries \in Nat
    /\ ~Transcoding => Retries <= Cardinality(Nodes) - 1
<1>1. Cardinality(Nodes) \in Nat /\ Cardinality(Nodes) # 0
  BY NodesAssumption, FS_CardinalityType, FS_EmptySet
<1> QED
  BY <1>1, RetriesAssumption DEF Retries

(* Sets of requests and of nodes, with one element more or less. *)
LEMMA OneMore ==
    /\ \A S \in SUBSET Requests : \A r \in Requests :
          /\ Cardinality(S) \in Nat
          /\ r \notin S => Cardinality(S \cup {r}) = Cardinality(S) + 1
          /\ r \in S => Cardinality(S \ {r}) = Cardinality(S) - 1
    /\ \A F \in SUBSET Nodes : \A n \in Nodes :
          /\ Cardinality(F) \in Nat
          /\ Cardinality(F \cup {n}) \in Nat
          /\ Cardinality(F \cup {n}) <= Cardinality(F) + 1
<1>1. \A S \in SUBSET Requests : IsFiniteSet(S)
  BY RequestsAssumption, FS_Subset
<1>2. \A F \in SUBSET Nodes : IsFiniteSet(F)
  BY NodesAssumption, FS_Subset
<1>3. \A S \in SUBSET Requests : \A r \in Requests :
         /\ Cardinality(S) \in Nat
         /\ r \notin S => Cardinality(S \cup {r}) = Cardinality(S) + 1
         /\ r \in S => Cardinality(S \ {r}) = Cardinality(S) - 1
  BY <1>1, FS_CardinalityType, FS_AddElement, FS_RemoveElement
<1>4. ASSUME NEW F \in SUBSET Nodes, NEW n \in Nodes
      PROVE  /\ Cardinality(F) \in Nat
             /\ Cardinality(F \cup {n}) \in Nat
             /\ Cardinality(F \cup {n}) <= Cardinality(F) + 1
  <2>1. IsFiniteSet(F) /\ IsFiniteSet(F \cup {n})
    BY <1>2
  <2>2. Cardinality(F) \in Nat /\ Cardinality(F \cup {n}) \in Nat
    BY <2>1, FS_CardinalityType
  <2>3. n \in F => F \cup {n} = F
    OBVIOUS
  <2> QED
    BY <2>1, <2>2, <2>3, FS_AddElement
<1> QED
  BY <1>3, <1>4

(* The idle route. *)
LEMMA InitIInv == Init => IInv
<1> SUFFICES ASSUME Init PROVE IInv
  OBVIOUS
<1>0. /\ Cardinality({}) = 0 /\ Len(<< >>) = 0 /\ << >> \in Seq(Nodes)
  BY FS_EmptySet
<1>1. NoRequest \in RequestType
  BY <1>0 DEF NoRequest, RequestType, PCs, Replies
<1>2. Shape
  BY <1>1, RetriesAssumption DEF Init, Shape
<1>3. SoundRequest(NoRequest)
  BY <1>0, RetriesClamped
  DEF NoRequest, SoundRequest, Alternates, Holding, Replayable
<1>4. AllSound
  BY <1>3 DEF Init, AllSound
<1>5. ProbedIsDead /\ ProbeHasOwner
  BY DEF Init, ProbedIsDead, ProbeHasOwner
<1>6. \A n \in Nodes : Holders(n) = {}
  BY DEF Init, Holders, Holds, Holding, NoRequest
<1>7. ConnectionsBalanced
  BY <1>0, <1>6 DEF Init, ConnectionsBalanced
<1> QED
  BY <1>2, <1>4, <1>5, <1>7 DEF IInv

(* A step of one request that leaves it in the local state q: its history is
   sound, its connection is counted iff it holds one, and it frees the probe
   slot that it owned. *)
LEMMA RequestStep ==
    ASSUME IInv, NEW r \in Requests, NEW q \in RequestType, SoundRequest(q),
           req' = [req EXCEPT ![r] = q],
           UNCHANGED backend,
           alive' \in [Nodes -> BOOLEAN], cooled' \in [Nodes -> BOOLEAN],
           probing' \in [Nodes -> BOOLEAN], count' \in [Nodes -> 0..Threshold],
           ProbedIsDead',
           \A n \in Nodes : probing'[n] =>
              \/ probing[n] /\ ~(req[r].is_probe /\ req[r].node = n)
              \/ q.is_probe /\ q.node = n,
           \/ /\ UNCHANGED active
              /\ req[r].pc \in Holding <=> q.pc \in Holding
              /\ q.pc \in Holding => q.node = req[r].node
           \/ req[r].pc \notin Holding /\ q.pc \in Holding /\ Acquire(q.node)
           \/ req[r].pc \in Holding /\ q.pc \notin Holding
              /\ Release(req[r].node)
    PROVE  IInv'
<1> USE DEF IInv
<1>0. /\ req'[r] = q /\ \A p \in Requests : p # r => req'[p] = req[p]
      /\ req' \in [Requests -> RequestType]
  BY DEF Shape
<1>1. /\ req[r].pc \in Holding => req[r].node \in Nodes
      /\ q.pc \in Holding => q.node \in Nodes
  BY DEF AllSound, SoundRequest
<1>2. Shape'
  BY <1>0, <1>1 DEF Shape, Acquire, Release
<1>3. AllSound'
  <2> SUFFICES ASSUME NEW p \in Requests PROVE SoundRequest(req[p])'
    BY DEF AllSound
  <2>1. SoundRequest(req'[p])
    BY <1>0 DEF AllSound
  <2> QED
    BY <2>1
    DEF SoundRequest, Alternates, Replayable, Transcoding, Retries, Holding
<1>4. ConnectionsBalanced'
  <2> SUFFICES ASSUME NEW n \in Nodes
               PROVE  active'[n] = Cardinality(Holders(n)')
    BY DEF ConnectionsBalanced
  <2>1. /\ Holders(n) \subseteq Requests /\ Cardinality(Holders(n)) \in Nat
        /\ active[n] = Cardinality(Holders(n)) /\ active[n] \in Int
    BY OneMore DEF Holders, ConnectionsBalanced, Shape
  <2>2. CASE /\ UNCHANGED active
             /\ req[r].pc \in Holding <=> q.pc \in Holding
             /\ q.pc \in Holding => q.node = req[r].node
    <3>1. Holders(n)' = Holders(n)
      BY <1>0, <2>2 DEF Holders, Holds
    <3> QED
      BY <2>1, <2>2, <3>1
  <2>3. CASE /\ req[r].pc \notin Holding /\ q.pc \in Holding
             /\ Acquire(q.node)
    <3>1. /\ r \notin Holders(n)
          /\ Holders(n)' = IF q.node = n THEN Holders(n) \cup {r} ELSE Holders(n)
      BY <1>0, <2>3 DEF Holders, Holds
    <3>2. active'[n] = IF q.node = n THEN active[n] + 1 ELSE active[n]
      BY <1>1, <2>3 DEF Acquire, Shape
    <3> QED
      BY <2>1, <3>1, <3>2, OneMore
  <2>4. CASE /\ req[r].pc \in Holding /\ q.pc \notin Holding
             /\ Release(req[r].node)
    <3>1. /\ r \in Holders(n) <=> req[r].node = n
          /\ Holders(n)' = IF req[r].node = n THEN Holders(n) \ {r}
                           ELSE Holders(n)
      BY <1>0, <2>4 DEF Holders, Holds
    <3>2. active'[n] = IF req[r].node = n THEN active[n] - 1 ELSE active[n]
      BY <1>1, <2>4 DEF Release, Shape
    <3> QED
      BY <2>1, <3>1, <3>2, OneMore
  <2> QED
    BY <2>2, <2>3, <2>4
<1>5. ProbeHasOwner'
  <2> SUFFICES ASSUME NEW n \in Nodes, probing'[n]
               PROVE  \E p \in Holders(n)' : req'[p].is_probe
    BY DEF ProbeHasOwner
  <2>1. CASE q.is_probe /\ q.node = n
    BY <1>0, <2>1 DEF SoundRequest, Holders, Holds, Holding
  <2>2. CASE probing[n] /\ ~(req[r].is_probe /\ req[r].node = n)
    <3>1. PICK p \in Holders(n) : req[p].is_probe
      BY <2>2 DEF ProbeHasOwner
    <3>2. p \in Requests /\ p # r
      BY <2>2, <3>1 DEF Holders, Holds
    <3> QED
      BY <1>0, <3>1, <3>2 DEF Holders, Holds
  <2> QED
    BY <2>1, <2>2
<1> QED
  BY <1>2, <1>3, <1>4, <1>5

(* The steps of a request that leave the circuits alone. *)
LEMMA QuietStep ==
    ASSUME IInv, NEW r \in Requests, NEW q \in RequestType, SoundRequest(q),
           req' = [req EXCEPT ![r] = q], UNCHANGED route,
           ~req[r].is_probe,
           \/ /\ UNCHANGED active
              /\ req[r].pc \in Holding <=> q.pc \in Holding
              /\ q.pc \in Holding => q.node = req[r].node
           \/ req[r].pc \notin Holding /\ q.pc \in Holding /\ Acquire(q.node)
           \/ req[r].pc \in Holding /\ q.pc \notin Holding
              /\ Release(req[r].node)
    PROVE  IInv'
<1>1. ProbedIsDead'
  BY DEF route, IInv, ProbedIsDead
<1> QED
  BY <1>1, RequestStep DEF route, IInv, Shape

(* A request arrives, its body is buffered or unreadable, it chooses a node. *)
LEMMA SelectPreserves ==
    ASSUME IInv, NEW r \in Requests,
           Arrive(r) \/ Buffered(r) \/ BodyUnreadable(r) \/ Select(r)
    PROVE  IInv'
<1> USE DEF IInv
<1>0. req[r] \in RequestType /\ SoundRequest(req[r]) /\ Retries \in Nat
  BY RetriesClamped DEF Shape, AllSound
<1>1. CASE Arrive(r)
  <2>1. PICK i \in BOOLEAN, d \in BOOLEAN :
           req' = [req EXCEPT ![r] =
                      [NoRequest EXCEPT
                         !.pc = IF CanStream(i, d) THEN "select" ELSE "buffer",
                         !.idempotent = i, !.streamed = CanStream(i, d)]]
    BY <1>1 DEF Arrive
  <2> DEFINE q == [NoRequest EXCEPT
                     !.pc = IF CanStream(i, d) THEN "select" ELSE "buffer",
                     !.idempotent = i, !.streamed = CanStream(i, d)]
  <2>2. CanStream(i, d) \in BOOLEAN
    BY DEF CanStream, Transcoding, MultiNode
  <2>3. /\ Cardinality({}) = 0 /\ Len(<< >>) = 0 /\ << >> \in Seq(Nodes)
    BY FS_EmptySet
  <2>4. q \in RequestType
    BY <2>2, <2>3 DEF NoRequest, RequestType, PCs, Replies
  <2>5. SoundRequest(q)
    BY <1>0, <2>3 DEF NoRequest, SoundRequest, Alternates, Holding, Replayable
  <2>6. /\ q.pc \notin Holding /\ req[r].pc \notin Holding /\ ~req[r].is_probe
    BY <1>0, <1>1 DEF Arrive, NoRequest, Holding, SoundRequest
  <2> QED
    BY <1>1, <2>1, <2>4, <2>5, <2>6, QuietStep DEF Arrive
<1>4. CASE Buffered(r)
  <2>1. PICK s \in BOOLEAN :
           req' = [req EXCEPT ![r] = [req[r] EXCEPT !.pc = "select",
                                        !.streamed = s /\ ~Transcoding]]
    BY <1>0, <1>4 DEF Buffered, Shape, RequestType
  <2> DEFINE q == [req[r] EXCEPT !.pc = "select", !.streamed = s /\ ~Transcoding]
  <2>2. q \in RequestType
    BY <1>0 DEF RequestType, PCs, Transcoding
  <2>3. SoundRequest(q)
    BY <1>0, <1>4
    DEF Buffered, SoundRequest, Alternates, Holding, Replayable, RequestType
  <2>4. /\ q.pc \notin Holding /\ req[r].pc \notin Holding /\ ~req[r].is_probe
    BY <1>0, <1>4 DEF Buffered, Holding, SoundRequest, RequestType
  <2> HIDE DEF q
  <2> QED
    BY <1>4, <2>1, <2>2, <2>3, <2>4, QuietStep DEF Buffered, q
<1>2. CASE BodyUnreadable(r)
  <2>1. PICK reply \in {"client", "gone"} :
           req' = [req EXCEPT ![r] = [req[r] EXCEPT !.pc = "done", !.reply = reply]]
    BY <1>0, <1>2 DEF BodyUnreadable, Shape, RequestType
  <2> DEFINE q == [req[r] EXCEPT !.pc = "done", !.reply = reply]
  <2>2. q \in RequestType
    BY <1>0 DEF RequestType, PCs, Replies
  <2>3. SoundRequest(q)
    BY <1>0, <1>2
    DEF BodyUnreadable, SoundRequest, Alternates, Holding, Replayable, RequestType
  <2>4. /\ q.pc \notin Holding /\ req[r].pc \notin Holding /\ ~req[r].is_probe
    BY <1>0, <1>2 DEF BodyUnreadable, Holding, SoundRequest, RequestType
  <2> QED
    BY <1>2, <2>1, <2>2, <2>3, <2>4, QuietStep DEF BodyUnreadable
<1>3. CASE Select(r)
  <2>1. PICK n \in Choices(Eligible(req[r].failed)) :
           req' = [req EXCEPT ![r] =
                      [req[r] EXCEPT !.pc = "enter", !.node = n,
                                     !.attempts = req[r].attempts + 1]]
    BY <1>0, <1>3 DEF Select, Shape, RequestType
  <2> DEFINE q == [req[r] EXCEPT !.pc = "enter", !.node = n,
                                 !.attempts = req[r].attempts + 1]
  <2>2. n \in Nodes
    BY <2>1 DEF Choices, Eligible
  <2>3. q \in RequestType
    <3>1. req[r].attempts + 1 \in Nat
      BY <1>0 DEF RequestType
    <3> QED
      BY <1>0, <2>2, <3>1 DEF RequestType, PCs
  <2>4. ~Transcoding => n \notin req[r].failed
    <3> SUFFICES ASSUME ~Transcoding PROVE n \notin req[r].failed
      OBVIOUS
    <3>1. /\ Cardinality(req[r].failed) <= Retries
          /\ req[r].failed \in SUBSET Nodes
          /\ Cardinality(req[r].failed) \in Nat
      <4>1. req[r].failed \in SUBSET Nodes
        BY <1>0 DEF RequestType
      <4>2. Cardinality(req[r].failed) \in Nat
        BY <4>1, <2>2, OneMore
      <4>3. /\ Cardinality(req[r].failed) <= Len(req[r].sends)
            /\ Len(req[r].sends) = req[r].attempts /\ req[r].attempts <= Retries
            /\ req[r].attempts \in Nat
        BY <1>0, <1>3 DEF Select, SoundRequest, Alternates, RequestType
      <4> QED
        BY <1>0, <4>1, <4>2, <4>3
    <3>2. CASE MultiNode
      <4>1. Nodes \ req[r].failed # {}
        <5>1. Cardinality(req[r].failed) < Cardinality(Nodes)
          BY <3>1, RetriesClamped
        <5>2. req[r].failed # Nodes
          BY <5>1, RetriesClamped
        <5> QED
          BY <3>1, <5>2
      <4> QED
        BY <2>1, <3>2, <4>1 DEF Choices, Eligible
    <3>3. CASE ~MultiNode
      <4>1. Cardinality(req[r].failed) = 0
        BY <3>1, <3>3, RetriesClamped DEF MultiNode
      <4> QED
        BY <4>1, <3>1, NodesAssumption, FS_Subset, FS_EmptySet
    <3> QED
      BY <3>2, <3>3
  <2>5. SoundRequest(q)
    <3>1. /\ q.pc = "enter" /\ q.node = n /\ q.attempts = req[r].attempts + 1
          /\ q.sends = req[r].sends /\ q.failed = req[r].failed
          /\ q.idempotent = req[r].idempotent /\ q.streamed = req[r].streamed
          /\ q.reply = req[r].reply /\ q.is_probe = req[r].is_probe
      BY <1>0 DEF RequestType
    <3> HIDE DEF q
    <3>2. ~Transcoding => Alternates(q)
      BY <1>0, <1>3, <2>4, <3>1 DEF Select, SoundRequest, Alternates
    <3>3. Replayable(q) <=> Replayable(req[r])
      BY <3>1 DEF Replayable
    <3>4. /\ req[r].pc = "select" /\ Len(req[r].sends) \in Nat
          /\ req[r].attempts = Len(req[r].sends) /\ req[r].attempts <= Retries
          /\ Len(req[r].sends) >= 1 => Replayable(req[r])
          /\ req[r].reply = "none" /\ ~req[r].is_probe
      BY <1>0, <1>3 DEF Select, SoundRequest, RequestType
    <3> QED
      BY <1>0, <2>2, <3>1, <3>2, <3>3, <3>4 DEF SoundRequest, Holding
  <2>6. /\ q.pc \notin Holding /\ req[r].pc \notin Holding /\ ~req[r].is_probe
    BY <1>0, <1>3 DEF Select, Holding, SoundRequest, RequestType
  <2> QED
    BY <1>3, <2>1, <2>3, <2>5, <2>6, QuietStep DEF Select
<1> QED
  BY <1>1, <1>2, <1>3, <1>4

(* A request enters the chosen node: it takes a connection and, on a dead node
   that has cooled down, the probe slot. *)
LEMMA EnterPreserves ==
    ASSUME IInv, NEW r \in Requests,
           Enter(r) \/ EnterFails(r) \/ EnterTranscoding(r)
    PROVE  IInv'
<1> USE DEF IInv
<1>0. req[r] \in RequestType /\ SoundRequest(req[r]) /\ Retries \in Nat
  BY RetriesClamped DEF Shape, AllSound
<1>1. CASE Enter(r)
  <2>0. PICK n \in Nodes : n = req[r].node
    BY <1>0, <1>1 DEF Enter, SoundRequest
  <2> DEFINE probe == MultiNode /\ ~alive[n] /\ cooled[n] /\ ~probing[n]
             q == [req[r] EXCEPT !.pc = "await", !.is_probe = probe,
                                 !.sends = Append(req[r].sends, n)]
  <2>1. probe \in BOOLEAN
    BY DEF MultiNode
  <2>2. /\ req' = [req EXCEPT ![r] = q]
        /\ probing' = [probing EXCEPT ![n] = probing[n] \/ probe]
        /\ Acquire(n) /\ UNCHANGED <<backend, alive, cooled, count>>
        /\ ~Transcoding /\ req[r].pc = "enter"
    BY <1>0, <1>1, <2>0 DEF Enter, Shape, RequestType
  <2>3. q \in RequestType
    <3>1. Append(req[r].sends, n) \in Seq(Nodes)
      BY <1>0 DEF RequestType
    <3> HIDE DEF probe
    <3> QED
      BY <1>0, <2>1, <3>1 DEF RequestType, PCs
  <2>4. /\ Len(q.sends) = Len(req[r].sends) + 1
        /\ q.sends[Len(req[r].sends) + 1] = n
        /\ \A i \in 1..Len(req[r].sends) : q.sends[i] = req[r].sends[i]
        /\ Len(req[r].sends) \in Nat
    BY <1>0 DEF RequestType
  <2>5. Alternates(q)
    <3>1. /\ \A i \in 1..Len(req[r].sends) : req[r].sends[i] \in req[r].failed
          /\ n \notin req[r].failed
          /\ Cardinality(req[r].failed) <= Len(req[r].sends)
          /\ \A i, j \in 1..Len(req[r].sends) :
                req[r].sends[i] = req[r].sends[j] => i = j
      BY <1>0, <2>0, <2>2 DEF SoundRequest, Alternates
    <3>2. q.pc = "await" /\ q.failed = req[r].failed /\ q.node = n
      BY <1>0, <2>0 DEF RequestType
    <3>3. \A i \in 1..Len(q.sends) :
             i \in 1..Len(req[r].sends) \/ i = Len(req[r].sends) + 1
      BY <2>4
    <3>4. Cardinality(req[r].failed) \in Nat
      BY <1>0, OneMore, NodesAssumption DEF RequestType
    <3> QED
      BY <2>4, <3>1, <3>2, <3>3, <3>4 DEF Alternates
  <2>6. SoundRequest(q)
    <3> HIDE DEF probe
    <3>1. /\ q.pc = "await" /\ q.node = n /\ q.attempts = req[r].attempts
          /\ q.idempotent = req[r].idempotent /\ q.streamed = req[r].streamed
          /\ q.reply = req[r].reply
      BY <1>0, <2>0 DEF RequestType
    <3> HIDE DEF q
    <3> QED
      BY <1>0, <2>2, <2>4, <2>5, <3>1
      DEF SoundRequest, Holding, Replayable, RequestType
  <2>7. q.pc \in Holding /\ q.is_probe = probe /\ q.node = n
    BY <1>0, <2>0 DEF Holding, RequestType
  <2>8. req[r].pc \notin Holding /\ ~req[r].is_probe
    BY <1>0, <2>2 DEF Holding, SoundRequest
  <2>9. ProbedIsDead'
    BY <2>2 DEF ProbedIsDead, Shape
  <2>10. \A m \in Nodes : probing'[m] => probing[m] \/ (q.is_probe /\ q.node = m)
    BY <2>2, <2>7 DEF Shape
  <2>11. probing' \in [Nodes -> BOOLEAN]
    BY <2>1, <2>2 DEF Shape
  <2> HIDE DEF q, probe
  <2> QED
    BY <2>2, <2>3, <2>6, <2>7, <2>8, <2>9, <2>10, <2>11, RequestStep DEF Shape
<1>2. CASE EnterFails(r)
  <2> DEFINE q == [req[r] EXCEPT !.pc = "done", !.reply = "error"]
  <2>1. req' = [req EXCEPT ![r] = q]
    BY <1>0, <1>2 DEF EnterFails, Shape, RequestType
  <2>2. q \in RequestType
    BY <1>0 DEF RequestType, PCs, Replies
  <2>3. SoundRequest(q)
    BY <1>0, <1>2
    DEF EnterFails, SoundRequest, Alternates, Holding, Replayable, RequestType
  <2>4. /\ q.pc \notin Holding /\ req[r].pc \notin Holding /\ ~req[r].is_probe
    BY <1>0, <1>2 DEF EnterFails, Holding, SoundRequest, RequestType
  <2> QED
    BY <1>2, <2>1, <2>2, <2>3, <2>4, QuietStep DEF EnterFails
<1>3. CASE EnterTranscoding(r)
  <2> DEFINE q == [req[r] EXCEPT !.pc = "schema"]
  <2>1. req' = [req EXCEPT ![r] = q] /\ q.node = req[r].node
    BY <1>0, <1>3 DEF EnterTranscoding, Shape, RequestType
  <2>2. q \in RequestType
    BY <1>0 DEF RequestType, PCs
  <2>3. SoundRequest(q)
    BY <1>0, <1>3
    DEF EnterTranscoding, SoundRequest, Alternates, Holding, Replayable,
        RequestType
  <2>4. /\ q.pc \in Holding /\ req[r].pc \notin Holding /\ ~req[r].is_probe
    BY <1>0, <1>3 DEF EnterTranscoding, Holding, SoundRequest, RequestType
  <2> QED
    BY <1>3, <2>1, <2>2, <2>3, <2>4, QuietStep DEF EnterTranscoding
<1> QED
  BY <1>1, <1>2, <1>3

(* An answer that is no gateway error, one of handle_grpc_web, or one that was
   already given, keeps the history sound. *)
LEMMA Answered ==
    ASSUME NEW p \in RequestType, NEW q \in RequestType, SoundRequest(p),
           q.pc = "done" \/ (q.pc = "stream" /\ p.pc = "await"),
           ~q.is_probe, q.node = p.node,
           q.sends = p.sends, q.attempts = p.attempts,
           q.idempotent = p.idempotent, q.streamed = p.streamed,
           q.reply # p.reply /\ q.reply \in {"502", "504"} => Transcoding
    PROVE  SoundRequest(q)
<1>1. Replayable(q) <=> Replayable(p)
  BY DEF Replayable
<1>2. ~Transcoding => Alternates(q)
  BY DEF SoundRequest, Alternates
<1>3. p.pc = "await" => p.node \in Nodes
  BY DEF SoundRequest, Holding
<1> QED
  BY <1>1, <1>2, <1>3 DEF SoundRequest, Holding

(* After a failed attempt (RetryOrReply) the request goes round again or is
   answered with the gateway error that says so. *)
LEMMA RetriedOrAnswered ==
    ASSUME IInv, NEW r \in Requests, req[r].pc = "await",
           NEW reply \in Replies, RetryOrReply(r, reply),
           reply \in {"502", "504"} \/ MayRetry(r)
    PROVE  \E q \in RequestType :
              /\ req' = [req EXCEPT ![r] = q] /\ SoundRequest(q)
              /\ ~q.is_probe /\ q.node = req[r].node
              /\ q.pc \in Holding <=> Transcoding /\ MayRetry(r)
<1> DEFINE n == req[r].node
           f == [req[r] EXCEPT !.failed = req[r].failed \cup {n},
                               !.is_probe = FALSE]
           q == IF MayRetry(r)
                THEN [f EXCEPT !.pc = IF Transcoding THEN "backoff" ELSE "select"]
                ELSE [f EXCEPT !.pc = "done", !.reply = reply]
<1>0. /\ req[r] \in RequestType /\ SoundRequest(req[r]) /\ Retries \in Nat
      /\ n \in Nodes
  BY RetriesClamped DEF IInv, Shape, AllSound, SoundRequest, Holding
<1>1. req' = [req EXCEPT ![r] = q]
  BY DEF RetryOrReply
<1>2. f \in RequestType
  BY <1>0 DEF RequestType
<1>3. q \in RequestType
  BY <1>2 DEF RequestType, PCs
<1>4. /\ q.failed = req[r].failed \cup {n} /\ ~q.is_probe /\ q.node = n
      /\ q.sends = req[r].sends /\ q.attempts = req[r].attempts
      /\ q.idempotent = req[r].idempotent /\ q.streamed = req[r].streamed
      /\ MayRetry(r) => /\ q.pc = IF Transcoding THEN "backoff" ELSE "select"
                        /\ q.reply = req[r].reply
      /\ ~MayRetry(r) => q.pc = "done" /\ q.reply = reply
  BY <1>0, <1>2 DEF RequestType
<1>5. MayRetry(r) <=> Replayable(q) /\ q.attempts <= Retries
  BY <1>4 DEF MayRetry, Replayable
<1>6. /\ Len(q.sends) = q.attempts /\ q.attempts \in Nat /\ q.attempts >= 1
      /\ q.attempts <= Retries + 1
      /\ req[r].reply = "none"
      /\ Len(q.sends) > 1 => Replayable(q)
  BY <1>0, <1>4 DEF SoundRequest, RequestType, Replayable
<1>7. ~Transcoding => Alternates(q)
  <2> SUFFICES ASSUME ~Transcoding PROVE Alternates(q)
    OBVIOUS
  <2>1. /\ Cardinality(req[r].failed) <= Len(q.sends) - 1
        /\ \A i \in 1..Len(q.sends) : q.sends[i] \in q.failed
        /\ \A i, j \in 1..Len(q.sends) : q.sends[i] = q.sends[j] => i = j
    BY <1>0, <1>4 DEF SoundRequest, Alternates
  <2>2. /\ Cardinality(req[r].failed) \in Nat
        /\ Cardinality(q.failed) \in Nat
        /\ Cardinality(q.failed) <= Cardinality(req[r].failed) + 1
    BY <1>0, <1>4, OneMore DEF RequestType
  <2>3. Cardinality(q.failed) <= Len(q.sends)
    BY <2>1, <2>2, <1>6
  <2>4. q.pc \in {"select", "done"}
    BY <1>4
  <2> HIDE DEF q
  <2> QED
    BY <2>1, <2>3, <2>4 DEF Alternates
<1>8. SoundRequest(q)
  <2> HIDE DEF q
  <2>1. CASE MayRetry(r)
    BY <1>0, <1>4, <1>5, <1>6, <1>7, <2>1 DEF SoundRequest, Holding
  <2>2. CASE ~MayRetry(r)
    BY <1>0, <1>4, <1>5, <1>6, <1>7, <2>2 DEF SoundRequest, Holding
  <2> QED
    BY <2>1, <2>2
<1>9. q.pc \in Holding <=> Transcoding /\ MayRetry(r)
  BY <1>4 DEF Holding
<1> HIDE DEF q
<1> QED
  BY <1>1, <1>3, <1>4, <1>8, <1>9

(* Every verdict on a node frees the probe slot of the request that gives it,
   and so does a probe guard dropped without a verdict. *)
LEMMA VerdictFrees ==
    ASSUME IInv, NEW r \in Requests, NEW n \in Nodes, n = req[r].node,
           \/ MarkDead(n) /\ UNCHANGED count
           \/ RecordFailure(n) \/ RecordSuccess(n)
           \/ RevertProbe(n, req[r].is_probe)
    PROVE  /\ UNCHANGED backend
           /\ alive' \in [Nodes -> BOOLEAN] /\ cooled' \in [Nodes -> BOOLEAN]
           /\ probing' \in [Nodes -> BOOLEAN] /\ count' \in [Nodes -> 0..Threshold]
           /\ ProbedIsDead'
           /\ \A m \in Nodes : probing'[m] =>
                 probing[m] /\ ~(req[r].is_probe /\ req[r].node = m)
<1> USE DEF IInv
<1>1. CASE MarkDead(n) /\ UNCHANGED count
  BY <1>1 DEF MarkDead, Shape, ProbedIsDead
<1>2. CASE RecordFailure(n)
  <2>1. (IF count[n] < Threshold THEN count[n] + 1 ELSE Threshold) \in 0..Threshold
    BY RetriesAssumption DEF Shape
  <2>2. count' \in [Nodes -> 0..Threshold]
    BY <1>2, <2>1 DEF RecordFailure, Shape
  <2>3. CASE MarkDead(n)
    BY <2>2, <2>3 DEF MarkDead, Shape, ProbedIsDead
  <2>4. CASE ~probing[n] /\ UNCHANGED <<backend, alive, cooled, probing>>
    BY <2>2, <2>4 DEF Shape, ProbedIsDead
  <2> QED
    BY <1>2, <2>3, <2>4 DEF RecordFailure
<1>3. CASE RecordSuccess(n)
  <2>1. CASE MarkAlive(n)
    BY <2>1, RetriesAssumption DEF MarkAlive, Shape, ProbedIsDead
  <2>2. CASE alive[n] /\ UNCHANGED route
    BY <2>2 DEF route, Shape, ProbedIsDead
  <2> QED
    BY <1>3, <2>1, <2>2 DEF RecordSuccess
<1>4. CASE RevertProbe(n, req[r].is_probe)
  BY <1>4 DEF RevertProbe, Shape, ProbedIsDead
<1> QED
  BY <1>1, <1>2, <1>3, <1>4

(* handle_grpc_web waits for the schema, backs off, or its timeout strikes; the
   end of a streamed response. *)
LEMMA UnjudgedPreserves ==
    ASSUME IInv, NEW r \in Requests,
           \/ SchemaReady(r) \/ SchemaFails(r) \/ TranscodingTimeout(r)
           \/ TranscodingResponse(r) \/ Backoff(r) \/ BodyEnd(r)
    PROVE  IInv'
<1> USE DEF IInv
<1>0. req[r] \in RequestType /\ SoundRequest(req[r]) /\ Retries \in Nat
  BY RetriesClamped DEF Shape, AllSound
<1>1. CASE SchemaReady(r)
  <2> DEFINE q == [req[r] EXCEPT !.pc = "await",
                                 !.sends = Append(req[r].sends, req[r].node)]
  <2>1. req' = [req EXCEPT ![r] = q]
    BY <1>0, <1>1 DEF SchemaReady, Shape, RequestType
  <2>2. /\ req[r].pc = "schema" /\ req[r].node \in Nodes /\ Transcoding
        /\ ~req[r].is_probe
    BY <1>0, <1>1 DEF SchemaReady, SoundRequest, Holding
  <2>3. /\ Append(req[r].sends, req[r].node) \in Seq(Nodes)
        /\ Len(Append(req[r].sends, req[r].node)) = Len(req[r].sends) + 1
        /\ Len(req[r].sends) \in Nat
    BY <1>0, <2>2 DEF RequestType
  <2>4. q \in RequestType
    BY <1>0, <2>3 DEF RequestType, PCs
  <2>5. /\ q.pc = "await" /\ Len(q.sends) = Len(req[r].sends) + 1
        /\ q.node = req[r].node /\ q.attempts = req[r].attempts
        /\ q.idempotent = req[r].idempotent /\ q.streamed = req[r].streamed
        /\ q.reply = req[r].reply /\ q.is_probe = req[r].is_probe
    BY <1>0, <2>3 DEF RequestType
  <2> HIDE DEF q
  <2>6. Replayable(q) <=> Replayable(req[r])
    BY <2>5 DEF Replayable
  <2>7. SoundRequest(q)
    BY <1>0, <2>2, <2>3, <2>5, <2>6 DEF SoundRequest, Holding
  <2> QED
    BY <1>1, <2>1, <2>2, <2>4, <2>5, <2>7, QuietStep DEF SchemaReady, Holding
<1>2. CASE SchemaFails(r)
  <2>0. PICK reply \in {"502", "client", "error"} :
           req' = [req EXCEPT ![r] = [req[r] EXCEPT !.pc = "done",
                                                    !.reply = reply]]
    BY <1>0, <1>2 DEF SchemaFails, Shape, RequestType
  <2> DEFINE q == [req[r] EXCEPT !.pc = "done", !.reply = reply]
  <2>1. req' = [req EXCEPT ![r] = q]
    BY <2>0
  <2>2. /\ q \in RequestType /\ req[r].pc \in Holding /\ ~req[r].is_probe
        /\ Transcoding
    BY <1>0, <1>2
    DEF RequestType, PCs, Replies, Holding, SchemaFails, SoundRequest
  <2>3. SoundRequest(q)
    BY <1>0, <2>2, Answered DEF RequestType
  <2> QED
    BY <1>2, <2>1, <2>2, <2>3, QuietStep DEF SchemaFails, Holding, RequestType
<1>3. CASE TranscodingTimeout(r)
  <2> DEFINE q == [req[r] EXCEPT !.pc = "done", !.reply = "504"]
  <2>1. req' = [req EXCEPT ![r] = q]
    BY <1>0, <1>3 DEF TranscodingTimeout, Shape, RequestType
  <2>2. q \in RequestType /\ req[r].pc \in Holding /\ ~req[r].is_probe
    BY <1>0, <1>3
    DEF RequestType, PCs, Replies, Holding, TranscodingTimeout, SoundRequest
  <2>3. SoundRequest(q)
    BY <1>0, <1>3, <2>2, Answered DEF RequestType, TranscodingTimeout
  <2> QED
    BY <1>3, <2>1, <2>2, <2>3, QuietStep
    DEF TranscodingTimeout, Holding, RequestType
<1>4. CASE TranscodingResponse(r)
  <2>0. PICK reply \in {"ok", "outlier", "502", "504", "error"} :
           req' = [req EXCEPT ![r] = [req[r] EXCEPT !.pc = "done",
                                                    !.reply = reply]]
    BY <1>0, <1>4 DEF TranscodingResponse, Shape, RequestType
  <2> DEFINE q == [req[r] EXCEPT !.pc = "done", !.reply = reply]
  <2>1. req' = [req EXCEPT ![r] = q]
    BY <2>0
  <2>2. q \in RequestType /\ req[r].pc \in Holding /\ ~req[r].is_probe
    BY <1>0, <1>4
    DEF RequestType, PCs, Replies, Holding, TranscodingResponse, SoundRequest
  <2>3. SoundRequest(q)
    BY <1>0, <1>4, <2>2, Answered DEF RequestType, TranscodingResponse
  <2> QED
    BY <1>4, <2>1, <2>2, <2>3, QuietStep
    DEF TranscodingResponse, Holding, RequestType
<1>5. CASE Backoff(r)
  <2> DEFINE q == [req[r] EXCEPT !.pc = "select"]
  <2>1. req' = [req EXCEPT ![r] = q]
    BY <1>0, <1>5 DEF Backoff, Shape, RequestType
  <2>2. /\ q \in RequestType /\ req[r].pc \in Holding /\ ~req[r].is_probe
        /\ Transcoding /\ req[r].pc = "backoff"
    BY <1>0, <1>5 DEF RequestType, PCs, Holding, Backoff, SoundRequest
  <2>3. SoundRequest(q)
    BY <1>0, <2>2 DEF RequestType, SoundRequest, Replayable, Holding
  <2> QED
    BY <1>5, <2>1, <2>2, <2>3, QuietStep DEF Backoff, Holding, RequestType
<1>6. CASE BodyEnd(r)
  <2> DEFINE q == [req[r] EXCEPT !.pc = "done"]
  <2>1. req' = [req EXCEPT ![r] = q]
    BY <1>0, <1>6 DEF BodyEnd, Shape, RequestType
  <2>2. q \in RequestType /\ req[r].pc \in Holding /\ ~req[r].is_probe
    BY <1>0, <1>6 DEF RequestType, PCs, Holding, BodyEnd, SoundRequest
  <2>3. SoundRequest(q)
    BY <1>0, <2>2, Answered DEF RequestType
  <2> QED
    BY <1>6, <2>1, <2>2, <2>3, QuietStep DEF BodyEnd, Holding, RequestType
<1> QED
  BY <1>1, <1>2, <1>3, <1>4, <1>5, <1>6

(* The outcomes of the await that judge the node, and the client's leaving:
   the guards are dropped, the probe slot is freed. *)
LEMMA JudgedPreserves ==
    ASSUME IInv, NEW r \in Requests,
           \/ Timeout(r) \/ UpstreamFailure(r) \/ Outlier(r) \/ Success(r)
           \/ ClientFault(r) \/ Disconnect(r)
    PROVE  IInv'
<1> USE DEF IInv
<1>0. req[r] \in RequestType /\ SoundRequest(req[r]) /\ req[r].pc \in Holding
  BY DEF Shape, AllSound, Timeout, UpstreamFailure, Outlier, Success,
     ClientFault, Disconnect, Holding
<1>1. PICK n \in Nodes : n = req[r].node
  BY <1>0 DEF SoundRequest
<1>2. /\ UNCHANGED backend
      /\ alive' \in [Nodes -> BOOLEAN] /\ cooled' \in [Nodes -> BOOLEAN]
      /\ probing' \in [Nodes -> BOOLEAN] /\ count' \in [Nodes -> 0..Threshold]
      /\ ProbedIsDead'
      /\ \A m \in Nodes : probing'[m] =>
            probing[m] /\ ~(req[r].is_probe /\ req[r].node = m)
  BY <1>1, VerdictFrees
  DEF Timeout, UpstreamFailure, Outlier, Success, ClientFault, Disconnect
<1>3. ASSUME NEW q \in RequestType, req' = [req EXCEPT ![r] = q],
             SoundRequest(q), q.node = req[r].node,
             \/ q.pc \notin Holding /\ Release(req[r].node)
             \/ q.pc \in Holding /\ UNCHANGED active
      PROVE  IInv'
  BY <1>0, <1>2, <1>3, RequestStep
<1>4. ASSUME NEW reply \in Replies, req[r].pc = "await", RetryOrReply(r, reply),
             reply \in {"502", "504"} \/ MayRetry(r),
             \/ ReleaseUnlessBackoff(r)
             \/ ~Transcoding /\ Release(req[r].node)
      PROVE  IInv'
  <2>1. PICK q \in RequestType :
           /\ req' = [req EXCEPT ![r] = q] /\ SoundRequest(q)
           /\ ~q.is_probe /\ q.node = req[r].node
           /\ q.pc \in Holding <=> Transcoding /\ MayRetry(r)
    BY <1>4, RetriedOrAnswered
  <2> QED
    BY <1>3, <1>4, <2>1 DEF ReleaseUnlessBackoff
<1>5. ASSUME NEW at \in {"done", "stream"},
             NEW reply \in {"ok", "outlier", "client", "gone"},
             at = "stream" => req[r].pc = "await",
             req' = [req EXCEPT ![r].pc = at, ![r].is_probe = FALSE,
                                ![r].reply = reply],
             \/ at = "done" /\ Release(req[r].node)
             \/ at = "stream" /\ UNCHANGED active
      PROVE  IInv'
  <2> DEFINE q == [req[r] EXCEPT !.pc = at, !.is_probe = FALSE, !.reply = reply]
  <2>1. req' = [req EXCEPT ![r] = q]
    BY <1>0, <1>5 DEF Shape, RequestType
  <2>2. q \in RequestType
    BY <1>0 DEF RequestType, PCs, Replies
  <2>3. /\ q.pc = at /\ q.reply = reply /\ ~q.is_probe /\ q.node = req[r].node
        /\ q.sends = req[r].sends /\ q.attempts = req[r].attempts
        /\ q.idempotent = req[r].idempotent /\ q.streamed = req[r].streamed
    BY <1>0 DEF RequestType
  <2> HIDE DEF q
  <2>4. SoundRequest(q)
    BY <1>0, <1>5, <2>2, <2>3, Answered
  <2> QED
    BY <1>3, <1>5, <2>1, <2>2, <2>3, <2>4 DEF Holding
<1>6. CASE Timeout(r)
  BY <1>4, <1>6 DEF Timeout, Replies
<1>7. CASE UpstreamFailure(r)
  BY <1>4, <1>7 DEF UpstreamFailure, Replies
<1>8. CASE Outlier(r)
  BY <1>4, <1>5, <1>8 DEF Outlier, Replies
<1>9. CASE Success(r)
  BY <1>5, <1>9 DEF Success
<1>10. CASE ClientFault(r)
  BY <1>5, <1>10 DEF ClientFault
<1>11. CASE Disconnect(r)
  BY <1>5, <1>11 DEF Disconnect
<1> QED
  BY <1>6, <1>7, <1>8, <1>9, <1>10, <1>11

(* The cooldown and the health checker never take a probe slot. *)
LEMMA NodePreserves ==
    ASSUME IInv, NEW n \in Nodes, Cool(n) \/ HealthUp(n) \/ HealthDown(n)
    PROVE  IInv'
<1> USE DEF IInv
<1>1. /\ UNCHANGED <<backend, active, req>>
      /\ alive' \in [Nodes -> BOOLEAN] /\ cooled' \in [Nodes -> BOOLEAN]
      /\ probing' \in [Nodes -> BOOLEAN] /\ count' \in [Nodes -> 0..Threshold]
      /\ ProbedIsDead'
      /\ \A m \in Nodes : probing'[m] => probing[m]
  <2>1. CASE Cool(n)
    BY <2>1 DEF Cool, Shape, ProbedIsDead
  <2>2. CASE HealthUp(n)
    BY <2>2, RetriesAssumption DEF HealthUp, MarkAlive, Shape, ProbedIsDead
  <2>3. CASE HealthDown(n)
    BY <2>3 DEF HealthDown, MarkDead, Shape, ProbedIsDead
  <2> QED
    BY <2>1, <2>2, <2>3
<1>2. Shape' /\ ConnectionsBalanced' /\ ProbeHasOwner'
  BY <1>1
  DEF Shape, ConnectionsBalanced, ProbeHasOwner, Holders, Holds
<1>3. AllSound'
  BY <1>1 DEF AllSound, SoundRequest, Alternates, Replayable, Transcoding,
     Retries, Holding
<1> QED
  BY <1>1, <1>2, <1>3

(* Every step preserves the invariant. *)
LEMMA Inductive == IInv /\ [Next]_vars => IInv'
<1> SUFFICES ASSUME IInv, [Next]_vars PROVE IInv'
  OBVIOUS
<1>1. CASE UNCHANGED vars
  <2>1. AllSound'
    BY <1>1 DEF vars, IInv, AllSound, SoundRequest, Alternates, Replayable,
       Transcoding, Retries, Holding
  <2> QED
    BY <1>1, <2>1 DEF vars, IInv, Shape, ProbedIsDead, ConnectionsBalanced,
       ProbeHasOwner, Holders, Holds
<1>2. ASSUME NEW r \in Requests, Arrive(r) \/ Progress(r) PROVE IInv'
  <2>1. CASE Arrive(r) \/ Buffered(r) \/ BodyUnreadable(r) \/ Select(r)
    BY <2>1, SelectPreserves
  <2>2. CASE Enter(r) \/ EnterFails(r) \/ EnterTranscoding(r)
    BY <2>2, EnterPreserves
  <2>3. CASE \/ SchemaReady(r) \/ SchemaFails(r) \/ TranscodingTimeout(r)
             \/ TranscodingResponse(r) \/ Backoff(r) \/ BodyEnd(r)
    BY <2>3, UnjudgedPreserves
  <2>4. CASE \/ Timeout(r) \/ UpstreamFailure(r) \/ Outlier(r) \/ Success(r)
             \/ ClientFault(r) \/ Disconnect(r)
    BY <2>4, JudgedPreserves
  <2> QED
    BY <1>2, <2>1, <2>2, <2>3, <2>4 DEF Progress, Await
<1> QED
  BY <1>1, <1>2, NodePreserves DEF Next

(* The invariant holds in every reachable state. *)
LEMMA Invariance == Spec => []IInv
<1> QED
  BY InitIInv, Inductive, PTL DEF Spec

(* Every variable keeps its type: in particular no loop makes more attempts
   than max_retries, clamped to the other nodes, allows. *)
THEOREM TypeCorrect == Spec => []TypeOK
<1>1. IInv => TypeOK
  <2> SUFFICES ASSUME IInv PROVE TypeOK
    OBVIOUS
  <2>1. ASSUME NEW r \in Requests
        PROVE  req[r] \in [pc : PCs, idempotent : BOOLEAN, streamed : BOOLEAN,
                  attempts : 0..(Retries + 1), failed : SUBSET Nodes,
                  node : Nodes \cup {NoNode}, is_probe : BOOLEAN,
                  sends : Seq(Nodes), reply : Replies]
    <3>1. req[r].attempts \in 0..(Retries + 1)
      BY RetriesClamped DEF IInv, Shape, AllSound, SoundRequest, RequestType
    <3> QED
      BY <3>1 DEF IInv, Shape, RequestType
  <2> QED
    BY <2>1 DEF IInv, Shape, TypeOK
<1> QED
  BY <1>1, Invariance, PTL

(* active_connections of a node, on which LeastConnections balances, is exactly
   the number of requests that hold a connection to it (ConnectionGuard and
   TrackedBody). *)
THEOREM CountersBalanced == Spec => []ConnectionsBalanced
<1>1. IInv => ConnectionsBalanced
  BY DEF IInv
<1> QED
  BY <1>1, Invariance, PTL

(* A taken half_open_probe_in_flight belongs to a request in flight on the node
   whose ProbeGuard will free it. *)
THEOREM ProbeOwned == Spec => []ProbeHasOwner
<1>1. IInv => ProbeHasOwner
  BY DEF IInv
<1> QED
  BY <1>1, Invariance, PTL

(* The retry loops resend only what is safe to resend; those of handle_http_proxy
   and handle_grpc_passthrough never to a node that has already failed the
   request, and they give up only after the last attempt. *)
THEOREM RetriesSound == Spec => []RetriesAreSound
<1>1. IInv => RetriesAreSound
  <2> SUFFICES ASSUME IInv PROVE RetriesAreSound
    OBVIOUS
  <2>0. \A r \in Requests :
           /\ SoundRequest(req[r])
           /\ DOMAIN req[r].sends = 1..Len(req[r].sends)
    BY DEF IInv, AllSound, Shape, RequestType
  <2>1. ReplayIsSafe
    BY <2>0 DEF ReplayIsSafe, SoundRequest, Replayable
  <2>2. RetriesAlternate
    BY <2>0 DEF RetriesAlternate, SoundRequest, Alternates
  <2>3. GatewayErrorIsLast
    BY <2>0 DEF GatewayErrorIsLast, SoundRequest, Replayable
  <2> QED
    BY <2>1, <2>2, <2>3 DEF RetriesAreSound
<1> QED
  BY <1>1, Invariance, PTL

-----------------------------------------------------------------------------
(* One node's breaker under any number of request tasks, health checkers and
   admin tasks, any threshold and any cooldown, with its methods opened up to
   single atomic operations.  Each of the three structural invariants says
   that a state which must not last has a task that will end it.  They are
   inductive on their own (given the types) because every step that leaves a
   witness' program point either ends the state or leads to the next witness
   point, and because every step that starts the state makes its own task a
   witness. *)

(* The inductive invariant. *)
CircuitInv == CircuitTypeOK /\ ProbeSlotHeld /\ HalfOpenHasProbe /\ ClosedIsTransient

(* Every step of the breaker, of its guard and of the tasks that use it
   preserves the types. *)
LEMMA CircuitTypes == CircuitTypeOK /\ [CircuitNext]_circuit_vars => CircuitTypeOK'
<1> SUFFICES ASSUME CircuitTypeOK, [CircuitNext]_circuit_vars PROVE CircuitTypeOK'
  OBVIOUS
<1> USE ThresholdAssumption, CooldownAssumption, OtherNodesAssumption,
        FallbackAssumption
<1>0. Limit \in Nat /\ 1 <= Limit
  BY DEF Limit
<1>1. CASE UNCHANGED circuit_vars
  BY <1>1 DEF circuit_vars, node, local, CircuitTypeOK
<1>2. CASE Tick
  BY <1>2 DEF Tick, local, CircuitTypeOK, NoStamp
<1>3. ASSUME NEW t \in Tasks,
             \/ Continue(t) \/ Response(t) \/ StartAttempt(t)
             \/ HealthCheck(t) \/ CheckEnds(t) \/ AdminAction(t)
      PROVE  CircuitTypeOK'
  <2>a. ASSUME NEW l \in Labels, Goto(t, l)
        PROVE  /\ pc' \in [Tasks -> Labels]
               /\ is_probe' \in [Tasks -> BOOLEAN]
               /\ failures' \in [Tasks -> 0..Limit]
    BY <2>a DEF Goto, CircuitTypeOK
  <2>b. ASSUME Leave(t)
        PROVE  /\ pc' \in [Tasks -> Labels]
               /\ is_probe' \in [Tasks -> BOOLEAN]
               /\ failures' \in [Tasks -> 0..Limit]
    <3>1. "idle" \in Labels
      BY DEF Labels
    <3> QED BY <2>b, <3>1, <1>0 DEF Leave, CircuitTypeOK
  <2>1. CASE IsAvailable(t)
    BY <2>1, <2>a, <2>b
    DEF IsAvailable, AvAlive, AvProbe, AvTime, Unavailable, At, node, Labels,
        CircuitTypeOK
  <2>2. CASE TryEnter(t)
    <3>1. CASE TeAlive(t) \/ TeTime(t) \/ TeCas(t)
      BY <3>1, <2>a DEF TeAlive, TeTime, TeCas, node, Labels, CircuitTypeOK
    <3>2. CASE TeStore(t)
      BY <3>2 DEF TeStore, Labels, States, CircuitTypeOK
    <3> QED BY <2>2, <3>1, <3>2 DEF TryEnter
  <2>3. CASE MarkDeadStep(t)
    <3>1. CASE MdAlive(t) \/ MdState(t) \/ MdProbe(t)
      BY <3>1, <2>a DEF MdAlive, MdState, MdProbe, Labels, States, CircuitTypeOK
    <3>2. CASE MdTime(t)
      BY <3>2, <2>b DEF MdTime, CircuitTypeOK
    <3> QED BY <2>3, <3>1, <3>2 DEF MarkDeadStep
  <2>4. CASE MarkAliveStep(t)
    <3>0. CASE MaCount(t)
      BY <3>0, <2>a, <1>0 DEF MaCount, Labels, CircuitTypeOK
    <3>1. CASE MaProbe(t)
      BY <3>1, <2>a DEF MaProbe, Labels, CircuitTypeOK
    <3>2. CASE MaState(t) \/ MaAlive(t)
      BY <3>2, <2>a DEF MaState, MaAlive, Labels, States, CircuitTypeOK
    <3>3. CASE MaTime(t)
      BY <3>3, <2>b DEF MaTime, CircuitTypeOK
    <3> QED BY <2>4, <3>0, <3>1, <3>2, <3>3 DEF MarkAliveStep
  <2>5. CASE RecordSuccessStep(t)
    BY <2>5, <2>a, <2>b DEF RecordSuccessStep, RsAlive, RsCount, node, Labels,
                            CircuitTypeOK
  <2>6. CASE RecordFailureStep(t)
    <3>1. CASE RfAdd(t)
      BY <3>1, <1>0 DEF RfAdd, Labels, CircuitTypeOK
    <3>2. CASE RfSwap(t) \/ RfState(t)
      BY <3>2, <2>a, <2>b DEF RfSwap, RfState, node, Labels, CircuitTypeOK
    <3> QED BY <2>6, <3>1, <3>2 DEF RecordFailureStep
  <2>7. CASE DropGuard(t)
    BY <2>7, <2>a, <2>b DEF DropGuard, GdProbe, GdState, Labels, States,
                            CircuitTypeOK
  <2>8. CASE Verdict(t)
    BY <2>8, <2>a, <2>b DEF Verdict, HcOk, HcBad, HcTime, node, Labels,
                            CircuitTypeOK
  <2>9. CASE Response(t)
    BY <2>9, <2>a, <2>b DEF Response, SuccessSeen, OutlierSeen, HardFailure,
                            Abort, node, Labels, CircuitTypeOK
  <2>10. CASE \/ StartAttempt(t) \/ HealthCheck(t) \/ CheckEnds(t)
             \/ AdminAction(t)
    BY <2>10, <2>a DEF StartAttempt, HealthCheck, CheckEnds, CheckHealthy,
                       CheckUnhealthy, CheckNoReflection, AdminAction, node, Labels,
                       CircuitTypeOK
  <2> QED
    BY <1>3, <2>1, <2>2, <2>3, <2>4, <2>5, <2>6, <2>7, <2>8, <2>9, <2>10
    DEF Continue
<1> QED
  BY <1>1, <1>2, <1>3 DEF CircuitNext

(* The probe slot: the steps that take it, that kill the node, or that move a
   task away from a point where it would release the slot. *)
LEMMA SlotStep == CircuitTypeOK /\ ProbeSlotHeld /\ [CircuitNext]_circuit_vars => ProbeSlotHeld'
<1> SUFFICES ASSUME CircuitTypeOK, ProbeSlotHeld, [CircuitNext]_circuit_vars,
                    half_open_probe_in_flight', ~is_alive'
             PROVE  \E u \in Tasks : ReleasesSlot(u)'
  BY DEF ProbeSlotHeld
<1>1. CASE UNCHANGED circuit_vars \/ Tick
  BY <1>1 DEF circuit_vars, node, local, Tick, ProbeSlotHeld, ReleasesSlot
<1>2. ASSUME NEW t \in Tasks,
             \/ Continue(t) \/ Response(t) \/ StartAttempt(t)
             \/ HealthCheck(t) \/ CheckEnds(t) \/ AdminAction(t)
      PROVE  \E u \in Tasks : ReleasesSlot(u)'
  <2> USE DEF At
  <2>a. ASSUME NEW u \in Tasks, NEW l, Goto(t, l)
        PROVE  /\ pc'[u] = IF u = t THEN l ELSE pc[u]
               /\ is_probe'[u] = is_probe[u]
    BY <2>a DEF Goto, CircuitTypeOK
  <2>b. ASSUME NEW u \in Tasks, Leave(t), u # t
        PROVE  pc'[u] = pc[u] /\ is_probe'[u] = is_probe[u]
    BY <2>b DEF Leave, CircuitTypeOK
  <2>1. CASE IsAvailable(t)
    BY <2>1, <2>a, <2>b DEF IsAvailable, AvAlive, AvProbe, AvTime, Unavailable,
                            node, ProbeSlotHeld, ReleasesSlot
  <2>2. CASE TryEnter(t)
    <3>1. CASE TeAlive(t) \/ TeTime(t)
      BY <3>1, <2>a DEF TeAlive, TeTime, node, ProbeSlotHeld, ReleasesSlot
    <3>2. CASE TeCas(t)
      BY <3>2, <2>a DEF TeCas, ProbeSlotHeld, ReleasesSlot
    <3>3. CASE TeStore(t)
      BY <3>3 DEF TeStore, CircuitTypeOK, ReleasesSlot
    <3> QED BY <2>2, <3>1, <3>2, <3>3 DEF TryEnter
  <2>3. CASE MarkDeadStep(t)
    BY <2>3, <2>a, <2>b DEF MarkDeadStep, MdAlive, MdState, MdProbe, MdTime,
                            ProbeSlotHeld, ReleasesSlot
  <2>4. CASE MarkAliveStep(t)
    BY <2>4, <2>a, <2>b DEF MarkAliveStep, MaCount, MaProbe, MaState, MaAlive,
                            MaTime, ProbeSlotHeld, ReleasesSlot
  <2>5. CASE RecordSuccessStep(t)
    <3>1. CASE RsAlive(t)
      BY <3>1, <2>a DEF RsAlive, node, ProbeSlotHeld, ReleasesSlot
    <3>2. CASE RsCount(t)
      BY <3>2, <2>a, <2>b DEF RsCount, node, ProbeSlotHeld, ReleasesSlot
    <3> QED BY <2>5, <3>1, <3>2 DEF RecordSuccessStep
  <2>6. CASE RecordFailureStep(t)
    <3>1. CASE RfAdd(t)
      BY <3>1 DEF RfAdd, CircuitTypeOK, ReleasesSlot
    <3>2. CASE RfSwap(t) \/ RfState(t)
      BY <3>2, <2>a, <2>b DEF RfSwap, RfState, node, ProbeSlotHeld,
                              ReleasesSlot
    <3> QED BY <2>6, <3>1, <3>2 DEF RecordFailureStep
  <2>7. CASE DropGuard(t)
    BY <2>7, <2>a, <2>b DEF DropGuard, GdProbe, GdState, ProbeSlotHeld,
                            ReleasesSlot
  <2>8. CASE Verdict(t)
    BY <2>8, <2>a, <2>b DEF Verdict, HcOk, HcBad, HcTime, node, ProbeSlotHeld,
                            ReleasesSlot
  <2>9. CASE Response(t)
    BY <2>9, <2>a, <2>b DEF Response, SuccessSeen, OutlierSeen, HardFailure,
                            Abort, node, ProbeSlotHeld, ReleasesSlot
  <2>10. CASE \/ StartAttempt(t) \/ HealthCheck(t) \/ CheckEnds(t)
             \/ AdminAction(t)
    BY <2>10, <2>a DEF StartAttempt, HealthCheck, CheckEnds, CheckHealthy,
                       CheckUnhealthy, CheckNoReflection, AdminAction, node, ProbeSlotHeld,
                       ReleasesSlot
  <2> QED
    BY <1>2, <2>1, <2>2, <2>3, <2>4, <2>5, <2>6, <2>7, <2>8, <2>9, <2>10
    DEF Continue
<1> QED
  BY <1>1, <1>2 DEF CircuitNext

(* HalfOpen: TeStore starts it and makes its own task the witness. *)
LEMMA HalfOpenStep == CircuitTypeOK /\ HalfOpenHasProbe /\ [CircuitNext]_circuit_vars => HalfOpenHasProbe'
<1> SUFFICES ASSUME CircuitTypeOK, HalfOpenHasProbe, [CircuitNext]_circuit_vars,
                    circuit_state' = "HalfOpen", ~is_alive'
             PROVE  \E u \in Tasks : LeavesHalfOpen(u)'
  BY DEF HalfOpenHasProbe
<1>1. CASE UNCHANGED circuit_vars \/ Tick
  BY <1>1 DEF circuit_vars, node, local, Tick, HalfOpenHasProbe, LeavesHalfOpen
<1>2. ASSUME NEW t \in Tasks,
             \/ Continue(t) \/ Response(t) \/ StartAttempt(t)
             \/ HealthCheck(t) \/ CheckEnds(t) \/ AdminAction(t)
      PROVE  \E u \in Tasks : LeavesHalfOpen(u)'
  <2> USE DEF At
  <2>a. ASSUME NEW u \in Tasks, NEW l, Goto(t, l)
        PROVE  /\ pc'[u] = IF u = t THEN l ELSE pc[u]
               /\ is_probe'[u] = is_probe[u]
    BY <2>a DEF Goto, CircuitTypeOK
  <2>b. ASSUME NEW u \in Tasks, Leave(t), u # t
        PROVE  pc'[u] = pc[u] /\ is_probe'[u] = is_probe[u]
    BY <2>b DEF Leave, CircuitTypeOK
  <2>1. CASE IsAvailable(t)
    BY <2>1, <2>a, <2>b DEF IsAvailable, AvAlive, AvProbe, AvTime, Unavailable,
                            node, HalfOpenHasProbe, LeavesHalfOpen
  <2>2. CASE TryEnter(t)
    <3>1. CASE TeAlive(t) \/ TeTime(t)
      BY <3>1, <2>a DEF TeAlive, TeTime, node, HalfOpenHasProbe, LeavesHalfOpen
    <3>2. CASE TeCas(t)
      BY <3>2, <2>a DEF TeCas, HalfOpenHasProbe, LeavesHalfOpen
    <3>3. CASE TeStore(t)
      BY <3>3 DEF TeStore, CircuitTypeOK, LeavesHalfOpen
    <3> QED BY <2>2, <3>1, <3>2, <3>3 DEF TryEnter
  <2>3. CASE MarkDeadStep(t)
    BY <2>3, <2>a, <2>b DEF MarkDeadStep, MdAlive, MdState, MdProbe, MdTime,
                            HalfOpenHasProbe, LeavesHalfOpen
  <2>4. CASE MarkAliveStep(t)
    BY <2>4, <2>a, <2>b DEF MarkAliveStep, MaCount, MaProbe, MaState, MaAlive,
                            MaTime, HalfOpenHasProbe, LeavesHalfOpen
  <2>5. CASE RecordSuccessStep(t)
    <3>1. CASE RsAlive(t)
      BY <3>1, <2>a DEF RsAlive, node, HalfOpenHasProbe, LeavesHalfOpen
    <3>2. CASE RsCount(t)
      BY <3>2, <2>a, <2>b DEF RsCount, node, HalfOpenHasProbe, LeavesHalfOpen
    <3> QED BY <2>5, <3>1, <3>2 DEF RecordSuccessStep
  <2>6. CASE RecordFailureStep(t)
    <3>1. CASE RfAdd(t)
      BY <3>1 DEF RfAdd, CircuitTypeOK, LeavesHalfOpen
    <3>2. CASE RfSwap(t) \/ RfState(t)
      BY <3>2, <2>a, <2>b DEF RfSwap, RfState, node, HalfOpenHasProbe,
                              LeavesHalfOpen
    <3> QED BY <2>6, <3>1, <3>2 DEF RecordFailureStep
  <2>7. CASE DropGuard(t)
    BY <2>7, <2>a, <2>b DEF DropGuard, GdProbe, GdState, HalfOpenHasProbe,
                            LeavesHalfOpen
  <2>8. CASE Verdict(t)
    BY <2>8, <2>a, <2>b DEF Verdict, HcOk, HcBad, HcTime, node,
                            HalfOpenHasProbe, LeavesHalfOpen
  <2>9. CASE Response(t)
    BY <2>9, <2>a, <2>b DEF Response, SuccessSeen, OutlierSeen, HardFailure,
                            Abort, node, HalfOpenHasProbe, LeavesHalfOpen
  <2>10. CASE \/ StartAttempt(t) \/ HealthCheck(t) \/ CheckEnds(t)
             \/ AdminAction(t)
    BY <2>10, <2>a DEF StartAttempt, HealthCheck, CheckEnds, CheckHealthy,
                       CheckUnhealthy, CheckNoReflection, AdminAction, node, HalfOpenHasProbe,
                       LeavesHalfOpen
  <2> QED
    BY <1>2, <2>1, <2>2, <2>3, <2>4, <2>5, <2>6, <2>7, <2>8, <2>9, <2>10
    DEF Continue
<1> QED
  BY <1>1, <1>2 DEF CircuitNext

(* Closed on a dead node: begun by mark_alive's third store or by mark_dead's
   first, and ended by the very next store of the same task. *)
LEMMA ClosedStep == CircuitTypeOK /\ ClosedIsTransient /\ [CircuitNext]_circuit_vars => ClosedIsTransient'
<1> SUFFICES ASSUME CircuitTypeOK, ClosedIsTransient, [CircuitNext]_circuit_vars,
                    circuit_state' = "Closed", ~is_alive'
             PROVE  \E u \in Tasks : pc'[u] \in {"ma_alive", "md_state"}
  BY DEF ClosedIsTransient
<1>1. CASE UNCHANGED circuit_vars \/ Tick
  BY <1>1 DEF circuit_vars, node, local, Tick, ClosedIsTransient
<1>2. ASSUME NEW t \in Tasks,
             \/ Continue(t) \/ Response(t) \/ StartAttempt(t)
             \/ HealthCheck(t) \/ CheckEnds(t) \/ AdminAction(t)
      PROVE  \E u \in Tasks : pc'[u] \in {"ma_alive", "md_state"}
  <2> USE DEF At
  <2>a. ASSUME NEW u \in Tasks, NEW l, Goto(t, l)
        PROVE  /\ pc'[u] = IF u = t THEN l ELSE pc[u]
               /\ is_probe'[u] = is_probe[u]
    BY <2>a DEF Goto, CircuitTypeOK
  <2>b. ASSUME NEW u \in Tasks, Leave(t), u # t
        PROVE  pc'[u] = pc[u] /\ is_probe'[u] = is_probe[u]
    BY <2>b DEF Leave, CircuitTypeOK
  <2>1. CASE IsAvailable(t)
    BY <2>1, <2>a, <2>b DEF IsAvailable, AvAlive, AvProbe, AvTime, Unavailable,
                            node, ClosedIsTransient
  <2>2. CASE TryEnter(t)
    <3>1. CASE TeAlive(t) \/ TeTime(t)
      BY <3>1, <2>a DEF TeAlive, TeTime, node, ClosedIsTransient
    <3>2. CASE TeCas(t)
      BY <3>2, <2>a DEF TeCas, ClosedIsTransient
    <3>3. CASE TeStore(t)
      BY <3>3 DEF TeStore, CircuitTypeOK
    <3> QED BY <2>2, <3>1, <3>2, <3>3 DEF TryEnter
  <2>3. CASE MarkDeadStep(t)
    BY <2>3, <2>a, <2>b DEF MarkDeadStep, MdAlive, MdState, MdProbe, MdTime,
                            ClosedIsTransient
  <2>4. CASE MarkAliveStep(t)
    BY <2>4, <2>a, <2>b DEF MarkAliveStep, MaCount, MaProbe, MaState, MaAlive,
                            MaTime, ClosedIsTransient
  <2>5. CASE RecordSuccessStep(t)
    <3>1. CASE RsAlive(t)
      BY <3>1, <2>a DEF RsAlive, node, ClosedIsTransient
    <3>2. CASE RsCount(t)
      BY <3>2, <2>a, <2>b DEF RsCount, node, ClosedIsTransient
    <3> QED BY <2>5, <3>1, <3>2 DEF RecordSuccessStep
  <2>6. CASE RecordFailureStep(t)
    <3>1. CASE RfAdd(t)
      BY <3>1 DEF RfAdd, CircuitTypeOK, ClosedIsTransient
    <3>2. CASE RfSwap(t) \/ RfState(t)
      BY <3>2, <2>a, <2>b DEF RfSwap, RfState, node, ClosedIsTransient
    <3> QED BY <2>6, <3>1, <3>2 DEF RecordFailureStep
  <2>7. CASE DropGuard(t)
    BY <2>7, <2>a, <2>b DEF DropGuard, GdProbe, GdState, ClosedIsTransient
  <2>8. CASE Verdict(t)
    BY <2>8, <2>a, <2>b DEF Verdict, HcOk, HcBad, HcTime, node,
                            ClosedIsTransient
  <2>9. CASE Response(t)
    BY <2>9, <2>a, <2>b DEF Response, SuccessSeen, OutlierSeen, HardFailure,
                            Abort, node, ClosedIsTransient
  <2>10. CASE \/ StartAttempt(t) \/ HealthCheck(t) \/ CheckEnds(t)
             \/ AdminAction(t)
    BY <2>10, <2>a DEF StartAttempt, HealthCheck, CheckEnds, CheckHealthy,
                       CheckUnhealthy, CheckNoReflection, AdminAction, node, ClosedIsTransient
  <2> QED
    BY <1>2, <2>1, <2>2, <2>3, <2>4, <2>5, <2>6, <2>7, <2>8, <2>9, <2>10
    DEF Continue
<1> QED
  BY <1>1, <1>2 DEF CircuitNext

(* Every invariant of IInv, together. *)
LEMMA CircuitKept == CircuitInv /\ [CircuitNext]_circuit_vars => CircuitInv'
  BY CircuitTypes, SlotStep, HalfOpenStep, ClosedStep DEF CircuitInv

(* A new UpstreamNode satisfies the invariant. *)
LEMMA CircuitBegins == CircuitInit => CircuitInv
<1> SUFFICES ASSUME CircuitInit PROVE CircuitInv
  OBVIOUS
<1>0. 0 \in 0..Limit
  BY ThresholdAssumption DEF Limit
<1>1. CircuitTypeOK
  BY <1>0 DEF CircuitInit, CircuitTypeOK, States, Labels
<1> QED
  BY <1>1 DEF CircuitInit, CircuitInv, ProbeSlotHeld, HalfOpenHasProbe,
              ClosedIsTransient

(* The inductive invariant holds in every reachable state. *)
THEOREM CircuitInvariance == CircuitSpec => []CircuitInv
<1>1. QED
  BY CircuitBegins, CircuitKept, PTL DEF CircuitSpec

(* Type correctness of the node's atomics and of every task's program point. *)
THEOREM CircuitTypeCorrect == CircuitSpec => []CircuitTypeOK
<1>1. CircuitInv => CircuitTypeOK
  BY DEF CircuitInv
<1> QED
  BY CircuitInvariance, <1>1, PTL

(* half_open_probe_in_flight of a dead node is never leaked, however requests,
   health checks and admin actions interleave. *)
THEOREM ProbeSlotNeverLeaks == CircuitSpec => []ProbeSlotHeld
<1>1. CircuitInv => ProbeSlotHeld
  BY DEF CircuitInv
<1> QED
  BY CircuitInvariance, <1>1, PTL

(* A dead node is HalfOpen only while some task is about to end it: the
   guarantee of ProbeGuard. *)
THEOREM HalfOpenNeverStranded == CircuitSpec => []HalfOpenHasProbe
<1>1. CircuitInv => HalfOpenHasProbe
  BY DEF CircuitInv
<1> QED
  BY CircuitInvariance, <1>1, PTL

(* When no call is in progress, a dead node is Open and its probe slot is free,
   so that only its failure timestamp decides when it is probed again. *)
THEOREM DeadNodeOpen == CircuitSpec => []DeadNodeIsOpen
<1>1. CircuitInv => DeadNodeIsOpen
  <2> SUFFICES ASSUME CircuitInv, Quiescent, ~is_alive
               PROVE  circuit_state = "Open" /\ ~half_open_probe_in_flight
    BY DEF DeadNodeIsOpen
  <2>1. ~half_open_probe_in_flight
    BY DEF CircuitInv, ProbeSlotHeld, ReleasesSlot, Quiescent
  <2>2. circuit_state # "HalfOpen"
    BY DEF CircuitInv, HalfOpenHasProbe, LeavesHalfOpen, Quiescent
  <2>3. circuit_state # "Closed"
    BY DEF CircuitInv, ClosedIsTransient, Quiescent
  <2> QED
    BY <2>1, <2>2, <2>3 DEF CircuitInv, CircuitTypeOK, States
<1> QED
  BY CircuitInvariance, <1>1, PTL
=============================================================================
