---------------------------- MODULE QueueProofs -----------------------------
(***************************************************************************)
(* Proofs about the two places where the tasks of a route queue up: the    *)
(* semaphore of ConcurrencyLimit (module RequestLimits, with the body      *)
(* limit of the same file) and the lock of the gRPC schema (module         *)
(* ReflectionCache, whose state is its own),                               *)
(* for any tasks, permits, limits, bodies and TTL.                         *)
(*                                                                         *)
(* The semaphore: each waiter stands in the queue once, and free plus held *)
(* permits are the configured number, from which it follows that a permit  *)
(* handed over to a waiter that leaves is passed on.                       *)
(*                                                                         *)
(* The bodies: LimitedBody's state is in step with the body when it stands *)
(* in the prefix or the content of the message a reader of the whole body  *)
(* would be in.  One round of the loop keeps it in step, the loop ends     *)
(* because every round has less to do (the least element of the set of     *)
(* rounds that are left), and so every frame does, however long it is.     *)
(***************************************************************************)
EXTENDS RequestLimits, ReflectionCache, FiniteSetTheorems, SequenceTheorems,
        WellFoundedInduction, TLAPS

-----------------------------------------------------------------------------
(* Queues *)

(* The elements of a queue, by their places. *)
LEMMA QueueSet ==
    ASSUME NEW T, NEW q \in Seq(T)
    PROVE  ToSet(q) = {q[i] : i \in 1..Len(q)} /\ (q = << >> <=> ToSet(q) = {})
<1>1. DOMAIN q = 1..Len(q) /\ Len(q) \in Nat
  OBVIOUS
<1>2. ToSet(q) = {q[i] : i \in 1..Len(q)}
  BY <1>1 DEF ToSet
<1>3. ASSUME q # << >> PROVE ToSet(q) # {}
  <2>1. 1 \in 1..Len(q)
    BY <1>1, <1>3
  <2> QED BY <1>2, <2>1
<1>4. q = << >> => Len(q) = 0
  OBVIOUS
<1>5. Len(q) = 0 => 1..Len(q) = {}
  OBVIOUS
<1>6. ASSUME q = << >> PROVE ToSet(q) = {}
  BY <1>2, <1>4, <1>5, <1>6, Zenon
<1> QED BY <1>2, <1>3, <1>6

(* A concatenation, by its places. *)
LEMMA Concatenated ==
    ASSUME NEW T, NEW a \in Seq(T), NEW b \in Seq(T)
    PROVE  /\ (a \o b) \in Seq(T) /\ Len(a \o b) = Len(a) + Len(b)
           /\ \A i \in 1..(Len(a) + Len(b)) :
                 (a \o b)[i] = IF i <= Len(a) THEN a[i] ELSE b[i - Len(a)]
<1> DEFINE w == a \o b
<1>1. /\ w \in Seq(T) /\ Len(w) = Len(a) + Len(b)
      /\ \A i \in 1..(Len(a) + Len(b)) : w[i] = IF i <= Len(a) THEN a[i] ELSE b[i - Len(a)]
  BY ConcatProperties
<1> HIDE DEF w
<1> QED BY <1>1, Zenon DEF w

(* A queue in which nobody stands twice stays one when another joins at its
   end (Semaphore::acquire, Mutex::lock). *)
LEMMA QueueAppend ==
    ASSUME NEW T, NEW q \in Seq(T), NEW e \in T, e \notin ToSet(q),
           \A i, j \in 1..Len(q) : q[i] = q[j] => i = j
    PROVE  LET s == Append(q, e) IN
           /\ s \in Seq(T) /\ ToSet(s) = ToSet(q) \cup {e}
           /\ \A i, j \in 1..Len(s) : s[i] = s[j] => i = j
<1> DEFINE s == Append(q, e)
<1>0. Len(q) \in Nat
  OBVIOUS
<1>1. s \in Seq(T) /\ Len(s) = Len(q) + 1 /\ s[Len(q) + 1] = e
      /\ \A i \in 1..Len(q) : s[i] = q[i]
  BY <1>0
<1> HIDE DEF s
<1>2. 1..Len(s) = 1..Len(q) \cup {Len(q) + 1}
  BY <1>0, <1>1
<1>3. ToSet(s) = {s[i] : i \in 1..Len(s)} /\ ToSet(q) = {q[i] : i \in 1..Len(q)}
  BY <1>1, QueueSet
<1>4. ToSet(s) = ToSet(q) \cup {e}
  BY <1>1, <1>2, <1>3
<1>5. \A i, j \in 1..Len(s) : s[i] = s[j] => i = j
  BY <1>1, <1>2, <1>3
<1> QED BY <1>1, <1>4, <1>5 DEF s

(* When the first leaves (the permit is handed to it), the others keep their
   places. *)
LEMMA QueueTail ==
    ASSUME NEW T, NEW q \in Seq(T), q # << >>,
           \A i, j \in 1..Len(q) : q[i] = q[j] => i = j
    PROVE  LET s == Tail(q) IN
           /\ Head(q) \in ToSet(q) /\ Head(q) \in T
           /\ s \in Seq(T) /\ ToSet(s) = ToSet(q) \ {Head(q)}
           /\ \A i, j \in 1..Len(s) : s[i] = s[j] => i = j
<1> DEFINE s == Tail(q)
<1>0. Len(q) \in Nat /\ Len(q) > 0
  OBVIOUS
<1>1. s \in Seq(T) /\ Len(s) = Len(q) - 1 /\ Head(q) = q[1]
      /\ \A i \in 1..(Len(q) - 1) : s[i] = q[i + 1]
  BY <1>0
<1> HIDE DEF s
<1>2. ToSet(s) = {s[i] : i \in 1..Len(s)} /\ ToSet(q) = {q[i] : i \in 1..Len(q)}
  BY <1>1, QueueSet
<1>3. \A i \in 1..Len(q) : i # 1 => i - 1 \in 1..Len(s) /\ s[i - 1] = q[i]
  BY <1>0, <1>1
<1>4. \A i \in 1..Len(s) : i + 1 \in 1..Len(q) /\ i + 1 # 1 /\ s[i] = q[i + 1]
  BY <1>0, <1>1
<1>5. 1 \in 1..Len(q)
  BY <1>0
<1>6. ToSet(s) = ToSet(q) \ {Head(q)}
  BY <1>1, <1>2, <1>3, <1>4, <1>5
<1>7. \A i, j \in 1..Len(s) : s[i] = s[j] => i = j
  <2> SUFFICES ASSUME NEW i \in 1..Len(s), NEW j \in 1..Len(s), s[i] = s[j] PROVE i = j
    OBVIOUS
  <2>1. i + 1 = j + 1
    BY <1>4
  <2> QED BY <2>1, <1>0, <1>1
<1>8. Head(q) \in ToSet(q) /\ Head(q) \in T
  BY <1>1, <1>2, <1>5
<1> QED BY <1>1, <1>6, <1>7, <1>8 DEF s

(* When anyone leaves (its Acquire future or its guard is dropped), the others
   close up. *)
LEMMA QueueRemove ==
    ASSUME NEW T, NEW q \in Seq(T), NEW k \in 1..Len(q),
           \A i, j \in 1..Len(q) : q[i] = q[j] => i = j
    PROVE  LET s == RemoveAt(q, k) IN
           /\ s \in Seq(T) /\ ToSet(s) = ToSet(q) \ {q[k]} /\ Len(s) = Len(q) - 1
           /\ \A i, j \in 1..Len(s) : s[i] = s[j] => i = j
           /\ \A i \in 1..Len(s) : s[i] = IF i < k THEN q[i] ELSE q[i + 1]
<1> DEFINE a == SubSeq(q, 1, k - 1)
           b == SubSeq(q, k + 1, Len(q))
           s == a \o b
<1>0. Len(q) \in Nat /\ k \in Nat
  OBVIOUS
<1>1. a \in Seq(T) /\ Len(a) = k - 1 /\ \A i \in 1..(k - 1) : a[i] = q[i]
  BY <1>0
<1>2. b \in Seq(T) /\ Len(b) = Len(q) - k /\ \A i \in 1..(Len(q) - k) : b[i] = q[k + i]
  BY <1>0
<1>3. RemoveAt(q, k) = s
  BY DEF RemoveAt
<1> HIDE DEF a, b
<1>4. /\ s \in Seq(T) /\ Len(s) = Len(a) + Len(b)
      /\ \A i \in 1..(Len(a) + Len(b)) : s[i] = IF i <= Len(a) THEN a[i] ELSE b[i - Len(a)]
  <2>1. a \in Seq(T) /\ b \in Seq(T)
    BY <1>1, <1>2
  <2> QED BY <2>1, Concatenated
<1> HIDE DEF s
<1>5. Len(s) = Len(q) - 1
  BY <1>0, <1>1, <1>2, <1>4
<1>6. ASSUME NEW i \in 1..Len(s)
      PROVE  s[i] = IF i < k THEN q[i] ELSE q[i + 1]
  <2>1. CASE i < k
    BY <1>0, <1>1, <1>4, <1>5, <2>1
  <2>2. CASE ~(i < k)
    <3>1. i - Len(a) \in 1..(Len(q) - k) /\ k + (i - Len(a)) = i + 1 /\ ~(i <= Len(a))
      BY <1>0, <1>1, <1>5, <2>2
    <3>2. s[i] = b[i - Len(a)]
      BY <1>0, <1>1, <1>2, <1>4, <3>1
    <3> QED BY <1>2, <3>1, <3>2, <2>2
  <2> QED BY <2>1, <2>2
<1>7. ToSet(s) = {s[i] : i \in 1..Len(s)} /\ ToSet(q) = {q[i] : i \in 1..Len(q)}
  BY <1>4, QueueSet
<1> DEFINE at(i) == IF i < k THEN i ELSE i + 1
<1>8. \A i \in 1..Len(s) : at(i) \in 1..Len(q) /\ at(i) # k /\ s[i] = q[at(i)]
  BY <1>0, <1>5, <1>6
<1>9. \A i \in 1..Len(q) : i # k => \E j \in 1..Len(s) : at(j) = i
  <2> SUFFICES ASSUME NEW i \in 1..Len(q), i # k PROVE \E j \in 1..Len(s) : at(j) = i
    OBVIOUS
  <2>1. CASE i < k
    <3>1. i \in 1..Len(s) /\ at(i) = i
      BY <1>0, <1>5, <2>1
    <3> QED BY <3>1
  <2>2. CASE ~(i < k)
    <3>1. i - 1 \in 1..Len(s) /\ at(i - 1) = i
      BY <1>0, <1>5, <2>2
    <3> QED BY <3>1
  <2> QED BY <2>1, <2>2
<1>10. \A i, j \in 1..Len(s) : at(i) = at(j) => i = j
  BY <1>0, <1>5
<1> HIDE DEF at
<1>11. ToSet(s) = ToSet(q) \ {q[k]}
  <2>1. ASSUME NEW e \in ToSet(s) PROVE e \in ToSet(q) \ {q[k]}
    BY <1>7, <1>8
  <2>2. ASSUME NEW e \in ToSet(q) \ {q[k]} PROVE e \in ToSet(s)
    <3>1. PICK i \in 1..Len(q) : e = q[i] /\ i # k
      BY <1>7
    <3>2. PICK j \in 1..Len(s) : at(j) = i
      BY <1>9, <3>1
    <3> QED BY <1>7, <1>8, <3>1, <3>2
  <2> QED BY <2>1, <2>2
<1>12. \A i, j \in 1..Len(s) : s[i] = s[j] => i = j
  BY <1>8, <1>10
<1> QED BY <1>3, <1>4, <1>5, <1>6, <1>11, <1>12

-----------------------------------------------------------------------------
(* The bytes of a body *)

(* A set of numbers has a least one. *)
LEMMA LeastElement ==
    ASSUME NEW S \in SUBSET Nat, S # {}
    PROVE  \E m \in S : \A x \in S : m <= x
<1>1. PICK m \in S : \A x \in S : ~(<<x, m>> \in OpToRel(<, Nat))
  BY NatLessThanWellFounded, WFMin
<1>2. \A x \in S : ~(x < m)
  BY <1>1 DEF OpToRel
<1> QED BY <1>2

(* One round of FlattenSeq, with the rounds before it in g. *)
Flattened(q, g, i) == IF i = 1 THEN q[i] ELSE g[i - 1] \o q[i]

(* FlattenSeq's recursive function exists, up to any length. *)
LEMMA FlattenRuns ==
    ASSUME NEW q
    PROVE  \A n \in Nat : \E g : g = [i \in 1..n |-> Flattened(q, g, i)]
<1> DEFINE Run(n) == \E g : g = [i \in 1..n |-> Flattened(q, g, i)]
           bad == {n \in Nat : ~Run(n)}
<1> SUFFICES ASSUME bad # {}
             PROVE  FALSE
  OBVIOUS
<1>1. PICK m \in bad : \A x \in bad : m <= x
  BY LeastElement
<1>2. CASE m = 0
  <2> DEFINE g == [i \in 1..0 |-> << >>]
  <2>1. g = [i \in 1..0 |-> Flattened(q, g, i)]
    OBVIOUS
  <2> QED BY <1>1, <1>2, <2>1
<1>3. CASE m # 0
  <2>1. m - 1 \in Nat /\ m \in Nat /\ m - 1 \notin bad
    BY <1>1, <1>3
  <2>2. PICK g : g = [i \in 1..(m - 1) |-> Flattened(q, g, i)]
    BY <2>1
  <2> DEFINE h == [i \in 1..m |-> Flattened(q, g, i)]
  <2>3. \A i \in 1..(m - 1) : h[i] = g[i]
    BY <2>1, <2>2
  <2>4. \A i \in 1..m : Flattened(q, h, i) = Flattened(q, g, i)
    <3> HIDE DEF h
    <3> SUFFICES ASSUME NEW i \in 1..m, i # 1
                 PROVE  Flattened(q, h, i) = Flattened(q, g, i)
      BY DEF Flattened
    <3>1. i - 1 \in 1..(m - 1)
      BY <2>1
    <3> QED BY <2>3, <3>1 DEF Flattened
  <2>5. h = [i \in 1..m |-> Flattened(q, h, i)]
    BY <2>4
  <2> QED BY <1>1, <2>5
<1> QED BY <1>2, <1>3

(* f[i] is what the first i sequences of q make together. *)
Joins(q, f) ==
    /\ f[0] = << >> /\ f[Len(q)] = FlattenSeq(q)
    /\ \A i \in 1..Len(q) : f[i] = f[i - 1] \o q[i]

(* FlattenSeq is what joining one sequence after the other makes. *)
LEMMA FlattenJoins ==
    ASSUME NEW T, NEW q \in Seq(Seq(T))
    PROVE  \E f : Joins(q, f)
<1>0. Len(q) \in Nat /\ \A i \in 1..Len(q) : q[i] \in Seq(T)
  OBVIOUS
<1>1. CASE Len(q) = 0
  <2> DEFINE f == [i \in 0..0 |-> << >>]
  <2>1. q = << >> /\ FlattenSeq(q) = q
    BY <1>1 DEF FlattenSeq
  <2>2. f[0] = << >> /\ 1..Len(q) = {}
    BY <1>1
  <2> HIDE DEF f
  <2>3. Joins(q, f)
    BY <1>1, <2>1, <2>2 DEF Joins
  <2> QED BY <2>3
<1>2. CASE Len(q) # 0
  <2> DEFINE f == CHOOSE f : f = [i \in 1..Len(q) |->
                                    IF i = 1 THEN q[i] ELSE f[i - 1] \o q[i]]
             h == [i \in 0..Len(q) |-> IF i = 0 THEN << >> ELSE f[i]]
  <2>1. FlattenSeq(q) = f[Len(q)]
    BY <1>2, Zenon DEF FlattenSeq
  <2>2. \E g : g = [i \in 1..Len(q) |-> Flattened(q, g, i)]
    BY <1>0, FlattenRuns
  <2>3. f = [i \in 1..Len(q) |-> Flattened(q, f, i)]
    BY <2>2, Zenon DEF Flattened
  <2> HIDE DEF f
  <2>4. \A i \in 1..Len(q) : f[i] = Flattened(q, f, i)
    <3> DEFINE g == [i \in 1..Len(q) |-> Flattened(q, f, i)]
    <3>1. \A i \in 1..Len(q) : g[i] = Flattened(q, f, i)
      OBVIOUS
    <3> HIDE DEF g
    <3>2. f = g
      BY <2>3 DEF g
    <3> QED BY <3>1, <3>2
  <2>5. h[0] = << >> /\ h[Len(q)] = f[Len(q)]
    BY <1>0, <1>2
  <2>6. ASSUME NEW i \in 1..Len(q) PROVE h[i] = h[i - 1] \o q[i]
    <3>1. h[i] = f[i]
      BY <1>0
    <3>2. CASE i = 1
      <4>1. h[i - 1] = << >> /\ f[i] = q[i]
        BY <1>0, <2>4, <3>2 DEF Flattened
      <4>2. q[i] \in Seq(T)
        BY <1>0
      <4>3. << >> \o q[i] = q[i]
        BY <4>2, ConcatEmptySeq
      <4> QED BY <3>1, <4>1, <4>3
    <3>3. CASE i # 1
      <4>1. i - 1 \in 0..Len(q) /\ i - 1 # 0
        BY <1>0, <3>3
      <4>2. h[i - 1] = f[i - 1]
        BY <4>1
      <4>3. f[i] = f[i - 1] \o q[i]
        BY <2>4, <3>3, Zenon DEF Flattened
      <4> HIDE DEF h
      <4> QED BY <3>1, <4>2, <4>3
    <3> QED BY <3>2, <3>3
  <2> HIDE DEF h
  <2>7. Joins(q, h)
    BY <2>1, <2>5, <2>6 DEF Joins
  <2> QED BY <2>7
<1> QED BY <1>1, <1>2

(* Every part is a sequence, and the parts are determined by q. *)
LEMMA JoinsTyped ==
    ASSUME NEW T, NEW q \in Seq(Seq(T)), NEW f, Joins(q, f)
    PROVE  \A i \in 0..Len(q) : f[i] \in Seq(T)
<1>0. Len(q) \in Nat /\ \A i \in 1..Len(q) : q[i] \in Seq(T)
  OBVIOUS
<1> DEFINE bad == {i \in 0..Len(q) : f[i] \notin Seq(T)}
<1> SUFFICES ASSUME bad # {} PROVE FALSE
  OBVIOUS
<1>1. bad \in SUBSET Nat
  BY <1>0
<1>2. PICK m \in bad : \A x \in bad : m <= x
  BY <1>1, LeastElement
<1>3. m # 0
  <2>1. << >> \in Seq(T)
    OBVIOUS
  <2>2. f[0] \in Seq(T)
    BY <2>1 DEF Joins
  <2> QED BY <1>2, <2>2
<1>4. m \in 1..Len(q) /\ m - 1 \in 0..Len(q) /\ m - 1 \notin bad
  BY <1>0, <1>2, <1>3
<1>5. f[m] = f[m - 1] \o q[m] /\ f[m - 1] \in Seq(T) /\ q[m] \in Seq(T)
  BY <1>0, <1>4 DEF Joins
<1>6. f[m] \in Seq(T)
  BY <1>5, Concatenated
<1> QED BY <1>2, <1>6

(* What the first sequences make together does not depend on the rest. *)
LEMMA JoinsPrefix ==
    ASSUME NEW T, NEW q \in Seq(Seq(T)), NEW p \in Seq(Seq(T)), Len(p) <= Len(q),
           \A i \in 1..Len(p) : p[i] = q[i], NEW f, Joins(q, f)
    PROVE  FlattenSeq(p) = f[Len(p)]
<1>0. Len(p) \in Nat /\ Len(q) \in Nat
  OBVIOUS
<1>1. PICK g : Joins(p, g)
  BY FlattenJoins
<1> DEFINE bad == {i \in 0..Len(p) : f[i] # g[i]}
<1>2. bad = {}
  <2> SUFFICES ASSUME bad # {} PROVE FALSE
    OBVIOUS
  <2>1. bad \in SUBSET Nat
    BY <1>0
  <2>2. PICK m \in bad : \A x \in bad : m <= x
    BY <2>1, LeastElement
  <2>3. m # 0
    BY <1>1, <2>2 DEF Joins
  <2>4. m \in 1..Len(p) /\ m \in 1..Len(q) /\ m - 1 \in 0..Len(p) /\ m - 1 \notin bad
    BY <1>0, <2>2, <2>3
  <2>5. f[m] = f[m - 1] \o q[m] /\ g[m] = g[m - 1] \o p[m] /\ f[m - 1] = g[m - 1]
        /\ p[m] = q[m]
    BY <1>1, <2>4 DEF Joins
  <2> QED BY <2>2, <2>5
<1>3. Len(p) \in 0..Len(p)
  BY <1>0
<1> QED BY <1>1, <1>2, <1>3 DEF Joins

BodyType == [grpc : BOOLEAN, declared : Nat \cup {NoLength}, messages : Seq(Nat)]

(* One message of a body, and the body up to its message i. *)
Part(grpc, m) == (IF grpc THEN Bytes(m, HeaderLen) ELSE << >>) \o Bytes(Junk, m)
UpTo(body, i) == [body EXCEPT !.messages = SubSeq(@, 1, i)]
End(body, i)  == Len(Stream(UpTo(body, i)))

(* Bytes(v, n) is n times v. *)
LEMMA BytesShape ==
    ASSUME NEW v \in Nat, NEW n \in Nat
    PROVE  /\ Bytes(v, n) \in Seq(Nat) /\ Len(Bytes(v, n)) = n
           /\ \A i \in 1..n : Bytes(v, n)[i] = v
  BY DEF Bytes

(* A message is its prefix, every byte of which stands for its length, and its
   content. *)
LEMMA PartShape ==
    ASSUME NEW grpc \in BOOLEAN, NEW m \in Nat
    PROVE  LET s == Part(grpc, m) IN
           /\ s \in Seq(Nat)
           /\ grpc => /\ Len(s) = HeaderLen + m
                      /\ \A j \in 1..HeaderLen : s[j] = m
<1>0. HeaderLen \in Nat /\ Junk \in Nat
  BY BoundsAssumption DEF Junk
<1> DEFINE a == IF grpc THEN Bytes(m, HeaderLen) ELSE << >>
           b == Bytes(Junk, m)
<1>1. b \in Seq(Nat) /\ Len(b) = m
  BY <1>0, BytesShape
<1>2. a \in Seq(Nat) /\ (grpc => Len(a) = HeaderLen /\ \A j \in 1..HeaderLen : a[j] = m)
  <2>1. << >> \in Seq(Nat)
    OBVIOUS
  <2>2. CASE grpc
    BY <1>0, <2>2, BytesShape
  <2>3. CASE ~grpc
    BY <2>1, <2>3
  <2> QED BY <2>2, <2>3
<1> HIDE DEF a, b
<1> DEFINE s == a \o b
<1>3. /\ s \in Seq(Nat) /\ Len(s) = Len(a) + Len(b)
      /\ \A i \in 1..(Len(a) + Len(b)) : s[i] = IF i <= Len(a) THEN a[i] ELSE b[i - Len(a)]
  BY <1>1, <1>2, Concatenated
<1> HIDE DEF s
<1>4. grpc => \A j \in 1..HeaderLen : s[j] = m
  BY <1>0, <1>1, <1>2, <1>3
<1>5. grpc => Len(s) = HeaderLen + m
  BY <1>1, <1>2, <1>3
<1>6. s = Part(grpc, m)
  BY DEF s, a, b, Part
<1> QED BY <1>3, <1>4, <1>5, <1>6

(* A body is its messages, one after the other. *)
LEMMA StreamParts ==
    ASSUME NEW body \in BodyType
    PROVE  \E f : /\ f[0] = << >>
                  /\ f[Len(body.messages)] = Stream(body)
                  /\ \A i \in 0..Len(body.messages) :
                        f[i] \in Seq(Nat) /\ Stream(UpTo(body, i)) = f[i]
                  /\ \A i \in 1..Len(body.messages) :
                        f[i] = f[i - 1] \o Part(body.grpc, body.messages[i])
<1> DEFINE n == Len(body.messages)
           parts(b) == [i \in DOMAIN b.messages |-> Part(b.grpc, b.messages[i])]
<1>0. body.grpc \in BOOLEAN /\ body.messages \in Seq(Nat) /\ n \in Nat
  BY DEF BodyType
<1>1. ASSUME NEW b \in BodyType
      PROVE  /\ parts(b) \in Seq(Seq(Nat)) /\ Len(parts(b)) = Len(b.messages)
             /\ \A i \in 1..Len(b.messages) : parts(b)[i] = Part(b.grpc, b.messages[i])
             /\ FlattenSeq(parts(b)) = Stream(b)
  <2>1. b.grpc \in BOOLEAN /\ b.messages \in Seq(Nat) /\ Len(b.messages) \in Nat
    BY DEF BodyType
  <2>2. DOMAIN b.messages = 1..Len(b.messages)
        /\ \A i \in 1..Len(b.messages) : b.messages[i] \in Nat
    BY <2>1
  <2>3. \A i \in 1..Len(b.messages) : Part(b.grpc, b.messages[i]) \in Seq(Nat)
    BY <2>1, <2>2, PartShape
  <2>4. FlattenSeq(parts(b)) = Stream(b)
    BY Zenon DEF Stream, Part
  <2>5. parts(b) = [i \in 1..Len(b.messages) |-> Part(b.grpc, b.messages[i])]
    BY <2>2
  <2>6. /\ parts(b) \in Seq(Seq(Nat)) /\ Len(parts(b)) = Len(b.messages)
        /\ \A i \in 1..Len(b.messages) : parts(b)[i] = Part(b.grpc, b.messages[i])
    <3> DEFINE L == Len(b.messages)
               part(i) == Part(b.grpc, b.messages[i])
               p == [i \in 1..L |-> part(i)]
    <3>1. L \in Nat /\ \A i \in 1..L : part(i) \in Seq(Nat)
      BY <2>1, <2>3
    <3> HIDE DEF part, L
    <3>2. p \in [1..L -> Seq(Nat)] /\ \A i \in 1..L : p[i] = part(i)
      BY <3>1
    <3> HIDE DEF p
    <3>3. p \in Seq(Seq(Nat)) /\ Len(p) = L
      BY <3>1, <3>2
    <3> QED BY <2>5, <3>2, <3>3 DEF p, part, L
  <2> QED BY <2>4, <2>6
<1> HIDE DEF parts
<1>2. PICK f : Joins(parts(body), f)
  BY <1>1, FlattenJoins
<1>3. \A i \in 0..n : f[i] \in Seq(Nat)
  BY <1>1, <1>2, JoinsTyped
<1>4. ASSUME NEW i \in 0..n PROVE Stream(UpTo(body, i)) = f[i]
  <2> DEFINE b == UpTo(body, i)
             m == SubSeq(body.messages, 1, i)
  <2>1. m \in Seq(Nat) /\ Len(m) = i /\ \A j \in 1..i : m[j] = body.messages[j]
    BY <1>0
  <2>2. b = [body EXCEPT !.messages = m]
    BY DEF UpTo
  <2> HIDE DEF b, m
  <2>3. b \in BodyType /\ b.messages = m /\ b.grpc = body.grpc
    BY <2>1, <2>2 DEF BodyType
  <2>4. /\ parts(b) \in Seq(Seq(Nat)) /\ Len(parts(b)) = i
        /\ FlattenSeq(parts(b)) = Stream(b)
        /\ parts(body) \in Seq(Seq(Nat)) /\ Len(parts(body)) = n
        /\ \A j \in 1..i : parts(b)[j] = Part(body.grpc, m[j])
    BY <1>1, <2>1, <2>3
  <2>5. ASSUME NEW j \in 1..i PROVE parts(b)[j] = parts(body)[j]
    <3>1. j \in 1..n
      BY <1>0
    <3>2. parts(body)[j] = Part(body.grpc, body.messages[j])
      BY <1>1, <3>1
    <3> QED BY <2>1, <2>4, <3>2
  <2>6. Len(parts(b)) <= Len(parts(body))
    BY <1>0, <2>4
  <2>7. FlattenSeq(parts(b)) = f[Len(parts(b))]
    BY <1>2, <2>4, <2>5, <2>6, JoinsPrefix
  <2> QED BY <2>4, <2>7 DEF b
<1>5. \A i \in 1..n : f[i] = f[i - 1] \o Part(body.grpc, body.messages[i])
  BY <1>1, <1>2 DEF Joins
<1>6. f[0] = << >> /\ f[n] = Stream(body)
  BY <1>1, <1>2 DEF Joins
<1> QED BY <1>3, <1>4, <1>5, <1>6

(* A body is a sequence of bytes. *)
LEMMA StreamShape ==
    ASSUME NEW body \in BodyType
    PROVE  Stream(body) \in Seq(Nat) /\ Len(Stream(body)) \in Nat
<1>0. Len(body.messages) \in Nat
  BY DEF BodyType
<1>1. PICK f : /\ f[Len(body.messages)] = Stream(body)
               /\ \A i \in 0..Len(body.messages) : f[i] \in Seq(Nat)
  BY StreamParts, Zenon
<1> QED BY <1>0, <1>1

(* Where the messages of a gRPC body lie. *)
LEMMA Layout ==
    ASSUME NEW body \in BodyType, body.grpc
    PROVE  LET n == Len(body.messages) IN
           /\ End(body, 0) = 0 /\ End(body, n) = Len(Stream(body))
           /\ \A i \in 0..n : End(body, i) \in Nat
           /\ \A i \in 1..n :
                 /\ End(body, i) = End(body, i - 1) + HeaderLen + body.messages[i]
                 /\ \A j \in 1..HeaderLen :
                       Stream(body)[End(body, i - 1) + j] = body.messages[i]
<1> DEFINE n == Len(body.messages)
           M == body.messages
<1>0. M \in Seq(Nat) /\ n \in Nat /\ \A i \in 1..n : M[i] \in Nat
  BY DEF BodyType
<1>h. HeaderLen \in Nat
  BY BoundsAssumption
<1>1. PICK f : /\ f[0] = << >> /\ f[n] = Stream(body)
               /\ \A i \in 0..n : f[i] \in Seq(Nat) /\ Stream(UpTo(body, i)) = f[i]
               /\ \A i \in 1..n : f[i] = f[i - 1] \o Part(body.grpc, M[i])
  BY StreamParts, Zenon
<1>2. \A i \in 0..n : End(body, i) = Len(f[i]) /\ Len(f[i]) \in Nat
  <2>1. ASSUME NEW i \in 0..n PROVE End(body, i) = Len(f[i]) /\ Len(f[i]) \in Nat
    <3>1. f[i] \in Seq(Nat)
      BY <1>1
    <3>2. End(body, i) = Len(f[i])
      BY <1>1 DEF End
    <3> QED BY <3>1, <3>2
  <2> QED BY <2>1
<1>3. ASSUME NEW i \in 1..n
      PROVE  /\ i - 1 \in 0..n /\ i \in 0..n
             /\ Len(f[i]) = Len(f[i - 1]) + HeaderLen + M[i]
             /\ \A j \in 1..Len(f[i - 1]) : f[i][j] = f[i - 1][j]
             /\ \A j \in 1..HeaderLen : f[i][Len(f[i - 1]) + j] = M[i]
  <2>1. i - 1 \in 0..n /\ i \in 0..n
    BY <1>0
  <2> DEFINE a == f[i - 1]
             b == Part(body.grpc, M[i])
             w == a \o b
  <2>2. a \in Seq(Nat) /\ f[i] = w /\ Len(a) \in Nat
    BY <1>1, <1>2, <2>1
  <2>3. body.grpc \in BOOLEAN /\ M[i] \in Nat
    BY <1>0 DEF BodyType
  <2>4. b \in Seq(Nat) /\ Len(b) = HeaderLen + M[i] /\ \A j \in 1..HeaderLen : b[j] = M[i]
    BY <2>3, PartShape
  <2> HIDE DEF a, b
  <2>5. /\ Len(w) = Len(a) + Len(b)
        /\ \A k \in 1..(Len(a) + Len(b)) : w[k] = IF k <= Len(a) THEN a[k] ELSE b[k - Len(a)]
    BY <2>2, <2>4, Concatenated
  <2> HIDE DEF w
  <2>6. Len(w) = Len(a) + HeaderLen + M[i]
    BY <1>h, <2>2, <2>3, <2>4, <2>5
  <2>7. ASSUME NEW j \in 1..Len(a) PROVE w[j] = a[j]
    <3>1. j \in 1..(Len(a) + Len(b)) /\ j <= Len(a)
      BY <1>h, <2>2, <2>3, <2>4
    <3> QED BY <2>5, <3>1
  <2>8. ASSUME NEW j \in 1..HeaderLen PROVE w[Len(a) + j] = M[i]
    <3>1. Len(a) + j \in 1..(Len(a) + Len(b)) /\ ~(Len(a) + j <= Len(a))
          /\ (Len(a) + j) - Len(a) = j
      BY <1>h, <2>2, <2>3, <2>4
    <3>2. w[Len(a) + j] = b[j]
      BY <2>5, <3>1
    <3> QED BY <2>4, <3>2
  <2> QED BY <2>1, <2>2, <2>6, <2>7, <2>8 DEF a
<1>4. ASSUME NEW i \in 0..n
      PROVE  \A k \in 0..n : i <= k => /\ Len(f[i]) <= Len(f[k])
                                       /\ \A j \in 1..Len(f[i]) : f[k][j] = f[i][j]
  <2> DEFINE P(k) == Len(f[i]) <= Len(f[k]) /\ \A j \in 1..Len(f[i]) : f[k][j] = f[i][j]
             bad == {k \in 0..n : i <= k /\ ~P(k)}
  <2> SUFFICES ASSUME bad # {} PROVE FALSE
    OBVIOUS
  <2>1. bad \in SUBSET Nat
    BY <1>0
  <2>2. PICK m \in bad : \A x \in bad : m <= x
    BY <2>1, LeastElement
  <2>3. m # i
    <3>1. P(i)
      BY <1>2
    <3> QED BY <2>2, <3>1
  <2>4. m \in 1..n /\ m - 1 \in 0..n /\ i <= m - 1 /\ m - 1 \notin bad
    BY <1>0, <2>2, <2>3
  <2>5. P(m - 1)
    BY <2>4
  <2>6. /\ Len(f[m]) = Len(f[m - 1]) + HeaderLen + M[m] /\ M[m] \in Nat
        /\ \A j \in 1..Len(f[m - 1]) : f[m][j] = f[m - 1][j]
        /\ Len(f[m - 1]) \in Nat /\ Len(f[i]) \in Nat
    BY <1>0, <1>2, <1>3, <2>4
  <2>7. Len(f[i]) <= Len(f[m])
    BY <1>h, <2>5, <2>6
  <2>8. \A j \in 1..Len(f[i]) : j \in 1..Len(f[m - 1])
    BY <2>5, <2>6
  <2>9. P(m)
    BY <2>5, <2>6, <2>7, <2>8
  <2> QED BY <2>2, <2>9
<1>5. ASSUME NEW i \in 1..n, NEW j \in 1..HeaderLen
      PROVE  Stream(body)[Len(f[i - 1]) + j] = M[i]
  <2>1. i \in 0..n /\ n \in 0..n /\ i <= n /\ Len(f[i - 1]) \in Nat /\ M[i] \in Nat
    BY <1>0, <1>2, <1>3
  <2>2. Len(f[i - 1]) + j \in 1..Len(f[i])
    BY <1>h, <1>3, <2>1
  <2>3. f[n][Len(f[i - 1]) + j] = f[i][Len(f[i - 1]) + j]
    BY <1>4, <2>1, <2>2
  <2> QED BY <1>1, <1>3, <2>3
<1>6. Len(f[0]) = 0 /\ 0 \in 0..n /\ n \in 0..n
  BY <1>0, <1>1
<1>7. End(body, 0) = 0 /\ End(body, n) = Len(Stream(body))
  BY <1>1, <1>2, <1>6
<1>8. \A i \in 1..n : /\ End(body, i) = End(body, i - 1) + HeaderLen + M[i]
                      /\ \A j \in 1..HeaderLen : Stream(body)[End(body, i - 1) + j] = M[i]
  BY <1>2, <1>3, <1>5
<1> QED BY <1>2, <1>7, <1>8

(* The ends are in order. *)
LEMMA EndsInOrder ==
    ASSUME NEW body \in BodyType, body.grpc,
           NEW i \in 0..Len(body.messages), NEW k \in i..Len(body.messages)
    PROVE  End(body, i) <= End(body, k)
<1> DEFINE n == Len(body.messages)
           bad == {x \in i..n : ~(End(body, i) <= End(body, x))}
<1>0. n \in Nat /\ HeaderLen \in Nat /\ \A x \in 1..n : body.messages[x] \in Nat
  BY BoundsAssumption DEF BodyType
<1>1. /\ \A x \in 0..n : End(body, x) \in Nat
      /\ \A x \in 1..n : End(body, x) = End(body, x - 1) + HeaderLen + body.messages[x]
  BY Layout
<1>2. ASSUME bad # {} PROVE FALSE
  <2>1. bad \in SUBSET Nat
    BY <1>0
  <2>2. PICK m \in bad : \A x \in bad : m <= x
    BY <1>2, <2>1, LeastElement
  <2>3. m # i
    BY <1>1, <2>2
  <2>4. m \in 1..n /\ m - 1 \in i..n /\ m - 1 \in 0..n /\ m \in 0..n /\ m - 1 \notin bad
    BY <1>0, <2>2, <2>3
  <2>5. End(body, i) <= End(body, m - 1)
    BY <2>4
  <2>6. End(body, m) = End(body, m - 1) + HeaderLen + body.messages[m]
        /\ End(body, m) \in Nat /\ End(body, m - 1) \in Nat /\ End(body, i) \in Nat
    BY <1>1, <2>4
  <2>7. End(body, i) <= End(body, m)
    BY <1>0, <2>4, <2>5, <2>6
  <2> QED BY <2>2, <2>7
<1> QED BY <1>2

-----------------------------------------------------------------------------
(* The framing of LimitedBody *)

(* The first i messages have been let through; the scan stands in the prefix of
   the next one, or in the content of the last of them. *)
InPrefix(body, at, st, i) ==
    /\ st.in = "header" /\ st = Header(st.pos, st.last)
    /\ st.pos \in 0..(HeaderLen - 1) /\ st.last \in Nat
    /\ at = End(body, i) + st.pos
InContent(body, at, st, i) ==
    /\ st.in = "payload" /\ st = Payload(st.remaining)
    /\ st.remaining \in Nat /\ at + st.remaining = End(body, i)
InStep(body, at, st) ==
    \E i \in 0..Len(body.messages) :
        /\ \A j \in 1..i : body.messages[j] <= MaxBytes
        /\ InPrefix(body, at, st, i) \/ InContent(body, at, st, i)

(* The loop of LimitedBody: GrpcFramingState and the cursor into the frame. *)
States == [in : {"header"}, pos : Nat, last : Nat]
          \cup [in : {"payload"}, remaining : Nat]
Cursors == [offset : Nat, state : States, refused : BOOLEAN]

(* A content of which nothing is left costs a round of its own. *)
Idle(st) == IF st = Payload(0) THEN 1 ELSE 0
Work(data, c) == 2 * (Len(data) - c.offset) + Idle(c.state)

(* data is what comes after the first `read` bytes of the body. *)
Frame(body, read, data) ==
    /\ data \in Seq(Nat) /\ read \in Nat /\ read + Len(data) <= Len(Stream(body))
    /\ \A k \in 1..Len(data) : data[k] = Stream(body)[read + k]

(* The two states of GrpcFramingState and their fields. *)
LEMMA StateShape ==
    /\ \A p, l \in Nat : /\ Header(p, l) \in States /\ Header(p, l).in = "header"
                         /\ Header(p, l).pos = p /\ Header(p, l).last = l
                         /\ Idle(Header(p, l)) = 0
    /\ \A n \in Nat : /\ Payload(n) \in States /\ Payload(n).in = "payload"
                      /\ Payload(n).remaining = n
                      /\ Idle(Payload(n)) = IF n = 0 THEN 1 ELSE 0
<1>1. ASSUME NEW p \in Nat, NEW l \in Nat
      PROVE  /\ Header(p, l) \in States /\ Header(p, l).in = "header"
             /\ Header(p, l).pos = p /\ Header(p, l).last = l
             /\ Idle(Header(p, l)) = 0
  <2>1. /\ Header(p, l) \in States /\ Header(p, l).in = "header"
        /\ Header(p, l).pos = p /\ Header(p, l).last = l /\ Payload(0).in = "payload"
    BY DEF Header, States, Payload
  <2>2. Header(p, l) # Payload(0)
    BY <2>1
  <2> QED BY <2>1, <2>2 DEF Idle
<1>2. ASSUME NEW n \in Nat
      PROVE  /\ Payload(n) \in States /\ Payload(n).in = "payload"
             /\ Payload(n).remaining = n
             /\ Idle(Payload(n)) = IF n = 0 THEN 1 ELSE 0
  <2>1. /\ Payload(n) \in States /\ Payload(n).in = "payload"
        /\ Payload(n).remaining = n /\ Payload(0).remaining = 0
    BY DEF States, Payload
  <2> QED BY <2>1 DEF Idle
<1> QED BY <1>1, <1>2

(* What is taken of one amount, bounded by another. *)
LEMMA Portion ==
    ASSUME NEW a \in Nat, NEW b \in Nat
    PROVE  LET k == Least(a, b) IN
           /\ k \in Nat /\ k <= a /\ k <= b /\ b - k \in Nat /\ (b - k) + k = b
           /\ a > 0 /\ k = 0 => b = 0
           /\ b > 0 /\ k = 0 => a = 0
  BY DEF Least

(* A round that takes a byte, or leaves an exhausted content, has less to do.
   *)
LEMMA LessWork ==
    ASSUME NEW all \in Nat, NEW done \in Nat, NEW more \in 0..(all - done),
           NEW was \in {0, 1}, NEW is \in {0, 1}, more > 0 \/ is < was
    PROVE  2 * (all - (done + more)) + is < 2 * (all - done) + was /\ done + more <= all
  OBVIOUS

(* The work that is left is a number. *)
LEMMA WorkTyped ==
    ASSUME NEW data, Len(data) \in Nat, NEW c \in Cursors
    PROVE  Work(data, c) \in Int
<1>1. c.offset \in Nat /\ Idle(c.state) \in {0, 1}
  BY DEF Cursors, Idle
<1> DEFINE o == c.offset
           x == Idle(c.state)
<1>2. Work(data, c) = 2 * (Len(data) - o) + x /\ o \in Nat /\ x \in Int
  BY <1>1 DEF Work
<1> HIDE DEF o, x
<1> QED BY <1>2

(* One round of `while offset < data.len()` (limit.rs): it takes a portion of
   the frame and stays in step with the body, or refuses it, and then the body
   has a message that is too large.  It leaves less to do. *)
LEMMA LoopStep ==
    ASSUME NEW body \in BodyType, body.grpc, NEW read, NEW data,
           Frame(body, read, data), NEW c \in Cursors, ~c.refused,
           c.offset < Len(data), InStep(body, read + c.offset, c.state)
    PROVE  LET d == LoopBody(data, c) IN
           /\ d \in Cursors /\ d.offset <= Len(data)
           /\ IF d.refused THEN Oversized(body) # {}
              ELSE InStep(body, read + d.offset, d.state)
           /\ Work(data, d) < Work(data, c)
<1> DEFINE n == Len(body.messages)
           M == body.messages
           L == Len(data)
           d == LoopBody(data, c)
<1>0. /\ HeaderLen \in Nat \ {0} /\ MaxBytes \in Nat /\ n \in Nat
      /\ \A i \in 1..n : M[i] \in Nat
      /\ L \in Nat /\ read \in Nat /\ c.offset \in Nat /\ c.state \in States
      /\ read + L <= Len(Stream(body)) /\ Len(Stream(body)) \in Nat
  <2>1. L \in Nat /\ read \in Nat /\ read + L <= Len(Stream(body))
    BY DEF Frame
  <2>2. Len(Stream(body)) \in Nat
    BY StreamShape
  <2>3. n \in Nat /\ \A i \in 1..n : M[i] \in Nat
    BY DEF BodyType
  <2>4. c.offset \in Nat /\ c.state \in States
    BY DEF Cursors
  <2> QED BY <2>1, <2>2, <2>3, <2>4, BoundsAssumption
<1>1. PICK i \in 0..n : /\ \A j \in 1..i : M[j] <= MaxBytes
                        /\ \/ InPrefix(body, read + c.offset, c.state, i)
                           \/ InContent(body, read + c.offset, c.state, i)
  BY DEF InStep
<1>2. CASE InPrefix(body, read + c.offset, c.state, i)
  <2> DEFINE copied == Least(HeaderLen - c.state.pos, L - c.offset)
             pos    == c.state.pos + copied
             last   == data[c.offset + copied]
             next   == [c EXCEPT !.offset = @ + copied, !.state = Header(pos, last)]
             full   == [offset |-> c.offset + copied, state |-> Payload(last),
                        refused |-> TooLarge(last)]
  <2>1. /\ c.state.in = "header" /\ c.state = Header(c.state.pos, c.state.last)
        /\ c.state.pos \in 0..(HeaderLen - 1) /\ c.state.last \in Nat
        /\ read + c.offset = End(body, i) + c.state.pos
    BY <1>2 DEF InPrefix
  <2>2. d = IF pos < HeaderLen THEN next ELSE full
    BY <2>1, Zenon DEF LoopBody
  <2>3. /\ copied \in 1..(L - c.offset) /\ copied <= HeaderLen - c.state.pos
        /\ pos \in 1..HeaderLen
    <3> DEFINE a == HeaderLen - c.state.pos
               b == L - c.offset
    <3>0. c.state.pos \in 0..(HeaderLen - 1) /\ HeaderLen \in Nat
          /\ c.offset \in Nat /\ L \in Nat
      BY <1>0, <2>1
    <3>1. a \in Nat /\ b \in Nat /\ a > 0 /\ b > 0 /\ c.state.pos \in Nat
          /\ c.state.pos + a = HeaderLen
      BY <3>0
    <3>2. copied \in Nat /\ copied <= a /\ copied <= b /\ copied # 0
      <4> HIDE DEF a, b
      <4>1. /\ Least(a, b) \in Nat /\ Least(a, b) <= a /\ Least(a, b) <= b
            /\ (a > 0 /\ Least(a, b) = 0 => b = 0)
        BY <3>1, Portion
      <4>2. b # 0
        BY <3>1
      <4> QED BY <3>1, <4>1, <4>2 DEF a, b
    <3> HIDE DEF copied
    <3>3. pos \in 1..HeaderLen
      <4> HIDE DEF a, b
      <4> QED BY <3>0, <3>1, <3>2
    <3>4. copied \in 1..b
      <4> HIDE DEF b
      <4> QED BY <3>1, <3>2
    <3> QED BY <3>2, <3>3, <3>4
  <2> HIDE DEF copied
  <2>4. c.offset + copied \in 1..L /\ read + (c.offset + copied) = End(body, i) + pos
        /\ End(body, i) \in Nat
    <3>1. End(body, i) \in Nat
      BY Layout
    <3>2. c.offset \in Nat /\ L \in Nat /\ read \in Nat /\ copied \in 1..(L - c.offset)
          /\ read + c.offset = End(body, i) + c.state.pos /\ c.state.pos \in Nat
      BY <1>0, <2>1, <2>3
    <3>3. c.offset + copied \in 1..L /\ copied \in Nat
      BY <3>2
    <3>4. read + (c.offset + copied) = End(body, i) + (c.state.pos + copied)
      <4>1. read \in Nat /\ c.offset \in Nat /\ copied \in Nat /\ End(body, i) \in Nat
            /\ c.state.pos \in Nat /\ read + c.offset = End(body, i) + c.state.pos
        BY <3>1, <3>2, <3>3
      <4> HIDE DEF L
      <4> DEFINE o == c.offset
                 p == c.state.pos
                 e == End(body, i)
      <4>2. read \in Nat /\ o \in Nat /\ copied \in Nat /\ e \in Nat /\ p \in Nat
            /\ read + o = e + p
        BY <4>1
      <4> HIDE DEF o, p, e
      <4>3. read + (o + copied) = e + (p + copied)
        BY <4>2
      <4> QED BY <4>3 DEF o, p, e
    <3> QED BY <3>1, <3>3, <3>4
  <2>5. i + 1 \in 1..n
    <3>1. End(body, n) = Len(Stream(body))
      BY Layout
    <3>2. ASSUME i = n PROVE FALSE
      <4> DEFINE all == Len(Stream(body))
                 o == c.offset
                 p == c.state.pos
      <4>1. read + o = all + p /\ all \in Nat /\ p \in Nat /\ o \in Nat
        BY <1>0, <2>1, <3>1, <3>2
      <4>2. read \in Nat /\ L \in Nat /\ o < L /\ read + L <= all
        BY <1>0
      <4> HIDE DEF all, o, p, L
      <4> QED BY <4>1, <4>2
    <3> QED BY <1>0, <3>2
  <2>6. (i + 1) - 1 = i /\ M[i + 1] \in Nat
    BY <1>0, <2>5
  <2>7. last = M[i + 1]
    <3>1. data[c.offset + copied] = Stream(body)[read + (c.offset + copied)]
      BY <2>4 DEF Frame
    <3>2. Stream(body)[End(body, (i + 1) - 1) + pos] = M[i + 1]
      BY <2>3, <2>5, Layout
    <3> QED BY <2>4, <2>6, <3>1, <3>2
  <2>8. End(body, i + 1) = End(body, i) + HeaderLen + M[i + 1]
    BY <2>5, <2>6, Layout
  <2>9. Idle(c.state) = 0
    BY <2>1, StateShape
  <2> HIDE DEF last
  <2>10. CASE pos < HeaderLen
    <3>1. d = next
      BY <2>2, <2>10
    <3>2. pos \in Nat /\ last \in Nat /\ c.offset + copied \in Nat
          /\ Header(pos, last) \in States
      <4> HIDE DEF pos
      <4>1. pos \in Nat /\ last \in Nat /\ c.offset + copied \in Nat
        BY <1>0, <2>3, <2>4, <2>6, <2>7
      <4> QED BY <4>1, StateShape
    <3>3. /\ d \in Cursors /\ d.offset = c.offset + copied
          /\ d.state = Header(pos, last) /\ d.refused = c.refused
      <4> HIDE DEF pos
      <4> QED BY <3>1, <3>2 DEF Cursors
    <3> HIDE DEF d
    <3>4. InPrefix(body, read + d.offset, d.state, i)
      <4>1. d.state.in = "header" /\ d.state.pos = pos /\ d.state.last = last
        BY <3>2, <3>3, StateShape
      <4>2. pos \in 0..(HeaderLen - 1)
        BY <1>0, <2>3, <2>10
      <4> QED BY <2>4, <3>2, <3>3, <4>1, <4>2 DEF InPrefix
    <3>5. InStep(body, read + d.offset, d.state)
      BY <1>1, <3>4 DEF InStep
    <3>6. Idle(d.state) = 0
      BY <3>2, <3>3, StateShape
    <3>7. Work(data, d) < Work(data, c) /\ d.offset <= L
      <4>1. copied \in 0..(L - c.offset) /\ copied > 0
        BY <1>0, <2>3
      <4> QED BY <1>0, <2>9, <3>3, <3>6, <4>1, LessWork DEF Work
    <3> QED BY <3>3, <3>5, <3>7 DEF d
  <2>11. CASE ~(pos < HeaderLen)
    <3>1. d = full
      BY <2>2, <2>11
    <3>2. pos = HeaderLen
      BY <1>0, <2>3, <2>11
    <3>3. last \in Nat /\ c.offset + copied \in Nat /\ Payload(last) \in States
          /\ TooLarge(last) \in BOOLEAN
      BY <2>4, <2>6, <2>7, StateShape DEF TooLarge
    <3>4. /\ d \in Cursors /\ d.offset = c.offset + copied
          /\ d.state = Payload(last) /\ d.refused = TooLarge(last)
      BY <3>1, <3>3 DEF Cursors
    <3> HIDE DEF d
    <3>5. ASSUME d.refused PROVE Oversized(body) # {}
      <4>1. i + 1 \in DOMAIN M /\ M[i + 1] > MaxBytes
        <5>1. DOMAIN M = 1..n
          BY DEF BodyType
        <5> QED BY <2>5, <2>7, <3>4, <3>5, <5>1 DEF TooLarge
      <4> QED BY <4>1 DEF Oversized
    <3>6. ASSUME ~d.refused PROVE InStep(body, read + d.offset, d.state)
      <4>1. M[i + 1] <= MaxBytes
        <5>1. ~(last > MaxBytes)
          BY <3>4, <3>6 DEF TooLarge
        <5> QED BY <1>0, <2>6, <2>7, <5>1
      <4>2. \A j \in 1..(i + 1) : M[j] <= MaxBytes
        BY <1>1, <4>1
      <4>3. d.state.in = "payload" /\ d.state.remaining = last
        BY <3>3, <3>4, StateShape
      <4>4. (read + d.offset) + last = End(body, i + 1)
        BY <1>0, <2>3, <2>4, <2>6, <2>7, <2>8, <3>2, <3>4
      <4>5. InContent(body, read + d.offset, d.state, i + 1)
        BY <3>3, <3>4, <4>3, <4>4 DEF InContent
      <4>6. i + 1 \in 0..n
        BY <2>5
      <4> QED BY <4>2, <4>5, <4>6 DEF InStep
    <3>7. Idle(d.state) \in {0, 1}
      BY DEF Idle
    <3>8. Work(data, d) < Work(data, c) /\ d.offset <= L
      <4>1. copied \in 0..(L - c.offset) /\ copied > 0
        BY <1>0, <2>3
      <4> QED BY <1>0, <2>9, <3>4, <3>7, <4>1, LessWork DEF Work
    <3> QED BY <3>4, <3>5, <3>6, <3>8 DEF d
  <2> QED BY <2>10, <2>11
<1>3. CASE InContent(body, read + c.offset, c.state, i)
  <2> DEFINE consumed == Least(L - c.offset, c.state.remaining)
             left     == c.state.remaining - consumed
             state    == IF left = 0 THEN Header(0, 0) ELSE Payload(left)
  <2>1. /\ c.state.in = "payload" /\ c.state = Payload(c.state.remaining)
        /\ c.state.remaining \in Nat /\ (read + c.offset) + c.state.remaining = End(body, i)
    BY <1>3 DEF InContent
  <2>2. d = [c EXCEPT !.offset = @ + consumed, !.state = state]
    BY <2>1, Zenon DEF LoopBody
  <2>3. /\ consumed \in 0..(L - c.offset) /\ left \in Nat
        /\ left + consumed = c.state.remaining
        /\ (consumed = 0 => c.state.remaining = 0)
    <3>1. L - c.offset \in Nat /\ c.state.remaining \in Nat /\ L - c.offset > 0
      BY <1>0, <2>1
    <3>2. /\ consumed \in Nat /\ consumed <= L - c.offset
          /\ left \in Nat /\ left + consumed = c.state.remaining
          /\ (consumed = 0 => c.state.remaining = 0)
      BY <3>1, Portion, Zenon
    <3> HIDE DEF consumed, left
    <3> QED BY <3>1, <3>2
  <2> HIDE DEF consumed, left
  <2>4. state \in States /\ state.in \in {"header", "payload"}
    <3>1. CASE left = 0
      <4>1. state = Header(0, 0) /\ 0 \in Nat
        BY <3>1
      <4> HIDE DEF state
      <4> QED BY <4>1, StateShape
    <3>2. CASE left # 0
      <4>1. state = Payload(left) /\ left \in Nat
        BY <2>3, <3>2
      <4> HIDE DEF state
      <4> QED BY <4>1, StateShape
    <3> QED BY <3>1, <3>2
  <2> HIDE DEF state
  <2>5. d \in Cursors /\ d.offset = c.offset + consumed /\ d.state = state /\ ~d.refused
    <3>1. c.offset + consumed \in Nat
      BY <1>0, <2>3
    <3> QED BY <2>2, <2>4, <3>1 DEF Cursors
  <2> HIDE DEF d
  <2>6. (read + d.offset) + left = End(body, i) /\ End(body, i) \in Nat
    <3>1. End(body, i) \in Nat
      BY Layout
    <3> QED BY <1>0, <2>1, <2>3, <2>5, <3>1
  <2>7. InPrefix(body, read + d.offset, d.state, i)
        \/ InContent(body, read + d.offset, d.state, i)
    <3>1. CASE left = 0
      <4>1. state = Header(0, 0) /\ state.in = "header" /\ state.pos = 0 /\ state.last = 0
        BY <3>1, StateShape DEF state
      <4>2. 0 \in 0..(HeaderLen - 1) /\ read + d.offset = End(body, i) + 0
        <5>1. read + d.offset \in Nat
          BY <1>0, <2>3, <2>5
        <5> QED BY <1>0, <2>6, <3>1, <5>1
      <4>3. InPrefix(body, read + d.offset, d.state, i)
        BY <2>5, <4>1, <4>2 DEF InPrefix
      <4> QED BY <4>3
    <3>2. CASE left # 0
      <4>1. state = Payload(left) /\ state.in = "payload" /\ state.remaining = left
        BY <2>3, <3>2, StateShape DEF state
      <4> QED BY <2>3, <2>5, <2>6, <4>1 DEF InContent
    <3> QED BY <3>1, <3>2
  <2>8. InStep(body, read + d.offset, d.state)
    BY <1>1, <2>7 DEF InStep
  <2>9. Idle(d.state) = 0
    <3>1. CASE left = 0
      BY <2>5, <3>1, StateShape DEF state
    <3>2. CASE left # 0
      BY <2>3, <2>5, <3>2, StateShape DEF state
    <3> QED BY <3>1, <3>2
  <2>10. Idle(c.state) = IF c.state.remaining = 0 THEN 1 ELSE 0
    BY <2>1, StateShape
  <2>11. Work(data, d) < Work(data, c) /\ d.offset <= L
    <3>1. Idle(c.state) \in {0, 1} /\ (consumed > 0 \/ 0 < Idle(c.state))
      BY <2>3, <2>10
    <3> DEFINE o == c.offset
               was == Idle(c.state)
    <3>2. L \in Nat /\ o \in Nat /\ consumed \in 0..(L - o) /\ was \in {0, 1}
          /\ (consumed > 0 \/ 0 < was)
      BY <1>0, <2>3, <3>1
    <3>3. Work(data, d) = 2 * (L - (o + consumed)) + 0 /\ Work(data, c) = 2 * (L - o) + was
      BY <2>5, <2>9 DEF Work
    <3>4. d.offset = o + consumed
      BY <2>5
    <3> HIDE DEF L, o, was
    <3>5. 2 * (L - (o + consumed)) + 0 < 2 * (L - o) + was /\ o + consumed <= L
      BY <3>2, LessWork
    <3> QED BY <3>3, <3>4, <3>5
  <2> QED BY <2>5, <2>8, <2>11 DEF d
<1> QED BY <1>1, <1>2, <1>3

(* One entry of Scan's table, with the entries before it in g. *)
Begin(state) == [offset |-> 0, state |-> state, refused |-> FALSE]
Over(data, c) == c.refused \/ c.offset >= Len(data)
Round(data, state, g, i) ==
    IF i = 0 THEN Begin(state)
    ELSE IF Over(data, g[i - 1]) THEN g[i - 1] ELSE LoopBody(data, g[i - 1])

(* The table of Scan exists, up to any number of rounds. *)
LEMMA ScanRuns ==
    ASSUME NEW data, NEW state
    PROVE  \A n \in Nat : \E g : g = [i \in 0..n |-> Round(data, state, g, i)]
<1> DEFINE Run(n) == \E g : g = [i \in 0..n |-> Round(data, state, g, i)]
           bad == {n \in Nat : ~Run(n)}
<1> SUFFICES ASSUME bad # {} PROVE FALSE
  OBVIOUS
<1>1. PICK m \in bad : \A x \in bad : m <= x
  BY LeastElement
<1>2. CASE m = 0
  <2> DEFINE g == [i \in 0..0 |-> Begin(state)]
  <2>1. g = [i \in 0..0 |-> Round(data, state, g, i)]
    BY DEF Round
  <2> QED BY <1>1, <1>2, <2>1
<1>3. CASE m # 0
  <2>1. m - 1 \in Nat /\ m \in Nat /\ m - 1 \notin bad
    BY <1>1, <1>3
  <2>2. PICK g : g = [i \in 0..(m - 1) |-> Round(data, state, g, i)]
    BY <2>1
  <2> DEFINE h == [i \in 0..m |-> Round(data, state, g, i)]
  <2>3. \A i \in 0..(m - 1) : h[i] = g[i]
    BY <2>1, <2>2
  <2>4. \A i \in 0..m : Round(data, state, h, i) = Round(data, state, g, i)
    <3> HIDE DEF h
    <3> SUFFICES ASSUME NEW i \in 0..m, i # 0
                 PROVE  Round(data, state, h, i) = Round(data, state, g, i)
      BY DEF Round
    <3>1. i - 1 \in 0..(m - 1)
      BY <2>1
    <3> QED BY <2>3, <3>1 DEF Round
  <2>5. h = [i \in 0..m |-> Round(data, state, h, i)]
    BY <2>4
  <2> QED BY <1>1, <2>5
<1> QED BY <1>2, <1>3

(* Scan is the last entry of its table, each entry one round after the one
   before it. *)
LEMMA ScanTable ==
    ASSUME NEW data, NEW state, Len(data) \in Nat
    PROVE  \E g : /\ Scan(data, state) = g[2 * Len(data)]
                  /\ \A i \in 0..(2 * Len(data)) : g[i] = Round(data, state, g, i)
<1> DEFINE n == 2 * Len(data)
           g == CHOOSE g : g = [i \in 0..n |->
                    IF i = 0 THEN [offset |-> 0, state |-> state, refused |-> FALSE]
                    ELSE IF g[i - 1].refused \/ g[i - 1].offset >= Len(data) THEN g[i - 1]
                         ELSE LoopBody(data, g[i - 1])]
<1>1. Scan(data, state) = g[n]
  BY Zenon DEF Scan
<1>2. \E w : w = [i \in 0..n |-> Round(data, state, w, i)]
  <2>1. n \in Nat
    OBVIOUS
  <2> QED BY <2>1, ScanRuns
<1>3. g = [i \in 0..n |-> Round(data, state, g, i)]
  BY <1>2, Zenon DEF Round, Over, Begin
<1> HIDE DEF g
<1> DEFINE w == [i \in 0..n |-> Round(data, state, g, i)]
<1>4. \A i \in 0..n : w[i] = Round(data, state, g, i)
  OBVIOUS
<1>5. g = w
  BY <1>3
<1> HIDE DEF w, n
<1>6. \A i \in 0..n : g[i] = Round(data, state, g, i)
  BY <1>4, <1>5
<1> QED BY <1>1, <1>6 DEF n

(* A scan in step with the body is in one of its two states. *)
LEMMA StepState ==
    ASSUME NEW body, NEW at, NEW st, InStep(body, at, st)
    PROVE  st \in States
<1>1. CASE st = Header(st.pos, st.last) /\ st.pos \in Nat /\ st.last \in Nat
  BY <1>1, StateShape
<1>2. CASE st = Payload(st.remaining) /\ st.remaining \in Nat
  BY <1>2, StateShape
<1> QED BY <1>1, <1>2 DEF InStep, InPrefix, InContent

(* The whole loop reaches the end of the frame, in step with the body, or stops
   at a message that is too large. *)
LEMMA ScanResult ==
    ASSUME NEW body \in BodyType, body.grpc, NEW read, NEW data,
           Frame(body, read, data), NEW state, InStep(body, read, state)
    PROVE  LET d == Scan(data, state) IN
           /\ d \in Cursors
           /\ IF d.refused THEN Oversized(body) # {}
              ELSE InStep(body, read + Len(data), d.state)
<1> DEFINE L == Len(data)
<1>0. L \in Nat /\ read \in Nat
  BY DEF Frame
<1>1. PICK g : /\ Scan(data, state) = g[2 * L]
               /\ \A i \in 0..(2 * L) : g[i] = Round(data, state, g, i)
  BY <1>0, ScanTable
<1> DEFINE Good(i) == /\ g[i] \in Cursors /\ g[i].offset <= L
                      /\ IF g[i].refused THEN Oversized(body) # {}
                         ELSE InStep(body, read + g[i].offset, g[i].state)
                      /\ ~Over(data, g[i]) => Work(data, g[i]) <= 2 * L + 1 - i
           bad == {i \in 0..(2 * L) : ~Good(i)}
<1>2. bad = {}
  <2> SUFFICES ASSUME bad # {} PROVE FALSE
    OBVIOUS
  <2>1. bad \in SUBSET Nat
    BY <1>0
  <2>2. PICK m \in bad : \A x \in bad : m <= x
    BY <2>1, LeastElement
  <2>3. m # 0
    <3>1. 0 \in 0..(2 * L) /\ g[0] = Begin(state)
      BY <1>0, <1>1 DEF Round
    <3>2. /\ g[0] \in Cursors /\ g[0].offset = 0 /\ ~g[0].refused /\ g[0].state = state
      BY <3>1, StepState DEF Begin, Cursors
    <3>3. read + 0 = read /\ Idle(state) \in {0, 1}
      BY <1>0 DEF Idle
    <3>4. Work(data, g[0]) <= 2 * L + 1 - 0
      BY <1>0, <3>2, <3>3 DEF Work
    <3>5. Good(0)
      BY <1>0, <3>2, <3>3, <3>4
    <3> QED BY <2>2, <3>5
  <2>4. m \in 0..(2 * L) /\ m - 1 \in 0..(2 * L) /\ m - 1 \notin bad
    BY <1>0, <2>2, <2>3
  <2>5. Good(m - 1) /\ g[m] = Round(data, state, g, m)
    BY <1>1, <2>4
  <2> DEFINE c == g[m - 1]
  <2> HIDE DEF bad
  <2>6. CASE Over(data, c)
    <3>1. g[m] = c
      BY <2>3, <2>5, <2>6 DEF Round
    <3>2. Good(m)
      BY <2>5, <2>6, <3>1
    <3> QED BY <2>2, <3>2 DEF bad
  <2>7. CASE ~Over(data, c)
    <3>1. g[m] = LoopBody(data, c)
      BY <2>3, <2>5, <2>7 DEF Round
    <3>2. c \in Cursors /\ ~c.refused /\ c.offset < L
          /\ InStep(body, read + c.offset, c.state) /\ Work(data, c) <= 2 * L + 1 - (m - 1)
      <4>1. c \in Cursors /\ ~c.refused /\ ~(c.offset >= L) /\ c.offset \in Nat
        BY <2>5, <2>7 DEF Over, Cursors
      <4> QED BY <1>0, <2>5, <2>7, <4>1
    <3> HIDE DEF c
    <3>3. /\ g[m] \in Cursors /\ g[m].offset <= L
          /\ IF g[m].refused THEN Oversized(body) # {}
             ELSE InStep(body, read + g[m].offset, g[m].state)
          /\ Work(data, g[m]) < Work(data, c)
      BY <3>1, <3>2, LoopStep
    <3>4. Work(data, g[m]) \in Int /\ Work(data, c) \in Int /\ m \in Nat
      BY <1>0, <2>4, <3>2, <3>3, WorkTyped
    <3>5. Work(data, g[m]) <= 2 * L + 1 - m
      BY <1>0, <3>2, <3>3, <3>4
    <3>6. Good(m)
      BY <3>3, <3>5
    <3> QED BY <2>2, <3>6 DEF bad
  <2> QED BY <2>6, <2>7
<1>3. Good(2 * L)
  <2>1. 2 * L \in 0..(2 * L)
    BY <1>0
  <2> QED BY <1>2, <2>1
<1> DEFINE d == g[2 * L]
<1>4. d \in Cursors /\ d.offset \in Nat /\ d.offset <= L
  BY <1>3 DEF Cursors
<1>5. d.refused \/ d.offset = L
  <2> SUFFICES ASSUME ~d.refused, d.offset < L PROVE FALSE
    BY <1>0, <1>4
  <2>1. ~Over(data, d)
    BY <1>0, <1>4 DEF Over
  <2>2. Work(data, d) <= 1
    BY <1>0, <1>3, <2>1
  <2>3. Work(data, d) >= 2
    <3>1. Idle(d.state) \in {0, 1}
      BY DEF Idle
    <3> HIDE DEF d
    <3> QED BY <1>0, <1>4, <3>1 DEF Work
  <2>4. Work(data, d) \in Int
    BY <1>0, <1>4, WorkTyped
  <2> HIDE DEF d
  <2> QED BY <2>2, <2>3, <2>4
<1> QED BY <1>1, <1>3, <1>4, <1>5

-----------------------------------------------------------------------------
(* The task of a request *)

(* Until it refuses, the body passes on all it has read and is in step with it;
   when it refuses, there is a reason to, and nothing of it has passed. *)
FrameOk(t) ==
    /\ t.read <= Len(Stream(t.body))
    /\ ~t.cut => t.passed = t.read
    /\ IF t.body.grpc
       THEN /\ \A i \in Oversized(t.body) : t.passed < PrefixEnd(t.body, i)
            /\ IF t.cut THEN Oversized(t.body) # {} ELSE InStep(t.body, t.read, t.state)
       ELSE t.passed <= MaxBytes /\ (t.cut => Len(Stream(t.body)) > MaxBytes)

(* Holding a permit, from the moment it is handed over. *)
Holding == {"granted", "process", "stream"}
Stages  == Holding \cup {"idle", "wait", "done"}

Tasked == [pc : Stages, body : BodyType, read : Nat, state : States,
           passed : Nat, cut : BOOLEAN, permit : BOOLEAN,
           reply : {"none", "ok", "503", "413", "error", "gone"}]

TaskOk(t) == t \in Tasked /\ (t.permit <=> t.pc \in Holding) /\ FrameOk(t)

TasksOk(tasks) == tasks \in [Requests -> Tasked] /\ \A r \in Requests : TaskOk(tasks[r])

Holders(tasks) == {r \in Requests : tasks[r].pc \in Holding}
Waiters(tasks) == {r \in Requests : tasks[r].pc = "wait"}

(* Each waiter is in the queue, once. *)
QueueOk(waiting, tasks) ==
    /\ waiting \in Seq(Requests) /\ ToSet(waiting) = Waiters(tasks)
    /\ \A i, j \in 1..Len(waiting) : waiting[i] = waiting[j] => i = j

(* The permits are with the semaphore or with their holders; none is free while
   someone waits. *)
CountOk(free, waiting, tasks) ==
    /\ free \in Nat /\ IsFiniteSet(Holders(tasks))
    /\ free + Cardinality(Holders(tasks)) = MaxPermits
    /\ waiting # << >> => free = 0

(* The inductive invariant. *)
LimitsInv == TasksOk(req) /\ QueueOk(queue, req) /\ CountOk(permits, queue, req)

(* The bodies considered, and the one of a task that has none, have their
   type. *)
LEMMA BodiesTyped ==
    NoBody \in BodyType /\ Bodies \subseteq BodyType /\ ~NoBody.grpc
<1>1. << >> \in Seq(Nat)
  OBVIOUS
<1>2. NoBody \in BodyType /\ ~NoBody.grpc
  BY <1>1 DEF NoBody, BodyType
<1> QED BY <1>2, BodiesAssumption DEF BodyType

(* A scan in step with the body has not passed the prefix of a message that is
   too large: LimitedBody stops it there. *)
LEMMA PrefixEnds ==
    ASSUME NEW body \in BodyType, body.grpc, NEW at \in Nat, NEW st,
           InStep(body, at, st), NEW k \in Oversized(body)
    PROVE  at < PrefixEnd(body, k)
<1> DEFINE n == Len(body.messages)
           M == body.messages
<1>0. /\ HeaderLen \in Nat \ {0} /\ MaxBytes \in Nat /\ n \in Nat /\ DOMAIN M = 1..n
      /\ \A i \in 1..n : M[i] \in Nat
  BY BoundsAssumption DEF BodyType
<1>1. k \in 1..n /\ M[k] > MaxBytes /\ PrefixEnd(body, k) = End(body, k - 1) + HeaderLen
  BY <1>0 DEF Oversized, PrefixEnd, End, UpTo
<1>2. PICK i \in 0..n : /\ \A j \in 1..i : M[j] <= MaxBytes
                        /\ InPrefix(body, at, st, i) \/ InContent(body, at, st, i)
  BY DEF InStep
<1>3. ~(k <= i)
  <2> SUFFICES ASSUME k <= i PROVE FALSE
    OBVIOUS
  <2>1. k \in 1..i /\ M[k] \in Nat
    BY <1>0, <1>1
  <2>2. M[k] <= MaxBytes
    BY <1>2, <2>1
  <2> QED BY <1>0, <1>1, <2>1, <2>2
<1>4. k - 1 \in i..n /\ k - 1 \in 0..n
  BY <1>0, <1>1, <1>3
<1>5. End(body, i) <= End(body, k - 1) /\ End(body, i) \in Nat /\ End(body, k - 1) \in Nat
  BY <1>4, EndsInOrder, Layout
<1>6. at < End(body, i) + HeaderLen
  <2>1. CASE InPrefix(body, at, st, i)
    <3>1. at = End(body, i) + st.pos /\ st.pos \in 0..(HeaderLen - 1)
      BY <2>1 DEF InPrefix
    <3> DEFINE p == st.pos
               e == End(body, i)
    <3>2. at = e + p /\ p \in 0..(HeaderLen - 1) /\ e \in Nat
      BY <1>5, <3>1
    <3> HIDE DEF p, e
    <3>3. at < e + HeaderLen
      BY <1>0, <3>2
    <3> QED BY <3>3 DEF e
  <2>2. CASE InContent(body, at, st, i)
    <3>1. at + st.remaining = End(body, i) /\ st.remaining \in Nat
      BY <2>2 DEF InContent
    <3> DEFINE p == st.remaining
               e == End(body, i)
    <3>2. at + p = e /\ p \in Nat /\ e \in Nat
      BY <1>5, <3>1
    <3> HIDE DEF p, e
    <3>3. at < e + HeaderLen
      BY <1>0, <3>2
    <3> QED BY <3>3 DEF e
  <2> QED BY <1>2, <2>1, <2>2
<1> DEFINE e == End(body, i)
           f == End(body, k - 1)
<1>7. at < e + HeaderLen /\ e <= f /\ e \in Nat /\ f \in Nat
  BY <1>5, <1>6
<1> HIDE DEF e, f
<1>8. at < f + HeaderLen
  BY <1>0, <1>7
<1> QED BY <1>1, <1>8 DEF f

(* A body of which nothing has been read is in step. *)
LEMMA FrameBegins ==
    ASSUME NEW t, t.body \in BodyType, t.read = 0, t.passed = 0, t.cut = FALSE,
           t.state = Header(0, 0)
    PROVE  FrameOk(t)
<1>0. HeaderLen \in Nat \ {0} /\ MaxBytes \in Nat
  BY BoundsAssumption
<1>1. Len(Stream(t.body)) \in Nat
  BY StreamShape
<1>2. ASSUME t.body.grpc
      PROVE  /\ InStep(t.body, 0, t.state)
             /\ \A i \in Oversized(t.body) : 0 < PrefixEnd(t.body, i)
  <2>1. End(t.body, 0) = 0
    BY <1>2, Layout
  <2>2. /\ t.state.in = "header" /\ t.state.pos = 0 /\ t.state.last = 0
        /\ t.state = Header(0, 0)
    BY StateShape
  <2>3. InPrefix(t.body, 0, t.state, 0)
    BY <1>0, <2>1, <2>2 DEF InPrefix
  <2>4. 0 \in 0..Len(t.body.messages) /\ 1..0 = {}
    <3>1. Len(t.body.messages) \in Nat
      BY DEF BodyType
    <3> QED BY <3>1
  <2>5. InStep(t.body, 0, t.state)
    BY <2>3, <2>4 DEF InStep
  <2> QED BY <1>2, <2>5, PrefixEnds
<1> QED BY <1>0, <1>1, <1>2 DEF FrameOk

(* A frame of n bytes. *)
Refuses(t, n) ==
    IF t.body.grpc
    THEN Scan(SubSeq(Stream(t.body), t.read + 1, t.read + n), t.state).refused
    ELSE t.read + n > MaxBytes

(* LimitedBody::poll_frame keeps what it promises: a frame is passed on whole
   or the body is cut, the running total of a plain body included. *)
LEMMA FrameReads ==
    ASSUME NEW t \in Tasked, FrameOk(t), ~t.cut,
           NEW n \in 1..(Len(Stream(t.body)) - t.read), NEW u,
           u.body = t.body, u.read = t.read + n,
           u.state = IF t.body.grpc
                     THEN Scan(SubSeq(Stream(t.body), t.read + 1, t.read + n), t.state).state
                     ELSE t.state,
           u.passed = IF Refuses(t, n) THEN t.passed ELSE t.passed + n,
           u.cut = Refuses(t, n)
    PROVE  /\ u.read \in Nat /\ u.state \in States /\ u.passed \in Nat /\ u.cut \in BOOLEAN
           /\ FrameOk(u)
<1> DEFINE body  == t.body
           read  == t.read
           bytes == Stream(body)
           all   == Len(bytes)
<1>0. /\ body \in BodyType /\ body.grpc \in BOOLEAN /\ read \in Nat /\ t.passed \in Nat
      /\ t.state \in States
  BY DEF Tasked, BodyType
<1>1. bytes \in Seq(Nat) /\ all \in Nat /\ MaxBytes \in Nat
  BY <1>0, StreamShape, BoundsAssumption
<1>2. n \in Nat /\ n > 0 /\ read + n <= all /\ read + n \in Nat
  <2> HIDE DEF read, all
  <2> QED BY <1>0, <1>1 DEF read, all
<1>3. t.passed = read
  BY DEF FrameOk
<1>4. CASE ~body.grpc
  <2>1. Refuses(t, n) = (read + n > MaxBytes)
    BY <1>4 DEF Refuses
  <2>2. t.passed <= MaxBytes
    BY <1>4 DEF FrameOk
  <2>3. /\ u.cut = (read + n > MaxBytes) /\ u.state = t.state /\ u.read = read + n
        /\ u.passed = (IF read + n > MaxBytes THEN read ELSE read + n)
        /\ u.body = body
    BY <1>3, <1>4, <2>1
  <2> HIDE DEF body, read, all
  <2>4. u.passed \in Nat /\ u.passed <= MaxBytes /\ u.cut \in BOOLEAN
        /\ (~u.cut => u.passed = u.read) /\ (u.cut => all > MaxBytes)
        /\ u.read <= all
    BY <1>0, <1>1, <1>2, <1>3, <2>2, <2>3
  <2>5. FrameOk(u)
    BY <1>4, <2>3, <2>4 DEF FrameOk, all
  <2> QED BY <1>0, <1>2, <2>3, <2>4, <2>5
<1>5. CASE body.grpc
  <2> DEFINE data == SubSeq(bytes, read + 1, read + n)
             d    == Scan(data, t.state)
  <2>1. InStep(body, read, t.state)
        /\ \A i \in Oversized(body) : read < PrefixEnd(body, i)
    BY <1>3, <1>5 DEF FrameOk
  <2>2. Frame(body, read, data) /\ Len(data) = n
    <3> HIDE DEF read, bytes
    <3>1. data \in Seq(Nat) /\ Len(data) = n /\ \A k \in 1..n : data[k] = bytes[read + k]
      <4>1. Len(bytes) \in Nat /\ read + n <= Len(bytes)
        BY <1>1, <1>2
      <4>2. ASSUME NEW i \in (read + 1)..(read + n) PROVE bytes[i] \in Nat
        <5>1. i \in 1..Len(bytes)
          BY <1>0, <1>2, <4>1
        <5> QED BY <1>1, <5>1
      <4>3. read + 1 \in Int /\ read + n \in Int
        BY <1>0, <1>2
      <4>4. read + 1 <= read + n /\ (read + n) - (read + 1) + 1 = n
        BY <1>0, <1>2
      <4>5. /\ data \in Seq(Nat)
            /\ Len(data) = IF read + 1 <= read + n THEN (read + n) - (read + 1) + 1 ELSE 0
            /\ \A k \in 1..((read + n) - (read + 1) + 1) : data[k] = bytes[(read + 1) + k - 1]
        BY <4>2, <4>3, SubSeqProperties
      <4> HIDE DEF data
      <4>6. ASSUME NEW k \in 1..n PROVE (read + 1) + k - 1 = read + k
        BY <1>0, <1>2
      <4> QED BY <4>4, <4>5, <4>6
    <3> HIDE DEF data
    <3> QED BY <1>0, <1>2, <3>1 DEF Frame, bytes
  <2> HIDE DEF data
  <2>3. d \in Cursors /\ IF d.refused THEN Oversized(body) # {}
                         ELSE InStep(body, read + n, d.state)
    <3>1. body \in BodyType /\ body.grpc
      BY <1>0, <1>5
    <3> HIDE DEF body, read
    <3> QED BY <2>1, <2>2, <3>1, ScanResult
  <2> HIDE DEF d
  <2>4. Refuses(t, n) = d.refused /\ d.refused \in BOOLEAN /\ d.state \in States
    BY <1>5, <2>3 DEF Refuses, d, data, Cursors
  <2>5. /\ u.cut = d.refused /\ u.state = d.state /\ u.read = read + n
        /\ u.passed = (IF d.refused THEN read ELSE read + n) /\ u.body = body
    BY <1>3, <1>5, <2>4 DEF d, data
  <2>6. u.read \in Nat /\ u.passed \in Nat /\ u.cut \in BOOLEAN /\ u.state \in States
    BY <1>0, <1>2, <2>4, <2>5
  <2>7. \A i \in Oversized(body) : u.passed < PrefixEnd(body, i)
    <3>1. CASE d.refused
      BY <2>1, <2>5, <3>1
    <3>2. CASE ~d.refused
      <4>1. body \in BodyType /\ body.grpc /\ read + n \in Nat
            /\ InStep(body, read + n, d.state) /\ u.passed = read + n
        BY <1>0, <1>2, <1>5, <2>3, <2>5, <3>2
      <4> HIDE DEF body, read
      <4> QED BY <4>1, PrefixEnds
    <3> QED BY <3>1, <3>2
  <2>8. IF u.cut THEN Oversized(body) # {} ELSE InStep(body, u.read, u.state)
    BY <2>3, <2>5
  <2>9. u.read <= all /\ (~u.cut => u.passed = u.read)
    BY <1>2, <2>5
  <2>10. FrameOk(u)
    <3> HIDE DEF d, read
    <3> QED BY <1>5, <2>5, <2>7, <2>8, <2>9 DEF FrameOk
  <2> QED BY <2>6, <2>10
<1> QED BY <1>0, <1>4, <1>5

-----------------------------------------------------------------------------
(* The tasks as a whole *)

(* A request that has been admitted, with its permit or on its way to one. *)
LEMMA FreshTask ==
    ASSUME NEW body \in BodyType
    PROVE  /\ LET t == [NoRequest EXCEPT !.pc = "process", !.body = body, !.permit = TRUE]
              IN  TaskOk(t) /\ t.pc = "process"
           /\ LET t == [NoRequest EXCEPT !.pc = "wait", !.body = body]
              IN  TaskOk(t) /\ t.pc = "wait"
<1>0. Header(0, 0) \in States
  BY StateShape
<1>1. NoRequest = [pc |-> "idle", body |-> NoBody, read |-> 0, state |-> Header(0, 0),
                   passed |-> 0, cut |-> FALSE, permit |-> FALSE, reply |-> "none"]
  BY DEF NoRequest
<1> DEFINE t == [NoRequest EXCEPT !.pc = "process", !.body = body, !.permit = TRUE]
           w == [NoRequest EXCEPT !.pc = "wait", !.body = body]
<1>2. /\ t.pc = "process" /\ t.body = body /\ t.read = 0 /\ t.state = Header(0, 0)
      /\ t.passed = 0 /\ t.cut = FALSE /\ t.permit = TRUE /\ t \in Tasked
  BY <1>0, <1>1 DEF Tasked, Stages, Holding
<1>3. /\ w.pc = "wait" /\ w.body = body /\ w.read = 0 /\ w.state = Header(0, 0)
      /\ w.passed = 0 /\ w.cut = FALSE /\ w.permit = FALSE /\ w \in Tasked
  BY <1>0, <1>1 DEF Tasked, Stages, Holding
<1> HIDE DEF t, w
<1>4. FrameOk(t) /\ FrameOk(w)
  BY <1>2, <1>3, FrameBegins
<1>5. TaskOk(t) /\ TaskOk(w)
  BY <1>2, <1>3, <1>4 DEF TaskOk, Holding
<1> QED BY <1>2, <1>3, <1>5 DEF t, w

(* A request that has been answered. *)
LEMMA DoneTask ==
    ASSUME NEW reply \in {"none", "ok", "503", "413", "error", "gone"}
    PROVE  TaskOk(Done(reply)) /\ Done(reply).pc = "done"
<1>0. Header(0, 0) \in States /\ NoBody \in BodyType
  BY StateShape, BodiesTyped
<1> DEFINE t == Done(reply)
<1>1. /\ t.pc = "done" /\ t.body = NoBody /\ t.read = 0 /\ t.state = Header(0, 0)
      /\ t.passed = 0 /\ t.cut = FALSE /\ t.permit = FALSE /\ t \in Tasked
  BY <1>0 DEF Done, NoRequest, Tasked, Stages, Holding
<1> HIDE DEF t
<1>2. FrameOk(t)
  BY <1>0, <1>1, FrameBegins
<1> QED BY <1>1, <1>2 DEF TaskOk, Holding, t

(* A task that only moves on: what it has read stays. *)
LEMMA MovedTask ==
    ASSUME NEW t, TaskOk(t), NEW u \in Tasked, u.body = t.body, u.read = t.read,
           u.state = t.state, u.passed = t.passed, u.cut = t.cut,
           u.permit <=> u.pc \in Holding
    PROVE  TaskOk(u)
  BY DEF TaskOk, FrameOk

(* The task of r, and nothing else, changes to t. *)
Replaced(f, g, r, t) == g = [f EXCEPT ![r] = t]

(* When the task of r changes, nobody else begins or ends to hold a permit or
   to wait for one. *)
LEMMA Replace ==
    ASSUME NEW f, TasksOk(f), NEW r \in Requests, NEW t, TaskOk(t), NEW g, Replaced(f, g, r, t)
    PROVE  /\ TasksOk(g) /\ g[r] = t /\ \A q \in Requests \ {r} : g[q] = f[q]
           /\ t.pc \in Holding => Holders(g) = Holders(f) \cup {r}
           /\ t.pc \notin Holding => Holders(g) = Holders(f) \ {r}
           /\ t.pc = "wait" => Waiters(g) = Waiters(f) \cup {r}
           /\ t.pc # "wait" => Waiters(g) = Waiters(f) \ {r}
<1>1. f \in [Requests -> Tasked] /\ t \in Tasked /\ \A q \in Requests : TaskOk(f[q])
  BY DEF TasksOk, TaskOk
<1>2. g \in [Requests -> Tasked] /\ g[r] = t /\ \A q \in Requests \ {r} : g[q] = f[q]
  BY <1>1 DEF Replaced
<1>3. TasksOk(g)
  BY <1>1, <1>2 DEF TasksOk
<1>4. /\ t.pc \in Holding => Holders(g) = Holders(f) \cup {r}
      /\ t.pc \notin Holding => Holders(g) = Holders(f) \ {r}
  BY <1>2 DEF Holders
<1>5. /\ t.pc = "wait" => Waiters(g) = Waiters(f) \cup {r}
      /\ t.pc # "wait" => Waiters(g) = Waiters(f) \ {r}
  BY <1>2 DEF Waiters
<1> QED BY <1>2, <1>3, <1>4, <1>5

(* One more. *)
LEMMA CountUp ==
    ASSUME NEW S, IsFiniteSet(S), NEW r, r \notin S, NEW T, T = S \cup {r}
    PROVE  /\ Cardinality(S) \in Nat /\ IsFiniteSet(T)
           /\ Cardinality(T) = Cardinality(S) + 1
  BY FS_CardinalityType, FS_AddElement

(* One less. *)
LEMMA CountDown ==
    ASSUME NEW S, IsFiniteSet(S), NEW r, r \in S, NEW T, T = S \ {r}
    PROVE  /\ Cardinality(S) \in Nat /\ IsFiniteSet(T)
           /\ Cardinality(T) = Cardinality(S) - 1
  BY FS_CardinalityType, FS_RemoveElement

-----------------------------------------------------------------------------
(* The steps *)

(* A task that is and stays without a permit and out of the queue, or keeps
   what it has. *)
LEMMA QuietStep ==
    ASSUME LimitsInv, NEW r \in Requests, NEW t, TaskOk(t),
           t.pc \in Holding <=> req[r].pc \in Holding,
           t.pc = "wait" <=> req[r].pc = "wait",
           Replaced(req, req', r, t), UNCHANGED <<permits, queue>>
    PROVE  LimitsInv'
<1>0. Replaced(req, req', r, t) /\ TasksOk(req)
  BY DEF LimitsInv
<1>1. TasksOk(req')
  BY <1>0, Replace
<1>2. Holders(req') = Holders(req) /\ Waiters(req') = Waiters(req)
  <2>1. CASE t.pc \in Holding
    <3>1. t.pc # "wait" /\ r \in Holders(req) /\ r \notin Waiters(req)
      BY <2>1 DEF Holding, Holders, Waiters
    <3>2. Holders(req') = Holders(req) \cup {r} /\ Waiters(req') = Waiters(req) \ {r}
      BY <1>0, <2>1, <3>1, Replace
    <3> QED BY <3>1, <3>2
  <2>2. CASE t.pc = "wait"
    <3>1. t.pc \notin Holding /\ r \notin Holders(req) /\ r \in Waiters(req)
      BY <2>2 DEF Holding, Holders, Waiters
    <3>2. Holders(req') = Holders(req) \ {r} /\ Waiters(req') = Waiters(req) \cup {r}
      BY <1>0, <2>2, <3>1, Replace
    <3> QED BY <3>1, <3>2
  <2>3. CASE t.pc \notin Holding /\ t.pc # "wait"
    <3>1. r \notin Holders(req) /\ r \notin Waiters(req)
      BY <2>3 DEF Holders, Waiters
    <3>2. Holders(req') = Holders(req) \ {r} /\ Waiters(req') = Waiters(req) \ {r}
      BY <1>0, <2>3, Replace
    <3> QED BY <3>1, <3>2
  <2> QED BY <2>1, <2>2, <2>3
<1> QED BY <1>1, <1>2 DEF LimitsInv, QueueOk, CountOk

(* The permit that r gives back goes to the first waiter, or to the semaphore. *)
LEMMA ReturnStep ==
    ASSUME LimitsInv, NEW r \in Requests, req[r].pc \in Holding, NEW t, TaskOk(t),
           t.pc = "done", Return([req EXCEPT ![r] = t])
    PROVE  LimitsInv'
<1> DEFINE new == [req EXCEPT ![r] = t]
<1>0. /\ queue \in Seq(Requests) /\ ToSet(queue) = Waiters(req) /\ permits \in Nat
      /\ \A i, j \in 1..Len(queue) : queue[i] = queue[j] => i = j
      /\ IsFiniteSet(Holders(req)) /\ permits + Cardinality(Holders(req)) = MaxPermits
      /\ queue # << >> => permits = 0
  BY DEF LimitsInv, QueueOk, CountOk
<1>1. /\ TasksOk(new) /\ Holders(new) = Holders(req) \ {r}
      /\ Waiters(new) = Waiters(req) \ {r} /\ \A q \in Requests \ {r} : new[q] = req[q]
  <2>1. t.pc \notin Holding /\ t.pc # "wait"
    BY DEF Holding
  <2>2. Replaced(req, new, r, t) /\ TasksOk(req)
    BY DEF Replaced, LimitsInv
  <2> HIDE DEF new
  <2> QED BY <2>1, <2>2, Replace
<1>2. r \in Holders(req) /\ r \notin Waiters(req)
  BY DEF Holders, Waiters, Holding
<1>3. Waiters(new) = Waiters(req)
  BY <1>1, <1>2
<1>4. /\ Cardinality(Holders(req)) \in Nat /\ IsFiniteSet(Holders(new))
      /\ Cardinality(Holders(new)) = Cardinality(Holders(req)) - 1
  BY <1>0, <1>1, <1>2, CountDown
<1> HIDE DEF new
<1>5. CASE queue = << >>
  <2>1. permits' = permits + 1 /\ queue' = queue /\ req' = new
    BY <1>5 DEF Return, new
  <2>2. QueueOk(queue', req')
    BY <1>0, <1>3, <2>1 DEF QueueOk
  <2>3. CountOk(permits', queue', req')
    BY <1>0, <1>4, <1>5, <2>1 DEF CountOk
  <2> QED BY <1>1, <2>1, <2>2, <2>3 DEF LimitsInv
<1>6. CASE queue # << >>
  <2> DEFINE h == Head(queue)
             u == [new[h] EXCEPT !.pc = "granted", !.permit = TRUE]
             g == [new EXCEPT ![h] = u]
  <2>1. permits' = permits /\ queue' = Tail(queue)
        /\ req' = [new EXCEPT ![h].pc = "granted", ![h].permit = TRUE]
    BY <1>6, Zenon DEF Return, new
  <2>2. /\ h \in ToSet(queue) /\ h \in Requests /\ queue' \in Seq(Requests)
        /\ ToSet(queue') = ToSet(queue) \ {h}
        /\ \A i, j \in 1..Len(queue') : queue'[i] = queue'[j] => i = j
    BY <1>0, <1>6, <2>1, QueueTail
  <2> HIDE DEF h
  <2>3. h # r /\ h \in Waiters(new)
    BY <1>0, <1>2, <1>3, <2>2
  <2>4. TaskOk(new[h]) /\ new[h] \in Tasked /\ new \in [Requests -> Tasked]
    BY <1>1, <2>2 DEF TasksOk
  <2>5. /\ u \in Tasked /\ u.pc = "granted" /\ u.permit = TRUE /\ u.body = new[h].body
        /\ u.read = new[h].read /\ u.state = new[h].state /\ u.passed = new[h].passed
        /\ u.cut = new[h].cut
    BY <2>4 DEF Tasked, Stages, Holding
  <2>6. req' = g
    BY <2>1, <2>2, <2>4
  <2> HIDE DEF u
  <2>7. TaskOk(u)
    BY <2>4, <2>5, MovedTask DEF Holding
  <2>8. u.pc \in Holding /\ u.pc # "wait"
    BY <2>5 DEF Holding
  <2>9. /\ TasksOk(g) /\ Holders(g) = Holders(new) \cup {h}
        /\ Waiters(g) = Waiters(new) \ {h}
    <3>1. Replaced(new, g, h, u)
      BY DEF Replaced
    <3> HIDE DEF g
    <3> QED BY <1>1, <2>2, <2>7, <2>8, <3>1, Replace
  <2>10. h \notin Holders(new)
    BY <2>3 DEF Holders, Waiters, Holding
  <2>11. IsFiniteSet(Holders(g)) /\ Cardinality(Holders(g)) = Cardinality(Holders(new)) + 1
    <3> HIDE DEF g
    <3> QED BY <1>4, <2>9, <2>10, CountUp
  <2>12. QueueOk(queue', req')
    BY <1>0, <1>3, <2>2, <2>6, <2>9 DEF QueueOk
  <2>13. CountOk(permits', queue', req')
    <3>1. permits' = 0 /\ permits = 0
      BY <1>0, <1>6, <2>1
    <3>2. 0 + Cardinality(Holders(g)) = MaxPermits
      <4> HIDE DEF g
      <4> QED BY <1>0, <1>4, <2>11, <3>1
    <3> HIDE DEF g
    <3> QED BY <2>6, <2>11, <3>1, <3>2 DEF CountOk
  <2> QED BY <2>6, <2>9, <2>12, <2>13 DEF LimitsInv
<1> QED BY <1>5, <1>6

(* A response that has been streamed, or dropped, gives its permit back. *)
LEMMA FinishStep ==
    ASSUME LimitsInv, NEW r \in Requests, req[r].pc \in Holding,
           NEW reply \in {"none", "ok", "503", "413", "error", "gone"}, Finish(r, reply)
    PROVE  LimitsInv'
<1>1. TaskOk(Done(reply)) /\ Done(reply).pc = "done"
  BY DoneTask
<1>2. req[r].permit
  BY DEF LimitsInv, TasksOk, TaskOk
<1>3. Return([req EXCEPT ![r] = Done(reply)])
  BY <1>2, Zenon DEF Finish
<1> QED BY <1>1, <1>3, ReturnStep

(* A waiter that gives up, at its timeout or because its client left, takes no
   permit with it. *)
LEMMA LeaveStep ==
    ASSUME LimitsInv, NEW r \in Requests, req[r].pc = "wait",
           NEW reply \in {"503", "gone"}, Leave(r),
           Replaced(req, req', r, Done(reply)), UNCHANGED permits
    PROVE  LimitsInv'
<1>0. /\ queue \in Seq(Requests) /\ ToSet(queue) = Waiters(req)
      /\ \A i, j \in 1..Len(queue) : queue[i] = queue[j] => i = j
      /\ DOMAIN queue = 1..Len(queue)
  BY DEF LimitsInv, QueueOk
<1> DEFINE t == Done(reply)
<1>1. TaskOk(t) /\ t.pc = "done" /\ Replaced(req, req', r, t)
  BY DoneTask
<1> HIDE DEF t
<1>2. t.pc \notin Holding /\ t.pc # "wait"
  BY <1>1 DEF Holding
<1>3. TasksOk(req') /\ Holders(req') = Holders(req) \ {r} /\ Waiters(req') = Waiters(req) \ {r}
  <2>1. Replaced(req, req', r, t) /\ TasksOk(req)
    BY <1>1 DEF LimitsInv
  <2> QED BY <1>1, <1>2, <2>1, Replace
<1>4. r \notin Holders(req)
  BY DEF Holders, Holding
<1>5. PICK k \in 1..Len(queue) : queue[k] = r /\ queue' = RemoveAt(queue, k)
  BY <1>0 DEF Leave
<1>6. /\ queue' \in Seq(Requests) /\ ToSet(queue') = ToSet(queue) \ {r}
      /\ \A i, j \in 1..Len(queue') : queue'[i] = queue'[j] => i = j
      /\ queue # << >>
  <2>1. queue # << >>
    BY <1>0, <1>5
  <2> QED BY <1>0, <1>5, <2>1, QueueRemove
<1>7. QueueOk(queue', req')
  BY <1>0, <1>3, <1>6 DEF QueueOk
<1>8. Holders(req') = Holders(req)
  BY <1>3, <1>4
<1>9. CountOk(permits', queue', req')
  BY <1>6, <1>8 DEF CountOk, LimitsInv
<1> QED BY <1>3, <1>7, <1>9 DEF LimitsInv

(* ConcurrencyLimit::call: a permit, the queue, or an answer at once. *)
LEMMA ArriveStep ==
    ASSUME LimitsInv, NEW r \in Requests, Arrive(r)
    PROVE  LimitsInv'
<1>0. req[r].pc \notin Holding /\ req[r].pc # "wait"
  BY DEF Arrive, Holding
<1>r. r \notin Holders(req) /\ r \notin Waiters(req)
  BY <1>0 DEF Holders, Waiters
<1>i. /\ queue \in Seq(Requests) /\ ToSet(queue) = Waiters(req) /\ permits \in Nat
      /\ \A i, j \in 1..Len(queue) : queue[i] = queue[j] => i = j
      /\ IsFiniteSet(Holders(req)) /\ permits + Cardinality(Holders(req)) = MaxPermits
      /\ (queue # << >> => permits = 0) /\ TasksOk(req)
  BY DEF LimitsInv, QueueOk, CountOk
<1>1. PICK body \in Bodies : \/ HeaderReject(r, body)
                             \/ Acquired(r, body) \/ Shed(r) \/ Enqueue(r, body)
  BY DEF Arrive
<1>2. body \in BodyType
  BY BodiesTyped
<1>3. CASE HeaderReject(r, body) \/ Shed(r)
  <2>1. PICK reply \in {"413", "503"} :
            req' = [req EXCEPT ![r] = Done(reply)] /\ UNCHANGED <<permits, queue>>
    BY <1>3, Zenon DEF HeaderReject, Shed
  <2>2. TaskOk(Done(reply)) /\ Done(reply).pc = "done"
    BY DoneTask
  <2>3. Done(reply).pc \notin Holding /\ Done(reply).pc # "wait"
    BY <2>2 DEF Holding
  <2> QED BY <1>0, <2>1, <2>2, <2>3, QuietStep DEF Replaced
<1>4. CASE Acquired(r, body)
  <2> DEFINE t == [NoRequest EXCEPT !.pc = "process", !.body = body, !.permit = TRUE]
  <2>1. TaskOk(t) /\ t.pc = "process"
    BY <1>2, FreshTask
  <2>2. permits > 0 /\ queue = << >> /\ permits' = permits - 1 /\ queue' = queue
        /\ req' = [req EXCEPT ![r] = t]
    BY <1>4 DEF Acquired
  <2> HIDE DEF t
  <2>3. t.pc \in Holding /\ t.pc # "wait"
    BY <2>1 DEF Holding
  <2>4. TasksOk(req') /\ Holders(req') = Holders(req) \cup {r}
        /\ Waiters(req') = Waiters(req) \ {r}
    <3>1. Replaced(req, req', r, t)
      BY <2>2 DEF Replaced
    <3> QED BY <1>i, <2>1, <2>3, <3>1, Replace
  <2>5. IsFiniteSet(Holders(req')) /\ Cardinality(Holders(req)) \in Nat
        /\ Cardinality(Holders(req')) = Cardinality(Holders(req)) + 1
    BY <1>i, <1>r, <2>4, CountUp
  <2>6. CountOk(permits', queue', req')
    BY <1>i, <2>2, <2>5 DEF CountOk
  <2>7. QueueOk(queue', req')
    <3>1. Waiters(req') = Waiters(req)
      BY <1>r, <2>4
    <3>2. queue' = queue
      BY <2>2
    <3> QED BY <1>i, <3>1, <3>2 DEF QueueOk
  <2> QED BY <2>4, <2>6, <2>7 DEF LimitsInv
<1>5. CASE Enqueue(r, body)
  <2> DEFINE t == [NoRequest EXCEPT !.pc = "wait", !.body = body]
  <2>1. TaskOk(t) /\ t.pc = "wait"
    BY <1>2, FreshTask
  <2>2. (permits = 0 \/ queue # << >>) /\ permits' = permits /\ queue' = Append(queue, r)
        /\ req' = [req EXCEPT ![r] = t]
    BY <1>5 DEF Enqueue
  <2> HIDE DEF t
  <2>3. t.pc \notin Holding
    BY <2>1 DEF Holding
  <2>4. TasksOk(req') /\ Holders(req') = Holders(req) \ {r}
        /\ Waiters(req') = Waiters(req) \cup {r}
    <3>1. Replaced(req, req', r, t)
      BY <2>2 DEF Replaced
    <3> QED BY <1>i, <2>1, <2>3, <3>1, Replace
  <2>5. Holders(req') = Holders(req)
    BY <1>r, <2>4
  <2>6. /\ queue' \in Seq(Requests) /\ ToSet(queue') = ToSet(queue) \cup {r}
        /\ \A i, j \in 1..Len(queue') : queue'[i] = queue'[j] => i = j
    BY <1>i, <1>r, <2>2, QueueAppend
  <2>7. QueueOk(queue', req')
    BY <1>i, <2>4, <2>6 DEF QueueOk
  <2>8. CountOk(permits', queue', req')
    BY <1>i, <2>2, <2>5 DEF CountOk
  <2> QED BY <2>4, <2>7, <2>8 DEF LimitsInv
<1> QED BY <1>1, <1>3, <1>4, <1>5

(* A frame of the request body. *)
LEMMA ReadFrameStep ==
    ASSUME LimitsInv, NEW r \in Requests, ReadFrame(r)
    PROVE  LimitsInv'
<1> DEFINE t == req[r]
<1>1. TaskOk(t) /\ t \in Tasked /\ FrameOk(t) /\ req \in [Requests -> Tasked]
  BY DEF LimitsInv, TasksOk, TaskOk
<1>2. t.pc \in {"process", "stream"} /\ ~t.cut /\ UNCHANGED <<permits, queue>>
  BY DEF ReadFrame
<1> DEFINE data(n)  == SubSeq(Stream(t.body), t.read + 1, t.read + n)
           state(n) == IF t.body.grpc THEN Scan(data(n), t.state).state ELSE t.state
           u(n)     == [t EXCEPT !.read = t.read + n, !.state = state(n),
                                 !.passed = IF Refuses(t, n) THEN t.passed ELSE t.passed + n,
                                 !.cut = Refuses(t, n)]
<1>3. PICK n \in 1..(Len(Stream(t.body)) - t.read) :
          req' = [req EXCEPT ![r].read = @ + n, ![r].state = state(n),
                    ![r].passed = IF Refuses(t, n) THEN @ ELSE @ + n,
                    ![r].cut = Refuses(t, n)]
  BY Zenon DEF ReadFrame, Refuses
<1>4. req' = [req EXCEPT ![r] = u(n)]
  <2> HIDE DEF state
  <2> QED BY <1>1, <1>3
<1>5. /\ u(n).pc = t.pc /\ u(n).body = t.body /\ u(n).read = t.read + n
      /\ u(n).permit = t.permit /\ u(n).reply = t.reply
      /\ u(n).state = state(n) /\ u(n).cut = Refuses(t, n)
      /\ u(n).passed = (IF Refuses(t, n) THEN t.passed ELSE t.passed + n)
  <2> HIDE DEF state
  <2> QED BY <1>1 DEF Tasked
<1> HIDE DEF u
<1>6. /\ u(n).read \in Nat /\ u(n).state \in States /\ u(n).passed \in Nat
      /\ u(n).cut \in BOOLEAN /\ FrameOk(u(n))
  BY <1>1, <1>2, <1>5, FrameReads
<1>7. u(n) \in Tasked
  <2> DEFINE rd == t.read + n
             st == state(n)
             no == Refuses(t, n)
             ps == IF no THEN t.passed ELSE t.passed + n
  <2>1. rd \in Nat /\ st \in States /\ ps \in Nat /\ no \in BOOLEAN
    BY <1>5, <1>6
  <2>2. u(n) = [t EXCEPT !.read = rd, !.state = st, !.passed = ps, !.cut = no]
    BY DEF u
  <2> HIDE DEF rd, st, ps, no, u
  <2> QED BY <1>1, <2>1, <2>2 DEF Tasked
<1>8. TaskOk(u(n))
  BY <1>1, <1>5, <1>6, <1>7 DEF TaskOk
<1> QED BY <1>2, <1>4, <1>5, <1>8, QuietStep DEF Replaced

(* Every other step of a task. *)
LEMMA OtherSteps ==
    ASSUME LimitsInv, NEW r \in Requests,
           PollGranted(r) \/ QueueTimeout(r) \/ Respond(r) \/ InnerError(r)
             \/ BodyEnd(r) \/ Disconnect(r)
    PROVE  LimitsInv'
<1> DEFINE t == req[r]
<1>1. TaskOk(t) /\ t \in Tasked /\ req \in [Requests -> Tasked]
  BY DEF LimitsInv, TasksOk, TaskOk
<1>2. CASE PollGranted(r)
  <2> DEFINE u == [t EXCEPT !.pc = "process"]
  <2>1. /\ u \in Tasked /\ u.pc = "process" /\ u.permit = t.permit /\ u.body = t.body
        /\ u.read = t.read /\ u.state = t.state /\ u.passed = t.passed /\ u.cut = t.cut
    BY <1>1 DEF Tasked, Stages, Holding
  <2>2. t.pc = "granted" /\ req' = [req EXCEPT ![r] = u] /\ UNCHANGED <<permits, queue>>
    BY <1>1, <1>2 DEF PollGranted
  <2> HIDE DEF u
  <2>3. TaskOk(u)
    BY <1>1, <2>1, <2>2, MovedTask DEF Holding, TaskOk
  <2> QED BY <2>1, <2>2, <2>3, QuietStep DEF Holding, Replaced
<1>3. CASE Respond(r)
  <2> DEFINE reply == IF t.cut THEN "413" ELSE "ok"
             u == [t EXCEPT !.pc = "stream", !.reply = reply]
  <2>1. /\ u \in Tasked /\ u.pc = "stream" /\ u.permit = t.permit /\ u.body = t.body
        /\ u.read = t.read /\ u.state = t.state /\ u.passed = t.passed /\ u.cut = t.cut
    BY <1>1 DEF Tasked, Stages, Holding
  <2>2. t.pc = "process" /\ req' = [req EXCEPT ![r] = u] /\ UNCHANGED <<permits, queue>>
    BY <1>1, <1>3 DEF Respond
  <2> HIDE DEF u
  <2>3. TaskOk(u)
    BY <1>1, <2>1, <2>2, MovedTask DEF Holding, TaskOk
  <2> QED BY <2>1, <2>2, <2>3, QuietStep DEF Holding, Replaced
<1>4. CASE QueueTimeout(r)
  BY <1>4, LeaveStep DEF QueueTimeout, Replaced
<1>5. CASE InnerError(r)
  <2>1. t.pc \in Holding /\ Finish(r, IF t.cut THEN "413" ELSE "error")
    BY <1>5 DEF InnerError, Holding
  <2>2. (IF t.cut THEN "413" ELSE "error") \in {"none", "ok", "503", "413", "error", "gone"}
    OBVIOUS
  <2> QED BY <2>1, <2>2, FinishStep
<1>6. CASE BodyEnd(r)
  <2>1. t.pc \in Holding /\ Finish(r, t.reply)
    BY <1>6 DEF BodyEnd, Holding
  <2>2. t.reply \in {"none", "ok", "503", "413", "error", "gone"}
    BY <1>1 DEF Tasked
  <2> QED BY <2>1, <2>2, FinishStep
<1>7. CASE Disconnect(r)
  <2>1. CASE t.pc = "wait"
    BY <1>7, <2>1, LeaveStep DEF Disconnect, Replaced
  <2>2. CASE t.pc # "wait"
    <3>1. t.pc \in Holding /\ Finish(r, "gone")
      BY <1>7, <2>2 DEF Disconnect, Holding
    <3> QED BY <3>1, FinishStep
  <2> QED BY <2>1, <2>2
<1> QED BY <1>2, <1>3, <1>4, <1>5, <1>6, <1>7

(* At first every permit is in the semaphore. *)
LEMMA LimitsBegin ==
    ASSUME Init
    PROVE  LimitsInv
<1>0. MaxPermits \in Nat
  BY BoundsAssumption
<1>1. TaskOk(NoRequest) /\ NoRequest \in Tasked /\ NoRequest.pc = "idle"
  <2>0. Header(0, 0) \in States /\ NoBody \in BodyType
    BY StateShape, BodiesTyped
  <2> DEFINE t == NoRequest
  <2>1. /\ t.pc = "idle" /\ t.body = NoBody /\ t.read = 0 /\ t.state = Header(0, 0)
        /\ t.passed = 0 /\ t.cut = FALSE /\ t.permit = FALSE /\ t \in Tasked
    BY <2>0 DEF NoRequest, Tasked, Stages, Holding
  <2> HIDE DEF t
  <2>2. FrameOk(t)
    BY <2>0, <2>1, FrameBegins
  <2> QED BY <2>1, <2>2 DEF TaskOk, Holding, t
<1>2. permits = MaxPermits /\ queue = << >> /\ req = [r \in Requests |-> NoRequest]
  BY DEF Init
<1>3. \A r \in Requests : req[r] = NoRequest
  BY <1>2
<1>4. TasksOk(req)
  BY <1>1, <1>2, <1>3 DEF TasksOk
<1>5. Holders(req) = {} /\ Waiters(req) = {}
  BY <1>1, <1>3 DEF Holders, Waiters, Holding
<1>6. queue \in Seq(Requests) /\ ToSet(queue) = {} /\ Len(queue) = 0
  <2>1. << >> \in Seq(Requests)
    OBVIOUS
  <2> QED BY <1>2, <2>1, QueueSet
<1>7. QueueOk(queue, req)
  BY <1>5, <1>6 DEF QueueOk
<1>8. CountOk(permits, queue, req)
  BY <1>0, <1>2, <1>5, FS_EmptySet DEF CountOk
<1> QED BY <1>4, <1>7, <1>8 DEF LimitsInv

(* Every step keeps the invariant. *)
LEMMA LimitsKept ==
    ASSUME LimitsInv, [Next]_vars
    PROVE  LimitsInv'
<1>1. CASE UNCHANGED vars
  BY <1>1 DEF vars, LimitsInv
<1>2. ASSUME NEW r \in Requests,
             \/ Arrive(r) \/ PollGranted(r) \/ QueueTimeout(r) \/ ReadFrame(r)
             \/ Respond(r) \/ InnerError(r) \/ BodyEnd(r) \/ Disconnect(r)
      PROVE  LimitsInv'
  BY <1>2, ArriveStep, ReadFrameStep, OtherSteps
<1> QED BY <1>1, <1>2 DEF Next

(* What the invariant says of permits and of bodies. *)
LEMMA LimitsImply ==
    ASSUME LimitsInv
    PROVE  PermitsExact /\ FramingExact
<1>1. PermitsExact
  BY DEF LimitsInv, QueueOk, CountOk, Holders, Waiters, Holding, PermitsExact
<1>2. FramingExact
  <2>1. \A r \in Requests : FrameOk(req[r])
    BY DEF LimitsInv, TasksOk, TaskOk
  <2> QED BY <2>1 DEF FramingExact, OversizeStopped, NoFalseReject, FrameOk
<1> QED BY <1>1, <1>2

(* The inductive invariant: each task is in step with its body, each waiter is
   in the queue once, and the permits that are free or held are
   max_concurrent_requests. *)
THEOREM LimitsInvariance == Spec => []LimitsInv
<1>1. Init => LimitsInv
  BY LimitsBegin
<1>2. LimitsInv /\ [Next]_vars => LimitsInv'
  BY LimitsKept
<1> QED BY <1>1, <1>2, PTL DEF Spec

(* No permit of ConcurrencyLimit is lost or invented, whichever of a timeout,
   a hand-over, a disconnect and the end of a response come first, and none
   lies unused while a request waits for it. *)
THEOREM PermitsNeverLost == Spec => []PermitsExact
<1>1. LimitsInv => PermitsExact
  BY LimitsImply
<1> QED BY <1>1, LimitsInvariance, PTL

(* However a gRPC body is cut into frames, LimitedBody passes on no byte after
   the prefix of a message that is larger than max_bytes and rejects no body
   whose messages all fit. *)
THEOREM FramingHolds == Spec => []FramingExact
<1>1. LimitsInv => FramingExact
  BY LimitsImply
<1> QED BY <1>1, LimitsInvariance, PTL

-----------------------------------------------------------------------------
(* The gRPC schema of a route.  Whoever renews it holds the lock, the first
   place of its queue; RenewalDue carries what it saw under the lock to the
   moment it stores the answer. *)

(* The program points of a task. *)
Labels == Fetching \cup {"idle", "fast", "lock", "store", "fallback", "ready"}

(* A request renews the schema, alone, from the second look to the answer; it
   is queued for the lock before that. *)
Renewing(r) == pc[r] \in Fetching \cup {"store"}
Locked(r)   == Renewing(r) \/ pc[r] = "fallback"
Queued(r)   == Locked(r) \/ pc[r] = "lock"

(* The requests queue once each, and the one that has the lock is the first. *)
LockOk ==
    /\ pc \in [Tasks -> Labels] /\ lock \in Seq(Clients)
    /\ \A i, j \in 1..Len(lock) : lock[i] = lock[j] => i = j
    /\ ToSet(lock) = {r \in Clients : Queued(r)}
    /\ \A r \in Clients : Locked(r) => Len(lock) > 0 /\ lock[1] = r

(* A schema that is there has an age, which stops at the TTL. *)
CacheOk ==
    cache # Absent => /\ cache = [pool |-> cache.pool, age |-> cache.age, by |-> cache.by]
                      /\ cache.age \in 0..TTL

(* Whoever renews a schema has reason to, for as long as it takes. *)
RenewalDue ==
    \A r \in Clients : Renewing(r) /\ cache # Absent => cache.age = TTL \/ cache.by = Checker

(* The inductive invariant. *)
CacheInv == LockOk /\ CacheOk /\ RenewalDue

(* A step of a task that neither takes nor leaves the lock. *)
LEMMA CacheSameQueue ==
    ASSUME CacheInv, NEW t \in Tasks, NEW label \in Labels, Goto(t, label),
           UNCHANGED <<lock, cache>>,
           t \in Clients => /\ label \in Fetching \cup {"store", "fallback", "lock"}
                                  <=> Queued(t)
                            /\ label \in Fetching \cup {"store", "fallback"} => Locked(t)
                            /\ label \in Fetching \cup {"store"} => Renewing(t)
    PROVE  CacheInv'
<1>1. pc' \in [Tasks -> Labels] /\ pc'[t] = label /\ \A q \in Tasks \ {t} : pc'[q] = pc[q]
  BY DEF CacheInv, LockOk, Goto
<1>2. Clients \subseteq Tasks
  BY DEF Tasks
<1>3. \A r \in Clients : (Renewing(r)' => Renewing(r)) /\ (Locked(r)' => Locked(r))
                         /\ (Queued(r)' <=> Queued(r))
  BY <1>1, <1>2 DEF Renewing, Locked, Queued
<1> QED BY <1>1, <1>3 DEF CacheInv, LockOk, CacheOk, RenewalDue

(* A task is out of the queue when it has dropped its guard or its place. *)
LEMMA CacheUnlock ==
    ASSUME LockOk, NEW r \in Clients, NEW label \in {"ready", "idle"}, Goto(r, label),
           Unlock(r)
    PROVE  LockOk' /\ ~Renewing(r)' /\ \A q \in Clients \ {r} : Renewing(q)' <=> Renewing(q)
<1>1. /\ pc' \in [Tasks -> Labels] /\ pc'[r] = label
      /\ \A q \in Tasks \ {r} : pc'[q] = pc[q]
  BY DEF LockOk, Goto, Labels, Tasks
<1>2. Clients \subseteq Tasks
  BY DEF Tasks
<1>3. ~Renewing(r)' /\ ~Locked(r)' /\ ~Queued(r)'
  BY <1>1 DEF Renewing, Locked, Queued, Fetching
<1>4. \A q \in Clients \ {r} : /\ (Renewing(q)' <=> Renewing(q))
                               /\ (Locked(q)' <=> Locked(q)) /\ (Queued(q)' <=> Queued(q))
  BY <1>1, <1>2 DEF Renewing, Locked, Queued
<1>5. lock \in Seq(Clients) /\ \A i, j \in 1..Len(lock) : lock[i] = lock[j] => i = j
  BY DEF LockOk
<1>6. PICK k \in 1..Len(lock) : lock[k] = r /\ lock' = RemoveAt(lock, k)
  BY <1>5 DEF Unlock
<1>7. /\ lock' \in Seq(Clients) /\ ToSet(lock') = ToSet(lock) \ {r}
      /\ Len(lock') = Len(lock) - 1
      /\ \A i, j \in 1..Len(lock') : lock'[i] = lock'[j] => i = j
      /\ \A i \in 1..Len(lock') : lock'[i] = IF i < k THEN lock[i] ELSE lock[i + 1]
  BY <1>5, <1>6, QueueRemove
<1>8. ToSet(lock') = {q \in Clients : Queued(q)'}
  BY <1>3, <1>4, <1>7 DEF LockOk
<1>9. ASSUME NEW q \in Clients, Locked(q)' PROVE Len(lock') > 0 /\ lock'[1] = q
  <2>1. q # r /\ Locked(q)
    BY <1>3, <1>4, <1>9
  <2>2. lock[1] = q /\ Len(lock) \in Nat
    BY <1>5, <2>1 DEF LockOk
  <2>3. 1 < k
    BY <1>6, <2>1, <2>2
  <2>4. 1 \in 1..Len(lock')
    BY <1>6, <1>7, <2>2, <2>3
  <2> QED BY <1>7, <2>2, <2>3, <2>4
<1>10. LockOk'
  BY <1>1, <1>7, <1>8, <1>9 DEF LockOk
<1> QED BY <1>3, <1>4, <1>10

(* The first look, under the read lock: a fresh schema is used, else the
   request joins the queue of the lock. *)
LEMMA FastPathStep ==
    ASSUME CacheInv, NEW r \in Clients, FastPath(r)
    PROVE  CacheInv'
<1>0. r \in Tasks /\ pc[r] = "fast" /\ UNCHANGED cache
  BY DEF Tasks, FastPath
<1>1. CASE Fresh
  <2>1. Goto(r, "ready") /\ UNCHANGED <<lock, cache>>
    BY <1>1 DEF FastPath
  <2>2. ~Queued(r) /\ "ready" \in Labels /\ "ready" \notin Fetching
    BY <1>0 DEF Queued, Locked, Renewing, Labels, Fetching
  <2> QED BY <1>0, <2>1, <2>2, CacheSameQueue
<1>2. CASE ~Fresh
  <2>1. Goto(r, "lock") /\ lock' = Append(lock, r)
    BY <1>2 DEF FastPath
  <2>2. /\ pc' \in [Tasks -> Labels] /\ pc'[r] = "lock"
        /\ \A q \in Tasks \ {r} : pc'[q] = pc[q]
    BY <1>0, <2>1 DEF CacheInv, LockOk, Goto, Labels
  <2>3. Clients \subseteq Tasks
    BY DEF Tasks
  <2>4. /\ \A q \in Clients : (Renewing(q)' => Renewing(q)) /\ (Locked(q)' => Locked(q))
        /\ \A q \in Clients \ {r} : Queued(q)' => Queued(q)
    BY <1>0, <2>2, <2>3 DEF Renewing, Locked, Queued, Fetching
  <2>5. lock \in Seq(Clients) /\ \A i, j \in 1..Len(lock) : lock[i] = lock[j] => i = j
    BY DEF CacheInv, LockOk
  <2>6. r \notin ToSet(lock)
    BY <1>0 DEF CacheInv, LockOk, Queued, Locked, Renewing, Fetching
  <2>7. /\ lock' \in Seq(Clients) /\ ToSet(lock') = ToSet(lock) \cup {r}
        /\ \A i, j \in 1..Len(lock') : lock'[i] = lock'[j] => i = j
    BY <2>1, <2>5, <2>6, QueueAppend
  <2>8. Queued(r)' /\ \A q \in Clients \ {r} : Queued(q)' <=> Queued(q)
    BY <2>2, <2>3 DEF Queued, Locked, Renewing
  <2>9. ToSet(lock') = {q \in Clients : Queued(q)'}
    BY <2>7, <2>8 DEF CacheInv, LockOk
  <2>10. ASSUME NEW q \in Clients, Locked(q)' PROVE Len(lock') > 0 /\ lock'[1] = q
    <3>1. Len(lock) > 0 /\ lock[1] = q /\ Len(lock) \in Nat
      BY <2>4, <2>5, <2>10 DEF CacheInv, LockOk
    <3> QED BY <2>1, <2>5, <3>1
  <2>11. LockOk'
    BY <2>2, <2>7, <2>9, <2>10 DEF LockOk
  <2> QED BY <1>0, <2>4, <2>11 DEF CacheInv, CacheOk, RenewalDue
<1> QED BY <1>1, <1>2

(* The second look, under grpc_reflection_lock: who finds no fresh schema has
   reason to renew it, and it stays stale while it does because nobody else
   may. *)
LEMMA RecheckStep ==
    ASSUME CacheInv, NEW r \in Clients, Recheck(r)
    PROVE  CacheInv'
<1>0. r \in Tasks /\ pc[r] = "lock" /\ Head(lock) = r /\ UNCHANGED cache
  BY DEF Tasks, Recheck
<1>1. CASE Fresh
  <2>1. Goto(r, "ready") /\ Unlock(r)
    BY <1>1 DEF Recheck
  <2>2. LockOk' /\ ~Renewing(r)' /\ \A q \in Clients \ {r} : Renewing(q)' <=> Renewing(q)
    BY <2>1, CacheUnlock DEF CacheInv
  <2> QED BY <1>0, <2>2 DEF CacheInv, CacheOk, RenewalDue
<1>2. CASE ~Fresh
  <2>1. Goto(r, "connect") /\ lock' = lock
    BY <1>2 DEF Recheck
  <2>2. /\ pc' \in [Tasks -> Labels] /\ pc'[r] = "connect"
        /\ \A q \in Tasks \ {r} : pc'[q] = pc[q]
    BY <1>0, <2>1 DEF CacheInv, LockOk, Goto, Labels, Fetching
  <2>3. Clients \subseteq Tasks
    BY DEF Tasks
  <2>4. /\ Queued(r) /\ Queued(r)'
        /\ \A q \in Clients \ {r} : /\ (Renewing(q)' <=> Renewing(q))
                                    /\ (Locked(q)' <=> Locked(q)) /\ (Queued(q)' <=> Queued(q))
    BY <1>0, <2>2, <2>3 DEF Renewing, Locked, Queued, Fetching
  <2>5. lock \in Seq(Clients) /\ r \in ToSet(lock)
    BY <2>4 DEF CacheInv, LockOk
  <2>6. lock # << >> /\ Len(lock) > 0 /\ lock[1] = r
    <3>1. lock # << >>
      BY <2>5, QueueSet
    <3> QED BY <1>0, <2>5, <3>1
  <2>7. LockOk'
    BY <2>1, <2>2, <2>4, <2>6 DEF CacheInv, LockOk
  <2>8. cache # Absent => cache.age = TTL
    BY <1>2, CacheAssumption DEF Fresh, CacheInv, CacheOk
  <2> QED BY <1>0, <2>4, <2>7, <2>8 DEF CacheInv, CacheOk, RenewalDue
<1> QED BY <1>1, <1>2

(* The new schema is stored and the lock released. *)
LEMMA StoreStep ==
    ASSUME CacheInv, NEW r \in Clients, Store(r)
    PROVE  CacheInv'
<1>1. /\ pc[r] = "store" /\ Goto(r, "ready") /\ Unlock(r)
      /\ cache' = [pool |-> built[r], age |-> 0, by |-> r]
  BY DEF Store
<1>2. LockOk' /\ ~Renewing(r)' /\ \A q \in Clients \ {r} : Renewing(q)' <=> Renewing(q)
  BY <1>1, CacheUnlock DEF CacheInv
<1>3. \A q \in Clients : ~Renewing(q)'
  <2>1. Locked(r) /\ \A q \in Clients : Renewing(q) => Locked(q)
    BY <1>1 DEF Locked, Renewing
  <2>2. \A q \in Clients : Renewing(q) => q = r
    BY <2>1 DEF CacheInv, LockOk
  <2> QED BY <1>2, <2>2
<1>4. CacheOk'
  BY <1>1, CacheAssumption DEF CacheOk
<1> QED BY <1>2, <1>3, <1>4 DEF CacheInv, RenewalDue

(* A request that falls back to the stale schema or whose client leaves drops
   the lock, or its place in the queue. *)
LEMMA LeavingSteps ==
    ASSUME CacheInv, NEW r \in Clients, Fallback(r) \/ ClientLeaves(r)
    PROVE  CacheInv'
<1>1. PICK label \in {"ready", "idle"} : Goto(r, label) /\ Unlock(r) /\ UNCHANGED cache
  BY DEF Fallback, ClientLeaves
<1>2. LockOk' /\ ~Renewing(r)' /\ \A q \in Clients \ {r} : Renewing(q)' <=> Renewing(q)
  BY <1>1, CacheUnlock DEF CacheInv
<1> QED BY <1>1, <1>2 DEF CacheInv, CacheOk, RenewalDue

(* The steps of build_grpc_pool, which neither take nor release the lock. *)
LEMMA FetchStep ==
    ASSUME CacheInv, NEW t \in Tasks, Fetch(t)
    PROVE  CacheInv'
<1>1. pc[t] \in Fetching /\ UNCHANGED <<lock, cache>>
  BY DEF Fetch, Connect, ListServices, AskFile, FetchFails, Fetching
<1>2. PICK label : Goto(t, label) /\ \/ label \in Fetching \cup {"store"}
                                     \/ label = IF t = Checker THEN "idle" ELSE "fallback"
  BY DEF Fetch, Connect, ListServices, AskFile, FetchFails, Fetching
<1>3. label \in Labels
  BY <1>2 DEF Labels
<1>4. t \in Clients => Renewing(t) /\ Locked(t) /\ Queued(t)
  BY <1>1 DEF Renewing, Locked, Queued
<1>5. t \in Clients => t # Checker
  BY CacheAssumption
<1> QED BY <1>1, <1>2, <1>3, <1>4, <1>5, CacheSameQueue

(* Steps away from the lock: a request arrives or is answered, the health
   checker wakes. *)
LEMMA PlainSteps ==
    ASSUME CacheInv,
           (\E r \in Clients : ClientArrives(r) \/ Use(r)) \/ CheckerTicks
    PROVE  CacheInv'
<1>0. Clients \subseteq Tasks /\ Checker \in Tasks /\ Checker \notin Clients
  BY CacheAssumption DEF Tasks
<1>1. PICK t \in Tasks, label \in Labels :
          /\ Goto(t, label) /\ UNCHANGED <<lock, cache>>
          /\ t \in Clients => label \in {"fast", "idle"} /\ pc[t] \in {"idle", "ready"}
  <2>1. CASE CheckerTicks
    BY <1>0, <2>1 DEF CheckerTicks, Labels, Fetching
  <2>2. ASSUME NEW r \in Clients, ClientArrives(r) \/ Use(r)
        PROVE  /\ pc[r] \in {"idle", "ready"}
               /\ \E label \in {"fast", "idle"} : Goto(r, label) /\ UNCHANGED <<lock, cache>>
    BY <2>2 DEF ClientArrives, Use
  <2> QED BY <1>0, <2>1, <2>2 DEF Labels
<1>2. t \in Clients => ~Queued(t) /\ label \notin Fetching
  BY <1>1 DEF Queued, Locked, Renewing, Fetching
<1> QED BY <1>1, <1>2, CacheSameQueue

(* The health checker fills the cache without the lock, if it is empty; only a
   request that is about to overwrite what it stored renews a fresh schema. *)
LEMMA CheckerStoresStep ==
    ASSUME CacheInv, CheckerStores
    PROVE  CacheInv'
<1>0. Clients \subseteq Tasks /\ Checker \in Tasks /\ Checker \notin Clients
  BY CacheAssumption DEF Tasks
<1>1. /\ Goto(Checker, "idle") /\ lock' = lock
      /\ \/ cache' = [pool |-> built[Checker], age |-> 0, by |-> Checker]
         \/ cache' = cache
  BY DEF CheckerStores
<1>2. pc' \in [Tasks -> Labels] /\ \A q \in Clients : pc'[q] = pc[q]
  BY <1>0, <1>1 DEF CacheInv, LockOk, Goto, Labels
<1>3. \A q \in Clients : /\ (Renewing(q)' <=> Renewing(q))
                         /\ (Locked(q)' <=> Locked(q)) /\ (Queued(q)' <=> Queued(q))
  BY <1>2 DEF Renewing, Locked, Queued
<1>4. LockOk'
  BY <1>1, <1>2, <1>3 DEF CacheInv, LockOk
<1>5. CacheOk' /\ RenewalDue'
  <2>1. CASE cache' = cache
    BY <1>3, <2>1 DEF CacheInv, CacheOk, RenewalDue
  <2>2. CASE cache' = [pool |-> built[Checker], age |-> 0, by |-> Checker]
    BY <2>2, CacheAssumption DEF CacheOk, RenewalDue
  <2> QED BY <1>1, <2>1, <2>2
<1> QED BY <1>4, <1>5 DEF CacheInv

(* Time passes, the upstream is upgraded, fails or recovers. *)
LEMMA WorldSteps ==
    ASSUME CacheInv, Tick \/ Upgrade \/ UpstreamTurns
    PROVE  CacheInv'
<1>1. CASE Tick
  <2>1. /\ cache # Absent /\ cache.age < TTL /\ cache' = [cache EXCEPT !.age = @ + 1]
        /\ UNCHANGED <<pc, lock>>
    BY <1>1 DEF Tick
  <2>2. /\ cache = [pool |-> cache.pool, age |-> cache.age, by |-> cache.by]
        /\ cache.age \in 0..TTL /\ TTL \in Nat
    BY <2>1, CacheAssumption DEF CacheInv, CacheOk
  <2>3. /\ cache' = [pool |-> cache.pool, age |-> cache.age + 1, by |-> cache.by]
    BY <2>1, <2>2
  <2>4. cache'.age = cache.age + 1 /\ cache'.by = cache.by /\ cache'.pool = cache.pool
    BY <2>3
  <2>5. CacheOk'
    BY <2>1, <2>2, <2>3, <2>4 DEF CacheOk
  <2>6. RenewalDue'
    BY <2>1, <2>2, <2>4 DEF CacheInv, RenewalDue, Renewing
  <2>7. LockOk'
    BY <2>1 DEF CacheInv, LockOk, Queued, Locked, Renewing
  <2> QED BY <2>5, <2>6, <2>7 DEF CacheInv
<1>2. CASE Upgrade \/ UpstreamTurns
  <2>1. UNCHANGED <<pc, lock, cache>>
    BY <1>2 DEF Upgrade, UpstreamTurns
  <2> QED BY <2>1 DEF CacheInv, LockOk, CacheOk, RenewalDue, Queued, Locked,
                      Renewing
<1> QED BY <1>1, <1>2

(* Every step keeps the invariant. *)
LEMMA CacheKept ==
    ASSUME CacheInv, [CacheNext]_cache_vars
    PROVE  CacheInv'
<1>1. CASE UNCHANGED cache_vars
  BY <1>1 DEF cache_vars, CacheInv, LockOk, CacheOk, RenewalDue, Queued, Locked,
              Renewing
<1>2. CASE CacheNext
  BY <1>2, FastPathStep, RecheckStep, StoreStep, LeavingSteps, FetchStep, PlainSteps,
     CheckerStoresStep, WorldSteps DEF CacheNext, Step
<1> QED BY <1>1, <1>2

(* At first there is no schema and nobody waits. *)
LEMMA CacheBegins ==
    ASSUME CacheInit
    PROVE  CacheInv
<1>1. pc = [t \in Tasks |-> "idle"] /\ lock = << >> /\ cache = Absent
  BY DEF CacheInit
<1>2. Clients \subseteq Tasks
  BY DEF Tasks
<1>3. pc \in [Tasks -> Labels] /\ \A r \in Clients : pc[r] = "idle"
  BY <1>1, <1>2 DEF Labels
<1>4. \A r \in Clients : ~Renewing(r) /\ ~Locked(r) /\ ~Queued(r)
  BY <1>3 DEF Renewing, Locked, Queued, Fetching
<1>5. lock \in Seq(Clients) /\ ToSet(lock) = {} /\ Len(lock) = 0
  <2>1. << >> \in Seq(Clients)
    OBVIOUS
  <2> QED BY <1>1, <2>1, QueueSet
<1> QED BY <1>1, <1>3, <1>4, <1>5 DEF CacheInv, LockOk, CacheOk, RenewalDue

(* The inductive invariant of the cache. *)
THEOREM CacheInvariance == CacheSpec => []CacheInv
<1>1. CacheInit => CacheInv
  BY CacheBegins
<1>2. CacheInv /\ [CacheNext]_cache_vars => CacheInv'
  BY CacheKept
<1> QED BY <1>1, <1>2, PTL DEF CacheSpec

(* handle_grpc_web fetches the schema once per TTL, however many requests find
   it stale together: a request that stores a schema over one that is there
   stores it over one that is stale, or over one the health checker stored
   meanwhile. *)
THEOREM RefreshedOncePerTtl == CacheSpec => OneRefreshPerTtl
<1>1. CacheInv => \A r \in Clients :
                     pc[r] = "store" /\ pc'[r] = "ready" /\ cache # Absent
                       => cache.age = TTL \/ cache.by = Checker
  BY DEF CacheInv, RenewalDue, Renewing
<1> QED BY <1>1, CacheInvariance, PTL DEF OneRefreshPerTtl
=============================================================================
