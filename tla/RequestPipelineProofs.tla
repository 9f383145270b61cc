------------------------ MODULE RequestPipelineProofs ------------------------
(* Proofs about RequestPipeline: what the order of the layers, the roles and   *)
(* the rewritten headers guarantee for every configuration and every request.  *)
EXTENDS RequestPipeline, SequenceTheorems, FiniteSetTheorems, WellFoundedInduction, TLAPS

----------------------------------------------------------------------------
(* The stack of layers *)

(* A set of numbers that is not empty has a least one: how far a walk along
   the enabled layers gets. *)
LEMMA LeastElement ==
    ASSUME NEW S \in SUBSET Nat, S # {}
    PROVE  \E m \in S : \A x \in S : m <= x
<1>1. PICK m \in S : \A x \in S : ~(<<x, m>> \in OpToRel(<, Nat))
  BY NatLessThanWellFounded, WFMin
<1>2. \A x \in S : ~(x < m)
  BY <1>1 DEF OpToRel
<1> QED
  BY <1>2

(* Concatenation, element by element. *)
LEMMA Joined ==
    ASSUME NEW T, NEW a \in Seq(T), NEW b \in Seq(T)
    PROVE  /\ (a \o b) \in Seq(T) /\ Len(a \o b) = Len(a) + Len(b)
           /\ \A j \in 1 .. Len(a) : (a \o b)[j] = a[j]
           /\ \A j \in 1 .. Len(b) : (a \o b)[Len(a) + j] = b[j]
<1> DEFINE w == a \o b
<1>1. /\ w \in Seq(T) /\ Len(w) = Len(a) + Len(b)
      /\ \A i \in 1 .. (Len(a) + Len(b)) : w[i] = IF i <= Len(a) THEN a[i] ELSE b[i - Len(a)]
  BY ConcatProperties
<1> HIDE DEF w
<1>2. Len(a) \in Nat /\ Len(b) \in Nat
  OBVIOUS
<1>3. ASSUME NEW j \in 1 .. Len(b)
      PROVE  w[Len(a) + j] = b[j]
  <2>1. /\ Len(a) + j \in 1 .. (Len(a) + Len(b)) /\ ~(Len(a) + j <= Len(a))
        /\ (Len(a) + j) - Len(a) = j
    BY <1>2
  <2> QED
    BY <1>1, <2>1
<1>4. ASSUME NEW j \in 1 .. Len(a)
      PROVE  w[j] = a[j]
  BY <1>1, <1>2
<1>5. /\ w \in Seq(T) /\ Len(w) = Len(a) + Len(b)
      /\ \A j \in 1 .. Len(a) : w[j] = a[j]
      /\ \A j \in 1 .. Len(b) : w[Len(a) + j] = b[j]
  BY <1>1, <1>3, <1>4
<1> QED
  BY <1>5, Zenon DEF w

(* A sequence of one element: a layer that the configuration does not list. *)
LEMMA OneElement ==
    ASSUME NEW T, NEW e \in T
    PROVE  <<e>> \in Seq(T) /\ Len(<<e>>) = 1 /\ <<e>>[1] = e
OBVIOUS

(* The names of the layers, seen as a sequence over a larger set. *)
LEMMA LargerSet ==
    ASSUME NEW S, NEW T, S \subseteq T, NEW s \in Seq(S)
    PROVE  s \in Seq(T)
OBVIOUS

(* InsertAt puts one element between those before i and those from i on
   (enabled_middlewares with SecurityHeaders inserted, configuration.rs). *)
LEMMA InsertedOne ==
    ASSUME NEW T, NEW s \in Seq(T), NEW i \in 1 .. (Len(s) + 1), NEW e \in T
    PROVE  /\ InsertAt(s, i, e) \in Seq(T)
           /\ Len(InsertAt(s, i, e)) = Len(s) + 1
           /\ InsertAt(s, i, e)[i] = e
           /\ \A j \in 1 .. (i - 1) : InsertAt(s, i, e)[j] = s[j]
           /\ \A j \in i .. Len(s) : InsertAt(s, i, e)[j + 1] = s[j]
<1> DEFINE a == SubSeq(s, 1, i - 1)
           b == SubSeq(s, i, Len(s))
           o == <<e>>
           ao == a \o o
           w == ao \o b
<1>0. Len(s) \in Nat
  OBVIOUS
<1>1. a \in Seq(T) /\ Len(a) = i - 1 /\ \A j \in 1 .. (i - 1) : a[j] = s[j]
  BY <1>0
<1>2. /\ b \in Seq(T) /\ Len(b) = Len(s) - i + 1
      /\ \A j \in 1 .. (Len(s) - i + 1) : b[j] = s[i + j - 1]
  BY <1>0
<1>3. o \in Seq(T) /\ Len(o) = 1 /\ o[1] = e
  BY OneElement
<1>4. InsertAt(s, i, e) = w
  BY DEF InsertAt
<1> HIDE DEF a, b, o
<1>5. /\ ao \in Seq(T) /\ Len(ao) = Len(a) + Len(o)
      /\ \A j \in 1 .. Len(a) : ao[j] = a[j]
      /\ \A j \in 1 .. Len(o) : ao[Len(a) + j] = o[j]
  <2>1. a \in Seq(T) /\ o \in Seq(T)
    BY <1>1, <1>3
  <2>2. ao \in Seq(T) /\ Len(ao) = Len(a) + Len(o)
    BY <2>1, Joined
  <2>3. \A j \in 1 .. Len(a) : ao[j] = a[j]
    BY <2>1, Joined
  <2>4. \A j \in 1 .. Len(o) : ao[Len(a) + j] = o[j]
    BY <2>1, Joined
  <2> HIDE DEF ao
  <2> QED
    BY <2>2, <2>3, <2>4
<1> HIDE DEF ao
<1>6. /\ w \in Seq(T) /\ Len(w) = Len(ao) + Len(b)
      /\ \A j \in 1 .. Len(ao) : w[j] = ao[j]
      /\ \A j \in 1 .. Len(b) : w[Len(ao) + j] = b[j]
  <2>1. ao \in Seq(T) /\ b \in Seq(T)
    BY <1>2, <1>5
  <2>2. w \in Seq(T) /\ Len(w) = Len(ao) + Len(b)
    BY <2>1, Joined
  <2>3. \A j \in 1 .. Len(ao) : w[j] = ao[j]
    BY <2>1, Joined
  <2>4. \A j \in 1 .. Len(b) : w[Len(ao) + j] = b[j]
    BY <2>1, Joined
  <2> HIDE DEF w
  <2> QED
    BY <2>2, <2>3, <2>4
<1> HIDE DEF w
<1>7. Len(ao) = i /\ Len(w) = Len(s) + 1
  BY <1>0, <1>1, <1>2, <1>3, <1>5, <1>6
<1>8. w[i] = e
  <2>1. Len(a) + 1 = i /\ 1 \in 1 .. Len(o) /\ i \in 1 .. Len(ao)
    BY <1>1, <1>3, <1>7
  <2>2. ao[i] = e
    BY <1>3, <1>5, <2>1
  <2> QED
    BY <1>6, <2>1, <2>2
<1>9. ASSUME NEW j \in 1 .. (i - 1)
      PROVE  w[j] = s[j]
  <2>1. j \in 1 .. Len(a) /\ j \in 1 .. Len(ao)
    BY <1>1, <1>7
  <2> QED
    BY <1>1, <1>5, <1>6, <2>1
<1>10. ASSUME NEW j \in i .. Len(s)
       PROVE  w[j + 1] = s[j]
  <2>1. /\ j - i + 1 \in 1 .. (Len(s) - i + 1)
        /\ i + (j - i + 1) - 1 = j /\ i + (j - i + 1) = j + 1
    BY <1>0
  <2>2. b[j - i + 1] = s[j]
    BY <1>2, <2>1
  <2>3. w[i + (j - i + 1)] = b[j - i + 1]
    BY <1>2, <1>6, <1>7, <2>1
  <2> QED
    BY <2>1, <2>2, <2>3
<1> QED
  BY <1>4, <1>6, <1>7, <1>8, <1>9, <1>10

(* Where build_middleware_layers inserts SecurityHeaders: behind observers
   only. *)
LEMMA InsertionPointFound ==
    ASSUME NEW T, NEW s \in Seq(T)
    PROVE  /\ InsertionPoint(s) \in 1 .. (Len(s) + 1)
           /\ \A j \in 1 .. (InsertionPoint(s) - 1) : s[j] \in Observers
<1>0. Len(s) \in Nat /\ DOMAIN s = 1 .. Len(s)
  OBVIOUS
<1>1. CASE ToSet(s) \subseteq Observers
  BY <1>0, <1>1 DEF InsertionPoint
<1>2. CASE ~(ToSet(s) \subseteq Observers)
  <2> DEFINE others == {i \in DOMAIN s : s[i] \notin Observers}
             P(i) == /\ s[i] \notin Observers
                     /\ \A j \in 1 .. (i - 1) : s[j] \in Observers
  <2>1. others # {} /\ others \in SUBSET Nat
    BY <1>0, <1>2 DEF ToSet
  <2>2. PICK m \in others : \A x \in others : m <= x
    BY <2>1, LeastElement
  <2>3. m \in DOMAIN s /\ P(m)
    BY <1>0, <2>2
  <2>4. InsertionPoint(s) = CHOOSE i \in DOMAIN s : P(i)
    BY <1>2 DEF InsertionPoint
  <2>5. InsertionPoint(s) \in DOMAIN s /\ P(InsertionPoint(s))
    BY <2>3, <2>4
  <2> QED
    BY <1>0, <2>5
<1> QED
  BY <1>1, <1>2

(* Nothing in front of the SecurityHeaders at position k can answer, but for
   an outermost PathSanitizer. *)
SecuredFrom(s, k) ==
    /\ k \in 1 .. Len(s) /\ s[k] = "SecurityHeaders"
    /\ \A j \in 1 .. (k - 1) : s[j] \in Observers \/ (j = 1 /\ s[1] = "PathSanitizer")

(* What every server's stack is like: it is not empty, has the layers that are
   enabled and a PathSanitizer, and, unless the configuration places SecurityHeaders itself, only
   observers and an outermost PathSanitizer are in front of that layer
   (build_middleware_layers, build_service_stack). *)
LEMMA StackFacts ==
    ASSUME NEW c \in Configs
    PROVE  /\ Len(Stack(c)) \in Nat \ {0} /\ DOMAIN Stack(c) = 1 .. Len(Stack(c))
           /\ \A l : Has(c.enabled, l) => Has(Stack(c), l)
           /\ Has(Stack(c), "PathSanitizer")
           /\ ~Has(c.enabled, "SecurityHeaders") => \E k : SecuredFrom(Stack(c), k)
<1> DEFINE e == c.enabled
           i == InsertionPoint(e)
           m == BuildMiddlewareLayers(c)
           T == STRING \cup {"SecurityHeaders", "PathSanitizer"}
<1>0. e \in Seq(T) /\ Len(e) \in Nat /\ DOMAIN e = 1 .. Len(e)
  <2>1. e \in Seq(STRING)
    BY ConfigsAssumption
  <2>2. e \in Seq(T)
    BY <2>1, LargerSet
  <2> HIDE DEF e
  <2> QED
    BY <2>1, <2>2
<1>t. "SecurityHeaders" \in T /\ "PathSanitizer" \in T
  OBVIOUS
<1> HIDE DEF T
<1>1. /\ m \in Seq(T) /\ Len(m) >= 1
      /\ \A l : Has(e, l) => Has(m, l)
      /\ ~Has(e, "SecurityHeaders")
           => \E k \in 1 .. Len(m) : /\ m[k] = "SecurityHeaders"
                                     /\ \A j \in 1 .. (k - 1) : m[j] \in Observers
  <2>1. CASE Has(e, "SecurityHeaders")
    <3>1. m = e
      BY <2>1 DEF BuildMiddlewareLayers
    <3>2. Len(e) >= 1
      BY <1>0, <2>1 DEF Has
    <3> QED
      BY <1>0, <2>1, <3>1, <3>2
  <2>2. CASE ~Has(e, "SecurityHeaders")
    <3>1. i \in 1 .. (Len(e) + 1) /\ \A j \in 1 .. (i - 1) : e[j] \in Observers
      BY <1>0, InsertionPointFound
    <3>2. m = InsertAt(e, i, "SecurityHeaders")
      BY <2>2 DEF BuildMiddlewareLayers
    <3> HIDE DEF e, i, m
    <3>3. /\ m \in Seq(T) /\ Len(m) = Len(e) + 1 /\ m[i] = "SecurityHeaders"
          /\ \A j \in 1 .. (i - 1) : m[j] = e[j]
          /\ \A j \in i .. Len(e) : m[j + 1] = e[j]
      BY <1>0, <1>t, <3>1, <3>2, InsertedOne
    <3>4. DOMAIN m = 1 .. Len(m)
      BY <3>3
    <3>5. ASSUME NEW l, Has(e, l)
          PROVE  Has(m, l)
      <4>1. PICK j \in 1 .. Len(e) : e[j] = l
        BY <1>0, <3>5 DEF Has
      <4>2. CASE j < i
        <5>1. j \in 1 .. (i - 1) /\ j \in DOMAIN m
          BY <1>0, <3>1, <3>3, <3>4, <4>2
        <5>2. m[j] = l
          BY <3>3, <4>1, <5>1
        <5> QED
          BY <5>1, <5>2 DEF Has
      <4>3. CASE j >= i
        <5>1. j \in i .. Len(e) /\ j + 1 \in DOMAIN m
          BY <1>0, <3>1, <3>3, <3>4, <4>3
        <5>2. m[j + 1] = l
          BY <3>3, <4>1, <5>1
        <5> QED
          BY <5>1, <5>2 DEF Has
      <4> QED
        BY <1>0, <3>1, <4>2, <4>3
    <3>6. \A j \in 1 .. (i - 1) : m[j] \in Observers
      BY <3>1, <3>3
    <3>7. i \in 1 .. Len(m)
      BY <1>0, <3>1, <3>3
    <3> QED
      BY <1>0, <3>3, <3>5, <3>6, <3>7
  <2> QED
    BY <2>1, <2>2
<1> HIDE DEF m
<1>2. CASE Has(m, "PathSanitizer")
  <2>1. Stack(c) = m
    BY <1>2 DEF Stack, m
  <2> QED
    BY <1>1, <1>2, <2>1 DEF SecuredFrom
<1>3. CASE ~Has(m, "PathSanitizer")
  <2> DEFINE o == <<"PathSanitizer">>
             s == o \o m
  <2>1. Stack(c) = s
    BY <1>3 DEF Stack, m
  <2>2. o \in Seq(T) /\ Len(o) = 1 /\ o[1] = "PathSanitizer"
    BY <1>t, OneElement
  <2> HIDE DEF o
  <2>3. /\ s \in Seq(T) /\ Len(s) = Len(m) + 1 /\ s[1] = "PathSanitizer"
        /\ \A j \in 1 .. Len(m) : s[j + 1] = m[j]
        /\ DOMAIN s = 1 .. Len(s) /\ DOMAIN m = 1 .. Len(m) /\ Len(m) \in Nat
    <3>1. /\ s \in Seq(T) /\ Len(s) = Len(o) + Len(m)
          /\ \A j \in 1 .. Len(o) : s[j] = o[j]
          /\ \A j \in 1 .. Len(m) : s[Len(o) + j] = m[j]
      <4>1. o \in Seq(T) /\ m \in Seq(T)
        BY <1>1, <2>2
      <4>2. s \in Seq(T) /\ Len(s) = Len(o) + Len(m)
        BY <4>1, Joined
      <4>3. \A j \in 1 .. Len(o) : s[j] = o[j]
        BY <4>1, Joined
      <4>4. \A j \in 1 .. Len(m) : s[Len(o) + j] = m[j]
        BY <4>1, Joined
      <4> HIDE DEF s
      <4> QED
        BY <4>2, <4>3, <4>4
    <3> HIDE DEF s
    <3>2. DOMAIN s = 1 .. Len(s) /\ DOMAIN m = 1 .. Len(m) /\ Len(m) \in Nat
      BY <1>1, <3>1
    <3>3. \A j \in 1 .. Len(m) : 1 + j = j + 1
      BY <3>2
    <3> QED
      BY <2>2, <3>1, <3>2, <3>3
  <2> HIDE DEF s
  <2>4. ASSUME NEW l, Has(m, l)
        PROVE  Has(s, l)
    <3>1. PICK j \in 1 .. Len(m) : m[j] = l
      BY <2>3, <2>4 DEF Has
    <3>2. j + 1 \in DOMAIN s /\ s[j + 1] = l
      BY <2>3, <3>1
    <3> QED
      BY <3>2 DEF Has
  <2>5. ASSUME ~Has(e, "SecurityHeaders")
        PROVE  \E k : SecuredFrom(s, k)
    <3>1. PICK k \in 1 .. Len(m) : /\ m[k] = "SecurityHeaders"
                                   /\ \A j \in 1 .. (k - 1) : m[j] \in Observers
      BY <1>1, <2>5
    <3>2. k + 1 \in 1 .. Len(s) /\ s[k + 1] = "SecurityHeaders"
      BY <2>3, <3>1
    <3>3. ASSUME NEW j \in 1 .. k, j # 1
          PROVE  s[j] \in Observers
      <4>1. j - 1 \in 1 .. (k - 1) /\ j - 1 \in 1 .. Len(m) /\ (j - 1) + 1 = j
        BY <2>3, <3>1, <3>3
      <4>2. s[(j - 1) + 1] = m[j - 1]
        BY <2>3, <4>1
      <4> QED
        BY <3>1, <4>1, <4>2
    <3>4. (k + 1) - 1 = k
      BY <3>1
    <3>5. SecuredFrom(s, k + 1)
      BY <2>3, <3>2, <3>3, <3>4 DEF SecuredFrom
    <3> QED
      BY <3>5
  <2>6. Has(s, "PathSanitizer")
    BY <2>3 DEF Has
  <2> QED
    BY <1>1, <2>1, <2>3, <2>4, <2>5, <2>6
<1> QED
  BY <1>2, <1>3

(* A layer that build_service_stack does not add by itself is enabled. *)
LEMMA StackEnabled ==
    ASSUME NEW c \in Configs, NEW l, l \notin {"SecurityHeaders", "PathSanitizer"},
           Has(Stack(c), l)
    PROVE  l \in ToSet(c.enabled)
<1> DEFINE e == c.enabled
           i == InsertionPoint(e)
           m == BuildMiddlewareLayers(c)
           T == STRING \cup {"SecurityHeaders", "PathSanitizer"}
<1>0. e \in Seq(T) /\ Len(e) \in Nat /\ DOMAIN e = 1 .. Len(e)
  <2>1. e \in Seq(STRING)
    BY ConfigsAssumption
  <2>2. e \in Seq(T)
    BY <2>1, LargerSet
  <2> HIDE DEF e
  <2> QED
    BY <2>1, <2>2
<1>t. "SecurityHeaders" \in T /\ "PathSanitizer" \in T
  OBVIOUS
<1> HIDE DEF T
<1>1. m \in Seq(T) /\ (Has(m, l) => Has(e, l))
  <2>1. CASE Has(e, "SecurityHeaders")
    BY <1>0, <2>1 DEF BuildMiddlewareLayers
  <2>2. CASE ~Has(e, "SecurityHeaders")
    <3>1. i \in 1 .. (Len(e) + 1)
      BY <1>0, InsertionPointFound
    <3>2. m = InsertAt(e, i, "SecurityHeaders")
      BY <2>2 DEF BuildMiddlewareLayers
    <3> HIDE DEF e, i, m
    <3>3. /\ m \in Seq(T) /\ Len(m) = Len(e) + 1 /\ m[i] = "SecurityHeaders"
          /\ \A j \in 1 .. (i - 1) : m[j] = e[j]
          /\ \A j \in i .. Len(e) : m[j + 1] = e[j]
      BY <1>0, <1>t, <3>1, <3>2, InsertedOne
    <3>4. ASSUME Has(m, l)
          PROVE  Has(e, l)
      <4>1. DOMAIN m = 1 .. Len(m)
        BY <3>3
      <4>2. PICK j \in 1 .. Len(m) : m[j] = l
        BY <3>4, <4>1 DEF Has
      <4>3. CASE j < i
        <5>1. j \in 1 .. (i - 1) /\ j \in DOMAIN e
          BY <1>0, <3>1, <4>2, <4>3
        <5> QED
          BY <3>3, <4>2, <5>1 DEF Has
      <4>4. CASE j > i
        <5>1. j - 1 \in i .. Len(e) /\ j - 1 \in DOMAIN e /\ (j - 1) + 1 = j
          BY <1>0, <3>1, <3>3, <4>2, <4>4
        <5>2. m[(j - 1) + 1] = e[j - 1]
          BY <3>3, <5>1
        <5> QED
          BY <4>2, <5>1, <5>2 DEF Has
      <4> QED
        BY <1>0, <3>1, <3>3, <4>2, <4>3, <4>4
    <3> QED
      BY <3>3, <3>4
  <2> QED
    BY <2>1, <2>2
<1>2. Has(m, l)
  <2> HIDE DEF m
  <2>1. CASE Has(m, "PathSanitizer")
    BY <2>1 DEF Stack, m
  <2>2. CASE ~Has(m, "PathSanitizer")
    <3> DEFINE o == <<"PathSanitizer">>
               s == o \o m
    <3>1. Has(s, l)
      BY <2>2 DEF Stack, m
    <3>2. o \in Seq(T) /\ Len(o) = 1 /\ o[1] = "PathSanitizer"
      BY <1>t, OneElement
    <3> HIDE DEF o
    <3>3. o \in Seq(T) /\ m \in Seq(T)
      BY <1>1, <3>2
    <3>4. s \in Seq(T) /\ Len(s) = Len(o) + Len(m)
      BY <3>3, Joined
    <3>5. \A j \in 1 .. Len(o) : s[j] = o[j]
      BY <3>3, Joined
    <3>6. \A j \in 1 .. Len(m) : s[Len(o) + j] = m[j]
      BY <3>3, Joined
    <3> HIDE DEF s
    <3>7. DOMAIN s = 1 .. Len(s) /\ DOMAIN m = 1 .. Len(m) /\ Len(m) \in Nat
      BY <3>3, <3>4
    <3>8. PICK j \in 1 .. Len(s) : s[j] = l
      BY <3>1, <3>7 DEF Has
    <3>9. j # 1
      BY <3>2, <3>5, <3>8
    <3>10. j - 1 \in 1 .. Len(m) /\ 1 + (j - 1) = j
      BY <3>2, <3>4, <3>7, <3>8, <3>9
    <3>11. s[1 + (j - 1)] = m[j - 1]
      BY <3>2, <3>6, <3>10
    <3> QED
      BY <3>7, <3>8, <3>10, <3>11 DEF Has
  <2> QED
    BY <2>1, <2>2
<1> QED
  BY <1>1, <1>2 DEF Has, ToSet

(* PathSanitizer is not listed behind JwtAuth. *)
SanitizerFirst(c) ==
    Has(c.enabled, "PathSanitizer")
      => Position(c.enabled, "PathSanitizer") < Position(c.enabled, "JwtAuth")

(* The position of a layer is that of its first entry. *)
LEMMA PositionFound ==
    ASSUME NEW T, NEW s \in Seq(T), NEW l, Has(s, l)
    PROVE  /\ Position(s, l) \in 1 .. Len(s) /\ s[Position(s, l)] = l
           /\ \A x \in 1 .. Len(s) : s[x] = l => Position(s, l) <= x
<1> DEFINE places == {i \in DOMAIN s : s[i] = l}
           P(i) == s[i] = l /\ \A j \in 1 .. (i - 1) : s[j] # l
<1>0. Len(s) \in Nat /\ DOMAIN s = 1 .. Len(s)
  OBVIOUS
<1>1. places # {} /\ places \in SUBSET Nat
  BY <1>0 DEF Has
<1>2. PICK m \in places : \A x \in places : m <= x
  BY <1>1, LeastElement
<1>3. m \in DOMAIN s /\ P(m)
  BY <1>0, <1>2
<1>4. Position(s, l) = CHOOSE i \in DOMAIN s : P(i)
  BY DEF Position
<1>5. Position(s, l) \in DOMAIN s /\ P(Position(s, l))
  BY <1>3, <1>4
<1> HIDE DEF places
<1> QED
  BY <1>0, <1>5

(* Where PathSanitizer is not listed behind JwtAuth, one is in front of every
   JwtAuth of the stack: the listed one, or the one that wraps everything
   (build_service_stack). *)
LEMMA SanitizerBefore ==
    ASSUME NEW c \in Configs, SanitizerFirst(c),
           NEW j \in 1 .. Len(Stack(c)), Stack(c)[j] = "JwtAuth"
    PROVE  \E i \in 1 .. (j - 1) : Stack(c)[i] = "PathSanitizer"
<1> DEFINE e == c.enabled
           k == InsertionPoint(e)
           m == BuildMiddlewareLayers(c)
           T == STRING \cup {"SecurityHeaders", "PathSanitizer"}
<1>0. e \in Seq(T) /\ Len(e) \in Nat /\ DOMAIN e = 1 .. Len(e)
  <2>1. e \in Seq(STRING)
    BY ConfigsAssumption
  <2>2. e \in Seq(T)
    BY <2>1, LargerSet
  <2> HIDE DEF e
  <2> QED
    BY <2>1, <2>2
<1>t. "SecurityHeaders" \in T /\ "PathSanitizer" \in T
  OBVIOUS
<1> HIDE DEF T
<1>1. ASSUME Has(e, "PathSanitizer"), NEW x \in 1 .. Len(e), e[x] = "JwtAuth"
      PROVE  \E a \in 1 .. (x - 1) : e[a] = "PathSanitizer"
  <2>1. Has(e, "JwtAuth")
    BY <1>0, <1>1 DEF Has
  <2>2. /\ Position(e, "PathSanitizer") \in 1 .. Len(e)
        /\ e[Position(e, "PathSanitizer")] = "PathSanitizer"
    BY <1>0, <1>1, PositionFound
  <2>3. Position(e, "JwtAuth") \in 1 .. Len(e) /\ Position(e, "JwtAuth") <= x
    BY <1>0, <1>1, <2>1, PositionFound
  <2>4. Position(e, "PathSanitizer") < Position(e, "JwtAuth")
    BY <1>1 DEF SanitizerFirst
  <2> QED
    BY <1>0, <2>2, <2>3, <2>4
<1>2. CASE Has(m, "PathSanitizer")
  <2>0. Stack(c) = m
    BY <1>2 DEF Stack
  <2>1. CASE Has(e, "SecurityHeaders")
    <3>1. m = e
      BY <2>1 DEF BuildMiddlewareLayers
    <3> QED
      BY <1>1, <1>2, <2>0, <3>1
  <2>2. CASE ~Has(e, "SecurityHeaders")
    <3>1. k \in 1 .. (Len(e) + 1)
      BY <1>0, InsertionPointFound
    <3>2. m = InsertAt(e, k, "SecurityHeaders")
      BY <2>2 DEF BuildMiddlewareLayers
    <3> HIDE DEF e, k, m
    <3>3. /\ m \in Seq(T) /\ Len(m) = Len(e) + 1 /\ m[k] = "SecurityHeaders"
          /\ \A y \in 1 .. (k - 1) : m[y] = e[y]
          /\ \A y \in k .. Len(e) : m[y + 1] = e[y]
      <4>1. InsertAt(e, k, "SecurityHeaders") \in Seq(T)
        BY <1>0, <1>t, <3>1, InsertedOne
      <4>2. /\ Len(InsertAt(e, k, "SecurityHeaders")) = Len(e) + 1
            /\ InsertAt(e, k, "SecurityHeaders")[k] = "SecurityHeaders"
        BY <1>0, <1>t, <3>1, InsertedOne
      <4>3. \A y \in 1 .. (k - 1) : InsertAt(e, k, "SecurityHeaders")[y] = e[y]
        BY <1>0, <1>t, <3>1, InsertedOne
      <4>4. \A y \in k .. Len(e) : InsertAt(e, k, "SecurityHeaders")[y + 1] = e[y]
        BY <1>0, <1>t, <3>1, InsertedOne
      <4> QED
        BY <3>2, <4>1, <4>2, <4>3, <4>4
    <3>4. ASSUME NEW y \in 1 .. Len(m), m[y] # "SecurityHeaders"
          PROVE  \/ y < k /\ y \in 1 .. Len(e) /\ e[y] = m[y]
                 \/ y > k /\ y - 1 \in 1 .. Len(e) /\ e[y - 1] = m[y]
      <4>1. y # k
        BY <3>3, <3>4
      <4>2. CASE y < k
        BY <1>0, <3>1, <3>3, <4>2
      <4>3. CASE y > k
        <5>1. y - 1 \in k .. Len(e) /\ (y - 1) + 1 = y
          BY <1>0, <3>1, <3>3, <4>3
        <5>2. m[(y - 1) + 1] = e[y - 1]
          BY <3>3, <5>1
        <5> QED
          BY <1>0, <3>1, <4>3, <5>1, <5>2
      <4> QED
        BY <3>1, <4>1, <4>2, <4>3
    <3>5. Has(e, "PathSanitizer")
      <4>1. PICK y \in 1 .. Len(m) : m[y] = "PathSanitizer"
        BY <1>2, <3>3 DEF Has
      <4> QED
        BY <1>0, <3>4, <4>1 DEF Has
    <3>6. j \in 1 .. Len(m) /\ m[j] = "JwtAuth"
      BY <2>0
    <3>7. CASE j < k
      <4>1. j \in 1 .. Len(e) /\ e[j] = "JwtAuth"
        BY <3>1, <3>4, <3>6, <3>7
      <4>2. PICK a \in 1 .. (j - 1) : e[a] = "PathSanitizer"
        BY <1>1, <3>5, <4>1
      <4>3. a \in 1 .. (k - 1)
        BY <3>1, <3>7, <4>1, <4>2
      <4> QED
        BY <2>0, <3>3, <4>2, <4>3
    <3>8. CASE j > k
      <4>1. j - 1 \in 1 .. Len(e) /\ e[j - 1] = "JwtAuth"
        BY <3>1, <3>4, <3>6, <3>8
      <4>2. PICK a \in 1 .. ((j - 1) - 1) : e[a] = "PathSanitizer"
        BY <1>1, <3>5, <4>1
      <4>3. CASE a < k
        <5>1. a \in 1 .. (k - 1) /\ a \in 1 .. (j - 1)
          BY <3>1, <4>1, <4>2, <4>3
        <5> QED
          BY <2>0, <3>3, <4>2, <5>1
      <4>4. CASE a >= k
        <5>1. a \in k .. Len(e) /\ a + 1 \in 1 .. (j - 1)
          BY <1>0, <3>1, <4>1, <4>2, <4>4
        <5>2. m[a + 1] = "PathSanitizer"
          BY <3>3, <4>2, <5>1
        <5> QED
          BY <2>0, <5>1, <5>2
      <4> QED
        BY <3>1, <4>2, <4>3, <4>4
    <3>9. j # k
      BY <3>3, <3>6
    <3> QED
      BY <3>1, <3>6, <3>7, <3>8, <3>9
  <2> QED
    BY <2>1, <2>2
<1>3. CASE ~Has(m, "PathSanitizer")
  <2>1. Stack(c) = <<"PathSanitizer">> \o m
    BY <1>3 DEF Stack
  <2>2. Stack(c)[1] = "PathSanitizer"
    <3>1. m \in Seq(T)
      <4>1. CASE Has(e, "SecurityHeaders")
        BY <1>0, <4>1 DEF BuildMiddlewareLayers
      <4>2. CASE ~Has(e, "SecurityHeaders")
        <5>1. k \in 1 .. (Len(e) + 1)
          BY <1>0, InsertionPointFound
        <5>2. m = InsertAt(e, k, "SecurityHeaders")
          BY <4>2 DEF BuildMiddlewareLayers
        <5> HIDE DEF e, k, m
        <5> QED
          BY <1>0, <1>t, <5>1, <5>2, InsertedOne
      <4> QED
        BY <4>1, <4>2
    <3> HIDE DEF m
    <3>2. /\ <<"PathSanitizer">> \in Seq(T) /\ Len(<<"PathSanitizer">>) = 1
          /\ <<"PathSanitizer">>[1] = "PathSanitizer"
      BY <1>t, OneElement
    <3>3. \A a, b \in Seq(T) : \A y \in 1 .. Len(a) : (a \o b)[y] = a[y]
      BY Joined
    <3>4. 1 \in 1 .. Len(<<"PathSanitizer">>)
      BY <3>2
    <3>5. (<<"PathSanitizer">> \o m)[1] = <<"PathSanitizer">>[1]
      BY <3>1, <3>2, <3>3, <3>4, Zenon
    <3> QED
      BY <2>1, <3>2, <3>5
  <2>3. 1 \in 1 .. (j - 1)
    <3>1. Len(Stack(c)) \in Nat
      BY StackFacts
    <3> QED
      BY <2>2, <3>1
  <2> QED
    BY <2>2, <2>3
<1> QED
  BY <1>2, <1>3

----------------------------------------------------------------------------
(* Paths *)

(* normalize_segment decodes an escape once: what it yields is no escape of an
   unreserved character. *)
LEMMA NormalizedOnce ==
    ASSUME NEW s
    PROVE  NormalizeSegment(NormalizeSegment(s)) = NormalizeSegment(s)
<1>1. \A t : NormalizeToken(NormalizeToken(t)) = NormalizeToken(t)
  BY DEF NormalizeToken, Unreserved
<1>2. \A x : /\ DOMAIN NormalizeSegment(x) = DOMAIN x
             /\ \A i \in DOMAIN x : NormalizeSegment(x)[i] = NormalizeToken(x[i])
  BY DEF NormalizeSegment
<1>3. NormalizeSegment(NormalizeSegment(s)) = [i \in DOMAIN s |-> NormalizeToken(NormalizeToken(s[i]))]
  BY <1>2 DEF NormalizeSegment
<1>4. NormalizeSegment(s) = [i \in DOMAIN s |-> NormalizeToken(s[i])]
  BY DEF NormalizeSegment
<1> QED
  BY <1>1, <1>3, <1>4

(* The empty segment is skipped. *)
LEMMA EmptySkipped == NormalizeSegment(<<>>) = <<>> /\ Skipped(<<>>)
<1>1. NormalizeSegment(<<>>) = <<>>
  BY DEF NormalizeSegment
<1> QED
  BY <1>1 DEF Skipped

(* One round of the loop of sanitize_and_normalize_path, when f[n] is what was
   pushed in the first n rounds. *)
Pushed(p, f, n) ==
    IF n = 0 THEN <<>>
    ELSE IF Skipped(p[n]) THEN f[n - 1] ELSE Append(f[n - 1], NormalizeSegment(p[n]))

(* The loop of sanitize_and_normalize_path over the segments of a path: round
   by round, it has a result. *)
LEMMA LoopRuns ==
    ASSUME NEW p
    PROVE  \A n \in Nat : \E g : g = [i \in 0 .. n |-> Pushed(p, g, i)]
<1> DEFINE Run(n) == \E g : g = [i \in 0 .. n |-> Pushed(p, g, i)]
           bad == {n \in Nat : ~Run(n)}
<1> SUFFICES ASSUME bad # {}
             PROVE  FALSE
  OBVIOUS
<1>1. PICK m \in bad : \A x \in bad : m <= x
  BY LeastElement
<1>2. CASE m = 0
  <2> DEFINE g == [i \in 0 .. 0 |-> <<>>]
  <2>1. g = [i \in 0 .. 0 |-> Pushed(p, g, i)]
    BY DEF Pushed
  <2> QED
    BY <1>1, <1>2, <2>1
<1>3. CASE m # 0
  <2>1. m - 1 \in Nat /\ m \in Nat /\ m - 1 \notin bad
    BY <1>1, <1>3
  <2>2. PICK g : g = [i \in 0 .. (m - 1) |-> Pushed(p, g, i)]
    BY <2>1
  <2> DEFINE h == [i \in 0 .. m |-> Pushed(p, g, i)]
  <2>3. \A i \in 0 .. (m - 1) : h[i] = g[i]
    BY <2>1, <2>2
  <2>4. \A i \in 0 .. m : Pushed(p, h, i) = Pushed(p, g, i)
    <3> HIDE DEF h
    <3> SUFFICES ASSUME NEW i \in 0 .. m, i # 0
                 PROVE  Pushed(p, h, i) = Pushed(p, g, i)
      BY DEF Pushed
    <3>1. i - 1 \in 0 .. (m - 1)
      BY <2>1
    <3> QED
      BY <2>3, <3>1 DEF Pushed
  <2>5. h = [i \in 0 .. m |-> Pushed(p, h, i)]
    BY <2>4
  <2> QED
    BY <1>1, <2>5
<1> QED
  BY <1>2, <1>3

(* Its result is what the last round leaves. *)
LEMMA LoopResult ==
    ASSUME NEW X, NEW p \in Seq(X)
    PROVE  \E f : /\ Normalized(p) = f[Len(p)] /\ f[0] = <<>>
                  /\ \A n \in 1 .. Len(p) :
                       f[n] = IF Skipped(p[n]) THEN f[n - 1]
                              ELSE Append(f[n - 1], NormalizeSegment(p[n]))
<1> DEFINE f == CHOOSE f : f = [n \in 0 .. Len(p) |->
                                  IF n = 0 THEN <<>>
                                  ELSE IF Skipped(p[n]) THEN f[n - 1]
                                  ELSE Append(f[n - 1], NormalizeSegment(p[n]))]
<1>1. Normalized(p) = f[Len(p)]
  BY Zenon DEF Normalized
<1>2. Len(p) \in Nat
  OBVIOUS
<1>3. \E g : g = [i \in 0 .. Len(p) |-> Pushed(p, g, i)]
  BY <1>2, LoopRuns
<1>4. f = [n \in 0 .. Len(p) |-> Pushed(p, f, n)]
  BY <1>3, Zenon DEF Pushed
<1> HIDE DEF f
<1>5. \A n \in 0 .. Len(p) : f[n] = Pushed(p, f, n)
  <2> DEFINE g == [n \in 0 .. Len(p) |-> Pushed(p, f, n)]
  <2>1. \A n \in 0 .. Len(p) : g[n] = Pushed(p, f, n)
    OBVIOUS
  <2> HIDE DEF g
  <2>2. f = g
    BY <1>4 DEF g
  <2> QED
    BY <2>1, <2>2
<1>6. f[0] = <<>> /\ \A n \in 1 .. Len(p) : f[n] = Pushed(p, f, n)
  <2>1. 0 \in 0 .. Len(p) /\ \A n \in 1 .. Len(p) : n \in 0 .. Len(p)
    BY <1>2
  <2>2. Pushed(p, f, 0) = <<>>
    BY DEF Pushed
  <2> QED
    BY <1>5, <2>1, <2>2
<1>7. \A n \in 1 .. Len(p) : Pushed(p, f, n) = IF Skipped(p[n]) THEN f[n - 1]
                              ELSE Append(f[n - 1], NormalizeSegment(p[n]))
  BY <1>2 DEF Pushed
<1> QED
  BY <1>1, <1>6, <1>7

(* A segment that normalize_segment leaves alone and the loop pushes. *)
Settled(s) == NormalizeSegment(s) = s /\ ~Skipped(s)

(* What the loop pushed are settled segments. *)
LEMMA PushedSettled ==
    ASSUME NEW X, NEW p \in Seq(X)
    PROVE  \E K : Normalized(p) \in Seq(K) /\ \A s \in K : Settled(s)
<1> DEFINE K == {NormalizeSegment(p[i]) : i \in {j \in 1 .. Len(p) : ~Skipped(p[j])}}
<1>1. PICK f : /\ Normalized(p) = f[Len(p)] /\ f[0] = <<>>
               /\ \A n \in 1 .. Len(p) :
                    f[n] = IF Skipped(p[n]) THEN f[n - 1]
                           ELSE Append(f[n - 1], NormalizeSegment(p[n]))
  BY LoopResult
<1>2. Len(p) \in Nat
  OBVIOUS
<1>3. \A s \in K : Settled(s)
  BY NormalizedOnce DEF Settled, Skipped
<1> DEFINE bad == {n \in 0 .. Len(p) : f[n] \notin Seq(K)}
<1>4. bad = {}
  <2> SUFFICES ASSUME bad # {}
               PROVE  FALSE
    OBVIOUS
  <2>1. PICK m \in bad : \A x \in bad : m <= x
    <3>1. bad \in SUBSET Nat
      BY <1>2
    <3> QED
      BY <3>1, LeastElement
  <2>2. m # 0
    <3>1. f[0] \in Seq(K)
      <4> HIDE DEF K
      <4> QED
        BY <1>1
    <3> QED
      BY <2>1, <3>1
  <2>3. m \in 1 .. Len(p) /\ m - 1 \in 0 .. Len(p) /\ m - 1 \notin bad
    BY <1>2, <2>1, <2>2
  <2>4. f[m - 1] \in Seq(K)
    BY <2>3
  <2>5. ~Skipped(p[m]) => NormalizeSegment(p[m]) \in K
    BY <2>3
  <2> HIDE DEF K
  <2>6. f[m] = IF Skipped(p[m]) THEN f[m - 1] ELSE Append(f[m - 1], NormalizeSegment(p[m]))
    BY <1>1, <2>3
  <2>7. CASE Skipped(p[m])
    BY <2>1, <2>4, <2>6, <2>7
  <2>8. CASE ~Skipped(p[m])
    <3> DEFINE x == f[m - 1]
               e == NormalizeSegment(p[m])
    <3>1. f[m] = Append(x, e) /\ x \in Seq(K) /\ e \in K
      BY <2>4, <2>5, <2>6, <2>8
    <3> HIDE DEF x, e
    <3>2. Append(x, e) \in Seq(K)
      BY <3>1
    <3> QED
      BY <2>1, <3>1, <3>2
  <2> QED
    BY <2>7, <2>8
<1>5. Normalized(p) \in Seq(K)
  BY <1>1, <1>2, <1>4
<1> HIDE DEF K
<1> QED
  BY <1>3, <1>5

(* A sequence, one element after the other. *)
LEMMA Grown ==
    ASSUME NEW K, NEW N \in Seq(K), NEW k \in 1 .. Len(N)
    PROVE  SubSeq(N, 1, k) = Append(SubSeq(N, 1, k - 1), N[k])
OBVIOUS

(* All of a sequence, and nothing of it. *)
LEMMA Ends ==
    ASSUME NEW K, NEW N \in Seq(K)
    PROVE  SubSeq(N, 1, 0) = <<>> /\ SubSeq(N, 1, Len(N)) = N
OBVIOUS

(* The loop leaves a path of settled segments, with or without a slash at its
   end, as it is. *)
LEMMA SettledStays ==
    ASSUME NEW X, NEW q \in Seq(X), NEW K, NEW N \in Seq(K), \A s \in K : Settled(s),
           Len(q) \in {Len(N) + 1, Len(N) + 2}, q[1] = <<>>,
           \A i \in 1 .. Len(N) : q[i + 1] = N[i],
           Len(q) = Len(N) + 2 => q[Len(N) + 2] = <<>>
    PROVE  Normalized(q) = N
<1>1. PICK f : /\ Normalized(q) = f[Len(q)] /\ f[0] = <<>>
               /\ \A n \in 1 .. Len(q) :
                    f[n] = IF Skipped(q[n]) THEN f[n - 1]
                           ELSE Append(f[n - 1], NormalizeSegment(q[n]))
  BY LoopResult
<1>2. Len(q) \in Nat /\ Len(N) \in Nat
  OBVIOUS
<1>3. f[1] = <<>>
  <2>1. 1 \in 1 .. Len(q) /\ Skipped(q[1])
    BY <1>2, EmptySkipped
  <2> QED
    BY <1>1, <2>1
<1> DEFINE bad == {k \in 0 .. Len(N) : f[k + 1] # SubSeq(N, 1, k)}
<1>4. bad = {}
  <2> SUFFICES ASSUME bad # {}
               PROVE  FALSE
    OBVIOUS
  <2>1. PICK k \in bad : \A x \in bad : k <= x
    <3>1. bad \in SUBSET Nat
      BY <1>2
    <3> QED
      BY <3>1, LeastElement
  <2>0. k \in 0 .. Len(N) /\ f[k + 1] # SubSeq(N, 1, k)
    BY <2>1
  <2>2. k # 0
    <3>1. SubSeq(N, 1, 0) = <<>>
      BY Ends
    <3>2. ASSUME k = 0
          PROVE  f[k + 1] = SubSeq(N, 1, k)
      <4>1. k + 1 = 1
        BY <3>2
      <4>2. SubSeq(N, 1, k) = <<>>
        BY <3>1, <3>2, Zenon
      <4> QED
        BY <1>3, <4>1, <4>2, Zenon
    <3> QED
      BY <2>0, <3>2
  <2>3. /\ k \in 1 .. Len(N) /\ k - 1 \in 0 .. Len(N) /\ k - 1 < k
        /\ k + 1 \in 1 .. Len(q) /\ (k + 1) - 1 = k /\ (k - 1) + 1 = k
    BY <1>2, <2>0, <2>2
  <2>4. f[k] = SubSeq(N, 1, k - 1)
    <3>1. k - 1 \notin bad
      <4> HIDE DEF bad
      <4> QED
        BY <2>1, <2>3
    <3>2. f[(k - 1) + 1] = SubSeq(N, 1, k - 1)
      BY <2>3, <3>1
    <3> QED
      BY <2>3, <3>2
  <2>5. q[k + 1] = N[k] /\ N[k] \in K
    <3>1. q[k + 1] = N[k]
      BY <2>3, Zenon
    <3>2. N[k] \in K
      BY <2>3, ElementOfSeq
    <3> QED
      BY <3>1, <3>2
  <2>6. ~Skipped(q[k + 1]) /\ NormalizeSegment(q[k + 1]) = N[k]
    BY <2>5 DEF Settled
  <2>7. f[k + 1] = Append(f[k], N[k])
    BY <1>1, <2>3, <2>6
  <2>8. f[k + 1] = SubSeq(N, 1, k)
    BY <2>3, <2>4, <2>7, Grown
  <2> QED
    BY <2>0, <2>8
<1>5. f[Len(N) + 1] = N
  <2>1. Len(N) \in 0 .. Len(N) /\ Len(N) \notin bad
    BY <1>2, <1>4
  <2>2. f[Len(N) + 1] = SubSeq(N, 1, Len(N))
    BY <2>1
  <2> QED
    BY <2>2, Ends
<1>6. CASE Len(q) = Len(N) + 1
  BY <1>1, <1>5, <1>6
<1>7. CASE Len(q) = Len(N) + 2
  <2>1. Len(N) + 2 \in 1 .. Len(q) /\ (Len(N) + 2) - 1 = Len(N) + 1 /\ Skipped(q[Len(N) + 2])
    BY <1>2, <1>7, EmptySkipped
  <2> QED
    BY <1>1, <1>5, <1>7, <2>1
<1> QED
  BY <1>6, <1>7

(* A path put together as sanitize_and_normalize_path does it: a slash, the
   segments, and perhaps a slash. *)
Assemble(N, tail) == <<<<>>>> \o N \o tail

(* Its segments, one by one. *)
AssembledFrom(c, N, tail) ==
    /\ Len(N) \in Nat /\ c[1] = <<>>
    /\ \A i \in 1 .. Len(N) : c[i + 1] = N[i]
    /\ tail = <<<<>>>> => Len(c) = Len(N) + 2 /\ c[Len(N) + 2] = <<>>
    /\ tail = <<>> => Len(c) = Len(N) + 1

(* The parts are found where they were put. *)
LEMMA Assembled ==
    ASSUME NEW Y, <<>> \in Y, NEW N \in Seq(Y), NEW tail \in {<<<<>>>>, <<>>},
           NEW c, c = Assemble(N, tail)
    PROVE  c \in Seq(Y) /\ AssembledFrom(c, N, tail)
<1> DEFINE one == <<<<>>>>
           front == one \o N
<1>1. one \in Seq(Y) /\ Len(one) = 1 /\ one[1] = <<>>
  BY OneElement
<1>2. /\ tail \in Seq(Y)
      /\ \/ tail = <<<<>>>> /\ Len(tail) = 1 /\ tail[1] = <<>>
         \/ tail = <<>> /\ Len(tail) = 0 /\ tail # <<<<>>>>
  <2>1. CASE tail = <<<<>>>>
    BY <1>1, <2>1
  <2>2. CASE tail = <<>>
    <3>1. <<>> \in Seq(Y) /\ Len(<<>>) = 0 /\ <<>> # <<<<>>>>
      OBVIOUS
    <3> QED
      BY <2>2, <3>1
  <2> QED
    BY <2>1, <2>2
<1>3. \A a, b \in Seq(Y) :
        /\ (a \o b) \in Seq(Y) /\ Len(a \o b) = Len(a) + Len(b)
        /\ \A j \in 1 .. Len(a) : (a \o b)[j] = a[j]
        /\ \A j \in 1 .. Len(b) : (a \o b)[Len(a) + j] = b[j]
  BY Joined
<1> HIDE DEF one
<1>4. /\ front \in Seq(Y) /\ Len(front) = Len(one) + Len(N)
      /\ \A j \in 1 .. Len(one) : front[j] = one[j]
      /\ \A j \in 1 .. Len(N) : front[Len(one) + j] = N[j]
  BY <1>1, <1>3, Zenon
<1>5. c = front \o tail
  BY DEF one, Assemble
<1> HIDE DEF front
<1>6. /\ c \in Seq(Y) /\ Len(c) = Len(front) + Len(tail)
      /\ \A j \in 1 .. Len(front) : c[j] = front[j]
      /\ \A j \in 1 .. Len(tail) : c[Len(front) + j] = tail[j]
  <2>1. /\ (front \o tail) \in Seq(Y) /\ Len(front \o tail) = Len(front) + Len(tail)
        /\ \A j \in 1 .. Len(front) : (front \o tail)[j] = front[j]
        /\ \A j \in 1 .. Len(tail) : (front \o tail)[Len(front) + j] = tail[j]
    <3>1. front \in Seq(Y) /\ tail \in Seq(Y)
      BY <1>2, <1>4
    <3> QED
      BY <1>3, <3>1, Zenon
  <2> QED
    BY <1>5, <2>1
<1>7. Len(N) \in Nat /\ Len(front) = Len(N) + 1
  BY <1>1, <1>4
<1>8. c[1] = <<>>
  <2>1. 1 \in 1 .. Len(one) /\ 1 \in 1 .. Len(front)
    BY <1>1, <1>7
  <2> QED
    BY <1>1, <1>4, <1>6, <2>1, Zenon
<1>9. ASSUME NEW i \in 1 .. Len(N)
      PROVE  c[i + 1] = N[i]
  <2>1. i + 1 \in 1 .. Len(front) /\ Len(one) + i = i + 1
    BY <1>1, <1>7
  <2>2. c[i + 1] = front[i + 1]
    BY <1>6, <2>1, Zenon
  <2> QED
    BY <1>4, <2>1, <2>2
<1>10. tail = <<<<>>>> => Len(c) = Len(N) + 2 /\ c[Len(N) + 2] = <<>>
  <2>1. SUFFICES ASSUME tail = <<<<>>>>
                 PROVE  Len(c) = Len(N) + 2 /\ c[Len(N) + 2] = <<>>
    OBVIOUS
  <2>2. Len(tail) = 1 /\ tail[1] = <<>>
    BY <1>2, <2>1
  <2> HIDE <2>1
  <2>3. 1 \in 1 .. Len(tail) /\ Len(front) + 1 = Len(N) + 2
    BY <1>7, <2>2
  <2>4. c[Len(front) + 1] = tail[1]
    BY <1>6, <2>3, Zenon
  <2> QED
    BY <1>6, <1>7, <2>2, <2>3, <2>4
<1>11. tail = <<>> => Len(c) = Len(N) + 1
  BY <1>2, <1>6, <1>7
<1> QED
  BY <1>6, <1>7, <1>8, <1>9, <1>10, <1>11 DEF AssembledFrom

(* The shape of a canonical path: a slash, settled segments, and at its end
   perhaps a slash. *)
Shaped(q) ==
    /\ Len(q) >= 2 /\ q[1] = <<>>
    /\ \A i \in 2 .. Len(q) : Settled(q[i]) \/ (i = Len(q) /\ q[i] = <<>>)

(* What sanitize_and_normalize_path returns has that shape. *)
LEMMA CanonicalShaped ==
    ASSUME NEW X, NEW p \in Seq(X)
    PROVE  Shaped(Canonical(p)) /\ \E Y : Canonical(p) \in Seq(Y)
<1> DEFINE N == Normalized(p)
<1>1. PICK K : N \in Seq(K) /\ \A s \in K : Settled(s)
  BY PushedSettled
<1>2. CASE N = <<>>
  <2>1. Canonical(p) = RootPath
    BY <1>2 DEF Canonical
  <2>2. RootPath \in Seq({<<>>}) /\ Len(RootPath) = 2 /\ RootPath[1] = <<>> /\ RootPath[2] = <<>>
    BY DEF RootPath
  <2>3. \A i \in 2 .. 2 : i = 2
    OBVIOUS
  <2> QED
    BY <2>1, <2>2, <2>3 DEF Shaped
<1>3. CASE N # <<>>
  <2> DEFINE Y == K \cup {<<>>}
             tail == IF HasTrailingSlash(p) THEN <<<<>>>> ELSE <<>>
             c == <<<<>>>> \o N \o tail
  <2>1. Canonical(p) = c
    BY <1>3 DEF Canonical
  <2>2. N \in Seq(Y) /\ <<>> \in Y
    BY <1>1, LargerSet
  <2>3. Len(N) # 0
    BY <1>1, <1>3, EmptySeq
  <2>4. \A i \in 1 .. Len(N) : Settled(N[i])
    <3>1. \A i \in 1 .. Len(N) : N[i] \in K
      BY <1>1, ElementOfSeq
    <3> QED
      BY <1>1, <3>1
  <2>5. tail \in {<<<<>>>>, <<>>}
    OBVIOUS
  <2> HIDE DEF tail, Y, N
  <2>6. c = Assemble(N, tail)
    BY DEF Assemble
  <2> HIDE DEF c
  <2>7. /\ c \in Seq(Y) /\ Len(N) \in Nat /\ c[1] = <<>>
        /\ \A i \in 1 .. Len(N) : c[i + 1] = N[i]
        /\ tail = <<<<>>>> => Len(c) = Len(N) + 2 /\ c[Len(N) + 2] = <<>>
        /\ tail = <<>> => Len(c) = Len(N) + 1
    <3>1. c \in Seq(Y) /\ AssembledFrom(c, N, tail)
      BY <2>2, <2>5, <2>6, Assembled
    <3> QED
      BY <3>1 DEF AssembledFrom
  <2>8. /\ Len(c) = Len(N) + 1 \/ (Len(c) = Len(N) + 2 /\ c[Len(N) + 2] = <<>>)
    BY <2>5, <2>7
  <2>9. ASSUME NEW i \in 2 .. Len(c)
        PROVE  Settled(c[i]) \/ (i = Len(c) /\ c[i] = <<>>)
    <3>1. CASE i = Len(N) + 2
      BY <2>7, <2>8, <2>9, <3>1
    <3>2. CASE i # Len(N) + 2
      <4>1. i - 1 \in 1 .. Len(N) /\ (i - 1) + 1 = i
        BY <2>7, <2>8, <2>9, <3>2
      <4>2. c[(i - 1) + 1] = N[i - 1]
        BY <2>7, <4>1
      <4> QED
        BY <2>4, <4>1, <4>2
    <3> QED
      BY <3>1, <3>2
  <2>10. Shaped(c)
    BY <2>3, <2>7, <2>8, <2>9 DEF Shaped
  <2> QED
    BY <2>1, <2>7, <2>10
<1> QED
  BY <1>2, <1>3

(* And what has that shape is left as it is. *)
LEMMA ShapedStays ==
    ASSUME NEW X, NEW q \in Seq(X), Shaped(q)
    PROVE  Canonical(q) = q
<1> DEFINE n == IF q[Len(q)] = <<>> THEN Len(q) - 2 ELSE Len(q) - 1
           N == [i \in 1 .. n |-> q[i + 1]]
           K == {q[i] : i \in 2 .. (n + 1)}
           Y == X \cup {<<>>}
<1>0. Len(q) \in Nat /\ Len(q) >= 2 /\ q[1] = <<>>
  BY DEF Shaped
<1>1. n \in Nat /\ Len(q) \in {n + 1, n + 2} /\ (Len(q) = n + 2 <=> q[Len(q)] = <<>>)
  BY <1>0
<1>2. \A s \in K : Settled(s)
  <2>1. SUFFICES ASSUME NEW i \in 2 .. (n + 1)
                 PROVE  Settled(q[i])
    OBVIOUS
  <2> HIDE DEF n
  <2>2. i \in 2 .. Len(q) /\ (i = Len(q) => q[i] # <<>>)
    BY <1>0, <1>1
  <2> QED
    BY <2>2 DEF Shaped
<1> HIDE DEF n
<1>3. N \in Seq(K) /\ Len(N) = n /\ \A i \in 1 .. n : N[i] = q[i + 1]
  <2>1. \A i \in 1 .. n : q[i + 1] \in K
    BY <1>1
  <2> HIDE DEF K
  <2> QED
    BY <1>1, <2>1
<1>4. N \in Seq(Y) /\ q \in Seq(Y) /\ <<>> \in Y
  <2>1. \A i \in 1 .. n : q[i + 1] \in X
    <3>1. \A i \in 1 .. n : i + 1 \in 1 .. Len(q)
      BY <1>0, <1>1
    <3> QED
      BY <3>1, ElementOfSeq
  <2>2. N \in Seq(X)
    BY <1>1, <2>1
  <2> HIDE DEF N
  <2> QED
    BY <2>2, LargerSet
<1> HIDE DEF N, K, Y
<1>5. Normalized(q) = N
  <2>1. /\ Len(q) \in {Len(N) + 1, Len(N) + 2}
        /\ \A i \in 1 .. Len(N) : q[i + 1] = N[i]
        /\ Len(q) = Len(N) + 2 => q[Len(N) + 2] = <<>>
    BY <1>1, <1>3
  <2> QED
    BY <1>0, <1>2, <1>3, <2>1, SettledStays
<1>6. CASE n = 0
  <2>1. Len(q) = 2 /\ q[2] = <<>>
    BY <1>0, <1>1, <1>6
  <2>2. q = RootPath
    <3>1. q = <<q[1], q[2]>>
      BY <2>1
    <3> QED
      BY <1>0, <2>1, <3>1, Zenon DEF RootPath
  <2>3. N = <<>>
    BY <1>3, <1>6, EmptySeq
  <2> QED
    BY <1>5, <2>2, <2>3 DEF Canonical
<1>7. CASE n # 0
  <2> DEFINE tail == IF HasTrailingSlash(q) THEN <<<<>>>> ELSE <<>>
             c == <<<<>>>> \o N \o tail
  <2>1. q[2] # <<>>
    <3>1. 2 \in 2 .. (n + 1)
      BY <1>1, <1>7
    <3>2. Settled(q[2])
      BY <1>2, <3>1 DEF K
    <3> QED
      BY <3>2, EmptySkipped DEF Settled
  <2>2. q # RootPath
    BY <2>1 DEF RootPath
  <2>3. q[Len(q)] # <<".">>
    <3>1. <<".">> # <<>>
      OBVIOUS
    <3>2. Len(q) \in 2 .. Len(q)
      BY <1>0
    <3>3. Settled(q[Len(q)]) \/ q[Len(q)] = <<>>
      BY <3>2 DEF Shaped
    <3> QED
      BY <3>1, <3>3 DEF Settled, Skipped
  <2>4. HasTrailingSlash(q) <=> Len(q) = n + 2
    BY <1>1, <2>2, <2>3 DEF HasTrailingSlash, Last
  <2>5. N # <<>>
    BY <1>3, <1>7
  <2>6. Canonical(q) = c
    BY <1>5, <2>5 DEF Canonical
  <2>7. tail \in {<<<<>>>>, <<>>} /\ (tail = <<<<>>>> <=> Len(q) = n + 2)
    BY <2>4
  <2> HIDE DEF tail
  <2>8. c = Assemble(N, tail)
    BY DEF Assemble
  <2> HIDE DEF c
  <2>9. /\ c \in Seq(Y) /\ Len(N) \in Nat /\ c[1] = <<>>
        /\ \A i \in 1 .. Len(N) : c[i + 1] = N[i]
        /\ tail = <<<<>>>> => Len(c) = Len(N) + 2 /\ c[Len(N) + 2] = <<>>
        /\ tail = <<>> => Len(c) = Len(N) + 1
    <3>1. c \in Seq(Y) /\ AssembledFrom(c, N, tail)
      BY <1>4, <2>7, <2>8, Assembled
    <3> QED
      BY <3>1 DEF AssembledFrom
  <2>10. Len(c) = Len(q)
    BY <1>1, <1>3, <2>7, <2>9
  <2>11. ASSUME NEW i \in 1 .. Len(q)
         PROVE  c[i] = q[i]
    <3>1. CASE i = 1
      BY <1>0, <2>9, <3>1
    <3>2. CASE i = n + 2
      BY <1>1, <1>3, <2>7, <2>9, <2>11, <3>2
    <3>3. CASE i # 1 /\ i # n + 2
      <4>1. i - 1 \in 1 .. n /\ (i - 1) + 1 = i
        BY <1>0, <1>1, <2>11, <3>3
      <4>2. c[(i - 1) + 1] = N[i - 1] /\ N[i - 1] = q[(i - 1) + 1]
        BY <1>3, <2>9, <4>1
      <4> QED
        BY <4>1, <4>2
    <3> QED
      BY <3>1, <3>2, <3>3
  <2>12. c = q
    BY <1>4, <2>9, <2>10, <2>11, SeqEqual
  <2> QED
    BY <2>6, <2>12
<1> QED
  BY <1>6, <1>7

(* sanitize_and_normalize_path changes nothing in its own result. *)
LEMMA CanonicalOnce ==
    ASSUME NEW X, NEW p \in Seq(X)
    PROVE  /\ Canonical(Canonical(p)) = Canonical(p)
           /\ \E Y : Canonical(p) \in Seq(Y)
BY CanonicalShaped, ShapedStays

----------------------------------------------------------------------------
(* Headers *)

(* What a reader of the headers finds after HeaderMap::insert. *)
LEMMA HeaderInserted ==
    ASSUME NEW new, NEW h, NEW n
    PROVE  Header(Inserted(new, h), n) = IF n \in DOMAIN new THEN new[n] ELSE Header(h, n)
BY DEF Header, Inserted

(* What a reader of the headers finds after the removal of some. *)
LEMMA HeaderWithout ==
    ASSUME NEW h, NEW names, NEW n
    PROVE  Header(Without(h, names), n) = IF n \in names THEN Absent ELSE Header(h, n)
BY DEF Header, Without, Restrict

(* The names under which identities are forwarded are distinct and none that
   prepare_proxy_headers or the dispatch writes itself.  The configuration does
   not check it. *)
WireNames == {"host", "te", "content-type", "content-length"}
DistinctNames(c) ==
    /\ \A j, k \in DOMAIN c.forward : c.forward[j] = c.forward[k] => j = k
    /\ ConfiguredNames(c) \cap {"authorization", "x-forwarded-host", "x-forwarded-proto",
                                "x-real-ip", "x-forwarded-for"} = {}
    /\ ConfiguredNames(c) \cap WireNames = {}

(* The dispatch changes the headers of the wire and no other. *)
LEMMA HeaderDispatched ==
    ASSUME NEW r, NEW h, NEW n, n \notin WireNames
    PROVE  Header(Dispatched(r, h), n) = Header(h, n)
<1> DEFINE g == IF r.backend = "GrpcTranscoding" THEN Without(h, {"content-length"}) ELSE h
<1>1. Header(g, n) = Header(h, n)
  BY HeaderWithout DEF WireNames
<1>2. n \notin DOMAIN WireHeaders(r)
  BY DEF WireHeaders, WireNames
<1>3. Dispatched(r, h) = Inserted(WireHeaders(r), g)
  BY DEF Dispatched
<1> HIDE DEF g
<1> QED
  BY <1>1, <1>2, <1>3, HeaderInserted

(* The identity k is forwarded, and the client has one. *)
Given(c, cert, k) == k \in DOMAIN c.forward /\ (k = "cert" => cert # Absent)

(* What a forwarded identity's header holds: the identity, or nothing where
   the client has none (forwarded identities of prepare_proxy_headers). *)
LEMMA IdentityForwarded ==
    ASSUME NEW c \in Configs, NEW peer, NEW cert, NEW rs, rs # {}, DistinctNames(c),
           NEW value, value = [cert |-> cert, roles |-> rs, ip |-> peer],
           NEW f, f = ForwardedIdentity(c, peer, cert, rs)
    PROVE  /\ DOMAIN f \subseteq ConfiguredNames(c)
           /\ \A k \in DOMAIN c.forward :
                IF Given(c, cert, k) THEN /\ c.forward[k] \in DOMAIN f
                                          /\ f[c.forward[k]] = value[k]
                                     ELSE c.forward[k] \notin DOMAIN f
<1> DEFINE given == {k \in DOMAIN c.forward : /\ k = "cert" => cert # Absent
                                              /\ k = "roles" => rs # {}}
           G(n) == CHOOSE k \in given : c.forward[k] = n
<1>0. \A k : k \in given <=> Given(c, cert, k)
  BY DEF Given
<1>1. f = [n \in {c.forward[k] : k \in given} |-> value[G(n)]]
  <2>1. ForwardedIdentity(c, peer, cert, rs)
          = [n \in {c.forward[k] : k \in given} |->
               [cert |-> cert, roles |-> rs, ip |-> peer][CHOOSE k \in given : c.forward[k] = n]]
    BY DEF ForwardedIdentity
  <2> HIDE DEF given
  <2> QED
    BY <2>1, Zenon
<1>2. ASSUME NEW k \in given
      PROVE  G(c.forward[k]) = k
  BY DEF DistinctNames
<1> HIDE DEF G, given
<1>3. DOMAIN f = {c.forward[k] : k \in given}
  BY <1>1
<1>4. DOMAIN f \subseteq ConfiguredNames(c)
  BY <1>0, <1>3 DEF ConfiguredNames, Given
<1>5. ASSUME NEW k \in DOMAIN c.forward, Given(c, cert, k)
      PROVE  c.forward[k] \in DOMAIN f /\ f[c.forward[k]] = value[k]
  BY <1>0, <1>1, <1>2, <1>3, <1>5
<1>6. ASSUME NEW k \in DOMAIN c.forward, ~Given(c, cert, k)
      PROVE  c.forward[k] \notin DOMAIN f
  BY <1>0, <1>3, <1>6 DEF DistinctNames, Given
<1> QED
  BY <1>4, <1>5, <1>6

(* Steps 3 to 6 of prepare_proxy_headers, as a reader of the result sees them,
   whatever the client's headers were. *)
LEMMA VouchedHeaders ==
    ASSUME NEW h, NEW c \in Configs, NEW peer, NEW cert, NEW rs, rs # {}, DistinctNames(c),
           NEW v, v = Vouched(h, c, peer, cert, rs),
           NEW value, value = [cert |-> cert, roles |-> rs, ip |-> peer],
           NEW n
    PROVE  /\ \A k \in DOMAIN c.forward :
                Header(v, c.forward[k]) = IF Given(c, cert, k) THEN value[k] ELSE Absent
           /\ n \in {"x-real-ip", "x-forwarded-for"} =>
                Header(v, n) = IF IsUnspecified(peer) THEN Absent ELSE peer
           /\ Header(v, "x-forwarded-proto") = c.protocol
           /\ n \in (IdentityHeaders \cup {"forwarded"}) \ ConfiguredNames(c) => Header(v, n) = Absent
<1> DEFINE gone == IdentityHeaders \cup ConfiguredNames(c) \cup ForwardingHeaders
           own == Without(h, gone)
           address == Inserted(VerifiedAddress(peer), own)
           proto == Inserted(Only("x-forwarded-proto", c.protocol), address)
           located == Inserted(ForwardedHost(proto, c), proto)
           authorized == Inserted(UpstreamToken(c), located)
           f == ForwardedIdentity(c, peer, cert, rs)
<1>1. v = Inserted(f, authorized)
  BY DEF Vouched
<1>2. /\ DOMAIN f \subseteq ConfiguredNames(c)
      /\ \A k \in DOMAIN c.forward :
           IF Given(c, cert, k) THEN c.forward[k] \in DOMAIN f /\ f[c.forward[k]] = value[k]
                                ELSE c.forward[k] \notin DOMAIN f
  BY IdentityForwarded
<1> HIDE DEF f
<1>3. /\ DOMAIN UpstreamToken(c) \subseteq {"authorization"}
      /\ DOMAIN ForwardedHost(proto, c) \subseteq {"x-forwarded-host"}
      /\ DOMAIN VerifiedAddress(peer) \subseteq {"x-real-ip", "x-forwarded-for"}
      /\ DOMAIN Only("x-forwarded-proto", c.protocol) = {"x-forwarded-proto"}
      /\ Only("x-forwarded-proto", c.protocol)["x-forwarded-proto"] = c.protocol
  BY DEF UpstreamToken, ForwardedHost, VerifiedAddress, Only, NoHeaders
<1>4. \A m : Header(v, m) = IF m \in DOMAIN f THEN f[m] ELSE Header(authorized, m)
  BY <1>1, HeaderInserted
<1>5. \A m : m # "authorization" => Header(authorized, m) = Header(located, m)
  <2> HIDE DEF located
  <2> QED
    BY <1>3, HeaderInserted
<1>6. \A m : m # "x-forwarded-host" => Header(located, m) = Header(proto, m)
  <2> HIDE DEF proto
  <2> QED
    BY <1>3, HeaderInserted
<1>7. \A m : Header(proto, m) = IF m = "x-forwarded-proto" THEN c.protocol ELSE Header(address, m)
  BY <1>3, HeaderInserted
<1>8. \A m : Header(address, m) = IF m \in DOMAIN VerifiedAddress(peer)
                                  THEN VerifiedAddress(peer)[m] ELSE Header(own, m)
  BY HeaderInserted
<1>9. \A m \in gone : Header(own, m) = Absent
  BY HeaderWithout
<1> HIDE DEF own, address, proto, located, authorized
<1>10. ASSUME NEW m \in gone, m \notin {"authorization", "x-forwarded-host", "x-forwarded-proto",
                                        "x-real-ip", "x-forwarded-for"}
       PROVE  Header(authorized, m) = Absent
  BY <1>3, <1>5, <1>6, <1>7, <1>8, <1>9, <1>10
<1>11. ASSUME NEW k \in DOMAIN c.forward
       PROVE  Header(v, c.forward[k]) = IF Given(c, cert, k) THEN value[k] ELSE Absent
  <2>1. c.forward[k] \in ConfiguredNames(c)
    BY DEF ConfiguredNames
  <2>2. Header(authorized, c.forward[k]) = Absent
    BY <1>10, <2>1 DEF DistinctNames
  <2> QED
    BY <1>2, <1>4, <2>2
<1>12. \A m \in {"authorization", "x-forwarded-host", "x-forwarded-proto",
                 "x-real-ip", "x-forwarded-for"} : m \notin DOMAIN f
  BY <1>2 DEF DistinctNames
<1>13. ASSUME n \in {"x-real-ip", "x-forwarded-for"}
       PROVE  Header(v, n) = IF IsUnspecified(peer) THEN Absent ELSE peer
  <2>1. Header(v, n) = Header(address, n)
    BY <1>4, <1>5, <1>6, <1>7, <1>12, <1>13
  <2>2. Header(own, n) = Absent
    BY <1>9, <1>13 DEF ForwardingHeaders
  <2> QED
    BY <1>8, <1>13, <2>1, <2>2 DEF VerifiedAddress, NoHeaders
<1>14. Header(v, "x-forwarded-proto") = c.protocol
  BY <1>4, <1>5, <1>6, <1>7, <1>12
<1>15. ASSUME n \in (IdentityHeaders \cup {"forwarded"}) \ ConfiguredNames(c)
       PROVE  Header(v, n) = Absent
  <2>1. n \in gone /\ n \notin DOMAIN f
    BY <1>2, <1>15 DEF ForwardingHeaders
  <2>2. n \notin {"authorization", "x-forwarded-host", "x-forwarded-proto",
                  "x-real-ip", "x-forwarded-for"}
    BY <1>15 DEF IdentityHeaders
  <2> QED
    BY <1>4, <1>10, <2>1, <2>2
<1> QED
  BY <1>11, <1>13, <1>14, <1>15

----------------------------------------------------------------------------
(* Powers of two and quotients *)

(* Division with a remainder. *)
LEMMA DivMod ==
    ASSUME NEW x \in Nat, NEW h \in Nat, h > 0
    PROVE  x \div h \in Nat /\ x % h \in 0..(h - 1) /\ x = h * (x \div h) + (x % h)
OBVIOUS

(* A quotient is told by its bounds. *)
LEMMA DivUnique ==
    ASSUME NEW x \in Nat, NEW h \in Nat, h > 0, NEW q \in Int, h * q <= x, x < h * q + h
    PROVE  x \div h = q
OBVIOUS

(* Dividing off a multiple: the leading bits in front of an IPv4 address. *)
LEMMA DivSum ==
    ASSUME NEW x \in Nat, NEW h \in Nat, h > 0, NEW k \in Nat
    PROVE  (k * h + x) \div h = k + (x \div h)
<1> DEFINE q == x \div h
<1>1. q \in Nat /\ h * q <= x /\ x < h * q + h
  BY DivMod
<1> HIDE DEF q
<1>2. k * h + x \in Nat /\ k + q \in Int /\ h * (k + q) = k * h + h * q
  BY <1>1
<1>3. h * (k + q) <= k * h + x /\ k * h + x < h * (k + q) + h
  BY <1>1, <1>2
<1>4. (k * h + x) \div h = k + q
  BY <1>2, <1>3, DivUnique
<1> QED
  BY <1>4 DEF q

(* Cutting off bits in two steps is cutting them off in one. *)
LEMMA DivDiv ==
    ASSUME NEW x \in Nat, NEW h \in Nat, h > 0, NEW k \in Nat, k > 0
    PROVE  (x \div h) \div k = x \div (k * h)
<1> DEFINE q == x \div h
           p == q \div k
<1>1. q \in Nat /\ h * q <= x /\ x < h * q + h
  BY DivMod
<1>2. p \in Nat /\ k * p <= q /\ q < k * p + k
  BY <1>1, DivMod
<1> HIDE DEF q, p
<1>3. k * h \in Nat /\ k * h > 0
  OBVIOUS
<1>4. (k * h) * p <= x
  <2>1. h * (k * p) <= h * q
    BY <1>1, <1>2
  <2>2. h * (k * p) = (k * h) * p
    BY <1>1, <1>2
  <2> QED
    BY <1>1, <1>2, <1>3, <2>1, <2>2
<1>5. x < (k * h) * p + k * h
  <2>1. q + 1 <= k * p + k
    BY <1>1, <1>2
  <2>2. h * (q + 1) <= h * (k * p + k)
    BY <1>1, <1>2, <2>1
  <2>3. h * (k * p + k) = (k * h) * p + k * h /\ h * (q + 1) = h * q + h
    BY <1>1, <1>2
  <2> QED
    BY <1>1, <1>2, <1>3, <2>2, <2>3
<1>6. x \div (k * h) = p
  BY <1>2, <1>3, <1>4, <1>5, DivUnique
<1> QED
  BY <1>6 DEF q, p
(* The number of addresses that i free bits leave.  The provers know nothing of
   powers but the number of subsets of a finite set. *)
LEMMA Powers ==
    ASSUME NEW i \in Nat
    PROVE  2 ^ i \in Nat /\ 2 ^ i > 0
<1> DEFINE S == 1..i
<1>1. IsFiniteSet(S) /\ Cardinality(S) = i
  BY FS_Interval
<1> HIDE DEF S
<1>2. IsFiniteSet(SUBSET S) /\ Cardinality(SUBSET S) = 2 ^ i
  BY <1>1, FS_SUBSET
<1>3. Cardinality(SUBSET S) \in Nat /\ Cardinality(SUBSET S) # 0
  <2>1. {} \in SUBSET S
    OBVIOUS
  <2> QED
    BY <1>2, <2>1, FS_CardinalityType, FS_EmptySet
<1> QED
  BY <1>2, <1>3

(* Free bits add up: a subset of i + j elements is one of the first i and one
   of the last j. *)
LEMMA PowerSum ==
    ASSUME NEW i \in Nat, NEW j \in Nat
    PROVE  2 ^ (i + j) = 2 ^ i * 2 ^ j
<1> DEFINE A == 1..i
           B == (i + 1)..(i + j)
           C == 1..(i + j)
<1>1. /\ IsFiniteSet(A) /\ Cardinality(A) = i /\ IsFiniteSet(B) /\ Cardinality(B) = j
      /\ IsFiniteSet(C) /\ Cardinality(C) = i + j
  <2>1. IsFiniteSet(A) /\ Cardinality(A) = i
    BY FS_Interval
  <2>2. IsFiniteSet(C) /\ Cardinality(C) = i + j
    <3>1. IsFiniteSet(C) /\ Cardinality(C) = IF 1 > i + j THEN 0 ELSE (i + j) - 1 + 1
      BY FS_Interval
    <3> QED
      BY <3>1
  <2>3. IsFiniteSet(B) /\ Cardinality(B) = IF i + 1 > i + j THEN 0 ELSE (i + j) - (i + 1) + 1
    BY FS_Interval
  <2>4. Cardinality(B) = j
    BY <2>3
  <2> QED
    BY <2>1, <2>2, <2>3, <2>4
<1>2. A \cup B = C /\ A \cap B = {}
  OBVIOUS
<1> HIDE DEF A, B, C
<1> DEFINE P == SUBSET C
           Q == (SUBSET A) \X (SUBSET B)
           f == [U \in P |-> <<U \cap A, U \cap B>>]
<1>3. f \in [P -> Q]
  OBVIOUS
<1>4. \A U, V \in P : f[U] = f[V] => U = V
  <2> SUFFICES ASSUME NEW U \in P, NEW V \in P, f[U] = f[V] PROVE U = V
    OBVIOUS
  <2>1. U \cap A = V \cap A /\ U \cap B = V \cap B
    OBVIOUS
  <2>2. \A x \in U : x \in V
    BY <1>2, <2>1
  <2>3. \A x \in V : x \in U
    BY <1>2, <2>1
  <2> QED
    BY <2>2, <2>3
<1>5. \A w \in Q : \E U \in P : f[U] = w
  <2> SUFFICES ASSUME NEW w \in Q PROVE \E U \in P : f[U] = w
    OBVIOUS
  <2>0. PICK X \in SUBSET A, Y \in SUBSET B : w = <<X, Y>>
    OBVIOUS
  <2> DEFINE U == X \cup Y
  <2>1. U \in P /\ U \cap A = X /\ U \cap B = Y
    BY <1>2
  <2>2. f[U] = <<X, Y>>
    BY <2>1
  <2> QED
    BY <2>0, <2>1, <2>2
<1> HIDE DEF f
<1>6. ExistsBijection(P, Q)
  <2>1. f \in Injection(P, Q) /\ f \in Surjection(P, Q)
    BY <1>3, <1>4, <1>5 DEF Injection, Surjection, IsInjective
  <2> QED
    BY <2>1 DEF ExistsBijection, Bijection
<1>7. /\ IsFiniteSet(SUBSET A) /\ Cardinality(SUBSET A) = 2 ^ i
      /\ IsFiniteSet(SUBSET B) /\ Cardinality(SUBSET B) = 2 ^ j
      /\ IsFiniteSet(P) /\ Cardinality(P) = 2 ^ (i + j)
  BY <1>1, FS_SUBSET
<1>8. Cardinality(Q) = 2 ^ i * 2 ^ j
  <2> DEFINE SA == SUBSET A
             SB == SUBSET B
  <2>1. IsFiniteSet(SA) /\ IsFiniteSet(SB) /\ Cardinality(SA) = 2 ^ i /\ Cardinality(SB) = 2 ^ j
    BY <1>7
  <2> HIDE DEF SA, SB
  <2>2. Cardinality(SA \X SB) = Cardinality(SA) * Cardinality(SB)
    BY <2>1, FS_Product
  <2>3. Cardinality(SA \X SB) = 2 ^ i * 2 ^ j
    BY <2>1, <2>2
  <2> QED
    BY <2>3 DEF SA, SB
<1>9. Cardinality(Q) = Cardinality(P)
  BY <1>6, <1>7, FS_Bijection
<1> QED
  BY <1>7, <1>8, <1>9

----------------------------------------------------------------------------
(* Addresses and prefixes *)

(* Unwrapping an IPv4-mapped address does not change which address it is in
   the lifted sense, tells IPv4 from IPv6, and is done once. *)
LEMMA Unwrapped ==
    ASSUME NEW a \in Addresses
    PROVE  LET u == Unwrap(a)
               B == 2 ^ V4Bits
           IN /\ u \in Addresses /\ Unwrap(u) = u /\ Lift(u) = Lift(a) /\ Lift(a) \in Nat
              /\ u.fam = 4 => /\ u.n \in Nat /\ Lift(a) = MappedHigh * B + u.n
                              /\ Lift(a) \div B = MappedHigh
              /\ u.fam = 6 => u.n = Lift(a) /\ Lift(a) \div B # MappedHigh
<1> DEFINE u == Unwrap(a)
           B == 2 ^ V4Bits
           D == 2 ^ V6Bits
<1>1. /\ V4Bits \in Nat /\ V6Bits \in Nat /\ MappedHigh \in Nat
  <2>1. V4Bits \in Nat /\ V6Bits \in Nat /\ V6Bits - V4Bits \in Nat
    BY WidthAssumption
  <2>2. 2 ^ (V6Bits - V4Bits) \in Nat
    BY <2>1, Powers
  <2> QED
    BY <2>1, <2>2, WidthAssumption
<1>2. B \in Nat /\ B > 0 /\ D \in Nat /\ D > 0
  BY <1>1, Powers
<1>a. Addresses = [fam : {4}, n : 0 .. (B - 1)] \cup [fam : {6}, n : 0 .. (D - 1)]
  BY DEF Addresses
<1>u. u = IF a.fam = 6 /\ a.n \div B = MappedHigh THEN [fam |-> 4, n |-> a.n % B] ELSE a
  BY DEF Unwrap, V4
<1>l. \A x : Lift(x) = IF x.fam = 4 THEN MappedHigh * B + x.n ELSE x.n
  BY DEF Lift
<1>w. \A x : Unwrap(x) = IF x.fam = 6 /\ x.n \div B = MappedHigh
                         THEN [fam |-> 4, n |-> x.n % B] ELSE x
  BY DEF Unwrap, V4
<1>3. SUFFICES /\ u \in Addresses /\ Unwrap(u) = u /\ Lift(u) = Lift(a) /\ Lift(a) \in Nat
               /\ u.fam = 4 => /\ u.n \in Nat /\ Lift(a) = MappedHigh * B + u.n
                               /\ Lift(a) \div B = MappedHigh
               /\ u.fam = 6 => u.n = Lift(a) /\ Lift(a) \div B # MappedHigh
  BY DEF u, B
<1> HIDE DEF u, B, D
<1>4. CASE a.fam = 4
  <2>1. a \in [fam : {4}, n : 0 .. (B - 1)]
    BY <1>4, <1>a
  <2>2. a.n \in Nat /\ a.n < B /\ u = a
    BY <1>2, <1>4, <1>u, <2>1
  <2>3. Lift(a) = MappedHigh * B + a.n
    BY <1>4, <1>l
  <2>4. (MappedHigh * B + a.n) \div B = MappedHigh + (a.n \div B)
    BY <1>1, <1>2, <2>2, DivSum
  <2>5. a.n \div B = 0
    BY <1>2, <2>2, DivUnique
  <2>6. MappedHigh * B + a.n \in Nat
    BY <1>1, <1>2, <2>2
  <2>7. Unwrap(a) = a
    BY <1>4, <1>w
  <2> QED
    BY <1>1, <1>4, <2>2, <2>3, <2>4, <2>5, <2>6, <2>7
<1>5. CASE a.fam = 6
  <2>1. a \in [fam : {6}, n : 0 .. (D - 1)]
    BY <1>5, <1>a
  <2>2. a.n \in Nat /\ Lift(a) = a.n
    BY <1>2, <1>5, <1>l, <2>1
  <2>3. CASE a.n \div B = MappedHigh
    <3>1. /\ a.n % B \in 0 .. (B - 1) /\ a.n = B * (a.n \div B) + (a.n % B)
      BY <1>2, <2>2, DivMod
    <3>2. u = [fam |-> 4, n |-> a.n % B]
      BY <1>5, <1>u, <2>3
    <3>3. u \in Addresses
      BY <1>a, <3>1, <3>2
    <3>4. u.fam = 4 /\ u.n = a.n % B /\ u.n \in Nat
      BY <1>2, <3>1, <3>2
    <3>5. Unwrap(u) = u
      BY <1>w, <3>4
    <3>6. Lift(a) = MappedHigh * B + u.n
      BY <1>1, <1>2, <2>2, <2>3, <3>1, <3>4
    <3>7. Lift(u) = MappedHigh * B + u.n
      BY <1>l, <3>4
    <3> QED
      BY <2>2, <2>3, <3>3, <3>4, <3>5, <3>6, <3>7
  <2>4. CASE a.n \div B # MappedHigh
    <3>1. u = a
      BY <1>u, <2>4
    <3>2. Unwrap(u) = u
      BY <1>w, <2>4, <3>1
    <3> QED
      BY <1>5, <2>2, <2>4, <3>1, <3>2
  <2> QED
    BY <2>3, <2>4
<1> QED
  BY <1>4, <1>5, <1>a

(* An entry of one family, as IpCidr::parse leaves it: its address unwrapped,
   and as many free bits as were written. *)
LEMMA Parsed ==
    ASSUME NEW e, e.ip \in Addresses, e.len \in Nat \cup {Absent}, ValidCidr(e), OneFamily(e)
    PROVE  LET c == ParseCidr(e)
               len == CASE e.len = Absent -> V6Bits
                        [] e.len # Absent /\ e.ip.fam = 4 -> e.len + V6Bits - V4Bits
                        [] OTHER -> e.len
           IN /\ c.ip = Unwrap(e.ip)
              /\ Width(c.ip.fam) - c.len \in 0 .. V4Bits
              /\ Width(c.ip.fam) - c.len = V6Bits - len
<1> DEFINE v == Unwrap(e.ip)
           c == ParseCidr(e)
           high == V6Bits - V4Bits
           len == CASE e.len = Absent -> V6Bits
                    [] e.len # Absent /\ e.ip.fam = 4 -> e.len + V6Bits - V4Bits
                    [] OTHER -> e.len
<1>1. V4Bits \in Nat /\ V6Bits \in Nat /\ 2 * V4Bits < V6Bits
  BY WidthAssumption
<1>2. e.ip.fam \in {4, 6} /\ v.fam \in {4, 6} /\ (e.ip.fam = 4 => v = e.ip)
      /\ (v.fam = 6 => v = e.ip)
  BY DEF Addresses, Unwrap, V4
<1>3. SUFFICES /\ c.ip = v /\ Width(c.ip.fam) - c.len \in 0 .. V4Bits
               /\ Width(c.ip.fam) - c.len = V6Bits - len
  BY DEF v, c, len
<1>c. c = CASE e.len = Absent -> [ip |-> v, len |-> Width(v.fam)]
            [] e.len # Absent /\ (e.ip.fam = 6 /\ v.fam = 4) /\ e.len <= V4Bits
                 -> [ip |-> v, len |-> e.len]
            [] e.len # Absent /\ (e.ip.fam = 6 /\ v.fam = 4) /\ e.len >= high
                 -> [ip |-> v, len |-> e.len - high]
            [] OTHER -> e
  BY DEF ParseCidr
<1>w. Width(4) = V4Bits /\ Width(6) = V6Bits
  BY DEF Width
<1> HIDE DEF v, c
<1>4. CASE e.len = Absent
  <2>1. c = [ip |-> v, len |-> Width(v.fam)] /\ len = V6Bits
    BY <1>4, <1>c
  <2>2. c.ip = v /\ c.len = Width(v.fam)
    BY <2>1
  <2>3. Width(v.fam) \in Nat
    BY <1>1, <1>2, <1>w
  <2> QED
    BY <1>1, <2>1, <2>2, <2>3
<1>5. CASE e.len # Absent /\ e.ip.fam = 4
  <2>1. e.len \in Nat /\ e.len <= V4Bits
    BY <1>5, <1>w DEF ValidCidr
  <2>2. c = e /\ len = e.len + V6Bits - V4Bits
    BY <1>2, <1>5, <1>c
  <2> QED
    BY <1>1, <1>2, <1>5, <1>w, <2>1, <2>2
<1>6. CASE e.len # Absent /\ e.ip.fam = 6
  <2>1. e.len \in Nat /\ e.len <= V6Bits /\ e.len >= high /\ len = e.len
    BY <1>6, <1>w DEF ValidCidr, OneFamily
  <2>2. ~(e.len <= V4Bits)
    BY <1>1, <2>1
  <2>3. CASE v.fam = 4
    <3>1. c = [ip |-> v, len |-> e.len - high]
      BY <1>6, <1>c, <2>1, <2>2, <2>3
    <3>2. c.ip = v /\ c.len = e.len - high
      BY <3>1
    <3> QED
      BY <1>1, <1>w, <2>1, <2>3, <3>2
  <2>4. CASE v.fam = 6
    <3>1. c = e /\ v = e.ip
      BY <1>2, <1>6, <1>c, <2>4
    <3> QED
      BY <1>1, <1>6, <1>w, <2>1, <3>1
  <2> QED
    BY <1>2, <2>3, <2>4
<1> QED
  BY <1>2, <1>4, <1>5, <1>6

(* IpCidr::contains on an entry of one family is the reference meaning, in
   whichever notation entry and address are written. *)
LEMMA CidrAgrees ==
    ASSUME NEW e, e.ip \in Addresses, e.len \in Nat \cup {Absent}, ValidCidr(e), OneFamily(e),
           NEW a \in Addresses
    PROVE  CidrContains(ParseCidr(e), Unwrap(a)) <=> Covers(e, a)
<1> DEFINE c == ParseCidr(e)
           v == Unwrap(e.ip)
           u == Unwrap(a)
           B == 2 ^ V4Bits
           k == Width(c.ip.fam) - c.len
           h == 2 ^ k
           j == V4Bits - k
           g == 2 ^ j
           x == Lift(e.ip)
           y == Lift(a)
<1>1. c.ip = v /\ k \in 0 .. V4Bits
  BY Parsed
<1>2. CidrContains(c, u) <=> u.fam = v.fam /\ u.n \div h = v.n \div h
  <2>1. Unwrap(u) = u
    BY Unwrapped
  <2> QED
    BY <1>1, <2>1 DEF CidrContains
<1>3. Covers(e, a) <=> x \div h = y \div h
  <2> DEFINE len == CASE e.len = Absent -> V6Bits
                      [] e.len # Absent /\ e.ip.fam = 4 -> e.len + V6Bits - V4Bits
                      [] OTHER -> e.len
  <2>1. k = V6Bits - len
    BY Parsed
  <2>2. Covers(e, a) <=> x \div 2 ^ (V6Bits - len) = y \div 2 ^ (V6Bits - len)
    BY DEF Covers
  <2> HIDE DEF len, x, y, c
  <2> QED
    BY <2>1, <2>2
<1>4. /\ x \in Nat
      /\ v.fam = 4 => v.n \in Nat /\ x = MappedHigh * B + v.n /\ x \div B = MappedHigh
      /\ v.fam = 6 => v.n = x /\ x \div B # MappedHigh
  BY Unwrapped
<1>5. /\ y \in Nat
      /\ u.fam = 4 => u.n \in Nat /\ y = MappedHigh * B + u.n /\ y \div B = MappedHigh
      /\ u.fam = 6 => u.n = y /\ y \div B # MappedHigh
  BY Unwrapped
<1>6. v.fam \in {4, 6} /\ u.fam \in {4, 6}
  BY DEF Addresses, Unwrap, V4
<1>7. /\ V4Bits \in Nat /\ MappedHigh \in Nat
  <2>1. V4Bits \in Nat /\ V6Bits - V4Bits \in Nat
    BY WidthAssumption
  <2>2. 2 ^ (V6Bits - V4Bits) \in Nat
    BY <2>1, Powers
  <2> QED
    BY <2>1, <2>2, WidthAssumption
<1>s. SUFFICES CidrContains(c, u) <=> Covers(e, a)
  BY DEF c, u
<1> HIDE DEF c, v, u, x, y, k
<1>8. h \in Nat /\ h > 0 /\ g \in Nat /\ g > 0 /\ B = g * h
  <2>1. k \in Nat /\ j \in Nat /\ j + k = V4Bits
    BY <1>1, <1>7
  <2> HIDE DEF j
  <2>2. 2 ^ (j + k) = 2 ^ j * 2 ^ k
    BY <2>1, PowerSum
  <2>3. h \in Nat /\ h > 0 /\ g \in Nat /\ g > 0
    BY <2>1, Powers
  <2> QED
    BY <2>1, <2>2, <2>3
<1> HIDE DEF B, g, h
<1>9. CASE v.fam = 4 /\ u.fam = 4
  <2> DEFINE m == MappedHigh * g
  <2>1. m \in Nat /\ MappedHigh * B = m * h
    BY <1>7, <1>8
  <2> HIDE DEF m
  <2>2. x \div h = m + (v.n \div h) /\ y \div h = m + (u.n \div h)
    <3>1. x = m * h + v.n /\ v.n \in Nat /\ y = m * h + u.n /\ u.n \in Nat
      BY <1>4, <1>5, <1>9, <2>1
    <3>2. (m * h + v.n) \div h = m + (v.n \div h) /\ (m * h + u.n) \div h = m + (u.n \div h)
      BY <1>8, <2>1, <3>1, DivSum
    <3> QED
      BY <3>1, <3>2
  <2>3. v.n \div h \in Nat /\ u.n \div h \in Nat
    BY <1>4, <1>5, <1>8, <1>9, DivMod
  <2> QED
    BY <1>2, <1>3, <1>9, <2>1, <2>2, <2>3
<1>10. CASE v.fam = 6 /\ u.fam = 6
  BY <1>2, <1>3, <1>4, <1>5, <1>10
<1>11. CASE v.fam # u.fam
  <2>1. (x \div h) \div g = x \div B /\ (y \div h) \div g = y \div B
    BY <1>4, <1>5, <1>8, DivDiv
  <2>2. x \div B # y \div B
    BY <1>4, <1>5, <1>6, <1>11
  <2> QED
    BY <1>2, <1>3, <1>11, <2>1, <2>2
<1> QED
  BY <1>6, <1>9, <1>10, <1>11

----------------------------------------------------------------------------
(* The inductive invariant *)

RequestFields == {"method", "path", "query", "headers", "authority", "peer", "cert"}

(* A process that runs has a configuration that finalize accepted. *)
Started ==
    /\ phase \in {"start", "exited", "idle", "layers", "base", "upstream", "done"}
    /\ cfg \in Configs \cup {Absent}
    /\ phase \notin {"start", "exited"} => cfg \in Configs /\ Finalized(cfg)

(* Where in the stack a request is in each phase. *)
Placed ==
    /\ phase \in {"start", "idle"} => pos = 0
    /\ phase = "layers" => pos \in 1 .. Len(Stack(cfg))
    /\ phase \in {"base", "upstream"} => pos = Len(Stack(cfg)) + 1
    /\ phase = "done" => pos \in 1 .. (Len(Stack(cfg)) + 1)

(* What goes with a request: who its peer is was not said by the client, and
   its roles are those of its token, or else of its certificate. *)
Identified ==
    phase \in {"layers", "base", "upstream"} =>
      /\ DOMAIN req = RequestFields
      /\ Claimed \notin {req.peer, req.cert}
      /\ roles = MapOids(cfg.oidMapping,
                         IF token # Absent THEN Tokens[token].oids ELSE ClientOids(req))

(* A request behind a JwtAuth layer has a valid token. *)
Authenticated ==
    phase \in {"layers", "base", "upstream"} =>
      \A i \in 1 .. (pos - 1) :
        Stack(cfg)[i] = "JwtAuth" => token # Absent /\ Tokens[token].valid

Stored ==
    /\ token \in DOMAIN Tokens \cup {Absent}
    /\ secured \in BOOLEAN
    /\ revoked \subseteq {Tokens[t].jti : t \in DOMAIN Tokens}

IdentityWhereDistinct == phase = "upstream" /\ DistinctNames(cfg) => IdentityIsVerified

IInv ==
    /\ Started /\ Placed /\ Identified /\ Authenticated /\ Stored
    /\ AuthorizedOnly /\ IdentityWhereDistinct /\ AnswersAreSecured

----------------------------------------------------------------------------
(* Steps *)

(* ConnectionHandler::handle: a request enters with nothing of an earlier one. *)
LEMMA Entering ==
    ASSUME NEW r, IInv, phase \notin {"start", "exited"},
           DOMAIN r = RequestFields, Claimed \notin {r.peer, r.cert}, Enter(r)
    PROVE  IInv'
<1>1. /\ req' = r /\ pos' = 1 /\ phase' = "layers" /\ token' = Absent /\ secured' = FALSE
      /\ cfg' = cfg /\ revoked' = revoked /\ roles' = MapOids(cfg.oidMapping, ClientOids(r))
  BY DEF Enter
<1>2. cfg \in Configs /\ Finalized(cfg)
  BY DEF IInv, Started
<1>3. Len(Stack(cfg)) \in Nat \ {0}
  BY <1>2, StackFacts
<1>4. Started' /\ Placed'
  BY <1>1, <1>2, <1>3 DEF Started, Placed
<1>5. Identified'
  BY <1>1 DEF Identified, ClientOids
<1>6. Authenticated'
  BY <1>1 DEF Authenticated
<1>7. Stored'
  BY <1>1 DEF IInv, Stored
<1>8. AuthorizedOnly' /\ IdentityWhereDistinct' /\ AnswersAreSecured'
  BY <1>1 DEF AuthorizedOnly, IdentityWhereDistinct, AnswersAreSecured
<1> QED
  BY <1>4, <1>5, <1>6, <1>7, <1>8 DEF IInv

(* What a layer hands on: address and certificate stay, and the roles either
   stay with the token or, behind JwtAuth, are those of the token that was
   accepted. *)
Handed ==
    /\ DOMAIN req' = RequestFields /\ req'.peer = req.peer /\ req'.cert = req.cert
    /\ revoked' \subseteq {Tokens[t].jti : t \in DOMAIN Tokens}
    /\ \/ Stack(cfg)[pos] # "JwtAuth" /\ UNCHANGED <<roles, token>>
       \/ /\ token' \in DOMAIN Tokens /\ Tokens[token'].valid
          /\ roles' = MapOids(cfg.oidMapping, Tokens[token'].oids)

(* A layer that hands a request on keeps the invariant. *)
LEMMA PassingOn ==
    ASSUME IInv, phase = "layers", PassOn, Handed
    PROVE  IInv'
<1>1. /\ pos' = pos + 1 /\ cfg' = cfg /\ secured' = secured /\ sent' = sent
      /\ phase' = IF pos = Len(Stack(cfg)) THEN "base" ELSE "layers"
  BY DEF PassOn
<1>2. cfg \in Configs /\ Finalized(cfg) /\ pos \in 1 .. Len(Stack(cfg))
  BY DEF IInv, Started, Placed
<1>3. Len(Stack(cfg)) \in Nat \ {0}
  BY <1>2, StackFacts
<1>4. Started'
  BY <1>1, <1>2 DEF Started
<1>5. Placed'
  BY <1>1, <1>2, <1>3 DEF Placed
<1>6. Identified'
  <2>1. /\ DOMAIN req = RequestFields /\ Claimed \notin {req.peer, req.cert}
        /\ roles = MapOids(cfg.oidMapping,
                           IF token # Absent THEN Tokens[token].oids ELSE ClientOids(req))
    BY DEF IInv, Identified
  <2>2. ClientOids(req)' = ClientOids(req)
    BY DEF Handed, ClientOids
  <2>3. CASE UNCHANGED <<roles, token>>
    BY <1>1, <2>1, <2>2, <2>3 DEF Identified, Handed
  <2>4. CASE /\ token' \in DOMAIN Tokens /\ Tokens[token'].valid
             /\ roles' = MapOids(cfg.oidMapping, Tokens[token'].oids)
    <3>1. token' # Absent
      BY <2>4, TokensAssumption
    <3> QED
      BY <1>1, <2>1, <2>4, <3>1 DEF Identified, Handed
  <2> QED
    BY <2>3, <2>4 DEF Handed
<1>7. Authenticated'
  <2>1. \A i \in 1 .. (pos - 1) :
          Stack(cfg)[i] = "JwtAuth" => token # Absent /\ Tokens[token].valid
    BY DEF IInv, Authenticated
  <2>2. SUFFICES ASSUME NEW i \in 1 .. pos, Stack(cfg)[i] = "JwtAuth"
                 PROVE  token' # Absent /\ Tokens[token'].valid
    BY <1>1, <1>2 DEF Authenticated
  <2>3. CASE Stack(cfg)[pos] # "JwtAuth" /\ UNCHANGED <<roles, token>>
    <3>1. i \in 1 .. (pos - 1)
      BY <1>2, <2>2, <2>3
    <3> QED
      BY <2>1, <2>2, <2>3, <3>1
  <2>4. CASE token' \in DOMAIN Tokens /\ Tokens[token'].valid
    BY <2>4, TokensAssumption
  <2> QED
    BY <2>3, <2>4 DEF Handed
<1>8. Stored'
  BY <1>1 DEF IInv, Stored, Handed
<1>9. AuthorizedOnly' /\ IdentityWhereDistinct' /\ AnswersAreSecured'
  BY <1>1 DEF AuthorizedOnly, IdentityWhereDistinct, AnswersAreSecured
<1> QED
  BY <1>4, <1>5, <1>6, <1>7, <1>8, <1>9 DEF IInv

(* An answer goes out through SecurityHeaders, since whoever gives one is
   neither that layer nor one in front of it. *)
LEMMA Answering ==
    ASSUME IInv, phase \in {"layers", "base", "upstream"}, Answer, revoked' = revoked,
           phase = "layers" => Stack(cfg)[pos] \notin Observers \cup {"SecurityHeaders"}
    PROVE  IInv'
<1>1. /\ phase' = "done" /\ cfg' = cfg /\ pos' = pos /\ token' = token
      /\ secured' = \E i \in 1 .. (pos - 1) : Stack(cfg)[i] = "SecurityHeaders"
  BY DEF Answer, request
<1>2. cfg \in Configs /\ Finalized(cfg)
  BY DEF IInv, Started
<1>3. Len(Stack(cfg)) \in Nat \ {0}
  BY <1>2, StackFacts
<1>4. pos \in 1 .. (Len(Stack(cfg)) + 1)
  BY <1>3 DEF IInv, Placed
<1>5. Started' /\ Placed'
  BY <1>1, <1>2, <1>4 DEF Started, Placed
<1>6. Identified' /\ Authenticated' /\ AuthorizedOnly' /\ IdentityWhereDistinct'
  BY <1>1 DEF Identified, Authenticated, AuthorizedOnly, IdentityWhereDistinct
<1>7. secured' \in BOOLEAN
  BY <1>1
<1>8. Stored'
  BY <1>1, <1>7 DEF IInv, Stored
<1>9. AnswersAreSecured'
  <2>1. SUFFICES ASSUME ~Has(cfg.enabled, "SecurityHeaders")
                 PROVE  secured' \/ (pos = 1 /\ Stack(cfg)[1] = "PathSanitizer")
    BY <1>1 DEF AnswersAreSecured
  <2>2. PICK k : SecuredFrom(Stack(cfg), k)
    BY <1>2, <2>1, StackFacts
  <2>3. CASE k < pos
    <3>1. k \in 1 .. (pos - 1) /\ Stack(cfg)[k] = "SecurityHeaders"
      BY <1>3, <1>4, <2>2, <2>3 DEF SecuredFrom
    <3> QED
      BY <1>1, <3>1
  <2>4. CASE k >= pos
    <3>1. phase = "layers"
      BY <1>3, <2>2, <2>4 DEF IInv, Placed, SecuredFrom
    <3>2. k # pos
      BY <2>2, <3>1 DEF SecuredFrom
    <3>3. pos \in 1 .. (k - 1)
      BY <1>3, <1>4, <2>2, <2>4, <3>2 DEF SecuredFrom
    <3> QED
      BY <2>2, <3>1, <3>3 DEF SecuredFrom
  <2> QED
    BY <1>4, <2>2, <2>3, <2>4 DEF SecuredFrom
<1> QED
  BY <1>5, <1>6, <1>8, <1>9 DEF IInv

(* Role mapping never yields nothing, and only roles of the mapping or guest. *)
LEMMA MappedRoles ==
    ASSUME NEW mapping, NEW oids
    PROVE  /\ MapOids(mapping, oids) # {}
           /\ MapOids(mapping, oids) \in SUBSET ({mapping[o] : o \in DOMAIN mapping} \cup {"guest"})
BY DEF MapOids

(* RouterService::call forwards: what authorizes a request and what identifies
   its client upstream is what came with the connection or the token. *)
LEMMA Forwarding ==
    ASSUME IInv, Forward
    PROVE  IInv'
<1>0. /\ phase = "base" /\ phase' = "upstream" /\ req' = [req EXCEPT !.path = Canonical(@)]
      /\ UNCHANGED <<cfg, pos, roles, token, secured, revoked>>
  BY DEF Forward, AtRouter
<1>1. cfg \in Configs /\ Finalized(cfg) /\ pos = Len(Stack(cfg)) + 1
  BY <1>0 DEF IInv, Started, Placed
<1>2. /\ DOMAIN req = RequestFields /\ Claimed \notin {req.peer, req.cert}
      /\ roles = MapOids(cfg.oidMapping,
                         IF token # Absent THEN Tokens[token].oids ELSE ClientOids(req))
  BY <1>0 DEF IInv, Identified
<1>3. /\ DOMAIN req' = RequestFields /\ req'.path = Canonical(req.path)
      /\ req'.peer = req.peer /\ req'.cert = req.cert
  BY <1>0, <1>2 DEF RequestFields
<1>4. PICK r \in Matched :
        Permitted(r) /\ sent' = Outgoing(r, Canonical(req.path))
  BY DEF Forward
<1>5. Started' /\ Placed'
  BY <1>0, <1>1 DEF Started, Placed
<1>6. Identified'
  BY <1>0, <1>2, <1>3 DEF Identified, ClientOids
<1>7. Authenticated'
  BY <1>0 DEF IInv, Authenticated
<1>8. Stored'
  BY <1>0 DEF IInv, Stored
<1>9. AuthorizedOnly'
  <2>1. ASSUME cfg.authentication = "Jwt"
        PROVE  token # Absent /\ Tokens[token].valid
    <3>1. Has(cfg.enabled, "JwtAuth")
      BY <1>1, <2>1 DEF Finalized, AuthenticationMet
    <3>2. Has(Stack(cfg), "JwtAuth") /\ DOMAIN Stack(cfg) = 1 .. Len(Stack(cfg))
          /\ Len(Stack(cfg)) \in Nat
      BY <1>1, <3>1, StackFacts
    <3>3. PICK i \in 1 .. (pos - 1) : Stack(cfg)[i] = "JwtAuth"
      BY <1>1, <3>2 DEF Has
    <3> QED
      BY <1>0, <3>3 DEF IInv, Authenticated
  <2>2. /\ r \in MatchRoute(cfg.routes, Canonical(req.path))
        /\ EnforceRbac(cfg.rbac, r, roles, Canonical(req.path))
    BY <1>4 DEF Matched, Permitted
  <2> DEFINE oids == IF token # Absent THEN Tokens[token].oids
                     ELSE IF req.cert # Absent THEN req.cert ELSE {}
  <2>3. roles = MapOids(cfg.oidMapping, oids)
    BY <1>2 DEF ClientOids
  <2>4. oids' = oids
    BY <1>0, <1>3
  <2>5. \E q \in MatchRoute(cfg.routes, req.path)' :
          EnforceRbac(cfg.rbac, q, MapOids(cfg.oidMapping, oids), req.path)'
    BY <1>0, <1>3, <2>2, <2>3, <2>4
  <2>6. (cfg.authentication = "Jwt" => token # Absent /\ Tokens[token].valid)'
    BY <1>0, <2>1
  <2> QED
    BY <2>5, <2>6 DEF AuthorizedOnly
<1>10. IdentityWhereDistinct'
  <2>1. SUFFICES ASSUME DistinctNames(cfg)
                 PROVE  IdentityIsVerified'
    BY <1>0 DEF IdentityWhereDistinct
  <2> DEFINE g == Without(Counted(WithHost(req)), NamedHops(WithHost(req)) \cup HopByHop)
             prepared == Vouched(g, cfg, req.peer, req.cert, roles)
             h == Dispatched(r, prepared)
             value == [cert |-> req.cert, roles |-> roles, ip |-> req.peer]
  <2>2. sent'.headers = h
    BY <1>4 DEF Outgoing, PrepareProxyHeaders
  <2> HIDE DEF g
  <2>3. /\ roles # {}
        /\ roles \in SUBSET ({cfg.oidMapping[o] : o \in DOMAIN cfg.oidMapping} \cup {"guest"})
    BY <1>2, MappedRoles
  <2>4. \A n :
          /\ \A k \in DOMAIN cfg.forward :
               Header(h, cfg.forward[k]) = IF Given(cfg, req.cert, k) THEN value[k] ELSE Absent
          /\ n \in {"x-real-ip", "x-forwarded-for"} =>
               Header(h, n) = IF IsUnspecified(req.peer) THEN Absent ELSE req.peer
          /\ Header(h, "x-forwarded-proto") = cfg.protocol
          /\ n \in (IdentityHeaders \cup {"forwarded"}) \ ConfiguredNames(cfg)
               => Header(h, n) = Absent
    <3>0. h = Dispatched(r, prepared)
      OBVIOUS
    <3>1. prepared = Vouched(g, cfg, req.peer, req.cert, roles)
          /\ value = [cert |-> req.cert, roles |-> roles, ip |-> req.peer]
      OBVIOUS
    <3> HIDE DEF h, prepared, value
    <3>2. cfg \in Configs /\ roles # {}
      BY <1>1, <2>3
    <3>3. ASSUME NEW n
          PROVE  /\ \A k \in DOMAIN cfg.forward :
                      Header(prepared, cfg.forward[k])
                        = IF Given(cfg, req.cert, k) THEN value[k] ELSE Absent
                 /\ n \in {"x-real-ip", "x-forwarded-for"} =>
                      Header(prepared, n) = IF IsUnspecified(req.peer) THEN Absent ELSE req.peer
                 /\ Header(prepared, "x-forwarded-proto") = cfg.protocol
                 /\ n \in (IdentityHeaders \cup {"forwarded"}) \ ConfiguredNames(cfg)
                      => Header(prepared, n) = Absent
      BY <2>1, <3>1, <3>2, VouchedHeaders
    <3>4. \A n : n \notin WireNames => Header(h, n) = Header(prepared, n)
      BY <3>0, HeaderDispatched
    <3>5. \A k \in DOMAIN cfg.forward : cfg.forward[k] \notin WireNames
      BY <2>1 DEF DistinctNames, ConfiguredNames
    <3>6. \A n \in IdentityHeaders \cup {"forwarded", "x-real-ip", "x-forwarded-for",
                                         "x-forwarded-proto"} : n \notin WireNames
      BY DEF WireNames, IdentityHeaders
    <3> QED
      BY <3>3, <3>4, <3>5, <3>6
  <2> HIDE DEF h
  <2>5. /\ Claimed \notin {Absent, req.peer, req.cert, roles, cfg.protocol}
    BY <1>1, <1>2, <2>3, ClaimedAssumption
  <2>6. DOMAIN cfg.forward \subseteq {"cert", "roles", "ip"}
    BY <1>1, ConfigsAssumption
  <2>7. ASSUME NEW k \in DOMAIN cfg.forward
        PROVE  Header(h, cfg.forward[k]) = value[k]
    BY <2>4, <2>6 DEF Given
  <2>8. ASSUME NEW n \in ConfiguredNames(cfg)
        PROVE  Header(h, n) # Claimed
    <3>1. PICK k \in DOMAIN cfg.forward : n = cfg.forward[k]
      BY <2>8 DEF ConfiguredNames
    <3> QED
      BY <2>5, <2>6, <2>7, <3>1
  <2>9. ASSUME NEW n \in IdentityHeaders \cup (ForwardingHeaders \ {"x-forwarded-host"}),
               n \notin ConfiguredNames(cfg)
        PROVE  Header(h, n) # Claimed
    BY <2>4, <2>5, <2>9 DEF ForwardingHeaders
  <2>10. \A n \in IdentityHeaders \cup ConfiguredNames(cfg) \cup
                   (ForwardingHeaders \ {"x-forwarded-host"}) : Header(h, n) # Claimed
    BY <2>8, <2>9
  <2>11. \A n \in {"x-real-ip", "x-forwarded-for"} :
           Header(h, n) = IF IsUnspecified(req.peer) THEN Absent ELSE req.peer
    BY <2>4
  <2> HIDE DEF value
  <2>12. value' = value
    BY <1>0, <1>3 DEF value
  <2> QED
    BY <1>0, <1>3, <2>2, <2>7, <2>10, <2>11, <2>12 DEF IdentityIsVerified, value
<1>11. AnswersAreSecured'
  BY <1>0 DEF AnswersAreSecured
<1> QED
  BY <1>5, <1>6, <1>7, <1>8, <1>9, <1>10, <1>11 DEF IInv

(* The layers that leave the request as it is: the observers, the limiters,
   the filters. *)
LEMMA Untouched ==
    ASSUME IInv, phase = "layers", Stack(cfg)[pos] # "JwtAuth",
           PassOn, UNCHANGED <<req, roles, token, revoked>>
    PROVE  IInv'
<1>1. DOMAIN req = RequestFields
  BY DEF IInv, Identified
<1>2. revoked' \subseteq {Tokens[t].jti : t \in DOMAIN Tokens}
  BY DEF IInv, Stored
<1>3. Handed
  BY <1>1, <1>2 DEF Handed
<1> QED
  BY <1>3, PassingOn

(* The layers that rewrite the headers or the path: TraceId, Decompression, PathSanitizer. *)
LEMMA Rewritten ==
    ASSUME IInv, phase = "layers", Stack(cfg)[pos] # "JwtAuth",
           NEW f \in {"headers", "path"}, NEW x, req' = [req EXCEPT ![f] = x],
           PassOn, UNCHANGED <<roles, token, revoked>>
    PROVE  IInv'
<1>1. DOMAIN req = RequestFields
  BY DEF IInv, Identified
<1>2. revoked' \subseteq {Tokens[t].jti : t \in DOMAIN Tokens}
  BY DEF IInv, Stored
<1>3. DOMAIN req' = RequestFields /\ req'.peer = req.peer /\ req'.cert = req.cert
  BY <1>1 DEF RequestFields
<1>4. Handed
  BY <1>2, <1>3 DEF Handed
<1> QED
  BY <1>4, PassingOn

(* Every layer keeps the invariant. *)
LEMMA LayerStep ==
    ASSUME IInv, Layer
    PROVE  IInv'
<1>o. ASSUME NEW l, l # "JwtAuth", Observe(l)
      PROVE  IInv'
  BY <1>o, Untouched DEF Observe, At
<1>m. ASSUME NEW l, l \notin Observers \cup {"SecurityHeaders", "JwtAuth"}, MayAnswer(l)
      PROVE  IInv'
  <2>1. phase = "layers" /\ Stack(cfg)[pos] = l /\ revoked' = revoked
    BY <1>m DEF MayAnswer, At
  <2>2. CASE PassOn /\ UNCHANGED <<req, roles, token>>
    BY <1>m, <2>1, <2>2, Untouched
  <2>3. CASE Answer
    BY <1>m, <2>1, <2>3, Answering
  <2> QED
    BY <1>m, <2>2, <2>3 DEF MayAnswer
<1>d. ASSUME NEW l, l \notin Observers \cup {"SecurityHeaders", "JwtAuth"},
             phase = "layers", Stack(cfg)[pos] = l, revoked' = revoked,
             (PassOn /\ UNCHANGED <<req, roles, token>>) \/ Answer
      PROVE  IInv'
  <2>1. CASE PassOn /\ UNCHANGED <<req, roles, token>>
    BY <1>d, <2>1, Untouched
  <2>2. CASE Answer
    BY <1>d, <2>2, Answering
  <2> QED
    BY <1>d, <2>1, <2>2
<1>1. CASE Log \/ Time \/ Count \/ Delay \/ Compress \/ AdvertiseH3 \/ SecureHeaders
  BY <1>1, <1>o DEF Log, Time, Count, Delay, Compress, AdvertiseH3, SecureHeaders
<1>2. CASE LimitPayload \/ LimitConcurrency \/ LimitSimple \/ LimitTokenBucket
  BY <1>2, <1>m DEF LimitPayload, LimitConcurrency, LimitSimple, LimitTokenBucket, Observers
<1>3. CASE AnswerPreflight
  <2>1. /\ phase = "layers" /\ Stack(cfg)[pos] = "Cors" /\ revoked' = revoked
        /\ (PassOn /\ UNCHANGED <<req, roles, token>>) \/ Answer
    BY <1>3 DEF AnswerPreflight, At
  <2> QED
    BY <1>d, <2>1 DEF Observers
<1>4. CASE FilterAddress
  <2>1. /\ phase = "layers" /\ Stack(cfg)[pos] = "IpFilter" /\ revoked' = revoked
        /\ (PassOn /\ UNCHANGED <<req, roles, token>>) \/ Answer
    BY <1>4 DEF FilterAddress, At
  <2> QED
    BY <1>d, <2>1 DEF Observers
<1>5. CASE Inspect
  <2>1. /\ phase = "layers" /\ Stack(cfg)[pos] = "Inspection" /\ revoked' = revoked
        /\ (PassOn /\ UNCHANGED <<req, roles, token>>) \/ Answer
    BY <1>5 DEF Inspect, At
  <2> QED
    BY <1>d, <2>1 DEF Observers
<1>6. CASE TraceId
  <2>1. /\ phase = "layers" /\ Stack(cfg)[pos] = "TraceId" /\ PassOn
        /\ UNCHANGED <<roles, token, revoked>>
        /\ \E x : req' = [req EXCEPT !["headers"] = x]
    BY <1>6 DEF TraceId, At
  <2> QED
    BY <2>1, Rewritten
<1>7. CASE Decompress
  <2>1. /\ phase = "layers" /\ Stack(cfg)[pos] = "Decompression" /\ PassOn
        /\ UNCHANGED <<roles, token, revoked>>
        /\ req' = req \/ \E x : req' = [req EXCEPT !["headers"] = x]
    BY <1>7 DEF Decompress, At
  <2> QED
    BY <2>1, Rewritten, Untouched
<1>8. CASE SanitizePath
  <2>1. phase = "layers" /\ Stack(cfg)[pos] = "PathSanitizer" /\ revoked' = revoked
    BY <1>8 DEF SanitizePath, At
  <2>2. CASE Answer
    BY <2>1, <2>2, Answering DEF Observers
  <2>3. CASE /\ req' = [req EXCEPT !.path = Canonical(@)]
             /\ PassOn /\ UNCHANGED <<roles, token>>
    <3>1. \E x : req' = [req EXCEPT !["path"] = x]
      BY <2>3
    <3> QED
      BY <2>1, <2>3, <3>1, Rewritten
  <2> QED
    BY <1>8, <2>2, <2>3 DEF SanitizePath
<1>9. CASE CheckToken
  <2> DEFINE t == Bearer(req.headers)
  <2>1. phase = "layers" /\ Stack(cfg)[pos] = "JwtAuth"
    BY <1>9 DEF CheckToken, At
  <2>2. CASE Answer /\ UNCHANGED revoked
    BY <2>1, <2>2, Answering DEF Observers
  <2>3. CASE /\ Accepted(t) /\ token' = t
             /\ roles' = MapOids(cfg.oidMapping, Tokens[t].oids)
             /\ revoked' = IF req.path \in cfg.revokeOn THEN Revoke(t) ELSE revoked
             /\ PassOn /\ UNCHANGED req
    <3>1. t \in DOMAIN Tokens /\ Tokens[t].valid
      BY <2>3 DEF Accepted
    <3> HIDE DEF t
    <3>2. revoked' \subseteq {Tokens[u].jti : u \in DOMAIN Tokens}
      BY <2>3, <3>1 DEF IInv, Stored, Revoke
    <3>3. DOMAIN req = RequestFields
      BY <2>1 DEF IInv, Identified
    <3>4. Handed
      BY <2>3, <3>1, <3>2, <3>3 DEF Handed
    <3> QED
      BY <2>1, <2>3, <3>4, PassingOn
  <2> QED
    BY <1>9, <2>2, <2>3 DEF CheckToken
<1> QED
  BY <1>1, <1>2, <1>3, <1>4, <1>5, <1>6, <1>7, <1>8, <1>9 DEF Layer

(* Before the configuration is read nothing is promised. *)
LEMMA InitInv == Init => IInv
BY DEF Init, IInv, Started, Placed, Identified, Authenticated, Stored,
       AuthorizedOnly, IdentityWhereDistinct, AnswersAreSecured

(* Every step of the server keeps the invariant. *)
LEMMA NextInv == IInv /\ [Next]_vars => IInv'
<1> SUFFICES ASSUME IInv, [Next]_vars
             PROVE  IInv'
  OBVIOUS
<1>1. ASSUME NEW c \in Configs, Load(c)
      PROVE  IInv'
  <2>1. /\ phase = "start" /\ cfg' = c /\ phase' = IF Finalized(c) /\ Buildable(c) THEN "idle" ELSE "exited"
        /\ UNCHANGED <<pos, req, roles, token, sent, secured, revoked>>
    BY <1>1 DEF Load, request
  <2> QED
    BY <2>1 DEF IInv, Started, Placed, Identified, Authenticated, Stored,
                AuthorizedOnly, IdentityWhereDistinct, AnswersAreSecured
<1>2. ASSUME NEW r \in Requests, Receive(r) \/ ReceiveH3(r)
      PROVE  IInv'
  <2>1. phase = "idle" /\ Enter(r)
    BY <1>2 DEF Receive, ReceiveH3
  <2>2. DOMAIN r = RequestFields /\ Claimed \notin {r.peer, r.cert}
    BY RequestsAssumption, ClaimedAssumption DEF RequestFields
  <2> QED
    BY <2>1, <2>2, Entering
<1>3. CASE Layer
  BY <1>3, LayerStep
<1>4. CASE Base
  <2>1. CASE Forward
    BY <2>1, Forwarding
  <2>2. CASE phase = "base" /\ Answer /\ UNCHANGED revoked
    BY <2>2, Answering
  <2> QED
    BY <1>4, <2>1, <2>2
       DEF Base, ServeEcho, ServeAdmin, ServeStaticFiles, ServeIdp, Serve, RouterAnswers, AtRouter
<1>5. CASE UpstreamAnswers
  BY <1>5, Answering DEF UpstreamAnswers
<1>6. CASE LoopBack
  <2> DEFINE back == [req EXCEPT !.path = sent.path, !.query = sent.query,
                                 !.headers = sent.headers, !.peer = Own, !.cert = Absent]
  <2>1. phase = "upstream" /\ Enter(back)
    BY <1>6 DEF LoopBack
  <2>2. DOMAIN req = RequestFields
    BY <2>1 DEF IInv, Identified
  <2>3. DOMAIN back = RequestFields /\ back.peer = Own /\ back.cert = Absent
    BY <2>2 DEF RequestFields
  <2> HIDE DEF back
  <2>4. Claimed \notin {back.peer, back.cert}
    BY <2>3, ClaimedAssumption
  <2> QED
    BY <2>1, <2>3, <2>4, Entering
<1>7. CASE Deliver
  <2>1. /\ phase = "done" /\ phase' = "idle" /\ pos' = 0 /\ token' = Absent
        /\ secured' = FALSE /\ cfg' = cfg /\ revoked' = revoked
    BY <1>7 DEF Deliver
  <2> QED
    BY <2>1 DEF IInv, Started, Placed, Identified, Authenticated, Stored,
                AuthorizedOnly, IdentityWhereDistinct, AnswersAreSecured
<1>8. CASE UNCHANGED vars
  BY <1>8 DEF vars, IInv, Started, Placed, Identified, Authenticated, Stored, ClientOids,
              AuthorizedOnly, IdentityWhereDistinct, IdentityIsVerified, AnswersAreSecured
<1> QED
  BY <1>1, <1>2, <1>3, <1>4, <1>5, <1>6, <1>7, <1>8 DEF Next, Upstream, Finished

----------------------------------------------------------------------------
(* What the layers saw of a request's path, and what becomes of it *)

(* A path is a sequence of segments, all the way round a loop. *)
Pathlike ==
    /\ phase \in {"layers", "base"} => \E X : req.path \in Seq(X)
    /\ phase = "upstream" => \E X : sent.path \in Seq(X)

(* Behind a PathSanitizer a path is canonical. *)
Sanitized ==
    phase \in {"layers", "base"} =>
      \A i \in 1 .. (pos - 1) :
        Stack(cfg)[i] = "PathSanitizer" => Canonical(req.path) = req.path

(* Behind an Inspection layer the allow list holds for what the path stands
   for, however it is spelt. *)
Allowed ==
    phase \in {"layers", "base"} =>
      \A i \in 1 .. (pos - 1) :
        Stack(cfg)[i] = "Inspection"
          => IsAllowed(cfg.rules, req.method, Canonical(req.path), req.query)

(* A token that was accepted for a logout path is revoked if the store could
   take it, and the path it was accepted for is the one that is forwarded. *)
LoggedOut ==
    phase \in {"layers", "base"} /\ token # Absent /\ SanitizerFirst(cfg) =>
      /\ Canonical(req.path) = req.path
      /\ req.path \in cfg.revokeOn => Withdrawn(token)

(* The base paths of the upstreams are such as sanitize_and_normalize_path
   leaves alone.  They come from the configuration, which does not check it. *)
CanonicalBases(c) == \A r \in c.routes : ~Rejected(r.base) /\ Canonical(r.base) = r.base

CanonicalWhereBases == phase = "upstream" /\ CanonicalBases(cfg) => UpstreamPathIsCanonical

PathInv ==
    /\ Pathlike /\ Sanitized /\ Allowed /\ LoggedOut
    /\ InspectedAsForwarded /\ LogoutRevokes /\ CanonicalWhereBases

(* A request that enters has passed no layer. *)
LEMMA PathEntering ==
    ASSUME NEW r, NEW X, r.path \in Seq(X), Enter(r)
    PROVE  PathInv'
<1>1. req' = r /\ pos' = 1 /\ phase' = "layers" /\ token' = Absent
  BY DEF Enter
<1> QED
  BY <1>1 DEF PathInv, Pathlike, Sanitized, Allowed, LoggedOut,
         InspectedAsForwarded, LogoutRevokes, CanonicalWhereBases

(* A request that is not on its way has no path. *)
LEMMA PathAtRest ==
    ASSUME phase' \notin {"layers", "base", "upstream"}
    PROVE  PathInv'
BY DEF PathInv, Pathlike, Sanitized, Allowed, LoggedOut,
         InspectedAsForwarded, LogoutRevokes, CanonicalWhereBases

(* What a layer may do to what the decisions were taken on: leave it alone, or
   make the path canonical. *)
PathHanded ==
    /\ req'.method = req.method /\ req'.query = req.query
    /\ req'.path \in {req.path, Canonical(req.path)}
    /\ Stack(cfg)[pos] = "PathSanitizer" => req'.path = Canonical(req.path)
    /\ Stack(cfg)[pos] = "Inspection"
         => IsAllowed(cfg.rules, req.method, Canonical(req.path), req.query)
    /\ \/ token' = token /\ revoked' = revoked
       \/ /\ Stack(cfg)[pos] = "JwtAuth" /\ req'.path = req.path
          /\ req.path \in cfg.revokeOn => Withdrawn(token)'

(* Such a layer keeps what is known of the path. *)
LEMMA PathPassingOn ==
    ASSUME IInv, PathInv, phase = "layers", PassOn, PathHanded
    PROVE  PathInv'
<1>1. /\ pos' = pos + 1 /\ cfg' = cfg
      /\ phase' = IF pos = Len(Stack(cfg)) THEN "base" ELSE "layers"
  BY DEF PassOn
<1>2. cfg \in Configs /\ pos \in 1 .. Len(Stack(cfg))
  BY DEF IInv, Started, Placed
<1>3. Len(Stack(cfg)) \in Nat \ {0}
  BY <1>2, StackFacts
<1>4. PICK X : req.path \in Seq(X)
  BY DEF PathInv, Pathlike
<1>5. /\ Canonical(Canonical(req.path)) = Canonical(req.path)
      /\ \E Y : Canonical(req.path) \in Seq(Y)
  BY <1>4, CanonicalOnce
<1>6. Canonical(req'.path) = Canonical(req.path)
  BY <1>5 DEF PathHanded
<1>7. \A i \in 1 .. (pos' - 1) : i \in 1 .. (pos - 1) \/ i = pos
  BY <1>1, <1>2, <1>3
<1>8. Pathlike'
  BY <1>1, <1>4, <1>5 DEF Pathlike, PathHanded
<1>9. Sanitized'
  <2>1. SUFFICES ASSUME NEW i \in 1 .. (pos' - 1), Stack(cfg)[i] = "PathSanitizer"
                 PROVE  Canonical(req'.path) = req'.path
    BY <1>1 DEF Sanitized
  <2>2. CASE i \in 1 .. (pos - 1)
    <3>1. Canonical(req.path) = req.path
      BY <2>1, <2>2 DEF PathInv, Sanitized
    <3> QED
      BY <1>6, <3>1 DEF PathHanded
  <2>3. CASE i = pos
    BY <1>6, <2>1, <2>3 DEF PathHanded
  <2> QED
    BY <1>7, <2>2, <2>3
<1>10. Allowed'
  <2>1. SUFFICES ASSUME NEW i \in 1 .. (pos' - 1), Stack(cfg)[i] = "Inspection"
                 PROVE  IsAllowed(cfg.rules, req'.method, Canonical(req'.path), req'.query)
    BY <1>1 DEF Allowed
  <2>2. IsAllowed(cfg.rules, req.method, Canonical(req.path), req.query)
    <3>1. CASE i \in 1 .. (pos - 1)
      BY <2>1, <3>1 DEF PathInv, Allowed
    <3>2. CASE i = pos
      BY <2>1, <3>2 DEF PathHanded
    <3> QED
      BY <1>7, <3>1, <3>2
  <2> QED
    BY <1>6, <2>2 DEF PathHanded
<1>11. LoggedOut'
  <2>1. SUFFICES ASSUME token' # Absent, SanitizerFirst(cfg)
                 PROVE  /\ Canonical(req'.path) = req'.path
                        /\ req'.path \in cfg.revokeOn => Withdrawn(token)'
    BY <1>1 DEF LoggedOut
  <2>2. CASE token' = token /\ revoked' = revoked
    <3>1. /\ Canonical(req.path) = req.path
          /\ req.path \in cfg.revokeOn => Withdrawn(token)
      BY <2>1, <2>2 DEF PathInv, LoggedOut
    <3>2. Withdrawn(token) => Withdrawn(token)'
      BY <2>2 DEF Withdrawn, StoreFull
    <3> QED
      BY <3>1, <3>2 DEF PathHanded
  <2>3. CASE /\ Stack(cfg)[pos] = "JwtAuth" /\ req'.path = req.path
             /\ req.path \in cfg.revokeOn => Withdrawn(token)'
    <3>1. PICK i \in 1 .. (pos - 1) : Stack(cfg)[i] = "PathSanitizer"
      BY <1>2, <2>1, <2>3, SanitizerBefore
    <3>2. Canonical(req.path) = req.path
      BY <3>1 DEF PathInv, Sanitized
    <3> QED
      BY <2>3, <3>2
  <2> QED
    BY <2>2, <2>3 DEF PathHanded
<1>12. InspectedAsForwarded' /\ LogoutRevokes' /\ CanonicalWhereBases'
  BY <1>1 DEF InspectedAsForwarded, LogoutRevokes, CanonicalWhereBases
<1> QED
  BY <1>8, <1>9, <1>10, <1>11, <1>12 DEF PathInv

(* Every layer keeps what is known of the path: only PathSanitizer changes it,
   only JwtAuth brings a token. *)
LEMMA PathLayers ==
    ASSUME IInv, PathInv, Layer
    PROVE  PathInv'
<1>0. phase = "layers"
  BY DEF Layer, Log, Time, Count, Delay, Compress, AdvertiseH3, SecureHeaders, Observe,
         LimitPayload, LimitConcurrency, LimitSimple, LimitTokenBucket, MayAnswer,
         AnswerPreflight, TraceId, Decompress, SanitizePath, FilterAddress, Inspect, CheckToken, At
<1>1. DOMAIN req = RequestFields
  BY <1>0 DEF IInv, Identified
<1>a. ASSUME Answer
      PROVE  PathInv'
  BY <1>a, PathAtRest DEF Answer
<1>u. ASSUME Stack(cfg)[pos] \notin {"PathSanitizer", "Inspection"},
             PassOn /\ UNCHANGED <<req, token, revoked>>
      PROVE  PathInv'
  <2>1. PathHanded
    BY <1>u DEF PathHanded
  <2> QED
    BY <1>0, <1>u, <2>1, PathPassingOn
<1>o. ASSUME NEW l, l \notin {"PathSanitizer", "Inspection"}, Observe(l)
      PROVE  PathInv'
  BY <1>o, <1>u DEF Observe, At
<1>m. ASSUME NEW l, l \notin {"PathSanitizer", "Inspection"}, MayAnswer(l)
      PROVE  PathInv'
  BY <1>a, <1>m, <1>u DEF MayAnswer, At
<1>h. ASSUME Stack(cfg)[pos] \notin {"PathSanitizer", "Inspection"},
             NEW x, req' = [req EXCEPT !["headers"] = x], PassOn /\ UNCHANGED <<token, revoked>>
      PROVE  PathInv'
  <2>1. req'.method = req.method /\ req'.query = req.query /\ req'.path = req.path
    BY <1>1, <1>h DEF RequestFields
  <2>2. PathHanded
    BY <1>h, <2>1 DEF PathHanded
  <2> QED
    BY <1>0, <1>h, <2>2, PathPassingOn
<1>2. CASE Log \/ Time \/ Count \/ Delay \/ Compress \/ AdvertiseH3 \/ SecureHeaders
  BY <1>2, <1>o DEF Log, Time, Count, Delay, Compress, AdvertiseH3, SecureHeaders
<1>3. CASE LimitPayload \/ LimitConcurrency \/ LimitSimple \/ LimitTokenBucket
  BY <1>3, <1>m DEF LimitPayload, LimitConcurrency, LimitSimple, LimitTokenBucket
<1>4. CASE AnswerPreflight
  BY <1>4, <1>a, <1>u DEF AnswerPreflight, At
<1>5. CASE FilterAddress
  BY <1>5, <1>a, <1>u DEF FilterAddress, At
<1>6. CASE TraceId
  <2>1. /\ Stack(cfg)[pos] = "TraceId" /\ PassOn /\ UNCHANGED <<token, revoked>>
        /\ \E x : req' = [req EXCEPT !["headers"] = x]
    BY <1>6 DEF TraceId, At
  <2> QED
    BY <1>h, <2>1
<1>7. CASE Decompress
  <2>1. /\ Stack(cfg)[pos] = "Decompression" /\ PassOn /\ UNCHANGED <<token, revoked>>
        /\ req' = req \/ \E x : req' = [req EXCEPT !["headers"] = x]
    BY <1>7 DEF Decompress, At
  <2> QED
    BY <1>h, <1>u, <2>1
<1>8. CASE SanitizePath
  <2>1. Stack(cfg)[pos] = "PathSanitizer" /\ revoked' = revoked
    BY <1>8 DEF SanitizePath, At
  <2>2. CASE /\ req' = [req EXCEPT !.path = Canonical(@)]
             /\ PassOn /\ UNCHANGED <<roles, token>>
    <3>1. /\ req'.method = req.method /\ req'.query = req.query
          /\ req'.path = Canonical(req.path)
      BY <1>1, <2>2 DEF RequestFields
    <3>2. PathHanded
      BY <2>1, <2>2, <3>1 DEF PathHanded
    <3> QED
      BY <1>0, <2>2, <3>2, PathPassingOn
  <2> QED
    BY <1>8, <1>a, <2>2 DEF SanitizePath
<1>9. CASE Inspect
  <2>1. Stack(cfg)[pos] = "Inspection" /\ revoked' = revoked
    BY <1>9 DEF Inspect, At
  <2>2. CASE /\ IsAllowed(cfg.rules, req.method, Canonical(req.path), req.query)
             /\ PassOn /\ UNCHANGED <<req, roles, token>>
    <3>1. PathHanded
      BY <2>1, <2>2 DEF PathHanded
    <3> QED
      BY <1>0, <2>2, <3>1, PathPassingOn
  <2> QED
    BY <1>9, <1>a, <2>2 DEF Inspect
<1>10. CASE CheckToken
  <2> DEFINE t == Bearer(req.headers)
  <2>1. Stack(cfg)[pos] = "JwtAuth"
    BY <1>10 DEF CheckToken, At
  <2>2. CASE /\ token' = t
             /\ revoked' = IF req.path \in cfg.revokeOn THEN Revoke(t) ELSE revoked
             /\ PassOn /\ UNCHANGED req
    <3> HIDE DEF t
    <3>1. ASSUME req.path \in cfg.revokeOn
          PROVE  Withdrawn(token)'
      <4>1. revoked' = Revoke(t) /\ token' = t
        BY <2>2, <3>1
      <4>2. CASE revoked' = revoked \cup {Tokens[t].jti}
        BY <4>1, <4>2 DEF Withdrawn
      <4>3. CASE revoked' = revoked /\ (Tokens[t].jti = Absent \/ Tokens[t].long \/ StoreFull)
        BY <4>1, <4>3 DEF Withdrawn, StoreFull
      <4> QED
        BY <4>1, <4>2, <4>3 DEF Revoke
    <3>2. PathHanded
      BY <2>1, <2>2, <3>1 DEF PathHanded
    <3> QED
      BY <1>0, <2>2, <3>2, PathPassingOn
  <2> QED
    BY <1>10, <1>a, <2>2 DEF CheckToken
<1> QED
  BY <1>2, <1>3, <1>4, <1>5, <1>6, <1>7, <1>8, <1>9, <1>10 DEF Layer

(* trim_end_matches leaves the first segment at least, and what it cuts off is
   empty. *)
LEMMA TrimmedFacts ==
    ASSUME NEW X, NEW b \in Seq(X), b # <<>>
    PROVE  \E n \in 1 .. Len(b) : /\ Trimmed(b) = SubSeq(b, 1, n)
                                  /\ n = 1 \/ b[n] # <<>>
                                  /\ \A i \in (n + 1) .. Len(b) : b[i] = <<>>
<1> DEFINE P(n) == /\ n = 1 \/ b[n] # <<>>
                   /\ \A i \in (n + 1) .. Len(b) : b[i] = <<>>
           cuts == {n \in 1 .. Len(b) : \A i \in (n + 1) .. Len(b) : b[i] = <<>>}
<1>0. Len(b) \in Nat \ {0} /\ DOMAIN b = 1 .. Len(b)
  BY EmptySeq
<1>1. cuts # {} /\ cuts \in SUBSET Nat
  <2>1. Len(b) \in cuts
    BY <1>0
  <2> QED
    BY <1>0, <2>1
<1>2. PICK m \in cuts : \A x \in cuts : m <= x
  BY <1>1, LeastElement
<1>3. m \in DOMAIN b /\ P(m)
  <2>1. m \in 1 .. Len(b) /\ \A i \in (m + 1) .. Len(b) : b[i] = <<>>
    BY <1>2
  <2>2. ASSUME m # 1, b[m] = <<>>
        PROVE  FALSE
    <3>1. m - 1 \in 1 .. Len(b) /\ ~(m <= m - 1)
      BY <1>0, <2>1, <2>2
    <3>2. \A i \in ((m - 1) + 1) .. Len(b) : i = m \/ i \in (m + 1) .. Len(b)
      BY <1>0, <2>1
    <3>3. m - 1 \in cuts
      BY <2>1, <2>2, <3>1, <3>2
    <3> QED
      BY <1>2, <3>1, <3>3
  <2> QED
    BY <1>0, <2>1, <2>2
<1> DEFINE last == CHOOSE n \in DOMAIN b : P(n)
<1>4. last \in DOMAIN b /\ P(last)
  BY <1>3
<1>5. Trimmed(b) = SubSeq(b, 1, last)
  BY DEF Trimmed
<1> QED
  BY <1>0, <1>4, <1>5

(* What is in front of a route's wildcard is a path, and not empty. *)
LEMMA WildcardBaseFacts ==
    ASSUME NEW X, NEW s \in Seq(X), s # <<>>
    PROVE  WildcardBase(s) \in Seq(X) /\ Len(WildcardBase(s)) \in Nat \ {0}
<1>1. Len(s) \in Nat \ {0}
  BY EmptySeq
<1>2. Len(s) > 1 => Front(s) \in Seq(X) /\ Len(Front(s)) = Len(s) - 1
  BY <1>1 DEF Front
<1> QED
  BY <1>1, <1>2 DEF WildcardBase

(* What build_upstream_uri makes of the base path and of what the route left
   of the request's path. *)
LEMMA UpstreamPathMade ==
    ASSUME NEW c \in Configs, NEW X, NEW p \in Seq(X), NEW r \in MatchRoute(c.routes, p)
    PROVE  \E n \in 1 .. Len(r.base), k \in 1 .. Len(p) :
             /\ n = 1 \/ r.base[n] # <<>>
             /\ Trimmed(r.base) = SubSeq(r.base, 1, n)
             /\ \/ k < Len(p) /\ UpstreamPath(r, p) = SubSeq(r.base, 1, n) \o SubSeq(p, k + 1, Len(p))
                \/ SubSeq(r.base, 1, n) = EmptyPath /\ UpstreamPath(r, p) = RootPath
                \/ SubSeq(r.base, 1, n) # EmptyPath /\ UpstreamPath(r, p) = SubSeq(r.base, 1, n)
<1>1. r \in c.routes /\ RouteMatches(r, p)
  BY DEF MatchRoute, Longest
<1>2. r.path \in Seq(Seq(STRING)) /\ r.path # <<>> /\ r.base \in Seq(Seq(STRING)) /\ r.base # <<>>
  BY <1>1, ConfigsAssumption DEF Paths
<1>3. PICK n \in 1 .. Len(r.base) : /\ Trimmed(r.base) = SubSeq(r.base, 1, n)
                                    /\ n = 1 \/ r.base[n] # <<>>
  BY <1>2, TrimmedFacts
<1> DEFINE base == WildcardBase(r.path)
           root == SubSeq(r.base, 1, n)
<1>4. base \in Seq(Seq(STRING)) /\ Len(base) \in Nat \ {0}
  BY <1>2, WildcardBaseFacts
<1>5. CASE p # r.path
  <2>1. Len(p) > Len(base)
    BY <1>1, <1>5 DEF RouteMatches
  <2>2. UpstreamPath(r, p) = root \o SubSeq(p, Len(base) + 1, Len(p))
    BY <1>3, <1>5 DEF UpstreamPath
  <2>3. Len(p) \in Nat
    OBVIOUS
  <2> HIDE DEF base, root
  <2>4. Len(base) \in 1 .. Len(p) /\ Len(base) < Len(p)
    BY <1>4, <2>1, <2>3
  <2> QED
    BY <1>3, <2>2, <2>4 DEF root
<1>6. CASE p = r.path
  <2>1. \/ root = EmptyPath /\ UpstreamPath(r, p) = RootPath
        \/ root # EmptyPath /\ UpstreamPath(r, p) = root
    BY <1>3, <1>6 DEF UpstreamPath
  <2>2. 1 \in 1 .. Len(p)
    BY <1>2, <1>6, EmptySeq
  <2> QED
    BY <1>3, <2>1, <2>2
<1> QED
  BY <1>5, <1>6

(* The path that build_upstream_uri makes is one. *)
LEMMA UpstreamPathlike ==
    ASSUME NEW c \in Configs, NEW X, NEW p \in Seq(X), NEW r \in MatchRoute(c.routes, p)
    PROVE  \E Y : UpstreamPath(r, p) \in Seq(Y)
<1> DEFINE Y == Seq(STRING) \cup X \cup {<<>>}
<1>1. r.base \in Seq(Y) /\ p \in Seq(Y) /\ <<>> \in Y
  <2>1. r \in c.routes
    BY DEF MatchRoute, Longest
  <2>2. r.base \in Seq(Seq(STRING))
    BY <2>1, ConfigsAssumption DEF Paths
  <2> QED
    BY <2>2, LargerSet
<1> HIDE DEF Y
<1>2. PICK n \in 1 .. Len(r.base), k \in 1 .. Len(p) :
        \/ k < Len(p) /\ UpstreamPath(r, p) = SubSeq(r.base, 1, n) \o SubSeq(p, k + 1, Len(p))
        \/ UpstreamPath(r, p) = RootPath
        \/ UpstreamPath(r, p) = SubSeq(r.base, 1, n)
  BY UpstreamPathMade
<1>3. SubSeq(r.base, 1, n) \in Seq(Y) /\ (k < Len(p) => SubSeq(p, k + 1, Len(p)) \in Seq(Y))
  BY <1>1
<1>4. RootPath \in Seq(Y)
  BY <1>1 DEF RootPath
<1>5. \A a, b \in Seq(Y) : a \o b \in Seq(Y)
  OBVIOUS
<1> QED
  BY <1>2, <1>3, <1>4, <1>5

(* What sanitize_and_normalize_path refuses in a segment. *)
Faulty(s) ==
    \/ \E n \in NullBytes \cup Backslashes \cup {<<"%2f">>} \cup DoubleEscapes \cup {<<"%">>} :
         \E j \in 0 .. (Len(s) - Len(n)) : SubSeq(s, j + 1, j + Len(n)) = n
    \/ NormalizeSegment(s) = <<".", ".">>

(* It refuses a path for its beginning or for one of its segments. *)
LEMMA RejectedSegments ==
    ASSUME NEW p
    PROVE  Rejected(p) <=> p # EmptyPath /\ (p[1] # <<>> \/ \E i \in DOMAIN p : Faulty(p[i]))
<1> DEFINE In(s, n) == \E j \in 0 .. (Len(s) - Len(n)) : SubSeq(s, j + 1, j + Len(n)) = n
<1>1. \A n : Occurs(p, n) <=> \E i \in DOMAIN p : In(p[i], n)
  BY Zenon DEF Occurs
<1>2. \A s : Faulty(s) <=>
        \/ \E n \in NullBytes \cup Backslashes \cup {<<"%2f">>} \cup DoubleEscapes \cup {<<"%">>} :
             In(s, n)
        \/ NormalizeSegment(s) = <<".", ".">>
  BY Zenon DEF Faulty
<1> HIDE DEF In
<1> QED
  BY <1>1, <1>2, Zenon DEF Rejected, OccursAny, Traverses

(* A path is one that build_upstream_uri may start with: sound, and canonical. *)
Clean(p) == Shaped(p) /\ ~Rejected(p)

(* The segments of such a path. *)
LEMMA CleanSegments ==
    ASSUME NEW X, NEW p \in Seq(X), Clean(p)
    PROVE  \A i \in 1 .. Len(p) : ~Faulty(p[i])
<1>1. Len(p) >= 2 /\ DOMAIN p = 1 .. Len(p)
  BY DEF Clean, Shaped
<1>2. p # EmptyPath
  BY <1>1 DEF EmptyPath
<1> QED
  BY <1>1, <1>2, RejectedSegments DEF Clean

(* What is put together from a base path and the rest of a path, both clean, is
   clean, and below the base path. *)
LEMMA CleanJoined ==
    ASSUME NEW Y, NEW b \in Seq(Y), Clean(b), NEW p \in Seq(Y), Clean(p),
           NEW n \in 1 .. Len(b), n = 1 \/ b[n] # <<>>,
           NEW k \in 1 .. Len(p), k < Len(p),
           NEW u, u = SubSeq(b, 1, n) \o SubSeq(p, k + 1, Len(p))
    PROVE  Clean(u) /\ u \in Seq(Y) /\ IsPrefix(SubSeq(b, 1, n), u)
<1> DEFINE root == SubSeq(b, 1, n)
           rest == SubSeq(p, k + 1, Len(p))
<1>0. Len(b) \in Nat /\ Len(p) \in Nat
  <2>1. \A s \in Seq(Y) : Len(s) \in Nat
    OBVIOUS
  <2> QED
    BY <2>1, Zenon
<1>1. root \in Seq(Y) /\ Len(root) = n /\ \A i \in 1 .. n : root[i] = b[i]
  BY <1>0
<1>2. rest \in Seq(Y) /\ Len(rest) = Len(p) - k /\ \A i \in 1 .. (Len(p) - k) : rest[i] = p[k + i]
  BY <1>0
<1>3. u = root \o rest
  OBVIOUS
<1> HIDE DEF root, rest
<1>4. /\ u \in Seq(Y) /\ Len(u) = Len(root) + Len(rest)
      /\ \A i \in 1 .. Len(root) : u[i] = root[i]
      /\ \A i \in 1 .. Len(rest) : u[Len(root) + i] = rest[i]
  <2>1. \A v, w \in Seq(Y) :
          /\ (v \o w) \in Seq(Y) /\ Len(v \o w) = Len(v) + Len(w)
          /\ \A j \in 1 .. Len(v) : (v \o w)[j] = v[j]
          /\ \A j \in 1 .. Len(w) : (v \o w)[Len(v) + j] = w[j]
    BY Joined
  <2>2. /\ (root \o rest) \in Seq(Y) /\ Len(root \o rest) = Len(root) + Len(rest)
        /\ \A i \in 1 .. Len(root) : (root \o rest)[i] = root[i]
        /\ \A i \in 1 .. Len(rest) : (root \o rest)[Len(root) + i] = rest[i]
    <3>1. root \in Seq(Y) /\ rest \in Seq(Y)
      BY <1>1, <1>2
    <3> QED
      BY <2>1, <3>1, Zenon
  <2> QED
    BY <1>3, <2>2
<1>5. Len(u) = n + (Len(p) - k) /\ Len(u) >= 2 /\ DOMAIN u = 1 .. Len(u)
  BY <1>0, <1>1, <1>2, <1>4
<1>6. ASSUME NEW i \in 1 .. Len(u)
      PROVE  \/ i \in 1 .. n /\ u[i] = b[i]
             \/ i > n /\ k + (i - n) \in 2 .. Len(p) /\ u[i] = p[k + (i - n)]
  <2>1. CASE i <= n
    <3>1. i \in 1 .. n /\ i \in 1 .. Len(root)
      BY <1>1, <2>1
    <3> QED
      BY <1>1, <1>4, <3>1
  <2>2. CASE i > n
    <3>1. i - n \in 1 .. Len(rest) /\ Len(root) + (i - n) = i /\ k + (i - n) \in 2 .. Len(p)
      <4>1. Len(root) = n /\ Len(rest) = Len(p) - k /\ Len(u) = n + (Len(p) - k)
        BY <1>1, <1>2, <1>5
      <4>2. i \in Nat /\ n \in Nat /\ k \in Nat /\ k >= 1 /\ i <= n + (Len(p) - k) /\ i > n
        BY <1>0, <1>6, <2>2, <4>1
      <4>3. i - n \in 1 .. (Len(p) - k)
        BY <1>0, <4>2
      <4>4. k + (i - n) \in 2 .. Len(p)
        BY <1>0, <4>2
      <4>5. n + (i - n) = i
        BY <4>2
      <4> QED
        BY <4>1, <4>3, <4>4, <4>5
    <3>2. u[Len(root) + (i - n)] = rest[i - n]
      BY <1>4, <3>1
    <3>3. rest[i - n] = p[k + (i - n)]
      BY <1>2, <3>1
    <3> QED
      BY <2>2, <3>1, <3>2, <3>3
  <2> QED
    BY <2>1, <2>2
<1>7. u[1] = <<>>
  <2>1. 1 \in 1 .. Len(root) /\ 1 \in 1 .. n
    BY <1>1
  <2>2. b[1] = <<>>
    BY DEF Clean, Shaped
  <2> QED
    BY <1>1, <1>4, <2>1, <2>2
<1>8. Shaped(u)
  <2>1. SUFFICES ASSUME NEW i \in 2 .. Len(u)
                 PROVE  Settled(u[i]) \/ (i = Len(u) /\ u[i] = <<>>)
    BY <1>5, <1>7 DEF Shaped
  <2>2. i \in 1 .. Len(u)
    BY <1>5
  <2>3. CASE i \in 1 .. n /\ u[i] = b[i]
    <3>1. i \in 2 .. Len(b) /\ (i = Len(b) => b[i] # <<>>)
      BY <1>0, <2>3
    <3> QED
      BY <2>3, <3>1 DEF Clean, Shaped
  <2>4. CASE i > n /\ k + (i - n) \in 2 .. Len(p) /\ u[i] = p[k + (i - n)]
    <3>1. k + (i - n) = Len(p) => i = Len(u)
      BY <1>0, <1>5, <2>4
    <3>2. Settled(p[k + (i - n)]) \/ (k + (i - n) = Len(p) /\ p[k + (i - n)] = <<>>)
      BY <2>4 DEF Clean, Shaped
    <3> QED
      BY <2>4, <3>1, <3>2
  <2> QED
    BY <1>6, <2>2, <2>3, <2>4
<1>9. ~Rejected(u)
  <2>1. \A i \in 1 .. Len(b) : ~Faulty(b[i])
    BY CleanSegments
  <2>2. \A i \in 1 .. Len(p) : ~Faulty(p[i])
    BY CleanSegments
  <2>3. ASSUME NEW i \in DOMAIN u
        PROVE  ~Faulty(u[i])
    <3>1. i \in 1 .. Len(u)
      BY <1>5
    <3>2. CASE i \in 1 .. n /\ u[i] = b[i]
      <4>1. i \in 1 .. Len(b)
        BY <1>0, <3>2
      <4> QED
        BY <2>1, <3>2, <4>1
    <3>3. CASE k + (i - n) \in 2 .. Len(p) /\ u[i] = p[k + (i - n)]
      <4>1. k + (i - n) \in 1 .. Len(p)
        BY <1>0, <3>3
      <4> QED
        BY <2>2, <3>3, <4>1
    <3> QED
      BY <1>6, <3>1, <3>2, <3>3
  <2> QED
    BY <1>7, <2>3, RejectedSegments
<1>10. IsPrefix(root, u)
  <2>1. Len(root) <= Len(u) /\ Len(u) \in Nat
    BY <1>0, <1>1, <1>5
  <2>2. SubSeq(root, 1, Len(root)) = root
    BY <1>1, Ends
  <2>3. /\ SubSeq(u, 1, Len(root)) \in Seq(Y) /\ Len(SubSeq(u, 1, Len(root))) = Len(root)
        /\ \A i \in 1 .. Len(root) : SubSeq(u, 1, Len(root))[i] = u[i]
    BY <1>1, <1>4, <2>1
  <2>4. SubSeq(u, 1, Len(root)) = root
    BY <1>1, <1>4, <2>3, SeqEqual
  <2> QED
    BY <2>1, <2>2, <2>4 DEF IsPrefix
<1> QED
  BY <1>4, <1>8, <1>9, <1>10 DEF Clean, root

(* So is the base path without the slash at its end, for the route's prefix
   itself. *)
LEMMA CleanTrimmed ==
    ASSUME NEW Y, NEW b \in Seq(Y), Clean(b), NEW n \in 1 .. Len(b), n = 1 \/ b[n] # <<>>,
           SubSeq(b, 1, n) # EmptyPath
    PROVE  Clean(SubSeq(b, 1, n)) /\ SubSeq(b, 1, n) \in Seq(Y)
<1> DEFINE root == SubSeq(b, 1, n)
<1>0. Len(b) \in Nat /\ b[1] = <<>>
  BY DEF Clean, Shaped
<1>1. /\ root \in Seq(Y) /\ Len(root) = n /\ DOMAIN root = 1 .. n
      /\ \A i \in 1 .. n : root[i] = b[i]
  BY <1>0
<1>2. n # 1
  <2>1. ASSUME n = 1
        PROVE  root = EmptyPath
    <3>1. Len(root) = 1 /\ root[1] = <<>>
      BY <1>0, <1>1, <2>1
    <3> HIDE DEF root
    <3>2. root = <<root[1]>>
      BY <1>1, <3>1
    <3> QED
      BY <3>1, <3>2, Zenon DEF EmptyPath
  <2> QED
    BY <2>1
<1> HIDE DEF root
<1>3. ASSUME NEW i \in 2 .. n
      PROVE  Settled(root[i])
  <2>1. i \in 2 .. Len(b) /\ i \in 1 .. n /\ (i = Len(b) => b[i] # <<>>)
    BY <1>0, <1>2, <1>3
  <2> QED
    BY <1>1, <2>1 DEF Clean, Shaped
<1>4. root[1] = <<>> /\ Len(root) >= 2
  BY <1>0, <1>1, <1>2
<1>5. Shaped(root)
  BY <1>1, <1>3, <1>4 DEF Shaped
<1>6. ~Rejected(root)
  <2>1. \A i \in 1 .. Len(b) : ~Faulty(b[i])
    BY CleanSegments
  <2>2. \A i \in 1 .. n : i \in 1 .. Len(b)
    BY <1>0
  <2>3. \A i \in DOMAIN root : ~Faulty(root[i])
    BY <1>1, <2>1, <2>2
  <2> QED
    BY <1>4, <2>3, RejectedSegments
<1> QED
  BY <1>1, <1>5, <1>6 DEF Clean, root

(* What build_upstream_uri makes of a clean path below a clean base path. *)
LEMMA UpstreamPathClean ==
    ASSUME NEW c \in Configs, NEW X, NEW p \in Seq(X), Clean(p),
           NEW r \in MatchRoute(c.routes, p), Clean(r.base)
    PROVE  /\ ~Rejected(UpstreamPath(r, p)) /\ Canonical(UpstreamPath(r, p)) = UpstreamPath(r, p)
           /\ IsPrefix(Trimmed(r.base), UpstreamPath(r, p))
<1> DEFINE Y == Seq(STRING) \cup X \cup {<<>>}
           u == UpstreamPath(r, p)
<1>1. r.base \in Seq(Y) /\ p \in Seq(Y) /\ <<>> \in Y
  <2>1. r \in c.routes
    BY DEF MatchRoute, Longest
  <2>2. r.base \in Seq(Seq(STRING))
    BY <2>1, ConfigsAssumption DEF Paths
  <2> QED
    BY <2>2, LargerSet
<1>2. PICK n \in 1 .. Len(r.base), k \in 1 .. Len(p) :
        /\ n = 1 \/ r.base[n] # <<>>
        /\ Trimmed(r.base) = SubSeq(r.base, 1, n)
        /\ \/ k < Len(p) /\ u = SubSeq(r.base, 1, n) \o SubSeq(p, k + 1, Len(p))
           \/ SubSeq(r.base, 1, n) = EmptyPath /\ u = RootPath
           \/ SubSeq(r.base, 1, n) # EmptyPath /\ u = SubSeq(r.base, 1, n)
  BY UpstreamPathMade
<1> HIDE DEF Y, u
<1>3. SUFFICES Clean(u) /\ u \in Seq(Y) /\ IsPrefix(SubSeq(r.base, 1, n), u)
  BY <1>2, ShapedStays DEF Clean, u
<1>4. CASE k < Len(p) /\ u = SubSeq(r.base, 1, n) \o SubSeq(p, k + 1, Len(p))
  BY <1>1, <1>2, <1>4, CleanJoined
<1>5. CASE SubSeq(r.base, 1, n) = EmptyPath /\ u = RootPath
  <2>1. /\ RootPath \in Seq(Y) /\ Len(RootPath) = 2 /\ RootPath[1] = <<>> /\ RootPath[2] = <<>>
        /\ DOMAIN RootPath = 1 .. 2
    BY <1>1 DEF RootPath
  <2>2. \A i \in 2 .. 2 : i = 2
    OBVIOUS
  <2>3. Shaped(RootPath)
    BY <2>1, <2>2 DEF Shaped
  <2>4. ~Faulty(<<>>)
    <3>1. 1 \in 1 .. Len(r.base) /\ r.base[1] = <<>>
      BY <1>1 DEF Clean, Shaped
    <3> QED
      BY <1>1, <3>1, CleanSegments
  <2>5. \A i \in 1 .. 2 : RootPath[i] = <<>>
    <3>1. \A i \in 1 .. 2 : i \in {1, 2}
      OBVIOUS
    <3> QED
      BY <2>1, <3>1
  <2>6. ~Rejected(RootPath)
    BY <2>1, <2>4, <2>5, RejectedSegments
  <2>7. IsPrefix(EmptyPath, RootPath)
    BY DEF IsPrefix, EmptyPath, RootPath
  <2> QED
    BY <1>5, <2>1, <2>3, <2>6, <2>7 DEF Clean
<1>6. CASE SubSeq(r.base, 1, n) # EmptyPath /\ u = SubSeq(r.base, 1, n)
  <2>1. Clean(u) /\ u \in Seq(Y)
    BY <1>1, <1>2, <1>6, CleanTrimmed
  <2>2. IsPrefix(u, u)
    BY <2>1 DEF IsPrefix
  <2> QED
    BY <1>6, <2>1, <2>2
<1> QED
  BY <1>2, <1>4, <1>5, <1>6

(* What handle_grpc_web makes of a path of three segments or more: a path, and
   of a clean one a clean one. *)
LEMMA TranscodedClean ==
    ASSUME NEW X, NEW p \in Seq(X), Len(p) >= 3
    PROVE  /\ \E Y : TranscodedPath(p) \in Seq(Y)
           /\ Len(TranscodedPath(p)) = 3
           /\ TranscodedPath(p)[2] = p[Len(p) - 1] /\ TranscodedPath(p)[3] = p[Len(p)]
           /\ Clean(p) => /\ ~Rejected(TranscodedPath(p))
                          /\ Canonical(TranscodedPath(p)) = TranscodedPath(p)
<1> DEFINE u == TranscodedPath(p)
           Y == X \cup {<<>>}
           a == p[Len(p) - 1]
           b == p[Len(p)]
<1>1. Len(p) \in Nat /\ Len(p) - 1 \in 2 .. Len(p) /\ Len(p) \in 2 .. Len(p) /\ Len(p) - 1 # Len(p)
  OBVIOUS
<1>2. a \in Y /\ b \in Y /\ <<>> \in Y
  BY <1>1
<1>4. u = <<<<>>, a, b>>
  BY DEF TranscodedPath
<1> HIDE DEF a, b, u, Y
<1>5. u \in Seq(Y) /\ Len(u) = 3 /\ u[1] = <<>> /\ u[2] = a /\ u[3] = b /\ DOMAIN u = 1 .. 3
  BY <1>2, <1>4
<1>6. ASSUME Clean(p)
      PROVE  Clean(u)
  <2>1. Settled(a) /\ (Settled(b) \/ b = <<>>)
    BY <1>1, <1>6 DEF Clean, Shaped, a, b
  <2>2. Shaped(u)
    <3>1. \A i \in 2 .. 3 : i = 2 \/ i = 3
      OBVIOUS
    <3> QED
      BY <1>5, <2>1, <3>1 DEF Shaped
  <2>3. ~Faulty(a) /\ ~Faulty(b) /\ ~Faulty(<<>>)
    <3>1. \A i \in 1 .. Len(p) : ~Faulty(p[i])
      BY <1>6, CleanSegments
    <3>2. p[1] = <<>> /\ 1 \in 1 .. Len(p) /\ Len(p) - 1 \in 1 .. Len(p) /\ Len(p) \in 1 .. Len(p)
      BY <1>1, <1>6 DEF Clean, Shaped
    <3> QED
      BY <3>1, <3>2 DEF a, b
  <2>4. \A i \in DOMAIN u : ~Faulty(u[i])
    <3>1. \A i \in 1 .. 3 : i \in {1, 2, 3}
      OBVIOUS
    <3> QED
      BY <1>5, <2>3, <3>1
  <2>5. ~Rejected(u)
    BY <1>5, <2>4, RejectedSegments
  <2> QED
    BY <2>2, <2>5 DEF Clean
<1>7. Clean(u) => ~Rejected(u) /\ Canonical(u) = u
  BY <1>5, ShapedStays DEF Clean
<1> QED
  BY <1>5, <1>6, <1>7 DEF u, a, b

(* RouterService::call forwards the canonical path: the one that was inspected,
   and the one that logged out. *)
LEMMA PathForwarding ==
    ASSUME IInv, PathInv, Forward
    PROVE  PathInv'
<1>0. /\ phase = "base" /\ phase' = "upstream" /\ req' = [req EXCEPT !.path = Canonical(@)]
      /\ UNCHANGED <<cfg, pos, roles, token, secured, revoked>>
  BY DEF Forward, AtRouter
<1>1. cfg \in Configs /\ pos = Len(Stack(cfg)) + 1 /\ DOMAIN req = RequestFields
  BY <1>0 DEF IInv, Started, Placed, Identified
<1>2. /\ req'.path = Canonical(req.path) /\ req'.method = req.method /\ req'.query = req.query
  BY <1>0, <1>1 DEF RequestFields
<1>3. \A i \in DOMAIN Stack(cfg) : i \in 1 .. (pos - 1)
  BY <1>1, StackFacts
<1>4. InspectedAsForwarded'
  <2>1. SUFFICES ASSUME Has(Stack(cfg), "Inspection")
                 PROVE  IsAllowed(cfg.rules, req'.method, req'.path, req'.query)
    BY <1>0 DEF InspectedAsForwarded
  <2>2. PICK i \in 1 .. (pos - 1) : Stack(cfg)[i] = "Inspection"
    BY <1>3, <2>1 DEF Has
  <2>3. IsAllowed(cfg.rules, req.method, Canonical(req.path), req.query)
    BY <1>0, <2>2 DEF PathInv, Allowed
  <2> QED
    BY <1>2, <2>3
<1>5. LogoutRevokes'
  <2>1. SUFFICES ASSUME token # Absent, req'.path \in cfg.revokeOn, SanitizerFirst(cfg)
                 PROVE  Withdrawn(token)'
    BY <1>0 DEF LogoutRevokes, SanitizerFirst
  <2>2. Withdrawn(token)
    BY <1>0, <1>2, <2>1 DEF PathInv, LoggedOut
  <2> QED
    BY <1>0, <2>2 DEF Withdrawn, StoreFull
<1>p. \E r \in MatchRoute(cfg.routes, Canonical(req.path)) :
        IF r.backend = "GrpcTranscoding"
        THEN Len(Canonical(req.path)) >= 3 /\ sent'.path = TranscodedPath(Canonical(req.path))
        ELSE sent'.path = UpstreamPath(r, Canonical(req.path))
  <2>1. PICK r \in MatchRoute(cfg.routes, Canonical(req.path)) :
          Deliverable(r, Canonical(req.path)) /\ sent' = Outgoing(r, Canonical(req.path))
    BY DEF Forward, Matched
  <2>2. sent'.path = IF r.backend = "GrpcTranscoding" THEN TranscodedPath(Canonical(req.path))
                     ELSE UpstreamPath(r, Canonical(req.path))
    BY <2>1 DEF Outgoing
  <2>3. r.backend = "GrpcTranscoding" => Len(Canonical(req.path)) >= 3
    BY <2>1 DEF Deliverable, Transcodable
  <2> QED
    BY <2>2, <2>3
<1>6. Pathlike'
  <2>1. PICK X : req.path \in Seq(X)
    BY <1>0 DEF PathInv, Pathlike
  <2>2. PICK Y : Canonical(req.path) \in Seq(Y)
    BY <2>1, CanonicalOnce
  <2>3. PICK r \in MatchRoute(cfg.routes, Canonical(req.path)) :
          IF r.backend = "GrpcTranscoding"
          THEN Len(Canonical(req.path)) >= 3 /\ sent'.path = TranscodedPath(Canonical(req.path))
          ELSE sent'.path = UpstreamPath(r, Canonical(req.path))
    BY <1>p
  <2>4. \E Z : sent'.path \in Seq(Z)
    BY <1>1, <2>2, <2>3, UpstreamPathlike, TranscodedClean
  <2> QED
    BY <1>0, <2>4 DEF Pathlike
<1>7. Sanitized' /\ Allowed' /\ LoggedOut'
  BY <1>0 DEF Sanitized, Allowed, LoggedOut
<1>8. CanonicalWhereBases'
  <2>1. SUFFICES ASSUME CanonicalBases(cfg)
                 PROVE  UpstreamPathIsCanonical'
    BY <1>0 DEF CanonicalWhereBases
  <2> DEFINE p == Canonical(req.path)
  <2>2. ~Rejected(p)
    <3>1. Has(Stack(cfg), "PathSanitizer")
      BY <1>1, StackFacts
    <3>2. PICK i \in 1 .. (pos - 1) : Stack(cfg)[i] = "PathSanitizer"
      BY <1>3, <3>1 DEF Has
    <3>3. Canonical(req.path) = req.path
      BY <1>0, <3>2 DEF PathInv, Sanitized
    <3>4. ~Rejected(req.path)
      BY DEF Forward
    <3> QED
      BY <3>3, <3>4
  <2>3. PICK X : req.path \in Seq(X)
    BY <1>0 DEF PathInv, Pathlike
  <2>4. Shaped(p) /\ \E Y : p \in Seq(Y)
    BY <2>3, CanonicalShaped
  <2>5. PICK Y : p \in Seq(Y)
    BY <2>4
  <2>6. PICK r \in MatchRoute(cfg.routes, p) :
          IF r.backend = "GrpcTranscoding" THEN Len(p) >= 3 /\ sent'.path = TranscodedPath(p)
          ELSE sent'.path = UpstreamPath(r, p)
    BY <1>p
  <2> HIDE DEF p
  <2>7. r \in cfg.routes
    BY DEF MatchRoute, Longest
  <2>8. r.base \in Seq(Seq(STRING))
    BY <1>1, <2>7, ConfigsAssumption DEF Paths
  <2>9. Clean(r.base)
    <3>1. ~Rejected(r.base) /\ Canonical(r.base) = r.base
      BY <2>1, <2>7 DEF CanonicalBases
    <3>2. Shaped(Canonical(r.base))
      BY <2>8, CanonicalShaped
    <3> QED
      BY <3>1, <3>2 DEF Clean
  <2>10. /\ ~Rejected(UpstreamPath(r, p)) /\ Canonical(UpstreamPath(r, p)) = UpstreamPath(r, p)
         /\ IsPrefix(Trimmed(r.base), UpstreamPath(r, p))
    BY <1>1, <2>2, <2>4, <2>5, <2>9, UpstreamPathClean DEF Clean
  <2>11. req'.path = p /\ cfg' = cfg
    BY <1>0, <1>2 DEF p
  <2>12. CASE r.backend = "GrpcTranscoding"
    <3>1. /\ ~Rejected(sent'.path) /\ Canonical(sent'.path) = sent'.path
          /\ Len(sent'.path) = 3 /\ Len(p) >= 3
          /\ sent'.path[2] = p[Len(p) - 1] /\ sent'.path[3] = p[Len(p)]
      BY <2>2, <2>4, <2>5, <2>6, <2>12, TranscodedClean DEF Clean
    <3> QED
      BY <2>11, <2>12, <3>1 DEF UpstreamPathIsCanonical
  <2>13. CASE r.backend # "GrpcTranscoding"
    BY <2>6, <2>10, <2>11, <2>13 DEF UpstreamPathIsCanonical
  <2> QED
    BY <2>12, <2>13
<1> QED
  BY <1>4, <1>5, <1>6, <1>7, <1>8 DEF PathInv

(* Every step of the server keeps what is known of the path. *)
LEMMA NextPath == IInv /\ PathInv /\ [Next]_vars => PathInv'
<1> SUFFICES ASSUME IInv, PathInv, [Next]_vars
             PROVE  PathInv'
  OBVIOUS
<1>1. ASSUME NEW c \in Configs, Load(c)
      PROVE  PathInv'
  BY <1>1, PathAtRest DEF Load
<1>2. ASSUME NEW r \in Requests, Receive(r) \/ ReceiveH3(r)
      PROVE  PathInv'
  <2>1. Enter(r) /\ r.path \in Seq(Seq(STRING))
    BY <1>2, RequestsAssumption DEF Receive, ReceiveH3, Paths
  <2> QED
    BY <2>1, PathEntering
<1>3. CASE Layer
  BY <1>3, PathLayers
<1>a. ASSUME Answer
      PROVE  PathInv'
  BY <1>a, PathAtRest DEF Answer
<1>4. CASE Base
  BY <1>4, <1>a, PathForwarding
     DEF Base, ServeEcho, ServeAdmin, ServeStaticFiles, ServeIdp, Serve, RouterAnswers
<1>5. CASE UpstreamAnswers
  BY <1>5, <1>a DEF UpstreamAnswers
<1>6. CASE LoopBack
  <2> DEFINE back == [req EXCEPT !.path = sent.path, !.query = sent.query,
                                 !.headers = sent.headers, !.peer = Own, !.cert = Absent]
  <2>1. phase = "upstream" /\ Enter(back)
    BY <1>6 DEF LoopBack
  <2>2. DOMAIN req = RequestFields /\ \E X : sent.path \in Seq(X)
    BY <2>1 DEF IInv, Identified, PathInv, Pathlike
  <2>3. back.path = sent.path
    BY <2>2 DEF RequestFields
  <2> HIDE DEF back
  <2> QED
    BY <2>1, <2>2, <2>3, PathEntering
<1>7. CASE Deliver
  BY <1>7, PathAtRest DEF Deliver
<1>8. CASE UNCHANGED vars
  BY <1>8 DEF vars, PathInv, Pathlike, Sanitized, Allowed, LoggedOut,
              InspectedAsForwarded, LogoutRevokes, Withdrawn, StoreFull,
              CanonicalWhereBases, UpstreamPathIsCanonical
<1> QED
  BY <1>1, <1>2, <1>3, <1>4, <1>5, <1>6, <1>7, <1>8 DEF Next, Upstream, Finished

(* Before a request enters nothing is promised of a path. *)
LEMMA InitPath == Init => PathInv
BY DEF Init, PathInv, Pathlike, Sanitized, Allowed, LoggedOut,
         InspectedAsForwarded, LogoutRevokes, CanonicalWhereBases

----------------------------------------------------------------------------
(* What the filter saw of a request's address, and what becomes of it *)

ForwardedBy == {"x-forwarded-for", "x-real-ip"}

(* A peer has an address; where it is unspecified, a forwarding header names
   an address or none. *)
Addressed ==
    phase \in {"layers", "base"} =>
      /\ req.peer \in Addresses
      /\ IsUnspecified(req.peer) =>
           \A n \in ForwardedBy : Header(req.headers, n) \in Addresses \cup {Absent, Claimed}

(* Behind an IpFilter the lists admit the request's address as it still is. *)
Filtered ==
    phase \in {"layers", "base"} =>
      \A i \in 1 .. (pos - 1) :
        Stack(cfg)[i] = "IpFilter" => EvaluateIp(cfg.deny, cfg.allow, ClientIp(req))

FilterInv == Addressed /\ Filtered /\ FilterHolds

(* extract_client_ip: a header stands in for an unspecified peer alone, and an
   address in either notation is unwrapped. *)
LEMMA Extracted ==
    ASSUME req.peer \in Addresses,
           IsUnspecified(req.peer) =>
             \A n \in ForwardedBy : Header(req.headers, n) \in Addresses \cup {Absent, Claimed},
           NEW a, a = IF IsUnspecified(req.peer) THEN ClientIp(req) ELSE req.peer, a # Absent
    PROVE  a \in Addresses /\ ClientIp(req) = Unwrap(a) /\ ClientIp(req) # Absent
<1> DEFINE xff == AddressIn(req.headers, "x-forwarded-for")
           xrip == AddressIn(req.headers, "x-real-ip")
<1>0. \A x \in Addresses : Unwrap(x) \in Addresses /\ Unwrap(Unwrap(x)) = Unwrap(x)
  BY Unwrapped
<1>1. Absent \notin Addresses
  BY AddressAssumption
<1>2. ClientIp(req) = ExtractClientIp(req.peer, cfg.trust, xff, xrip)
  BY DEF ClientIp
<1>3. CASE ~IsUnspecified(req.peer)
  <2>1. ClientIp(req) = Unwrap(req.peer)
    BY <1>2, <1>3 DEF ExtractClientIp
  <2> QED
    BY <1>0, <1>1, <1>3, <2>1
<1>4. CASE IsUnspecified(req.peer)
  <2>1. xff \in Addresses \cup {Absent} /\ xrip \in Addresses \cup {Absent}
    BY <1>4 DEF AddressIn, ForwardedBy
  <2> HIDE DEF xff, xrip
  <2>2. a = ExtractClientIp(req.peer, cfg.trust, xff, xrip)
    BY <1>2, <1>4
  <2>3. \/ xff # Absent /\ a = Unwrap(xff)
        \/ xrip # Absent /\ a = Unwrap(xrip)
        \/ a = Absent
    BY <1>4, <2>2 DEF ExtractClientIp
  <2>4. PICK x \in Addresses : a = Unwrap(x)
    BY <2>1, <2>3
  <2> QED
    BY <1>0, <1>1, <1>4, <2>4
<1> QED
  BY <1>3, <1>4

(* What the lists of an IpFilter admit is what they say, for the entries that
   lie in one family. *)
LEMMA FilterMeaning ==
    ASSUME cfg \in Configs, Finalized(cfg), Has(Stack(cfg), "IpFilter"),
           NEW a \in Addresses, EvaluateIp(cfg.deny, cfg.allow, Unwrap(a)), Unwrap(a) # Absent
    PROVE  /\ \A e \in cfg.deny : OneFamily(e) => ~Covers(e, a)
           /\ cfg.allow # {} /\ (\A e \in cfg.allow : OneFamily(e))
                => \E e \in cfg.allow : Covers(e, a)
<1>1. "IpFilter" \in ToSet(cfg.enabled)
  BY StackEnabled
<1>2. \A e \in cfg.deny \cup cfg.allow : ValidCidr(e)
  BY <1>1 DEF Finalized, ValidLayers
<1>3. \A e \in cfg.deny \cup cfg.allow : e.ip \in Addresses /\ e.len \in Nat \cup {Absent}
  BY AddressAssumption
<1>4. ASSUME NEW e \in cfg.deny \cup cfg.allow, OneFamily(e)
      PROVE  CidrContains(ParseCidr(e), Unwrap(a)) <=> Covers(e, a)
  BY <1>2, <1>3, <1>4, CidrAgrees
<1>5. /\ \A e \in cfg.deny : ~CidrContains(ParseCidr(e), Unwrap(a))
      /\ cfg.allow = {} \/ \E e \in cfg.allow : CidrContains(ParseCidr(e), Unwrap(a))
  BY DEF EvaluateIp
<1>6. \A e \in cfg.deny : OneFamily(e) => ~Covers(e, a)
  BY <1>4, <1>5
<1>7. ASSUME cfg.allow # {}, \A e \in cfg.allow : OneFamily(e)
      PROVE  \E e \in cfg.allow : Covers(e, a)
  <2>1. PICK e \in cfg.allow : CidrContains(ParseCidr(e), Unwrap(a))
    BY <1>5, <1>7
  <2> QED
    BY <1>4, <1>7, <2>1
<1> QED
  BY <1>6, <1>7

(* A request that enters has passed no filter. *)
LEMMA FilterEntering ==
    ASSUME NEW r, r.peer \in Addresses,
           IsUnspecified(r.peer) =>
             \A n \in ForwardedBy : Header(r.headers, n) \in Addresses \cup {Absent, Claimed},
           Enter(r)
    PROVE  FilterInv'
<1>1. req' = r /\ pos' = 1 /\ phase' = "layers"
  BY DEF Enter
<1> QED
  BY <1>1 DEF FilterInv, Addressed, Filtered, FilterHolds

(* A request that is not on its way has no address. *)
LEMMA FilterAtRest ==
    ASSUME phase' \notin {"layers", "base", "upstream"}
    PROVE  FilterInv'
BY DEF FilterInv, Addressed, Filtered, FilterHolds

(* What a layer may not touch: the peer, and the headers that may stand in for
   it. *)
FilterHanded ==
    /\ req'.peer = req.peer
    /\ \A n \in ForwardedBy : Header(req'.headers, n) = Header(req.headers, n)
    /\ Stack(cfg)[pos] = "IpFilter" => EvaluateIp(cfg.deny, cfg.allow, ClientIp(req))

(* Where they stay, so does the address that the filter decides on. *)
LEMMA SameClient ==
    ASSUME req'.peer = req.peer, cfg' = cfg,
           \A n \in ForwardedBy : Header(req'.headers, n) = Header(req.headers, n)
    PROVE  ClientIp(req)' = ClientIp(req)
<1>1. \A n \in ForwardedBy : AddressIn(req'.headers, n) = AddressIn(req.headers, n)
  BY DEF AddressIn
<1>2. /\ AddressIn(req'.headers, "x-forwarded-for") = AddressIn(req.headers, "x-forwarded-for")
      /\ AddressIn(req'.headers, "x-real-ip") = AddressIn(req.headers, "x-real-ip")
  BY <1>1 DEF ForwardedBy
<1> QED
  BY <1>2 DEF ClientIp

(* Such a layer keeps what is known of the address. *)
LEMMA FilterPassingOn ==
    ASSUME IInv, FilterInv, phase = "layers", PassOn, FilterHanded
    PROVE  FilterInv'
<1>1. /\ pos' = pos + 1 /\ cfg' = cfg
      /\ phase' = IF pos = Len(Stack(cfg)) THEN "base" ELSE "layers"
  BY DEF PassOn
<1>2. cfg \in Configs /\ pos \in 1 .. Len(Stack(cfg))
  BY DEF IInv, Started, Placed
<1>3. Len(Stack(cfg)) \in Nat \ {0}
  BY <1>2, StackFacts
<1>4. Addressed'
  BY <1>1 DEF FilterInv, Addressed, FilterHanded
<1>5. Filtered'
  <2>1. SUFFICES ASSUME NEW i \in 1 .. (pos' - 1), Stack(cfg)[i] = "IpFilter"
                 PROVE  EvaluateIp(cfg.deny, cfg.allow, ClientIp(req)')
    BY <1>1 DEF Filtered
  <2>2. ClientIp(req)' = ClientIp(req)
    BY <1>1, SameClient DEF FilterHanded
  <2>3. CASE i \in 1 .. (pos - 1)
    BY <2>1, <2>2, <2>3 DEF FilterInv, Filtered
  <2>4. CASE i = pos
    BY <2>1, <2>2, <2>4 DEF FilterHanded
  <2> QED
    BY <1>1, <1>2, <1>3, <2>3, <2>4
<1>6. FilterHolds'
  BY <1>1 DEF FilterHolds
<1> QED
  BY <1>4, <1>5, <1>6 DEF FilterInv

(* Every layer keeps what is known of the address: TraceId and Decompression
   change other headers. *)
LEMMA FilterLayers ==
    ASSUME IInv, FilterInv, Layer
    PROVE  FilterInv'
<1>0. phase = "layers"
  BY DEF Layer, Log, Time, Count, Delay, Compress, AdvertiseH3, SecureHeaders, Observe,
         LimitPayload, LimitConcurrency, LimitSimple, LimitTokenBucket, MayAnswer,
         AnswerPreflight, TraceId, Decompress, SanitizePath, FilterAddress, Inspect, CheckToken, At
<1>1. DOMAIN req = RequestFields
  BY <1>0 DEF IInv, Identified
<1>a. ASSUME Answer
      PROVE  FilterInv'
  BY <1>a, FilterAtRest DEF Answer
<1>u. ASSUME Stack(cfg)[pos] # "IpFilter", PassOn, req' = req
      PROVE  FilterInv'
  <2>1. FilterHanded
    BY <1>u DEF FilterHanded
  <2> QED
    BY <1>0, <1>u, <2>1, FilterPassingOn
<1>o. ASSUME NEW l, l # "IpFilter", Observe(l)
      PROVE  FilterInv'
  BY <1>o, <1>u DEF Observe, At
<1>m. ASSUME NEW l, l # "IpFilter", MayAnswer(l)
      PROVE  FilterInv'
  BY <1>a, <1>m, <1>u DEF MayAnswer, At
<1>h. ASSUME Stack(cfg)[pos] # "IpFilter", PassOn,
             NEW x, req' = [req EXCEPT !["headers"] = x],
             \A n \in ForwardedBy : Header(x, n) = Header(req.headers, n)
      PROVE  FilterInv'
  <2>1. req'.peer = req.peer /\ req'.headers = x
    BY <1>1, <1>h DEF RequestFields
  <2>2. FilterHanded
    BY <1>h, <2>1 DEF FilterHanded
  <2> QED
    BY <1>0, <1>h, <2>2, FilterPassingOn
<1>2. CASE Log \/ Time \/ Count \/ Delay \/ Compress \/ AdvertiseH3 \/ SecureHeaders
  BY <1>2, <1>o DEF Log, Time, Count, Delay, Compress, AdvertiseH3, SecureHeaders
<1>3. CASE LimitPayload \/ LimitConcurrency \/ LimitSimple \/ LimitTokenBucket
  BY <1>3, <1>m DEF LimitPayload, LimitConcurrency, LimitSimple, LimitTokenBucket
<1>4. CASE AnswerPreflight
  BY <1>4, <1>a, <1>u DEF AnswerPreflight, At
<1>5. CASE FilterAddress
  <2>1. CASE /\ EvaluateIp(cfg.deny, cfg.allow, ClientIp(req))
             /\ PassOn /\ UNCHANGED <<req, roles, token>>
    <3>1. FilterHanded
      BY <2>1 DEF FilterHanded
    <3> QED
      BY <1>0, <2>1, <3>1, FilterPassingOn
  <2> QED
    BY <1>5, <1>a, <2>1 DEF FilterAddress
<1>6. CASE TraceId
  <2> DEFINE new(id) == [n \in {"traceparent", "x-trace-id"} |-> id]
             x(id) == Inserted(req.headers, new(id))
  <2>1. Stack(cfg)[pos] = "TraceId" /\ PassOn
    BY <1>6 DEF TraceId, At
  <2>2. PICK id : req' = [req EXCEPT !.headers = x(id)]
    BY <1>6 DEF TraceId
  <2>3. \A n \in ForwardedBy : Header(new(id), n) = Absent
    BY DEF ForwardedBy, Header
  <2> HIDE DEF new
  <2>4. \A n \in ForwardedBy : Header(x(id), n) = Header(req.headers, n)
    BY <2>3, HeaderInserted DEF Header
  <2> HIDE DEF x
  <2> QED
    BY <1>h, <2>1, <2>2, <2>4
<1>7. CASE Decompress
  <2> DEFINE x == Without(req.headers, {"content-encoding", "content-length"})
  <2>1. /\ Stack(cfg)[pos] = "Decompression" /\ PassOn
        /\ req' = req \/ req' = [req EXCEPT !["headers"] = x]
    BY <1>7 DEF Decompress, At
  <2>2. \A n \in ForwardedBy : Header(x, n) = Header(req.headers, n)
    BY HeaderWithout DEF ForwardedBy
  <2> HIDE DEF x
  <2> QED
    BY <1>h, <1>u, <2>1, <2>2
<1>8. CASE SanitizePath
  <2>1. Stack(cfg)[pos] = "PathSanitizer"
    BY <1>8 DEF SanitizePath, At
  <2>2. CASE req' = [req EXCEPT !.path = Canonical(@)] /\ PassOn
    <3>1. req'.peer = req.peer /\ req'.headers = req.headers
      BY <1>1, <2>2 DEF RequestFields
    <3>2. FilterHanded
      BY <2>1, <3>1 DEF FilterHanded
    <3> QED
      BY <1>0, <2>2, <3>2, FilterPassingOn
  <2> QED
    BY <1>8, <1>a, <2>2 DEF SanitizePath
<1>9. CASE Inspect
  BY <1>9, <1>a, <1>u DEF Inspect, At
<1>10. CASE CheckToken
  BY <1>10, <1>a, <1>u DEF CheckToken, At
<1> QED
  BY <1>2, <1>3, <1>4, <1>5, <1>6, <1>7, <1>8, <1>9, <1>10 DEF Layer

(* RouterService::call forwards for the address that was filtered. *)
LEMMA FilterForwarding ==
    ASSUME IInv, FilterInv, Forward
    PROVE  FilterInv'
<1>0. /\ phase = "base" /\ phase' = "upstream" /\ req' = [req EXCEPT !.path = Canonical(@)]
      /\ cfg' = cfg
  BY DEF Forward, AtRouter
<1>1. /\ cfg \in Configs /\ Finalized(cfg) /\ pos = Len(Stack(cfg)) + 1
      /\ DOMAIN req = RequestFields
  BY <1>0 DEF IInv, Started, Placed, Identified
<1>2. req'.peer = req.peer /\ req'.headers = req.headers
  BY <1>0, <1>1 DEF RequestFields
<1>3. ClientIp(req)' = ClientIp(req)
  BY <1>0, <1>2, SameClient
<1>4. Addressed' /\ Filtered'
  BY <1>0 DEF Addressed, Filtered
<1> DEFINE a == IF IsUnspecified(req.peer) THEN ClientIp(req) ELSE req.peer
<1>5. SUFFICES ASSUME Has(Stack(cfg), "IpFilter"), a # Absent
               PROVE  /\ \A e \in cfg.deny : OneFamily(e) => ~Covers(e, a)
                      /\ cfg.allow # {} /\ (\A e \in cfg.allow : OneFamily(e))
                           => \E e \in cfg.allow : Covers(e, a)
  BY <1>0, <1>2, <1>3, <1>4 DEF FilterInv, FilterHolds
<1>6. a \in Addresses /\ ClientIp(req) = Unwrap(a) /\ ClientIp(req) # Absent
  BY <1>0, <1>5, Extracted DEF FilterInv, Addressed
<1>7. EvaluateIp(cfg.deny, cfg.allow, ClientIp(req))
  <2>1. \A i \in DOMAIN Stack(cfg) : i \in 1 .. (pos - 1)
    BY <1>1, StackFacts
  <2>2. PICK i \in 1 .. (pos - 1) : Stack(cfg)[i] = "IpFilter"
    BY <1>5, <2>1 DEF Has
  <2> QED
    BY <1>0, <2>2 DEF FilterInv, Filtered
<1> HIDE DEF a
<1> QED
  BY <1>1, <1>5, <1>6, <1>7, FilterMeaning

(* Every step of the server keeps what is known of the address. *)
LEMMA NextFilter == IInv /\ FilterInv /\ [Next]_vars => FilterInv'
<1> SUFFICES ASSUME IInv, FilterInv, [Next]_vars
             PROVE  FilterInv'
  OBVIOUS
<1>1. ASSUME NEW c \in Configs, Load(c)
      PROVE  FilterInv'
  BY <1>1, FilterAtRest DEF Load
<1>2. ASSUME NEW r \in Requests, Receive(r) \/ ReceiveH3(r)
      PROVE  FilterInv'
  <2>1. Enter(r)
    BY <1>2 DEF Receive, ReceiveH3
  <2>2. /\ r.peer \in Addresses
        /\ \A n \in ForwardedBy : Header(r.headers, n) \in Addresses \cup {Absent, Claimed}
    BY AddressAssumption DEF ForwardedBy
  <2> QED
    BY <2>1, <2>2, FilterEntering
<1>3. CASE Layer
  BY <1>3, FilterLayers
<1>a. ASSUME Answer
      PROVE  FilterInv'
  BY <1>a, FilterAtRest DEF Answer
<1>4. CASE Base
  BY <1>4, <1>a, FilterForwarding
     DEF Base, ServeEcho, ServeAdmin, ServeStaticFiles, ServeIdp, Serve, RouterAnswers
<1>5. CASE UpstreamAnswers
  BY <1>5, <1>a DEF UpstreamAnswers
<1>6. CASE LoopBack
  <2> DEFINE back == [req EXCEPT !.path = sent.path, !.query = sent.query,
                                 !.headers = sent.headers, !.peer = Own, !.cert = Absent]
  <2>1. phase = "upstream" /\ Enter(back)
    BY <1>6 DEF LoopBack
  <2>2. DOMAIN req = RequestFields
    BY <2>1 DEF IInv, Identified
  <2>3. back.peer = Own
    BY <2>2 DEF RequestFields
  <2> HIDE DEF back
  <2>4. back.peer \in Addresses /\ ~IsUnspecified(back.peer)
    BY <2>3, AddressAssumption
  <2> QED
    BY <2>1, <2>4, FilterEntering
<1>7. CASE Deliver
  BY <1>7, FilterAtRest DEF Deliver
<1>8. CASE UNCHANGED vars
  <2>1. UNCHANGED <<cfg, phase, pos, req>>
    BY <1>8 DEF vars
  <2>2. ClientIp(req)' = ClientIp(req)
    BY <2>1, SameClient
  <2> QED
    BY <2>1, <2>2 DEF FilterInv, Addressed, Filtered, FilterHolds
<1> QED
  BY <1>1, <1>2, <1>3, <1>4, <1>5, <1>6, <1>7, <1>8 DEF Next, Upstream, Finished

(* Before a request enters nothing is promised of an address. *)
LEMMA InitFilter == Init => FilterInv
BY DEF Init, FilterInv, Addressed, Filtered, FilterHolds

----------------------------------------------------------------------------
(* Theorems *)

(* The state of a server stays what its type says: a configuration that was
   read, a position inside the stack, a token that exists. *)
THEOREM TypeCorrect == Spec => []TypeOK
<1>1. IInv => TypeOK
  <2> SUFFICES ASSUME IInv
               PROVE  TypeOK
    OBVIOUS
  <2>1. ASSUME phase \notin {"start", "exited"}
        PROVE  pos \in 0 .. (Len(Stack(cfg)) + 1)
    <3>1. Len(Stack(cfg)) \in Nat
      BY <2>1, StackFacts DEF IInv, Started
    <3> QED
      BY <2>1, <3>1 DEF IInv, Started, Placed
  <2> QED
    BY <2>1 DEF IInv, Started, Stored, TypeOK
<1> QED
  BY <1>1, InitInv, NextInv, PTL DEF Spec

(* Whatever layers are enabled in which order, an answer carries the security
   headers: build_middleware_layers puts SecurityHeaders before the first layer
   that may answer; only an outermost PathSanitizer answers outside it. *)
THEOREM AnswersSecured == Spec => []AnswersAreSecured
<1>1. IInv => AnswersAreSecured
  BY DEF IInv
<1> QED
  BY <1>1, InitInv, NextInv, PTL DEF Spec

(* Whatever the stack, the rules and the request, nothing is forwarded by a
   Jwt server without a valid token, nor without the roles that the token, or
   without one the certificate, has (finalize, JwtAuthFuture::poll,
   enforce_rbac). *)
THEOREM Authorized == Spec => []AuthorizedOnly
<1>1. IInv => AuthorizedOnly
  BY DEF IInv
<1> QED
  BY <1>1, InitInv, NextInv, PTL DEF Spec

(* Whatever headers a client sends, an upstream is told the gateway's view of
   who the client is and where it connects from, where the configured header
   names are distinct and not taken (prepare_proxy_headers, the dispatch). *)
THEOREM IdentityVerified ==
    Spec => [](DistinctNames(cfg) => IdentityIsVerified)
<1>1. IInv => (DistinctNames(cfg) => IdentityIsVerified)
  <2>1. CASE phase = "upstream"
    BY <2>1 DEF IInv, IdentityWhereDistinct
  <2>2. CASE phase # "upstream"
    BY <2>2 DEF IdentityIsVerified
  <2> QED
    BY <2>1, <2>2
<1> QED
  BY <1>1, InitInv, NextInv, PTL DEF Spec

(* Wherever in the stack the Inspection layer is, and whatever the layers
   behind it do to the path, what is forwarded is something that its allow list
   admits: all three places canonicalise alike, and doing so twice is doing so
   once (InspectionService::call, sanitize_and_normalize_path,
   RouterService::call). *)
THEOREM InspectionHolds == Spec => []InspectedAsForwarded
<1>1. PathInv => InspectedAsForwarded
  BY DEF PathInv
<1> QED
  BY <1>1, InitInv, NextInv, InitPath, NextPath, PTL DEF Spec

(* However the logout path is spelt, and whatever comes between JwtAuth and the
   router, the token of a request that was forwarded to it is revoked, where
   PathSanitizer is not listed behind JwtAuth and the store could take the
   token: one without a jti or with one that is too long, and a new one where
   the store is full, is not recorded and forwarded all the same
   (JwtAuthFuture::poll, JwtRevocationStore::revoke, build_service_stack). *)
THEOREM LogoutHolds == Spec => []LogoutRevokes
<1>1. PathInv => LogoutRevokes
  BY DEF PathInv
<1> QED
  BY <1>1, InitInv, NextInv, InitPath, NextPath, PTL DEF Spec

(* Whatever escapes, dots and slashes a client writes, and wherever the layers
   are, the path that an upstream receives is one that no decoding changes and
   no check refuses, where the base paths of the routes are such: below the
   base path that the route names, or for a transcoding route, which ignores
   its base path, the last two segments of the request's path.  A path that the
   sanitizer turns into something to refuse is refused by the router, which
   sees it next (sanitize_and_normalize_path, RouterService::call,
   build_upstream_uri, handle_grpc_web). *)
THEOREM UpstreamPathCanonical ==
    Spec => [](CanonicalBases(cfg) => UpstreamPathIsCanonical)
<1>1. PathInv => (CanonicalBases(cfg) => UpstreamPathIsCanonical)
  BY DEF PathInv, CanonicalWhereBases, UpstreamPathIsCanonical
<1> QED
  BY <1>1, InitInv, NextInv, InitPath, NextPath, PTL DEF Spec

(* Wherever in the stack the IpFilter is, and in whichever notation its entries
   and the client's address are written, nothing is forwarded for an address
   that the deny list covers or the allow list does not, and no forwarding
   header stands in for a known address (IpCidr::parse, IpCidr::contains,
   extract_client_ip, evaluate_ip). *)
THEOREM FilterHeld == Spec => []FilterHolds
<1>1. FilterInv => FilterHolds
  BY DEF FilterInv
<1> QED
  BY <1>1, InitInv, NextInv, InitFilter, NextFilter, PTL DEF Spec
=============================================================================
