-------------------------- MODULE RateLimiterProofs --------------------------
(***************************************************************************)
(* Proofs that the two rate limiters keep to their rates in every          *)
(* interleaving of any number of workers, for every capacity, rate, limit, *)
(* TTL and table size; what is said of the rates supposes a TTL that       *)
(* outlasts what an entry must remember (TtlOutlasts).                     *)
(*                                                                         *)
(* An entry forgets the past, so the invariant says what it remembers of   *)
(* it.  A bucket keeps a balance: for every instant s, the cost of the     *)
(* requests since s and the tokens that are left do not exceed a full      *)
(* bucket and the refill from s to last_refill.  A check keeps the         *)
(* balance; a sample older than last_refill is charged to `excess`.  When  *)
(* the entry is swept the key was idle for the TTL, in which a bucket      *)
(* fills up (TtlOutlasts), so a new entry balances as well; an insert      *)
(* that races with another check of the key is charged to `excess`.        *)
(*                                                                         *)
(* An entry of the simple limiter tells which windows have not been used:  *)
(* those that begin after next_allowed - limit_duration.                   *)
(*                                                                         *)
(* The table: whoever is past the comparison with max_entries counts as if *)
(* the entry were there, and the first of them found a table with room.    *)
(***************************************************************************)
EXTENDS RateLimiter, FiniteSetTheorems, TLAPS

-----------------------------------------------------------------------------
(* Arithmetic *)

(* The smaller of two numbers. *)
LEMMA MinOfTwo ==
    ASSUME NEW a \in Int, NEW b \in Int
    PROVE  Min({a, b}) = IF a <= b THEN a ELSE b
<1>1. \E x \in {a, b} : \A y \in {a, b} : x <= y
  OBVIOUS
<1>2. Min({a, b}) \in {a, b} /\ \A y \in {a, b} : Min({a, b}) <= y
  BY <1>1 DEF Min
<1> QED BY <1>2

(* The greater of two numbers. *)
LEMMA MaxOfTwo ==
    ASSUME NEW a \in Int, NEW b \in Int
    PROVE  Max({a, b}) = IF a >= b THEN a ELSE b
<1>1. \E x \in {a, b} : \A y \in {a, b} : x >= y
  OBVIOUS
<1>2. Max({a, b}) \in {a, b} /\ \A y \in {a, b} : Max({a, b}) >= y
  BY <1>1 DEF Max
<1> QED BY <1>2

(* Multiplication by a natural number is monotone. *)
LEMMA TimesMonotone ==
    ASSUME NEW a \in Int, NEW b \in Int, a <= b, NEW c \in Nat
    PROVE  c * a <= c * b
<1>1. c * (b - a) >= 0
  OBVIOUS
<1>2. c * (b - a) = c * b - c * a
  OBVIOUS
<1> QED BY <1>1, <1>2

(* The constants are numbers. *)
LEMMA Bounds ==
    /\ MaxEntries \in Nat \ {0} /\ Limit \in Nat \ {0} /\ Capacity \in Nat \ {0}
    /\ Cost \in Nat \ {0} /\ Rate \in Nat \ {0}
    /\ Ttl \in Nat /\ SweepEvery \in Nat /\ SweepFull \in Nat
    /\ MaxTime \in Nat /\ MaxCalls \in Nat
BY BoundsAssumption

(* The units a full bucket holds. *)
LEMMA FullBucket ==
    /\ Capacity * Cost \in Nat /\ Cost <= Capacity * Cost
    /\ (Capacity - 1) * Cost = Capacity * Cost - Cost
<1>1. Capacity * Cost \in Nat
  BY Bounds
<1>2. (Capacity - 1) * Cost = Capacity * Cost - Cost
  BY Bounds
<1>3. (Capacity - 1) * Cost >= 0
  BY Bounds
<1> QED BY <1>1, <1>2, <1>3, Bounds

-----------------------------------------------------------------------------
(* Requests granted in an interval *)

Times == 0..MaxTime
Histories == [Times -> Nat]

(* Granted, of a history. *)
Between(g, from, to) == g[to] - (IF from = 0 THEN 0 ELSE g[from - 1])
GrantedSince(g, from) == Between(g, from, MaxTime)

(* Grant, on a history. *)
Added(g, now) == [t \in Times |-> g[t] + (IF t < now THEN 0 ELSE 1)]

(* A history is a running total, and no sample after `last` is in it. *)
Totals(g, last) ==
    /\ \A s, t \in Times : s <= t => g[s] <= g[t]
    /\ \A s \in Times : GrantedSince(g, s) > 0 => s <= last

(* A history counts, and what it counts up to t it counts since s. *)
LEMMA BetweenBounds ==
    ASSUME NEW g \in Histories, NEW last \in Int, Totals(g, last),
           NEW s \in Times, NEW t \in Times, s <= t
    PROVE  /\ Between(g, s, t) \in Nat /\ GrantedSince(g, s) \in Nat
           /\ Between(g, s, t) <= GrantedSince(g, s)
<1>1. MaxTime \in Times /\ s - 1 \in Int /\ (s # 0 => s - 1 \in Times)
  BY Bounds DEF Times
<1>2. g[t] \in Nat /\ g[MaxTime] \in Nat /\ (s # 0 => g[s - 1] \in Nat)
  BY <1>1 DEF Histories
<1>3. g[t] <= g[MaxTime] /\ (s # 0 => g[s - 1] <= g[t])
  BY <1>1, Bounds DEF Totals, Times
<1> QED BY <1>2, <1>3 DEF Between, GrantedSince

(* A request granted at `now` counts once in the intervals `now` is in. *)
LEMMA AddedOne ==
    ASSUME NEW g \in Histories, NEW now \in Times
    PROVE  /\ Added(g, now) \in Histories
           /\ \A s, t \in Times : s <= t =>
                Between(Added(g, now), s, t)
                  = Between(g, s, t) + (IF s <= now /\ now <= t THEN 1 ELSE 0)
<1>1. Added(g, now) \in Histories
  BY Bounds DEF Added, Histories, Times
<1>2. ASSUME NEW s \in Times, NEW t \in Times, s <= t
      PROVE  Between(Added(g, now), s, t)
                  = Between(g, s, t) + (IF s <= now /\ now <= t THEN 1 ELSE 0)
  <2>1. Added(g, now)[t] = g[t] + (IF t < now THEN 0 ELSE 1) /\ g[t] \in Nat
    BY DEF Added, Histories
  <2>2. CASE s = 0
    BY <2>1, <2>2, <1>2, Bounds DEF Between, Times
  <2>3. CASE s # 0
    <3>1. s - 1 \in Times
      BY <2>3, Bounds DEF Times
    <3>2. Added(g, now)[s - 1] = g[s - 1] + (IF s - 1 < now THEN 0 ELSE 1) /\ g[s - 1] \in Nat
      BY <3>1 DEF Added, Histories
    <3> QED BY <2>1, <2>3, <3>2, <1>2, Bounds DEF Between, Times
  <2> QED BY <2>2, <2>3
<1> QED BY <1>1, <1>2

(* A history with one request more is a running total again. *)
LEMMA AddedTotals ==
    ASSUME NEW g \in Histories, NEW now \in Times, NEW last \in Int,
           NEW newer \in Int, Totals(g, last), last <= newer, now <= newer
    PROVE  Totals(Added(g, now), newer)
<1>1. ASSUME NEW s \in Times, NEW t \in Times, s <= t
      PROVE  Added(g, now)[s] <= Added(g, now)[t]
  <2>1. g[s] <= g[t] /\ g[s] \in Nat /\ g[t] \in Nat
    BY <1>1 DEF Totals, Histories
  <2> QED BY <2>1, <1>1, Bounds DEF Added, Times
<1>2. ASSUME NEW s \in Times, GrantedSince(Added(g, now), s) > 0
      PROVE  s <= newer
  <2>1. MaxTime \in Times /\ s <= MaxTime
    BY Bounds DEF Times
  <2>2. GrantedSince(Added(g, now), s)
          = GrantedSince(g, s) + (IF s <= now /\ now <= MaxTime THEN 1 ELSE 0)
    BY <2>1, AddedOne DEF GrantedSince
  <2>3. GrantedSince(g, s) \in Nat /\ (GrantedSince(g, s) > 0 => s <= last)
    BY <2>1, BetweenBounds DEF Totals
  <2> QED BY <1>2, <2>2, <2>3, Bounds DEF Times
<1> QED BY <1>1, <1>2 DEF Totals

(* The latest sample may be any later one. *)
LEMMA TotalsLater ==
    ASSUME NEW g \in Histories, NEW last \in Int, NEW newer \in Int,
           Totals(g, last), last <= newer
    PROVE  Totals(g, newer)
BY Bounds DEF Totals, Times

-----------------------------------------------------------------------------
(* The token bucket.  Each statement is about one key: g is its history, e its
   entry, last the latest sample used on it, x what races gave away. *)

Buckets == [tokens : 0..(Capacity * Cost), last_refill : Times, last_seen : Times]

(* What the requests since s used, with what is left, does not exceed a full
   bucket and the refill since s.  This is the bucket's own balance; `excess`
   makes up for the times last_refill went back. *)
Balanced(g, e, x) ==
    TtlOutlasts => \A s \in Times : GrantedSince(g, s) > 0 =>
        GrantedSince(g, s) * Cost + e.tokens
          <= Capacity * Cost + Rate * (e.last_refill - s) + x

(* What is left of the balance when the entry is forgotten. *)
Spent(g, last, x) ==
    TtlOutlasts => \A s \in Times : GrantedSince(g, s) > 0 =>
        GrantedSince(g, s) * Cost <= Capacity * Cost + Rate * (last - s) + x

InRate(g, x) ==
    TtlOutlasts => \A s, t \in Times : s <= t =>
        Between(g, s, t) * Cost <= Capacity * Cost + Rate * (t - s) + x

(* The spent follows from the balance. *)
LEMMA BalancedSpent ==
    ASSUME NEW g \in Histories, NEW e \in Buckets, NEW last \in Int, NEW x \in Nat,
           Totals(g, last), Balanced(g, e, x), e.last_refill <= last
    PROVE  Spent(g, last, x)
<1> SUFFICES ASSUME TtlOutlasts, NEW s \in Times, GrantedSince(g, s) > 0
             PROVE  GrantedSince(g, s) * Cost <= Capacity * Cost + Rate * (last - s) + x
  BY DEF Spent
<1>1. GrantedSince(g, s) * Cost + e.tokens
          <= Capacity * Cost + Rate * (e.last_refill - s) + x
  BY DEF Balanced
<1>2. e.tokens \in Nat /\ e.last_refill \in Int /\ s \in Int
  BY Bounds, FullBucket DEF Buckets, Times
<1>3. Rate * (e.last_refill - s) <= Rate * (last - s)
  BY <1>2, TimesMonotone, Bounds
<1>4. GrantedSince(g, s) \in Nat
  BY BetweenBounds, Bounds DEF Times
<1>5. GrantedSince(g, s) * Cost \in Int /\ Rate * (e.last_refill - s) \in Int
      /\ Rate * (last - s) \in Int
  BY <1>2, <1>4, Bounds
<1> HIDE DEF GrantedSince
<1> QED BY <1>1, <1>2, <1>3, <1>5, FullBucket

(* A request granted at now, after which the bucket balances with `now` as its
   last refill, keeps the rate. *)
LEMMA GrantInRate ==
    ASSUME NEW g \in Histories, NEW e \in Buckets, NEW now \in Times, NEW last \in Int,
           NEW x \in Nat, NEW y \in Nat, x <= y, e.last_refill = now,
           Totals(g, last), now <= last, InRate(g, x), Balanced(Added(g, now), e, y)
    PROVE  InRate(Added(g, now), y)
<1> SUFFICES ASSUME TtlOutlasts, NEW s \in Times, NEW t \in Times, s <= t
             PROVE  Between(Added(g, now), s, t) * Cost
                      <= Capacity * Cost + Rate * (t - s) + y
  BY DEF InRate
<1>1. Between(Added(g, now), s, t)
        = Between(g, s, t) + (IF s <= now /\ now <= t THEN 1 ELSE 0)
  BY AddedOne
<1>2. Between(g, s, t) * Cost <= Capacity * Cost + Rate * (t - s) + x
  BY DEF InRate
<1>3. Between(g, s, t) \in Nat
  BY BetweenBounds
<1>4. Rate * (t - s) \in Int /\ Between(g, s, t) * Cost \in Int
  BY <1>3, Bounds DEF Times
<1>5. CASE ~(s <= now /\ now <= t)
  BY <1>1, <1>2, <1>3, <1>4, <1>5, FullBucket
<1>6. CASE s <= now /\ now <= t
  <2> DEFINE h == Added(g, now)
  <2>1. h \in Histories /\ Totals(h, last)
    BY AddedOne, AddedTotals
  <2>2. Between(h, s, t) \in Nat /\ GrantedSince(h, s) \in Nat
        /\ Between(h, s, t) <= GrantedSince(h, s)
    BY <2>1, BetweenBounds
  <2>3. GrantedSince(h, s) > 0
    BY <1>1, <1>3, <1>6, <2>2
  <2>4. GrantedSince(h, s) * Cost + e.tokens <= Capacity * Cost + Rate * (now - s) + y
    BY <2>3 DEF Balanced
  <2> HIDE DEF h
  <2>5. Cost * Between(h, s, t) <= Cost * GrantedSince(h, s)
    BY <2>2, TimesMonotone, Bounds
  <2>6. Rate * (now - s) <= Rate * (t - s)
    BY <1>6, TimesMonotone, Bounds DEF Times
  <2>7. e.tokens \in Nat
    BY FullBucket DEF Buckets
  <2>8. Cost * Between(h, s, t) = Between(h, s, t) * Cost
        /\ Cost * GrantedSince(h, s) = GrantedSince(h, s) * Cost
        /\ Between(h, s, t) * Cost \in Int /\ GrantedSince(h, s) * Cost \in Int
        /\ Rate * (now - s) \in Int
    BY <2>2, Bounds DEF Times
  <2>9. Between(h, s, t) * Cost <= Capacity * Cost + Rate * (t - s) + y
    BY <1>4, <2>4, <2>5, <2>6, <2>7, <2>8, FullBucket
  <2> QED BY <2>9 DEF h
<1> QED BY <1>5, <1>6

(* What a refill adds.  Samples may be older than the last refill. *)
LEMMA RefillFacts ==
    ASSUME NEW e \in Buckets, NEW now \in Times
    PROVE  LET n == Refilled(e, now) IN
           /\ n \in 0..(Capacity * Cost)
           /\ n <= e.tokens + Rate * Since(now, e.last_refill)
           /\ n = e.tokens + Rate * Since(now, e.last_refill) \/ n = Capacity * Cost
           /\ Rate * now + Rate * Since(e.last_refill, now)
                = Rate * e.last_refill + Rate * Since(now, e.last_refill)
           /\ Rate * Since(e.last_refill, now) \in Nat
           /\ Rate * Since(now, e.last_refill) \in Nat
<1>1. e.tokens \in 0..(Capacity * Cost) /\ e.last_refill \in Nat /\ now \in Nat
  BY Bounds DEF Buckets, Times
<1>2. Since(now, e.last_refill) \in Nat /\ Since(e.last_refill, now) \in Nat
  BY <1>1 DEF Since
<1>3. Rate * Since(now, e.last_refill) \in Nat /\ Rate * Since(e.last_refill, now) \in Nat
  BY <1>2, Bounds
<1>4. Since(now, e.last_refill) * Rate = Rate * Since(now, e.last_refill)
  BY <1>2, Bounds
<1>5. Refilled(e, now) =
        IF e.tokens + Rate * Since(now, e.last_refill) <= Capacity * Cost
        THEN e.tokens + Rate * Since(now, e.last_refill) ELSE Capacity * Cost
  BY <1>1, <1>3, <1>4, FullBucket, MinOfTwo DEF Refilled
<1>6. now + Since(e.last_refill, now) = e.last_refill + Since(now, e.last_refill)
  BY <1>1 DEF Since
<1>7. Rate * now + Rate * Since(e.last_refill, now)
        = Rate * (now + Since(e.last_refill, now))
      /\ Rate * e.last_refill + Rate * Since(now, e.last_refill)
        = Rate * (e.last_refill + Since(now, e.last_refill))
  BY <1>1, <1>2, Bounds
<1> QED BY <1>1, <1>3, <1>5, <1>6, <1>7, FullBucket

(* A check of the bucket keeps its balance, with the refill that an overtaken
   sample repeats added to what races gave away. *)
LEMMA BucketHit ==
    ASSUME NEW g \in Histories, NEW e \in Buckets, NEW now \in Times, NEW last \in Int,
           NEW x \in Nat, Totals(g, last), Balanced(g, e, x)
    PROVE  LET res == BucketCheck(e, now)
               h   == IF res.ok THEN Added(g, now) ELSE g
           IN  /\ res.entry \in Buckets /\ res.entry.last_refill = now
               /\ Balanced(h, res.entry, x + Rate * Since(e.last_refill, now))
<1> DEFINE n   == Refilled(e, now)
           res == BucketCheck(e, now)
           h   == IF res.ok THEN Added(g, now) ELSE g
           m   == IF res.ok THEN n - Cost ELSE n
           y   == x + Rate * Since(e.last_refill, now)
<1>1. /\ n \in 0..(Capacity * Cost)
      /\ n <= e.tokens + Rate * Since(now, e.last_refill)
      /\ Rate * now + Rate * Since(e.last_refill, now)
           = Rate * e.last_refill + Rate * Since(now, e.last_refill)
      /\ Rate * Since(e.last_refill, now) \in Nat
      /\ Rate * Since(now, e.last_refill) \in Nat
  BY RefillFacts
<1>2. /\ res.ok <=> n >= Cost
      /\ res.entry = [tokens |-> m, last_refill |-> now, last_seen |-> now]
  BY DEF BucketCheck
<1>3. m \in 0..(Capacity * Cost)
  BY <1>1, <1>2, Bounds, FullBucket
<1>4. res.entry \in Buckets /\ res.entry.last_refill = now /\ res.entry.tokens = m
  BY <1>2, <1>3 DEF Buckets
<1>5. ASSUME TtlOutlasts, NEW s \in Times, GrantedSince(h, s) > 0
      PROVE  GrantedSince(h, s) * Cost + m <= Capacity * Cost + Rate * (now - s) + y
  <2> DEFINE b == GrantedSince(g, s)
             d == IF res.ok /\ s <= now THEN 1 ELSE 0
  <2>1. MaxTime \in Times /\ s <= MaxTime /\ now <= MaxTime /\ s \in Nat /\ now \in Nat
    BY Bounds DEF Times
  <2>2. b \in Nat
    BY <2>1, BetweenBounds
  <2>3. GrantedSince(h, s) = b + d
    BY <2>1, <2>2, AddedOne DEF GrantedSince
  <2>4. e.last_refill \in Nat /\ e.tokens \in Nat
    BY Bounds, FullBucket DEF Buckets, Times
  <2>5. Rate * (now - s) = Rate * now - Rate * s
        /\ Rate * (e.last_refill - s) = Rate * e.last_refill - Rate * s
        /\ Rate * now \in Int /\ Rate * s \in Int /\ Rate * e.last_refill \in Int
    BY <2>1, <2>4, Bounds
  <2>6. (b + d) * Cost = b * Cost + d * Cost /\ b * Cost \in Int
    BY <2>2, Bounds
  <2>7. d * Cost + m <= n
    BY <1>1, Bounds, <1>2, FullBucket
  <2>8. CASE b > 0
    <3>1. b * Cost + e.tokens <= Capacity * Cost + Rate * (e.last_refill - s) + x
      BY <1>5, <2>8 DEF Balanced
    <3> HIDE DEF b, d, n, m, h, res
    <3>2. d * Cost \in Int
      BY Bounds DEF d
    <3> QED BY <1>1, <1>3, <2>2, <2>3, <2>4, <2>5, <2>6, <2>7, <3>1, <3>2, FullBucket, Bounds
  <2>9. CASE b = 0
    <3>1. d = 1 /\ s <= now
      BY <1>5, <2>2, <2>3, <2>9
    <3>2. Rate * (now - s) >= 0
      BY <3>1, <2>1, Bounds
    <3>3. Rate * (now - s) \in Int
      BY <2>1, Bounds
    <3>4. (b + d) * Cost = Cost /\ d * Cost = Cost
      BY <2>9, <3>1, Bounds
    <3> HIDE DEF b, d, n, m, h, res
    <3> QED BY <1>1, <1>3, <2>3, <2>7, <3>2, <3>3, <3>4, FullBucket, Bounds
  <2> QED BY <2>2, <2>8, <2>9
<1> HIDE DEF n, m, h, res, y
<1>6. Balanced(h, res.entry, y)
  BY <1>4, <1>5 DEF Balanced
<1> QED BY <1>4, <1>6 DEF res, h, y

(* A bucket made anew balances with what the forgotten one had used, which is
   excess unless the key was idle for so long that it had been full again. *)
LEMMA BucketInsert ==
    ASSUME NEW g \in Histories, NEW now \in Times, NEW last \in Int, NEW x \in Nat,
           NEW y \in Nat, Totals(g, last), Spent(g, last, x),
           y = x + (IF last = -1 \/ Since(now, last) >= Ttl THEN 0
                    ELSE Capacity * Cost + Rate * Since(last, now))
    PROVE  /\ BucketNew(now) \in Buckets /\ BucketNew(now).last_refill = now
           /\ Balanced(Added(g, now), BucketNew(now), y)
<1> DEFINE n == (Capacity - 1) * Cost
           h == Added(g, now)
<1>1. n = Capacity * Cost - Cost /\ n \in 0..(Capacity * Cost)
  BY FullBucket, Bounds
<1>2. BucketNew(now) \in Buckets /\ BucketNew(now).last_refill = now
      /\ BucketNew(now).tokens = n
  BY <1>1 DEF BucketNew, Buckets
<1>3. ASSUME TtlOutlasts, NEW s \in Times, GrantedSince(h, s) > 0
      PROVE  GrantedSince(h, s) * Cost + n <= Capacity * Cost + Rate * (now - s) + y
  <2> DEFINE b == GrantedSince(g, s)
             d == IF s <= now THEN 1 ELSE 0
  <2>1. MaxTime \in Times /\ s <= MaxTime /\ now <= MaxTime /\ s \in Nat /\ now \in Nat
    BY Bounds DEF Times
  <2>2. b \in Nat /\ (b > 0 => s <= last)
    BY <2>1, BetweenBounds DEF Totals
  <2>3. GrantedSince(h, s) = b + d
    BY <2>1, <2>2, AddedOne DEF GrantedSince
  <2>4. (b + d) * Cost = b * Cost + d * Cost /\ b * Cost \in Int /\ d * Cost \in Int
        /\ d * Cost <= Cost
    BY <2>2, Bounds
  <2>5. Rate * (now - s) \in Int /\ (s <= now => Rate * (now - s) >= 0)
    BY <2>1, Bounds
  <2>6. CASE b > 0
    <3>1. b * Cost <= Capacity * Cost + Rate * (last - s) + x /\ last # -1
      BY <1>3, <2>6, <2>2, <2>1 DEF Spent
    <3>2. b * Cost <= Rate * (now - s) + y
      <4>1. CASE Since(now, last) >= Ttl
        <5>1. Ttl > 0 /\ Rate * Ttl = Ttl * Rate /\ Rate * Ttl \in Int
          BY <1>3, Bounds DEF TtlOutlasts
        <5>2. last + Ttl <= now
          BY <4>1, <5>1, <2>1, Bounds DEF Since
        <5>3. Rate * (last - s + Ttl) <= Rate * (now - s)
          BY <5>2, <2>1, TimesMonotone, Bounds
        <5>4. Rate * (last - s + Ttl) = Rate * (last - s) + Rate * Ttl /\ Rate * (last - s) \in Int
          BY <2>1, Bounds
        <5>5. y = x
          BY <4>1
        <5> HIDE DEF b, d, n
        <5> QED BY <3>1, <5>1, <5>3, <5>4, <5>5, <2>4, <2>5, <1>3, FullBucket DEF TtlOutlasts
      <4>2. CASE ~(Since(now, last) >= Ttl)
        <5>2. last - s <= (now - s) + Since(last, now) /\ Since(last, now) \in Nat
          BY <2>1 DEF Since
        <5>3. Rate * (last - s) <= Rate * ((now - s) + Since(last, now))
          BY <5>2, <2>1, TimesMonotone, Bounds
        <5>4. Rate * ((now - s) + Since(last, now)) = Rate * (now - s) + Rate * Since(last, now)
              /\ Rate * Since(last, now) \in Int /\ Rate * (last - s) \in Int
          BY <5>2, <2>1, Bounds
        <5>1. y = x + (Capacity * Cost + Rate * Since(last, now))
          BY <4>2, <3>1
        <5> HIDE DEF b, d, n
        <5> QED BY <3>1, <5>1, <5>3, <5>4, <2>4, <2>5, FullBucket
      <4> QED BY <4>1, <4>2
    <3> HIDE DEF b, d, n
    <3> QED BY <1>1, <2>3, <2>4, <2>5, <3>2, FullBucket, Bounds
  <2>7. CASE b = 0
    <3>1. d = 1 /\ s <= now
      BY <1>3, <2>2, <2>3, <2>7
    <3>2. (b + d) * Cost = Cost
      BY <2>7, <3>1, Bounds
    <3> HIDE DEF b, d, n
    <3> QED BY <1>1, <2>3, <2>5, <3>1, <3>2, FullBucket, Bounds
  <2> QED BY <2>2, <2>6, <2>7
<1> HIDE DEF h, n
<1>4. Balanced(h, BucketNew(now), y)
  BY <1>2, <1>3 DEF Balanced
<1> QED BY <1>2, <1>4 DEF h

(* After the wait the bucket holds a token, whatever it was refilled with before. *)
Refills(e, p) == Cost <= e.tokens + Rate * Since(p, e.last_refill)

(* Division rounded up. *)
LEMMA Ceiling ==
    ASSUME NEW m \in Int
    PROVE  (m + Rate - 1) \div Rate \in Int /\ m <= Rate * ((m + Rate - 1) \div Rate)
<1> DEFINE q == (m + Rate - 1) \div Rate
<1>1. q \in Int /\ Rate * q + ((m + Rate - 1) % Rate) = m + Rate - 1
      /\ (m + Rate - 1) % Rate \in 0..(Rate - 1)
  BY Bounds
<1> HIDE DEF q
<1>2. Rate * q \in Int
  BY <1>1, Bounds
<1>3. m <= Rate * q
  BY <1>1, <1>2, Bounds
<1> QED BY <1>1, <1>3 DEF q

(* The Retry-After of a refusal is long enough to refill what a token lacks:
   (needed / rate).ceil() of TokenBucket. *)
LEMMA WaitSuffices ==
    ASSUME NEW n \in Nat
    PROVE  BucketWait(n) \in Nat \ {0} /\ Cost <= n + Rate * BucketWait(n)
<1> DEFINE q == (Cost - n + Rate - 1) \div Rate
<1>1. q \in Int /\ Cost - n <= Rate * q
  BY Ceiling, Bounds
<1>2. BucketWait(n) = IF q >= 1 THEN q ELSE 1
  BY <1>1, MaxOfTwo DEF BucketWait
<1> HIDE DEF q
<1>3. Rate * q <= Rate * BucketWait(n)
  BY <1>1, <1>2, TimesMonotone, Bounds
<1>4. Rate * q \in Int /\ Rate * BucketWait(n) \in Int
  BY <1>1, <1>2, Bounds
<1> QED BY <1>1, <1>2, <1>3, <1>4, Bounds

(* A refusal keeps every earlier promise, and its own: the check moves
   last_refill to its sample without losing tokens below the capacity. *)
LEMMA BucketRefuses ==
    ASSUME NEW e \in Buckets, NEW now \in Times, ~BucketCheck(e, now).ok
    PROVE  LET res == BucketCheck(e, now) IN
           /\ res.wait \in Nat /\ Refills(res.entry, now + res.wait)
           /\ \A p \in Nat : Refills(e, p) => Refills(res.entry, p)
<1> DEFINE n   == Refilled(e, now)
           res == BucketCheck(e, now)
<1>1. /\ n \in 0..(Capacity * Cost)
      /\ n = e.tokens + Rate * Since(now, e.last_refill) \/ n = Capacity * Cost
      /\ Rate * Since(now, e.last_refill) \in Nat
  BY RefillFacts
<1>2. n < Cost /\ res.wait = BucketWait(n)
      /\ res.entry = [tokens |-> n, last_refill |-> now, last_seen |-> now]
  BY <1>1, FullBucket, Bounds DEF BucketCheck
<1>3. n = e.tokens + Rate * Since(now, e.last_refill)
  BY <1>1, <1>2, FullBucket, Bounds
<1>4. now \in Nat /\ e.last_refill \in Nat /\ e.tokens \in Nat
  BY Bounds, FullBucket DEF Times, Buckets
<1>5. Refills(res.entry, now + res.wait)
  <2>1. n \in Nat /\ BucketWait(n) \in Nat \ {0} /\ Cost <= n + Rate * BucketWait(n)
    BY <1>1, FullBucket, WaitSuffices
  <2>2. Since(now + BucketWait(n), now) = BucketWait(n)
    BY <2>1, <1>4 DEF Since
  <2> HIDE DEF n
  <2> QED BY <1>2, <2>1, <2>2 DEF Refills
<1>6. ASSUME NEW p \in Nat, Refills(e, p)
      PROVE  Refills(res.entry, p)
  <2>1. Cost <= e.tokens + Rate * Since(p, e.last_refill)
    BY <1>6 DEF Refills
  <2>2. Since(p, e.last_refill) <= Since(now, e.last_refill) + Since(p, now)
        /\ Since(p, e.last_refill) \in Nat /\ Since(now, e.last_refill) \in Nat
        /\ Since(p, now) \in Nat
    BY <1>4 DEF Since
  <2>3. Rate * Since(p, e.last_refill) <= Rate * (Since(now, e.last_refill) + Since(p, now))
    BY <2>2, TimesMonotone, Bounds
  <2>4. Rate * (Since(now, e.last_refill) + Since(p, now))
          = Rate * Since(now, e.last_refill) + Rate * Since(p, now)
        /\ Rate * Since(p, now) \in Int /\ Rate * Since(p, e.last_refill) \in Int
    BY <2>2, Bounds
  <2> HIDE DEF n
  <2>5. Cost <= n + Rate * Since(p, now)
    BY <1>1, <1>3, <1>4, <2>1, <2>3, <2>4, Bounds
  <2> QED BY <1>2, <2>5 DEF Refills
<1>7. res.wait \in Nat
  BY <1>1, <1>2, FullBucket, WaitSuffices
<1> QED BY <1>5, <1>6, <1>7

(* Who comes back at a promised instant, or later, finds a token. *)
LEMMA BucketAdmits ==
    ASSUME NEW e \in Buckets, NEW now \in Times, NEW p \in Nat, p <= now, Refills(e, p)
    PROVE  BucketCheck(e, now).ok
<1>1. now \in Nat /\ e.last_refill \in Nat /\ e.tokens \in Nat
  BY Bounds, FullBucket DEF Times, Buckets
<1>2. Since(p, e.last_refill) <= Since(now, e.last_refill)
      /\ Since(p, e.last_refill) \in Nat /\ Since(now, e.last_refill) \in Nat
  BY <1>1 DEF Since
<1>3. Rate * Since(p, e.last_refill) <= Rate * Since(now, e.last_refill)
      /\ Rate * Since(p, e.last_refill) \in Int /\ Rate * Since(now, e.last_refill) \in Int
  BY <1>2, TimesMonotone, Bounds
<1>4. Cost <= e.tokens + Rate * Since(now, e.last_refill)
  BY <1>1, <1>3, Bounds DEF Refills
<1>5. Refilled(e, now) >= Cost
  BY <1>4, RefillFacts, FullBucket, Bounds
<1> QED BY <1>5 DEF BucketCheck

-----------------------------------------------------------------------------
(* The simple limiter. *)

Gaps == [next_allowed : Nat, last_seen : Times]
WindowEnd(s) == Min({s + Limit - 1, MaxTime})

(* A window that the entry does not close yet has had no request but those that
   races gave away: the last one that was due came before it. *)
Spaced(g, e, x) ==
    TtlOutlasts => \A s \in Times :
        e.next_allowed - Limit < s => Between(g, s, WindowEnd(s)) <= x

InSpacing(g, x) == TtlOutlasts => \A s \in Times : Between(g, s, WindowEnd(s)) <= 1 + x

(* A window of limit_duration from s, cut at the last tick considered. *)
LEMMA WindowFacts ==
    ASSUME NEW s \in Times
    PROVE  /\ WindowEnd(s) \in Times /\ s <= WindowEnd(s) /\ WindowEnd(s) < s + Limit
           /\ \A t \in Times : t < s + Limit => t <= WindowEnd(s)
<1>1. WindowEnd(s) = IF s + Limit - 1 <= MaxTime THEN s + Limit - 1 ELSE MaxTime
  BY Bounds, MinOfTwo DEF WindowEnd, Times
<1> QED BY <1>1, Bounds DEF Times

(* A check of the simple limiter: who passes closes the windows up to its own,
   and who is refused leaves next_allowed, the end of its wait, as it was. *)
LEMMA SimpleHit ==
    ASSUME NEW g \in Histories, NEW e \in Gaps, NEW now \in Times, NEW last \in Int,
           NEW x \in Nat, Totals(g, last), Spaced(g, e, x), InSpacing(g, x)
    PROVE  LET res == SimpleCheck(e, now)
               h   == IF res.ok THEN Added(g, now) ELSE g
           IN  /\ res.entry \in Gaps /\ Spaced(h, res.entry, x) /\ InSpacing(h, x)
               /\ ~res.ok => /\ res.entry.next_allowed = e.next_allowed
                             /\ res.wait \in Nat /\ now + res.wait = e.next_allowed
<1> DEFINE res == SimpleCheck(e, now)
<1>1. e.next_allowed \in Nat /\ now \in Nat
  BY Bounds DEF Gaps, Times
<1>2. CASE now < e.next_allowed
  <2>1. /\ ~res.ok /\ res.wait = e.next_allowed - now
        /\ res.entry = [e EXCEPT !.last_seen = now]
    BY <1>2 DEF SimpleCheck
  <2>2. res.entry \in Gaps /\ res.entry.next_allowed = e.next_allowed
    BY <2>1 DEF Gaps
  <2> QED BY <1>1, <1>2, <2>1, <2>2 DEF Spaced
<1>3. CASE ~(now < e.next_allowed)
  <2>1. res.ok /\ res.entry = [next_allowed |-> now + Limit, last_seen |-> now]
    BY <1>3 DEF SimpleCheck
  <2>2. res.entry \in Gaps /\ res.entry.next_allowed - Limit = now
    BY <2>1, <1>1, Bounds DEF Gaps
  <2>3. ASSUME TtlOutlasts, NEW s \in Times
        PROVE  /\ now < s => Between(Added(g, now), s, WindowEnd(s)) <= x
               /\ Between(Added(g, now), s, WindowEnd(s)) <= 1 + x
    <3>1. WindowEnd(s) \in Times /\ s <= WindowEnd(s) /\ WindowEnd(s) < s + Limit
      BY WindowFacts
    <3>2. Between(Added(g, now), s, WindowEnd(s)) = Between(g, s, WindowEnd(s))
            + (IF s <= now /\ now <= WindowEnd(s) THEN 1 ELSE 0)
      BY <3>1, AddedOne
    <3>3. Between(g, s, WindowEnd(s)) \in Nat /\ Between(g, s, WindowEnd(s)) <= 1 + x
      BY <2>3, <3>1, BetweenBounds DEF InSpacing
    <3>4. now <= WindowEnd(s) => Between(g, s, WindowEnd(s)) <= x
      BY <1>1, <1>3, <2>3, <3>1, Bounds DEF Spaced, Times
    <3>5. now < s => Between(g, s, WindowEnd(s)) <= x
      BY <1>1, <1>3, <2>3, Bounds DEF Spaced, Times
    <3> HIDE DEF Between
    <3> QED BY <1>1, <3>1, <3>2, <3>3, <3>4, <3>5, Bounds DEF Times
  <2> QED BY <2>1, <2>2, <2>3 DEF Spaced, InSpacing
<1> QED BY <1>2, <1>3

(* A new entry of the simple limiter: the first request of the key, one that
   comes an idle TTL after the last, or one that a race gave away. *)
LEMMA SimpleInsert ==
    ASSUME NEW g \in Histories, NEW now \in Times, NEW last \in Int, NEW x \in Nat,
           NEW y \in Nat, Totals(g, last), InSpacing(g, x),
           y = x + (IF last = -1 \/ Since(now, last) >= Ttl THEN 0 ELSE 1)
    PROVE  /\ SimpleNew(now) \in Gaps
           /\ Spaced(Added(g, now), SimpleNew(now), y) /\ InSpacing(Added(g, now), y)
<1>1. now \in Nat
  BY Bounds DEF Times
<1>2. SimpleNew(now) \in Gaps /\ SimpleNew(now).next_allowed - Limit = now
  BY <1>1, Bounds DEF SimpleNew, Gaps
<1>3. ASSUME TtlOutlasts, NEW s \in Times
      PROVE  /\ now < s => Between(Added(g, now), s, WindowEnd(s)) <= y
             /\ Between(Added(g, now), s, WindowEnd(s)) <= 1 + y
  <2> DEFINE b == Between(g, s, WindowEnd(s))
  <2>1. WindowEnd(s) \in Times /\ s <= WindowEnd(s) /\ WindowEnd(s) < s + Limit /\ s \in Nat
    BY WindowFacts, Bounds DEF Times
  <2>2. Between(Added(g, now), s, WindowEnd(s))
          = b + (IF s <= now /\ now <= WindowEnd(s) THEN 1 ELSE 0)
    BY <2>1, AddedOne
  <2>3. b \in Nat /\ b <= 1 + x /\ b <= GrantedSince(g, s) /\ GrantedSince(g, s) \in Nat
    BY <1>3, <2>1, BetweenBounds DEF InSpacing
  <2>4. b > 0 => s <= last
    BY <2>3 DEF Totals
  <2> HIDE DEF b
  <2>5. CASE last = -1 \/ Since(now, last) >= Ttl
    <3>1. last # -1 => last + Limit <= now
      BY <1>1, <1>3, <2>5, Bounds DEF Since, TtlOutlasts
    <3>2. now <= WindowEnd(s) \/ now < s => b = 0
      BY <1>1, <2>1, <2>3, <2>4, <3>1, Bounds DEF Times
    <3> QED BY <1>1, <2>1, <2>2, <2>3, <2>5, <3>2, Bounds
  <2>6. CASE ~(last = -1 \/ Since(now, last) >= Ttl)
    BY <1>1, <2>1, <2>2, <2>3, <2>6
  <2> QED BY <2>5, <2>6
<1> QED BY <1>2, <1>3 DEF Spaced, InSpacing

-----------------------------------------------------------------------------
(* The inductive invariant *)

PCs == {"idle", "sweep", "retain", "lookup", "full", "retainFull", "recheck", "insert"}

Entries == IF kind = "Simple" THEN Gaps ELSE Buckets

Shape ==
    /\ kind \in LimiterKinds
    /\ clock \in Times
    /\ DOMAIN entries \subseteq Keys /\ entries \in [DOMAIN entries -> Entries]
    /\ worker \in [Workers -> [pc : PCs, key : Keys \cup {None}, now : Times]]
    /\ \A w \in Workers : worker[w].pc # "idle" => worker[w].key \in Keys
    /\ granted \in [Keys -> Histories]
    /\ seen \in [Keys -> Times \cup {-1}]
    /\ excess \in [Keys -> Nat]
    /\ promise \in [Keys -> Nat \cup {-1}]

(* What the history of a key satisfies, whether or not it has an entry. *)
HistoryOk(g, last, x) ==
    /\ Totals(g, last)
    /\ kind = "Simple" => InSpacing(g, x)
    /\ kind = "TokenBucket" => InRate(g, x) /\ Spent(g, last, x)

(* What the entry of a key remembers of its history, and of its refusals. *)
EntryOk(g, e, last, x, p) ==
    /\ kind = "Simple" =>
         Spaced(g, e, x) /\ (p # -1 => e.next_allowed <= p)
    /\ kind = "TokenBucket" =>
         Balanced(g, e, x) /\ e.last_refill <= last /\ (p # -1 => Refills(e, p))

HistoriesOk == \A k \in Keys : HistoryOk(granted[k], seen[k], excess[k])
EntriesOk ==
    \A k \in DOMAIN entries :
        EntryOk(granted[k], entries[k], seen[k], excess[k], promise[k])

(* Every worker that is past the comparison with max_entries counts against
   the room that is left. *)
Inserting == {w \in Workers : worker[w].pc = "insert"}
RoomCounted ==
    /\ IsFiniteSet(DOMAIN entries)
    /\ Cardinality(DOMAIN entries) + Cardinality(Inserting)
         <= MaxEntries + Cardinality(Workers) - 1

(* The inductive invariant: types, histories, entries and the table. *)
IInv == Shape /\ HistoriesOk /\ EntriesOk /\ RoomCounted

(* At first the table is empty and nothing has been granted. *)
LEMMA InitIInv == Init => IInv
<1> SUFFICES ASSUME Init PROVE IInv
  OBVIOUS
<1>0. kind \in LimiterKinds
  BY KindsAssumption DEF Init
<1>1. 0 \in Times /\ DOMAIN entries = {}
  BY Bounds DEF Init, Times
<1>2. Shape
  <2>1. entries \in [DOMAIN entries -> Entries]
    BY DEF Init
  <2>2. Idle \in [pc : PCs, key : Keys \cup {None}, now : Times] /\ Idle.pc = "idle"
    BY <1>1 DEF Idle, PCs
  <2>3. [t \in 0..MaxTime |-> 0] \in Histories
    BY DEF Histories, Times
  <2> QED BY <1>0, <1>1, <2>1, <2>2, <2>3 DEF Shape, Init
<1>3. HistoriesOk
  <2> SUFFICES ASSUME NEW k \in Keys
               PROVE  HistoryOk(granted[k], seen[k], excess[k])
    BY DEF HistoriesOk
  <2>1. granted[k] = [t \in Times |-> 0] /\ seen[k] = -1 /\ excess[k] = 0
    BY DEF Init, Times
  <2> DEFINE g == [t \in Times |-> 0]
  <2>2. \A s, t \in Times : s <= t => Between(g, s, t) = 0
    BY Bounds DEF Between, Times
  <2>3. \A s \in Times : GrantedSince(g, s) = 0
    BY <2>2, Bounds DEF GrantedSince, Times
  <2>4. g \in Histories /\ \A s, t \in Times : g[s] <= g[t]
    BY DEF Histories
  <2> HIDE DEF g
  <2>5. Totals(g, -1) /\ Spent(g, -1, 0)
    BY <2>3, <2>4 DEF Totals, Spent
  <2>6. InSpacing(g, 0)
    BY <2>2, WindowFacts DEF InSpacing
  <2>7. ASSUME NEW s \in Times, NEW t \in Times, s <= t
        PROVE  Between(g, s, t) * Cost <= Capacity * Cost + Rate * (t - s) + 0
    <3>1. Rate * (t - s) >= 0 /\ Rate * (t - s) \in Int
      BY <2>7, Bounds DEF Times
    <3>2. Between(g, s, t) * Cost = 0
      BY <2>2, <2>7, Bounds
    <3> QED BY <3>1, <3>2, FullBucket
  <2>8. InRate(g, 0)
    BY <2>7 DEF InRate
  <2> QED BY <2>1, <2>5, <2>6, <2>8 DEF HistoryOk, g
<1>4. EntriesOk
  BY <1>1 DEF EntriesOk
<1>5. RoomCounted
  <2>1. Inserting = {}
    BY DEF Init, Inserting, Idle
  <2>2. Cardinality(Workers) \in Nat
    BY WorkersAssumption, FS_CardinalityType
  <2> QED BY <1>1, <2>1, <2>2, FS_EmptySet, Bounds DEF RoomCounted
<1> QED BY <1>2, <1>3, <1>4, <1>5 DEF IInv

-----------------------------------------------------------------------------
(* A check of one key: its history and its entry before and after. *)

Later(last, now) == IF last >= now THEN last ELSE now

(* What a history satisfies it satisfies with a later sample and more excess.
   *)
LEMMA HistoryLater ==
    ASSUME kind \in LimiterKinds, NEW g \in Histories, NEW last \in Int, NEW newer \in Int,
           NEW x \in Nat, NEW y \in Nat, last <= newer, x <= y, HistoryOk(g, last, x)
    PROVE  HistoryOk(g, newer, y)
<1>1. Totals(g, newer)
  BY TotalsLater DEF HistoryOk
<1>2. ASSUME kind = "Simple" PROVE InSpacing(g, y)
  <2>1. \A s \in Times : WindowEnd(s) \in Times /\ s <= WindowEnd(s)
    BY WindowFacts
  <2>2. \A s \in Times : Between(g, s, WindowEnd(s)) \in Nat
    BY <2>1, BetweenBounds DEF HistoryOk
  <2> QED BY <1>2, <2>2 DEF HistoryOk, InSpacing
<1>3. ASSUME kind = "TokenBucket" PROVE InRate(g, y) /\ Spent(g, newer, y)
  <2>1. InRate(g, x) /\ Spent(g, last, x) /\ Totals(g, last)
    BY <1>3 DEF HistoryOk
  <2>2. ASSUME TtlOutlasts, NEW s \in Times, NEW t \in Times, s <= t
        PROVE  Between(g, s, t) * Cost <= Capacity * Cost + Rate * (t - s) + y
    <3>1. Between(g, s, t) * Cost <= Capacity * Cost + Rate * (t - s) + x
      BY <2>1, <2>2 DEF InRate
    <3>2. Between(g, s, t) \in Nat
      BY <2>1, <2>2, BetweenBounds
    <3>3. Between(g, s, t) * Cost \in Int /\ Rate * (t - s) \in Int
      BY <3>2, Bounds DEF Times
    <3> QED BY <3>1, <3>3, FullBucket
  <2>3. ASSUME TtlOutlasts, NEW s \in Times, GrantedSince(g, s) > 0
        PROVE  GrantedSince(g, s) * Cost <= Capacity * Cost + Rate * (newer - s) + y
    <3>1. GrantedSince(g, s) * Cost <= Capacity * Cost + Rate * (last - s) + x
      BY <2>1, <2>3 DEF Spent
    <3>2. GrantedSince(g, s) \in Nat
      BY <2>1, BetweenBounds, Bounds DEF Times
    <3>3. Rate * (last - s) <= Rate * (newer - s) /\ s \in Int
      BY TimesMonotone, Bounds DEF Times
    <3>4. GrantedSince(g, s) * Cost \in Int /\ Rate * (last - s) \in Int
          /\ Rate * (newer - s) \in Int
      BY <3>2, <3>3, Bounds
    <3> QED BY <3>1, <3>3, <3>4, FullBucket
  <2> QED BY <2>2, <2>3 DEF InRate, Spent
<1> QED BY <1>1, <1>2, <1>3 DEF HistoryOk

(* A check of an entry, of either limiter: history, entry and promise. *)
LEMMA CheckKeeps ==
    ASSUME kind \in LimiterKinds, NEW g \in Histories, NEW e \in Entries, NEW now \in Times,
           NEW last \in Int, NEW x \in Nat, NEW p \in Nat \cup {-1},
           HistoryOk(g, last, x), EntryOk(g, e, last, x, p),
           NEW y \in Nat,
           y = x + (IF kind = "Simple" THEN 0 ELSE Rate * Since(e.last_refill, now))
    PROVE  LET res == Check(e, now)
               n   == Later(last, now)
               h   == Added(g, now)
           IN  /\ res.entry \in Entries /\ x <= y
               /\ res.ok => HistoryOk(h, n, y) /\ EntryOk(h, res.entry, n, y, -1)
               /\ ~res.ok =>
                    /\ res.wait \in Nat /\ HistoryOk(g, n, y)
                    /\ EntryOk(g, res.entry, n, y, now + res.wait)
                    /\ p # -1 => EntryOk(g, res.entry, n, y, p)
<1> DEFINE res == Check(e, now)
           n   == Later(last, now)
           h   == Added(g, now)
<1>1. n \in Int /\ last <= n /\ now <= n /\ now \in Nat
  BY Bounds DEF Later, Times
<1>2. Totals(g, last) /\ Totals(g, n) /\ Totals(h, n) /\ h \in Histories
  BY <1>1, TotalsLater, AddedTotals, AddedOne DEF HistoryOk
<1>3. CASE kind = "Simple"
  <2>1. y = x /\ e \in Gaps /\ res = SimpleCheck(e, now) /\ kind # "TokenBucket"
    BY <1>3 DEF Entries, Check
  <2>2. /\ res.entry \in Gaps /\ Spaced(IF res.ok THEN h ELSE g, res.entry, x)
        /\ InSpacing(IF res.ok THEN h ELSE g, x)
        /\ ~res.ok => /\ res.entry.next_allowed = e.next_allowed
                      /\ res.wait \in Nat /\ now + res.wait = e.next_allowed
    BY <1>2, <1>3, <2>1, SimpleHit DEF HistoryOk, EntryOk
  <2>3. p # -1 => e.next_allowed <= p
    BY <1>3 DEF EntryOk
  <2>4. e.next_allowed \in Nat
    BY <2>1 DEF Gaps
  <2> HIDE DEF res, n, h
  <2>5. ASSUME res.ok PROVE HistoryOk(h, n, y) /\ EntryOk(h, res.entry, n, y, -1)
    BY <1>2, <1>3, <2>1, <2>2, <2>5 DEF HistoryOk, EntryOk
  <2>6. ASSUME ~res.ok
        PROVE  /\ res.wait \in Nat /\ HistoryOk(g, n, y)
               /\ EntryOk(g, res.entry, n, y, now + res.wait)
               /\ p # -1 => EntryOk(g, res.entry, n, y, p)
    BY <1>2, <1>3, <2>1, <2>2, <2>3, <2>4, <2>6 DEF HistoryOk, EntryOk
  <2> QED BY <1>3, <2>1, <2>2, <2>5, <2>6 DEF Entries, res, n, h
<1>4. CASE kind = "TokenBucket"
  <2>1. /\ y = x + Rate * Since(e.last_refill, now) /\ e \in Buckets
        /\ res = BucketCheck(e, now) /\ kind # "Simple"
    BY <1>4 DEF Entries, Check
  <2>2. x <= y
    BY <2>1, RefillFacts
  <2>3. /\ res.entry \in Buckets /\ res.entry.last_refill = now
        /\ Balanced(IF res.ok THEN h ELSE g, res.entry, y)
    BY <1>2, <1>4, <2>1, BucketHit DEF HistoryOk, EntryOk
  <2>4. ASSUME res.ok PROVE HistoryOk(h, n, y) /\ EntryOk(h, res.entry, n, y, -1)
    <3>1. Balanced(h, res.entry, y)
      BY <2>3, <2>4
    <3>2. InRate(g, x)
      BY <1>4 DEF HistoryOk
    <3>3. InRate(h, y)
      BY <1>1, <1>2, <2>2, <2>3, <3>1, <3>2, GrantInRate
    <3>4. Spent(h, n, y)
      BY <1>1, <1>2, <2>3, <3>1, BalancedSpent
    <3> HIDE DEF res, n, h
    <3> QED BY <1>1, <1>2, <2>1, <2>3, <3>1, <3>3, <3>4 DEF HistoryOk, EntryOk
  <2>5. ASSUME ~res.ok
        PROVE  /\ res.wait \in Nat /\ HistoryOk(g, n, y)
               /\ EntryOk(g, res.entry, n, y, now + res.wait)
               /\ p # -1 => EntryOk(g, res.entry, n, y, p)
    <3>1. HistoryOk(g, n, y)
      BY <1>1, <2>2, HistoryLater
    <3>2. /\ res.wait \in Nat /\ Refills(res.entry, now + res.wait)
          /\ p # -1 => Refills(res.entry, p)
      BY <1>4, <2>1, <2>5, BucketRefuses DEF EntryOk
    <3>3. Balanced(g, res.entry, y)
      BY <2>3, <2>5
    <3> HIDE DEF res, n, h
    <3> QED BY <1>1, <2>1, <2>3, <3>1, <3>2, <3>3 DEF EntryOk
  <2> HIDE DEF res, n, h
  <2>6. res.entry \in Entries
    BY <2>1, <2>3 DEF Entries
  <2> QED BY <2>2, <2>4, <2>5, <2>6 DEF res, n, h
<1> QED BY <1>3, <1>4 DEF LimiterKinds

(* A new entry, of either limiter. *)
LEMMA InsertKeeps ==
    ASSUME kind \in LimiterKinds, NEW g \in Histories, NEW now \in Times,
           NEW last \in Times \cup {-1}, NEW x \in Nat, HistoryOk(g, last, x),
           NEW y,
           y = x + (IF last = -1 \/ Since(now, last) >= Ttl THEN 0
                    ELSE IF kind = "Simple" THEN 1
                    ELSE Capacity * Cost + Rate * Since(last, now))
    PROVE  LET n == Later(last, now)
               h == Added(g, now)
           IN  /\ New(now) \in Entries /\ y \in Nat
               /\ HistoryOk(h, n, y) /\ EntryOk(h, New(now), n, y, -1)
<1> DEFINE n == Later(last, now)
           h == Added(g, now)
<1>1. n \in Int /\ last <= n /\ now <= n /\ now \in Nat /\ last \in Int
  BY Bounds DEF Later, Times
<1>2. Totals(g, last) /\ Totals(g, n) /\ Totals(h, n) /\ h \in Histories
  BY <1>1, TotalsLater, AddedTotals, AddedOne DEF HistoryOk
<1>3. CASE kind = "Simple"
  <2>1. y = x + (IF last = -1 \/ Since(now, last) >= Ttl THEN 0 ELSE 1) /\ y \in Nat
    BY <1>3
  <2>2. New(now) = SimpleNew(now) /\ InSpacing(g, x) /\ kind # "TokenBucket"
    BY <1>3 DEF New, HistoryOk
  <2>3. New(now) \in Gaps /\ Spaced(h, New(now), y) /\ InSpacing(h, y)
    BY <1>1, <1>2, <2>1, <2>2, SimpleInsert
  <2> HIDE DEF n, h
  <2> QED BY <1>2, <1>3, <2>1, <2>2, <2>3 DEF HistoryOk, EntryOk, Entries, n, h
<1>4. CASE kind = "TokenBucket"
  <2>1. Rate * Since(last, now) \in Nat
    BY <1>1, Bounds DEF Since
  <2>2. y = x + (IF last = -1 \/ Since(now, last) >= Ttl THEN 0
                 ELSE Capacity * Cost + Rate * Since(last, now))
    BY <1>4
  <2>3. y \in Nat /\ x <= y
    BY <2>1, <2>2, FullBucket
  <2>4. New(now) = BucketNew(now) /\ Spent(g, last, x) /\ InRate(g, x) /\ kind # "Simple"
    BY <1>4 DEF New, HistoryOk
  <2>5. New(now) \in Buckets /\ New(now).last_refill = now /\ Balanced(h, New(now), y)
    BY <1>1, <1>2, <2>2, <2>3, <2>4, BucketInsert
  <2>6. InRate(h, y)
    BY <1>1, <1>2, <2>3, <2>4, <2>5, GrantInRate
  <2>7. Spent(h, n, y)
    BY <1>1, <1>2, <2>3, <2>5, BalancedSpent
  <2> HIDE DEF n, h
  <2>8. HistoryOk(h, n, y) /\ EntryOk(h, New(now), n, y, -1) /\ New(now) \in Entries
    BY <1>1, <1>2, <2>4, <2>5, <2>6, <2>7 DEF HistoryOk, EntryOk, Entries
  <2> QED BY <2>3, <2>8 DEF n, h
<1> QED BY <1>3, <1>4 DEF LimiterKinds

-----------------------------------------------------------------------------
(* One step *)

(* The workers are finitely many. *)
LEMMA InsertingFinite ==
    /\ Cardinality(Workers) \in Nat
    /\ \A S \in SUBSET Workers : IsFiniteSet(S) /\ Cardinality(S) \in Nat
                                 /\ Cardinality(S) <= Cardinality(Workers)
BY WorkersAssumption, FS_Subset, FS_CardinalityType

(* Nobody comes to insert without room, as the table and the others stand. *)
LEMMA RoomKept ==
    ASSUME RoomCounted, NEW D, D \subseteq DOMAIN entries,
           NEW I, I \subseteq Inserting
    PROVE  /\ IsFiniteSet(D)
           /\ Cardinality(D) + Cardinality(I) <= MaxEntries + Cardinality(Workers) - 1
<1>1. IsFiniteSet(D) /\ Cardinality(D) <= Cardinality(DOMAIN entries)
      /\ Cardinality(D) \in Nat /\ Cardinality(DOMAIN entries) \in Nat
  BY FS_Subset, FS_CardinalityType DEF RoomCounted
<1>2. Inserting \subseteq Workers
  BY DEF Inserting
<1>3. IsFiniteSet(Inserting) /\ Cardinality(I) <= Cardinality(Inserting)
      /\ Cardinality(I) \in Nat /\ Cardinality(Inserting) \in Nat
  BY <1>2, InsertingFinite, FS_Subset, FS_CardinalityType
<1> QED BY <1>1, <1>3, InsertingFinite, Bounds DEF RoomCounted

(* The steps that touch neither the table nor the history. *)
Aside == UNCHANGED <<kind, entries, hist>>

(* Such a step keeps the invariant if nobody comes to insert into a full
   table. *)
LEMMA AsideKeeps ==
    ASSUME IInv, Aside, clock' \in Times,
           worker' \in [Workers -> [pc : PCs, key : Keys \cup {None}, now : Times]],
           \A w \in Workers : worker'[w].pc # "idle" => worker'[w].key \in Keys,
           Inserting' \subseteq Inserting \/ ~Full
    PROVE  IInv'
<1>1. /\ kind' = kind /\ entries' = entries /\ granted' = granted /\ seen' = seen
      /\ excess' = excess /\ promise' = promise
  BY DEF Aside, hist
<1>2. Shape'
  BY <1>1 DEF IInv, Shape, Entries
<1>3. HistoriesOk' /\ EntriesOk'
  BY <1>1 DEF IInv, HistoriesOk, EntriesOk, HistoryOk, EntryOk
<1>4. RoomCounted'
  <2>1. CASE Inserting' \subseteq Inserting
    BY <2>1, <1>1, RoomKept DEF IInv, RoomCounted
  <2>2. CASE ~Full
    <3>1. Inserting' \subseteq Workers
      BY DEF Inserting
    <3>2. Cardinality(Inserting') \in Nat /\ Cardinality(Inserting') <= Cardinality(Workers)
      BY <3>1, InsertingFinite
    <3>3. Cardinality(DOMAIN entries) \in Nat /\ Cardinality(DOMAIN entries) < MaxEntries
      BY <2>2, FS_CardinalityType, Bounds DEF Full, IInv, RoomCounted
    <3> QED BY <1>1, <3>2, <3>3, InsertingFinite, Bounds DEF IInv, RoomCounted
  <2> QED BY <2>1, <2>2
<1> QED BY <1>2, <1>3, <1>4 DEF IInv

Records == [pc : PCs, key : Keys \cup {None}, now : Times]

(* A worker that moves on. *)
LEMMA GotoKeeps ==
    ASSUME Shape, NEW w \in Workers, NEW label \in PCs, worker[w].pc # "idle", Goto(w, label)
    PROVE  /\ worker' \in [Workers -> Records]
           /\ \A v \in Workers : worker'[v].pc # "idle" => worker'[v].key \in Keys
           /\ label # "insert" => Inserting' \subseteq Inserting
BY DEF Shape, Goto, Records, Inserting

(* A worker that has its answer. *)
LEMMA IdleKeeps ==
    ASSUME Shape, NEW w \in Workers, worker' = [worker EXCEPT ![w] = Idle]
    PROVE  /\ worker' \in [Workers -> Records]
           /\ \A v \in Workers : worker'[v].pc # "idle" => worker'[v].key \in Keys
           /\ Inserting' = Inserting \ {w}
<1>1. 0 \in Times
  BY Bounds DEF Times
<1>2. Idle \in Records /\ Idle.pc = "idle"
  BY <1>1 DEF Idle, Records, PCs
<1> QED BY <1>2 DEF Shape, Records, Inserting

(* A check begins and samples the clock. *)
LEMMA CallStep ==
    ASSUME IInv, NEW w \in Workers, Call(w)
    PROVE  IInv'
<1>1. PICK q \in Requests : worker' = [worker EXCEPT ![w] =
                        [pc |-> "sweep", key |-> Key(q), now |-> clock]]
  BY DEF Call
<1>2. [pc |-> "sweep", key |-> Key(q), now |-> clock] \in Records /\ Key(q) \in Keys
  BY DEF Records, PCs, Keys, IInv, Shape
<1>3. worker' \in [Workers -> Records]
      /\ (\A v \in Workers : worker'[v].pc # "idle" => worker'[v].key \in Keys)
      /\ Inserting' \subseteq Inserting
  BY <1>1, <1>2 DEF IInv, Shape, Records, Inserting
<1>4. Aside /\ clock' \in Times
  BY DEF Call, Aside, IInv, Shape, store
<1> QED BY <1>3, <1>4, AsideKeeps DEF Records

(* maybe_cleanup takes the mutex, or goes on without it. *)
LEMMA SweepStep ==
    ASSUME IInv, NEW w \in Workers, TryLock(w) \/ SkipSweep(w)
    PROVE  IInv'
<1>1. PICK label \in PCs \ {"insert"} : Goto(w, label)
  BY DEF TryLock, SkipSweep, AfterSweep, PCs
<1>2. worker[w].pc # "idle" /\ Aside /\ clock' = clock
  BY DEF TryLock, SkipSweep, Aside, store
<1> QED BY <1>1, <1>2, GotoKeeps, AsideKeeps DEF Records, IInv, Shape

(* The key is unknown and the length is compared with max_entries. *)
LEMMA MissStep ==
    ASSUME IInv, NEW w \in Workers, Miss(w)
    PROVE  IInv'
<1>1. Goto(w, IF Full THEN "full" ELSE "insert") /\ worker[w].pc # "idle"
      /\ Aside /\ clock' = clock
  BY DEF Miss, Aside, store
<1>2. "full" \in PCs /\ "insert" \in PCs
  BY DEF PCs
<1> QED BY <1>1, <1>2, GotoKeeps, AsideKeeps DEF Records, IInv, Shape

(* The length is compared again after the sweep of a full table. *)
LEMMA RecheckStep ==
    ASSUME IInv, NEW w \in Workers, Recheck(w)
    PROVE  IInv'
<1>1. Aside /\ clock' = clock /\ worker[w].pc = "recheck"
  BY DEF Recheck, Aside, store
<1>2. CASE Full
  <2>1. worker' = [worker EXCEPT ![w] = Idle]
    BY <1>2 DEF Recheck
  <2> QED BY <2>1, <1>1, IdleKeeps, AsideKeeps DEF Records, IInv, Shape
<1>3. CASE ~Full
  <2>1. worker' = [worker EXCEPT ![w] = [worker[w] EXCEPT !.pc = "insert"]]
    BY <1>3 DEF Recheck
  <2>2. [worker[w] EXCEPT !.pc = "insert"] \in Records
        /\ [worker[w] EXCEPT !.pc = "insert"].key = worker[w].key
    BY DEF IInv, Shape, Records, PCs
  <2>3. worker' \in [Workers -> Records]
        /\ \A v \in Workers : worker'[v].pc # "idle" => worker'[v].key \in Keys
    BY <1>1, <2>1, <2>2 DEF IInv, Shape, Records
  <2> QED BY <1>1, <1>3, <2>3, AsideKeeps DEF Records, IInv, Shape
<1> QED BY <1>2, <1>3

(* cleanup takes entries away, never the history of their keys. *)
LEMMA RetainStep ==
    ASSUME IInv, NEW w \in Workers, Retain(w)
    PROVE  IInv'
<1> DEFINE K == Kept(w)
<1>1. K \subseteq DOMAIN entries /\ entries' = [k \in K |-> entries[k]]
  BY DEF Retain, Kept, Restrict
<1>2. AfterSweep(w) \in PCs \ {"insert"} /\ Goto(w, AfterSweep(w)) /\ worker[w].pc # "idle"
  BY DEF Retain, AfterSweep, PCs
<1>3. /\ kind' = kind /\ clock' = clock /\ granted' = granted /\ seen' = seen
      /\ excess' = excess /\ promise' = promise
  BY DEF Retain, hist
<1> HIDE DEF K
<1>4. worker' \in [Workers -> Records]
      /\ (\A v \in Workers : worker'[v].pc # "idle" => worker'[v].key \in Keys)
      /\ Inserting' \subseteq Inserting
  BY <1>2, GotoKeeps DEF IInv
<1>5. Shape'
  BY <1>1, <1>3, <1>4 DEF IInv, Shape, Entries, Records
<1>6. HistoriesOk' /\ EntriesOk'
  BY <1>1, <1>3 DEF IInv, HistoriesOk, EntriesOk, HistoryOk, EntryOk
<1>7. RoomCounted'
  <2>1. DOMAIN entries' = K
    BY <1>1
  <2> QED BY <2>1, <1>1, <1>4, RoomKept DEF IInv, RoomCounted
<1> QED BY <1>5, <1>6, <1>7 DEF IInv

(* The rest of the invariant is about one key at a time: a step that writes the
   entry e2 and the history of k leaves the other keys alone. *)
LEMMA KeyStep ==
    ASSUME IInv, NEW w \in Workers, NEW k \in Keys,
           NEW e2 \in Entries, NEW g2 \in Histories, NEW n2 \in Times \cup {-1},
           NEW x2 \in Nat, NEW p2 \in Nat \cup {-1},
           kind' = kind, clock' = clock, worker' = [worker EXCEPT ![w] = Idle],
           entries' = [j \in DOMAIN entries \cup {k} |-> IF j = k THEN e2 ELSE entries[j]],
           granted' = [granted EXCEPT ![k] = g2], seen' = [seen EXCEPT ![k] = n2],
           excess' = [excess EXCEPT ![k] = x2], promise' = [promise EXCEPT ![k] = p2],
           HistoryOk(g2, n2, x2), EntryOk(g2, e2, n2, x2, p2),
           k \in DOMAIN entries \/ w \in Inserting
    PROVE  IInv'
<1>1. worker' \in [Workers -> Records]
      /\ (\A v \in Workers : worker'[v].pc # "idle" => worker'[v].key \in Keys)
      /\ Inserting' = Inserting \ {w}
  BY IdleKeeps DEF IInv
<1>2. Shape'
  <2>1. DOMAIN entries' \subseteq Keys /\ entries' \in [DOMAIN entries' -> Entries']
    BY DEF IInv, Shape, Entries
  <2>2. /\ granted' \in [Keys -> Histories] /\ seen' \in [Keys -> Times \cup {-1}]
        /\ excess' \in [Keys -> Nat] /\ promise' \in [Keys -> Nat \cup {-1}]
    BY DEF IInv, Shape
  <2> QED BY <1>1, <2>1, <2>2 DEF IInv, Shape, Records
<1>3. /\ granted'[k] = g2 /\ seen'[k] = n2 /\ excess'[k] = x2 /\ promise'[k] = p2
      /\ entries'[k] = e2
  BY DEF IInv, Shape
<1>4. \A j \in Keys \ {k} : /\ granted'[j] = granted[j] /\ seen'[j] = seen[j]
                            /\ excess'[j] = excess[j] /\ promise'[j] = promise[j]
  BY DEF IInv, Shape
<1>5. HistoriesOk'
  <2> SUFFICES ASSUME NEW j \in Keys
               PROVE  HistoryOk(granted'[j], seen'[j], excess'[j])
    BY DEF HistoriesOk, HistoryOk
  <2> QED BY <1>3, <1>4 DEF IInv, HistoriesOk
<1>6. EntriesOk'
  <2> SUFFICES ASSUME NEW j \in DOMAIN entries'
               PROVE  EntryOk(granted'[j], entries'[j], seen'[j], excess'[j], promise'[j])
    BY DEF EntriesOk, EntryOk
  <2>1. j # k => j \in Keys \ {k} /\ j \in DOMAIN entries /\ entries'[j] = entries[j]
    BY DEF IInv, Shape
  <2> QED BY <1>3, <1>4, <2>1 DEF IInv, EntriesOk
<1>7. RoomCounted'
  <2>1. DOMAIN entries' = DOMAIN entries \cup {k}
    OBVIOUS
  <2>2. CASE k \in DOMAIN entries
    <3>1. DOMAIN entries' = DOMAIN entries
      BY <2>1, <2>2
    <3> QED BY <3>1, <1>1, RoomKept DEF IInv, RoomCounted
  <2>3. CASE k \notin DOMAIN entries /\ w \in Inserting
    <3>1. Inserting \subseteq Workers
      BY DEF Inserting
    <3>2. IsFiniteSet(Inserting) /\ IsFiniteSet(DOMAIN entries)
      BY <3>1, InsertingFinite DEF IInv, RoomCounted
    <3>3. Cardinality(Inserting \ {w}) = Cardinality(Inserting) - 1
      BY <2>3, <3>2, FS_RemoveElement
    <3>4. IsFiniteSet(DOMAIN entries')
          /\ Cardinality(DOMAIN entries') = Cardinality(DOMAIN entries) + 1
      BY <2>1, <2>3, <3>2, FS_AddElement
    <3>5. Cardinality(Inserting) \in Nat /\ Cardinality(DOMAIN entries) \in Nat
      BY <3>2, FS_CardinalityType
    <3> QED BY <1>1, <3>3, <3>4, <3>5, InsertingFinite, Bounds
            DEF IInv, RoomCounted
  <2> QED BY <2>2, <2>3
<1> QED BY <1>2, <1>5, <1>6, <1>7 DEF IInv

(* The latest sample used on a key. *)
LEMMA LaterSeen ==
    ASSUME Shape, NEW k \in Keys, NEW now \in Times, Seen(k, now)
    PROVE  /\ seen' = [seen EXCEPT ![k] = Later(seen[k], now)]
           /\ Later(seen[k], now) \in Times \cup {-1}
<1>1. seen[k] \in Int /\ now \in Int /\ seen[k] \in Times \cup {-1}
  BY Bounds DEF Shape, Times
<1>2. Max({seen[k], now}) = Later(seen[k], now)
  BY <1>1, MaxOfTwo DEF Later
<1> QED BY <1>1, <1>2 DEF Seen, Later

(* The fast path: an entry is checked under its shard's lock. *)
LEMMA HitStep ==
    ASSUME IInv, NEW w \in Workers, Hit(w)
    PROVE  IInv'
<1> DEFINE k   == worker[w].key
           now == worker[w].now
           e   == entries[k]
           res == Check(e, now)
           n2  == Later(seen[k], now)
           x2  == excess[k] + Regress(k, now)
<1>1. k \in Keys /\ now \in Times /\ k \in DOMAIN entries /\ e \in Entries
      /\ kind \in LimiterKinds
  BY DEF Hit, IInv, Shape
<1>2. /\ granted[k] \in Histories /\ seen[k] \in Int /\ excess[k] \in Nat
      /\ promise[k] \in Nat \cup {-1}
  BY <1>1, Bounds DEF IInv, Shape, Times
<1>3. HistoryOk(granted[k], seen[k], excess[k])
      /\ EntryOk(granted[k], e, seen[k], excess[k], promise[k])
  BY <1>1 DEF IInv, HistoriesOk, EntriesOk
<1>4. seen' = [seen EXCEPT ![k] = n2] /\ n2 \in Times \cup {-1}
  <2>1. Seen(k, now)
    BY DEF Hit
  <2> QED BY <1>1, <2>1, LaterSeen DEF IInv
<1>5. x2 = excess[k] + (IF kind = "Simple" THEN 0 ELSE Rate * Since(e.last_refill, now))
      /\ x2 \in Nat
  <2>1. kind # "Simple" => Rate * Since(e.last_refill, now) \in Nat
    BY <1>1, RefillFacts DEF Entries
  <2> QED BY <1>2, <2>1 DEF Regress
<1>6. /\ kind' = kind /\ clock' = clock /\ worker' = [worker EXCEPT ![w] = Idle]
      /\ excess' = [excess EXCEPT ![k] = x2]
      /\ entries' = [entries EXCEPT ![k] = res.entry]
      /\ IF res.ok THEN Grant(k, now) ELSE Refuse(k, now + res.wait)
  BY DEF Hit
<1>7. entries' = [j \in DOMAIN entries \cup {k} |-> IF j = k THEN res.entry ELSE entries[j]]
  BY <1>1, <1>6
<1>8. /\ res.entry \in Entries
      /\ res.ok => /\ HistoryOk(Added(granted[k], now), n2, x2)
                   /\ EntryOk(Added(granted[k], now), res.entry, n2, x2, -1)
      /\ ~res.ok => /\ res.wait \in Nat /\ HistoryOk(granted[k], n2, x2)
                    /\ EntryOk(granted[k], res.entry, n2, x2, now + res.wait)
                    /\ promise[k] # -1 => EntryOk(granted[k], res.entry, n2, x2, promise[k])
  BY <1>1, <1>2, <1>3, <1>5, CheckKeeps
<1> HIDE DEF k, now, e, res, n2, x2
<1>9. CASE res.ok
  <2>1. granted' = [granted EXCEPT ![k] = Added(granted[k], now)]
        /\ promise' = [promise EXCEPT ![k] = -1]
    BY <1>6, <1>9, <1>1 DEF Grant, Added, Times, IInv, Shape
  <2>2. Added(granted[k], now) \in Histories
    BY <1>1, <1>2, AddedOne
  <2> QED BY <1>1, <1>4, <1>5, <1>6, <1>7, <1>8, <1>9, <2>1, <2>2, KeyStep
<1>10. CASE ~res.ok
  <2> DEFINE at == now + res.wait
             p2 == IF promise[k] = -1 THEN at
                   ELSE IF promise[k] <= at THEN promise[k] ELSE at
  <2>1. at \in Nat
    BY <1>1, <1>8, <1>10, Bounds DEF Times
  <2>2. promise' = [promise EXCEPT ![k] = p2] /\ granted' = granted
    <3>1. promise[k] # -1 => Min({promise[k], at}) = IF promise[k] <= at THEN promise[k] ELSE at
      BY <1>2, <2>1, MinOfTwo
    <3> HIDE DEF at
    <3> QED BY <1>6, <1>10, <1>1, <3>1 DEF Refuse, at
  <2>3. granted' = [granted EXCEPT ![k] = granted[k]] /\ p2 \in Nat \cup {-1}
    BY <2>1, <2>2, <1>2 DEF IInv, Shape
  <2>4. EntryOk(granted[k], res.entry, n2, x2, p2)
    BY <1>8, <1>10
  <2> HIDE DEF p2
  <2> QED BY <1>1, <1>2, <1>4, <1>5, <1>6, <1>7, <1>8, <1>10, <2>2, <2>3, <2>4, KeyStep
<1> QED BY <1>9, <1>10

(* The slow path: a new entry overwrites whatever is there. *)
LEMMA InsertStep ==
    ASSUME IInv, NEW w \in Workers, Insert(w)
    PROVE  IInv'
<1> DEFINE k   == worker[w].key
           now == worker[w].now
           g2  == Added(granted[k], now)
           n2  == Later(seen[k], now)
           x2  == excess[k] + Forgotten(k, now)
<1>1. k \in Keys /\ now \in Times /\ kind \in LimiterKinds /\ w \in Inserting
  BY DEF Insert, IInv, Shape, Inserting
<1>2. /\ granted[k] \in Histories /\ seen[k] \in Times \cup {-1} /\ excess[k] \in Nat
      /\ HistoryOk(granted[k], seen[k], excess[k])
  BY <1>1 DEF IInv, Shape, HistoriesOk
<1>3. seen' = [seen EXCEPT ![k] = n2] /\ n2 \in Times \cup {-1}
  <2>1. Seen(k, now)
    BY DEF Insert
  <2> QED BY <1>1, <2>1, LaterSeen DEF IInv
<1>4. /\ kind' = kind /\ clock' = clock /\ worker' = [worker EXCEPT ![w] = Idle]
      /\ excess' = [excess EXCEPT ![k] = x2]
      /\ entries' = [j \in DOMAIN entries \cup {k} |-> IF j = k THEN New(now) ELSE entries[j]]
      /\ Grant(k, now)
  BY DEF Insert
<1>5. x2 = excess[k] + (IF seen[k] = -1 \/ Since(now, seen[k]) >= Ttl THEN 0
                        ELSE IF kind = "Simple" THEN 1
                        ELSE Capacity * Cost + Rate * Since(seen[k], now))
  BY DEF Forgotten
<1>6. /\ New(now) \in Entries /\ x2 \in Nat
      /\ HistoryOk(g2, n2, x2) /\ EntryOk(g2, New(now), n2, x2, -1)
  BY <1>1, <1>2, <1>5, InsertKeeps
<1>7. g2 \in Histories
  BY <1>1, <1>2, AddedOne
<1>8. granted' = [granted EXCEPT ![k] = g2] /\ promise' = [promise EXCEPT ![k] = -1]
  BY <1>4, <1>1 DEF Grant, Added, Times, IInv, Shape
<1> HIDE DEF k, now, g2, n2, x2
<1> QED BY <1>1, <1>3, <1>4, <1>6, <1>7, <1>8, KeyStep

(* Every step keeps the invariant. *)
LEMMA StepIInv == IInv /\ [Next]_vars => IInv'
<1> SUFFICES ASSUME IInv, [Next]_vars PROVE IInv'
  OBVIOUS
<1>1. CASE Tick \/ Quiet \/ UNCHANGED vars
  <2>1. Aside /\ worker' = worker /\ clock' \in Times
    BY <1>1, Bounds DEF Tick, Quiet, vars, store, hist, Aside, IInv, Shape,
                        Times
  <2>2. Inserting' = Inserting
    BY <2>1 DEF Inserting
  <2> QED BY <2>1, <2>2, AsideKeeps DEF IInv, Shape
<1>2. ASSUME NEW w \in Workers,
             \/ Call(w) \/ TryLock(w) \/ SkipSweep(w) \/ Retain(w)
             \/ Hit(w) \/ Miss(w) \/ Recheck(w) \/ Insert(w)
      PROVE  IInv'
  BY <1>2, CallStep, SweepStep, RetainStep, HitStep, MissStep, RecheckStep, InsertStep
<1> QED BY <1>1, <1>2 DEF Next

(* The inductive invariant holds in every reachable state. *)
THEOREM Invariance == Spec => []IInv
<1> QED BY InitIInv, StepIInv, PTL DEF Spec

(* The limits, from the histories, if the TTL is long enough. *)
LEMMA HistoriesInLimit == IInv /\ TtlOutlasts => SpacingHolds /\ RateHolds
<1> SUFFICES ASSUME IInv, TtlOutlasts PROVE SpacingHolds /\ RateHolds
  OBVIOUS
<1>1. \A k, s, t : Granted(k, s, t) = Between(granted[k], s, t)
  BY DEF Granted, Between
<1>2. SpacingHolds
  BY <1>1 DEF SpacingHolds, IInv, HistoriesOk, HistoryOk, InSpacing, WindowEnd,
              Times
<1>3. ASSUME kind = "TokenBucket", NEW k \in Keys, NEW s \in 0..MaxTime, NEW t \in s..MaxTime
      PROVE  Granted(k, s, t) * Cost <= Capacity * Cost + Rate * (t - s) + excess[k]
  <2>1. s \in Times /\ t \in Times /\ s <= t
    BY Bounds DEF Times
  <2> QED BY <1>1, <1>3, <2>1 DEF IInv, HistoriesOk, HistoryOk, InRate
<1> QED BY <1>2, <1>3 DEF RateHolds

(* Retry-After, from the entries. *)
LEMMA WaitersAdmitted == IInv => RetryAfterHonest
<1> SUFFICES ASSUME IInv, NEW w \in Workers,
                    worker[w].pc = "lookup", worker[w].key \in DOMAIN entries,
                    promise[worker[w].key] # -1, worker[w].now >= promise[worker[w].key]
             PROVE  Check(entries[worker[w].key], worker[w].now).ok
  BY DEF RetryAfterHonest
<1> DEFINE k   == worker[w].key
           now == worker[w].now
<1>1. /\ now \in Times /\ k \in Keys /\ entries[k] \in Entries /\ promise[k] \in Nat
      /\ kind \in LimiterKinds
  BY DEF IInv, Shape
<1>2. EntryOk(granted[k], entries[k], seen[k], excess[k], promise[k])
  BY DEF IInv, EntriesOk
<1>3. CASE kind = "Simple"
  <2>1. entries[k].next_allowed \in Nat /\ entries[k].next_allowed <= promise[k]
    BY <1>1, <1>2, <1>3 DEF EntryOk, Entries, Gaps
  <2>2. now \in Nat
    BY <1>1, Bounds DEF Times
  <2>3. ~(now < entries[k].next_allowed)
    BY <1>1, <2>1, <2>2
  <2> QED BY <1>3, <2>3 DEF Check, SimpleCheck
<1>4. CASE kind = "TokenBucket"
  <2>1. entries[k] \in Buckets /\ Refills(entries[k], promise[k]) /\ kind # "Simple"
    BY <1>1, <1>2, <1>4 DEF EntryOk, Entries
  <2> QED BY <1>1, <2>1, BucketAdmits DEF Check
<1> QED BY <1>1, <1>3, <1>4 DEF LimiterKinds

(* KeyedSimpleRateLimitStore lets a key pass once in any limit_duration and
   KeyedTokenBucketStore no more than its capacity and the refill in any
   interval, up to the two races `excess` counts and where the TTL is no
   shorter than the window and the refill of a bucket (the defaults satisfy it,
   the configuration does not check it); and neither refuses a client that
   waited for its Retry-After, whatever the TTL: for every schedule and number
   of workers. *)
THEOREM LimitsHold == Spec => []LimitHolds
<1>1. IInv => LimitHolds
  BY HistoriesInLimit, WaitersAdmitted DEF LimitHolds
<1> QED BY <1>1, Invariance, PTL

(* The DashMap never holds more than max_entries and the workers that race for
   its last place. *)
THEOREM CapHolds == Spec => []CapNearlyExact
<1>1. IInv => CapNearlyExact
  <2> SUFFICES ASSUME IInv PROVE CapNearlyExact
    OBVIOUS
  <2>1. Inserting \subseteq Workers
    BY DEF Inserting
  <2>2. Cardinality(Inserting) \in Nat /\ Cardinality(DOMAIN entries) \in Nat
    BY <2>1, InsertingFinite, FS_CardinalityType DEF IInv, RoomCounted
  <2> QED BY <2>2, InsertingFinite, Bounds DEF IInv, RoomCounted, CapNearlyExact
<1> QED BY <1>1, Invariance, PTL
=============================================================================
