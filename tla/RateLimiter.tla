---------------------------- MODULE RateLimiter ----------------------------
(***************************************************************************)
(* The two keyed rate limiters of server/src/middleware/rate_limiter.rs:   *)
(* KeyedSimpleRateLimitStore (a minimum distance between two requests of a *)
(* key) and KeyedTokenBucketStore, with their common bookkeeping: the idle *)
(* TTL, the throttled sweeps and the max_entries cap.                      *)
(*                                                                         *)
(* Worker threads run the store's check concurrently.  `now` is sampled    *)
(* when the check begins; every access to the DashMap is a step of its     *)
(* own, so a worker acts on a sample that other workers have overtaken.    *)
(* Time is a tick counter.  Tokens are counted in units of which a request *)
(* costs Cost and a tick adds Rate, so fractions of a token are exact (the *)
(* code's f64 is taken to be).                                             *)
(***************************************************************************)
EXTENDS Integers, FiniteSets, FiniteSetsExt, Functions

CONSTANTS
    Kinds,       \* the limiters considered, a subset of LimiterKinds
    Workers,     \* threads that run a check
    Requests,    \* requests: [sub, san, ip, xff, xrip], each maybe None
    Strategy,    \* key_by
    Trust,       \* trust_forwarded_headers
    Canonical,   \* canonical_client_ip, as a function on addresses
    None,        \* the value of an absent attribute
    MaxEntries,  \* max_entries
    Ttl,         \* ttl
    SweepEvery,  \* the 10 s between two sweeps
    SweepFull,   \* the 1 s between two sweeps of a full table
    Limit,       \* limit_duration of the simple limiter
    Capacity,    \* capacity of a bucket, in tokens
    Cost,        \* units of a token
    Rate,        \* units a tick adds
    MaxTime,     \* bound: the last tick considered
    MaxCalls     \* bound: the requests considered

LimiterKinds == {"Simple", "TokenBucket"}
Strategies   == {"Global", "Ip", "Identity"}

ASSUME KindsAssumption == Kinds \subseteq LimiterKinds /\ Kinds # {}
ASSUME StrategyAssumption == Strategy \in Strategies /\ Trust \in BOOLEAN
ASSUME WorkersAssumption == IsFiniteSet(Workers)
ASSUME BoundsAssumption ==
    /\ {MaxEntries, Limit, Capacity, Cost, Rate} \subseteq Nat \ {0}
    /\ {Ttl, SweepEvery, SweepFull, MaxTime, MaxCalls} \subseteq Nat

(* The TTL outlasts what an entry must remember: the window, and the refill of
   an empty bucket.  The defaults (300 s) satisfy it; the configuration does not
   check it, so it is a premise of what is said of the limits, not an
   assumption. *)
TtlOutlasts == Ttl >= Limit /\ Ttl * Rate >= Capacity * Cost

-----------------------------------------------------------------------------
(* extract_ip_key and extract_rate_limit_key.  An unspecified socket address
   counts as absent, and so does a header that does not parse. *)

IpKey(q) ==
    IF q.ip # None THEN <<"ip", Canonical[q.ip]>>
    ELSE IF Trust /\ q.xff # None THEN <<"ip", Canonical[q.xff]>>
    ELSE IF Trust /\ q.xrip # None THEN <<"ip", Canonical[q.xrip]>>
    ELSE <<"global", None>>

Key(q) ==
    IF Strategy = "Global" THEN <<"global", None>>
    ELSE IF Strategy = "Identity" /\ q.sub # None THEN <<"user", q.sub>>
    ELSE IF Strategy = "Identity" /\ q.san # None THEN <<"cert", q.san>>
    ELSE IpKey(q)

Keys == {Key(q) : q \in Requests}

VARIABLES
    kind,          \* which limiter this is; no step changes it
    clock,         \* Instant::now()
    entries,       \* the DashMap: a function on the keys it holds
    last_cleanup,  \* the instant under the mutex of that name
    sweeper,       \* the worker that holds the mutex over a sweep, or None
    worker,        \* the local state of each worker
    calls,         \* requests so far, for the bound
    granted,       \* history: requests granted per key with a sample up to an instant
    seen,          \* history: the latest sample used on a key, or -1
    excess,        \* history: what races gave away, requests or token units
    promise        \* history: when a refused key may try again, or -1

store == <<entries, last_cleanup, sweeper>>
hist  == <<granted, seen, excess, promise>>
vars  == <<kind, clock, store, worker, calls, hist>>

Idle == [pc |-> "idle", key |-> None, now |-> 0]

Init ==
    /\ kind \in Kinds
    /\ clock = 0 /\ last_cleanup = 0
    /\ entries = [k \in {} |-> 0]
    /\ sweeper = None
    /\ worker = [w \in Workers |-> Idle]
    /\ calls = 0
    /\ granted = [k \in Keys |-> [t \in 0..MaxTime |-> 0]]
    /\ seen = [k \in Keys |-> -1]
    /\ excess = [k \in Keys |-> 0]
    /\ promise = [k \in Keys |-> -1]

(* Instant::duration_since, which saturates at zero. *)
Since(later, earlier) == IF later > earlier THEN later - earlier ELSE 0

Goto(w, pc) == worker' = [worker EXCEPT ![w].pc = pc]
Full == Cardinality(DOMAIN entries) >= MaxEntries

-----------------------------------------------------------------------------
(* SimpleRateLimiterService::call and TokenBucketRateLimiterService::call up
   to the sample of the clock. *)
Call(w) ==
    /\ worker[w].pc = "idle" /\ calls < MaxCalls
    /\ calls' = calls + 1
    /\ \E q \in Requests :
          worker' = [worker EXCEPT ![w] =
                        [pc |-> "sweep", key |-> Key(q), now |-> clock]]
    /\ UNCHANGED <<kind, clock, store, hist>>

(* maybe_cleanup and maybe_cleanup_when_full.  The mutex is tried, never
   waited for: a worker that finds it taken, be it only for the comparison,
   goes on without a sweep. *)
Due(w) ==
    IF worker[w].pc = "sweep"
    THEN Since(worker[w].now, last_cleanup) > SweepEvery
    ELSE Since(worker[w].now, last_cleanup) >= SweepFull

AfterSweep(w) == IF worker[w].pc \in {"sweep", "retain"} THEN "lookup" ELSE "recheck"

TryLock(w) ==
    /\ worker[w].pc \in {"sweep", "full"}
    /\ sweeper = None /\ Due(w)
    /\ last_cleanup' = worker[w].now
    /\ sweeper' = w
    /\ Goto(w, IF worker[w].pc = "sweep" THEN "retain" ELSE "retainFull")
    /\ UNCHANGED <<kind, calls, clock, entries, hist>>

Locking == {"sweep", "full", "retain", "retainFull"}

SkipSweep(w) ==
    /\ worker[w].pc \in {"sweep", "full"}
    /\ \/ ~Due(w)
       \/ \E v \in Workers \ {w} : worker[v].pc \in Locking
    /\ Goto(w, AfterSweep(w))
    /\ UNCHANGED <<kind, calls, clock, store, hist>>

(* cleanup: the entries that retain keeps. *)
Kept(w) ==
    {k \in DOMAIN entries : Since(worker[w].now, entries[k].last_seen) < Ttl}

Retain(w) ==
    /\ worker[w].pc \in {"retain", "retainFull"}
    /\ entries' = Restrict(entries, Kept(w))
    /\ sweeper' = None
    /\ Goto(w, AfterSweep(w))
    /\ UNCHANGED <<kind, calls, clock, last_cleanup, hist>>

-----------------------------------------------------------------------------
(* What the stores do to an entry: whether the request may pass, the entry
   afterwards, and the Retry-After of a refusal. *)

SimpleCheck(e, now) ==
    IF now < e.next_allowed
    THEN [ok |-> FALSE, wait |-> e.next_allowed - now,
          entry |-> [e EXCEPT !.last_seen = now]]
    ELSE [ok |-> TRUE, wait |-> 0,
          entry |-> [next_allowed |-> now + Limit, last_seen |-> now]]

SimpleNew(now) == [next_allowed |-> now + Limit, last_seen |-> now]

(* Mutant: the bucket is not capped at its capacity. *)
RefilledUncapped(e, now) == e.tokens + Since(now, e.last_refill) * Rate

Refilled(e, now) ==
    Min({e.tokens + Since(now, e.last_refill) * Rate, Capacity * Cost})

(* (needed / rate).ceil().max(1.0) *)
BucketWait(tokens) == Max({(Cost - tokens + Rate - 1) \div Rate, 1})

BucketCheck(e, now) ==
    LET tokens == Refilled(e, now)
        left(n) == [tokens |-> n, last_refill |-> now, last_seen |-> now]
    IN  IF tokens >= Cost
        THEN [ok |-> TRUE, wait |-> 0, entry |-> left(tokens - Cost)]
        ELSE [ok |-> FALSE, wait |-> BucketWait(tokens), entry |-> left(tokens)]

BucketNew(now) ==
    [tokens |-> (Capacity - 1) * Cost, last_refill |-> now, last_seen |-> now]

Check(e, now) == IF kind = "Simple" THEN SimpleCheck(e, now) ELSE BucketCheck(e, now)
New(now) == IF kind = "Simple" THEN SimpleNew(now) ELSE BucketNew(now)

-----------------------------------------------------------------------------
(* History. *)

Seen(k, now) == seen' = [seen EXCEPT ![k] = Max({@, now})]

Grant(k, now) ==
    /\ granted' = [granted EXCEPT ![k] =
                     [t \in 0..MaxTime |-> @[t] + (IF t < now THEN 0 ELSE 1)]]
    /\ promise' = [promise EXCEPT ![k] = -1]

Refuse(k, at) ==
    /\ promise' = [promise EXCEPT ![k] = IF @ = -1 THEN at ELSE Min({@, at})]
    /\ UNCHANGED granted

(* A sample older than last_refill takes it back, and the ticks in between
   are refilled again. *)
Regress(k, now) ==
    IF kind = "Simple" THEN 0 ELSE Rate * Since(entries[k].last_refill, now)

(* An insert is regular for a key that is new, or idle for Ttl at the sampled
   instant; otherwise it forgets what the key has used, and may take
   last_refill back as well. *)
Forgotten(k, now) ==
    IF seen[k] = -1 \/ Since(now, seen[k]) >= Ttl THEN 0
    ELSE IF kind = "Simple" THEN 1
    ELSE Capacity * Cost + Rate * Since(seen[k], now)

-----------------------------------------------------------------------------
(* The fast path: get_mut holds the entry's shard for the whole check. *)
Hit(w) ==
    LET k   == worker[w].key
        now == worker[w].now
        res == Check(entries[k], now)
    IN  /\ worker[w].pc = "lookup" /\ k \in DOMAIN entries
        /\ entries' = [entries EXCEPT ![k] = res.entry]
        /\ worker' = [worker EXCEPT ![w] = Idle]
        /\ Seen(k, now)
        /\ excess' = [excess EXCEPT ![k] = @ + Regress(k, now)]
        /\ IF res.ok THEN Grant(k, now) ELSE Refuse(k, now + res.wait)
        /\ UNCHANGED <<kind, calls, clock, last_cleanup, sweeper>>

(* Mutant: an unknown key is not held up by a full table. *)
MissUncapped(w) ==
    /\ worker[w].pc = "lookup" /\ worker[w].key \notin DOMAIN entries
    /\ Goto(w, "insert")
    /\ UNCHANGED <<kind, calls, clock, store, hist>>

(* The key is unknown, and the length is compared with max_entries. *)
Miss(w) ==
    /\ worker[w].pc = "lookup" /\ worker[w].key \notin DOMAIN entries
    /\ Goto(w, IF Full THEN "full" ELSE "insert")
    /\ UNCHANGED <<kind, calls, clock, store, hist>>

(* Still full after the sweep: Err(1) for the unknown key. *)
Recheck(w) ==
    /\ worker[w].pc = "recheck"
    /\ worker' = [worker EXCEPT ![w] =
                     IF Full THEN Idle ELSE [worker[w] EXCEPT !.pc = "insert"]]
    /\ UNCHANGED <<kind, calls, clock, store, hist>>

(* Whatever another worker put there meanwhile is overwritten. *)
Insert(w) ==
    LET k   == worker[w].key
        now == worker[w].now
    IN  /\ worker[w].pc = "insert"
        /\ entries' = [j \in DOMAIN entries \cup {k} |->
                          IF j = k THEN New(now) ELSE entries[j]]
        /\ worker' = [worker EXCEPT ![w] = Idle]
        /\ Seen(k, now)
        /\ excess' = [excess EXCEPT ![k] = @ + Forgotten(k, now)]
        /\ Grant(k, now)
        /\ UNCHANGED <<kind, calls, clock, last_cleanup, sweeper>>

Tick ==
    /\ clock < MaxTime
    /\ clock' = clock + 1
    /\ UNCHANGED <<kind, calls, store, worker, hist>>

(* The bounds are reached and every check has returned. *)
Quiet ==
    /\ clock = MaxTime /\ calls = MaxCalls
    /\ \A w \in Workers : worker[w].pc = "idle"
    /\ UNCHANGED vars

Next ==
    \/ Tick \/ Quiet
    \/ \E w \in Workers :
          \/ Call(w) \/ TryLock(w) \/ SkipSweep(w) \/ Retain(w)
          \/ Hit(w) \/ Miss(w) \/ Recheck(w) \/ Insert(w)

Spec == Init /\ [][Next]_vars

-----------------------------------------------------------------------------
(* Properties *)

(* The requests of a key that were granted with a sample in from .. to. *)
Granted(k, from, to) ==
    granted[k][to] - (IF from = 0 THEN 0 ELSE granted[k][from - 1])

(* "Enforces a minimum duration between consecutive requests": within
   limit_duration a key passes once, and once more only for every insert that
   raced with another check of the key. *)
SpacingHolds ==
    kind = "Simple" => \A k \in Keys, t \in 0..MaxTime :
        Granted(k, t, Min({t + Limit - 1, MaxTime})) <= 1 + excess[k]

(* "Allows bursts up to a configured capacity while enforcing an average rate
   over time": in any interval a key passes at most the capacity plus what the
   interval refills, exceeded only by what a raced insert forgets and what a
   sample that was overtaken lets the bucket refill twice. *)
RateHolds ==
    kind = "TokenBucket" => \A k \in Keys, s \in 0..MaxTime : \A t \in s..MaxTime :
        Granted(k, s, t) * Cost <= Capacity * Cost + Rate * (t - s) + excess[k]

(* A client that waits for the Retry-After of its 429 is not refused again by
   its entry, unless the key was granted a request in between. *)
RetryAfterHonest ==
    \A w \in Workers :
        LET k == worker[w].key IN
        /\ worker[w].pc = "lookup" /\ k \in DOMAIN entries
        /\ promise[k] # -1 /\ worker[w].now >= promise[k]
        => Check(entries[k], worker[w].now).ok

(* Each limiter keeps to its rate in both directions: it lets no more pass than
   configured, up to its two races and where the TTL outlasts what an entry
   must remember, and refuses nobody who waited as told. *)
LimitHolds == (TtlOutlasts => SpacingHolds /\ RateHolds) /\ RetryAfterHonest

(* max_entries is "hard" up to the workers between the comparison and their
   insert. *)
CapNearlyExact ==
    Cardinality(DOMAIN entries) <= MaxEntries + Cardinality(Workers) - 1

=============================================================================
