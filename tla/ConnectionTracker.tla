------------------------- MODULE ConnectionTracker --------------------------
(***************************************************************************)
(* The global and per-IP connection caps of server/src/connection_tracker  *)
(* .rs, as the accept loops of server/src/server.rs use them: a connection *)
(* accepted from a socket acquires with its peer address; one accepted     *)
(* from the relay tunnel acquires without and binds the address once the   *)
(* PROXY header is read.  current_connections is an atomic and each DashMap *)
(* entry has its own lock, so every connection takes its permits in two    *)
(* steps, and gives them back in two.                                      *)
(***************************************************************************)
EXTENDS Integers, FiniteSets

CONSTANTS
    Conns,      \* connection tasks
    Addrs,      \* peer addresses
    Canonical,  \* common::canonical_client_ip
    Unspecified,\* 0.0.0.0 and ::, which are never counted
    NoAddr,     \* None
    MaxConns,   \* max_connections
    MaxPerIp    \* max_connections_per_ip

ASSUME ConnsAssumption == IsFiniteSet(Conns)
ASSUME AddrsAssumption == NoAddr \notin Addrs /\ Unspecified \subseteq Addrs
ASSUME CanonicalAssumption ==
    /\ Canonical \in [Addrs -> Addrs]
    /\ \A a \in Addrs : Canonical[Canonical[a]] = Canonical[a]
ASSUME CapsAssumption == MaxConns \in Nat \ {0} /\ MaxPerIp \in Nat \ {0}

VARIABLES
    current_connections,
    ip_counts,  \* the map; an absent entry counts 0
    pc,
    ip          \* the address a connection arrived with, then its guard's

vars == <<current_connections, ip_counts, pc, ip>>

PCs == {"closed", "ip", "undo", "open", "release_ip"}

TypeOK ==
    /\ current_connections \in Nat
    /\ ip_counts \in [Addrs -> Int]
    /\ pc \in [Conns -> PCs]
    /\ ip \in [Conns -> Addrs \cup {NoAddr}]

Init ==
    /\ current_connections = 0
    /\ ip_counts = [a \in Addrs |-> 0]
    /\ pc = [c \in Conns |-> "closed"]
    /\ ip = [c \in Conns |-> NoAddr]

(* An address that has a per-IP count. *)
Countable(a) == a # NoAddr /\ a \notin Unspecified

-----------------------------------------------------------------------------
(* Mutant: the cap is compared with > instead of >=. *)
AcquireOneTooMany(c, a) ==
    /\ pc[c] = "closed"
    /\ current_connections' = current_connections + 1
    /\ ip' = [ip EXCEPT ![c] = IF a = NoAddr THEN NoAddr ELSE Canonical[a]]
    /\ pc' = [pc EXCEPT ![c] = IF current_connections > MaxConns
                               THEN "undo" ELSE "ip"]
    /\ UNCHANGED ip_counts

(* acquire, first step: fetch_add on the global counter. *)
Acquire(c, a) ==
    /\ pc[c] = "closed"
    /\ current_connections' = current_connections + 1
    /\ ip' = [ip EXCEPT ![c] = IF a = NoAddr THEN NoAddr ELSE Canonical[a]]
    /\ pc' = [pc EXCEPT ![c] = IF current_connections >= MaxConns
                               THEN "undo" ELSE "ip"]
    /\ UNCHANGED ip_counts

(* acquire, second step: the map entry, or nothing for a tunnelled or
   unspecified peer. *)
AcquireIp(c) ==
    LET a == ip[c] IN
    /\ pc[c] = "ip"
    /\ IF ~Countable(a)
       THEN /\ pc' = [pc EXCEPT ![c] = "open"]
            /\ UNCHANGED ip_counts
       ELSE IF ip_counts[a] >= MaxPerIp
       THEN /\ pc' = [pc EXCEPT ![c] = "undo"]
            /\ UNCHANGED ip_counts
       ELSE /\ pc' = [pc EXCEPT ![c] = "open"]
            /\ ip_counts' = [ip_counts EXCEPT ![a] = @ + 1]
    /\ UNCHANGED <<current_connections, ip>>

(* The rejected connection's fetch_sub. *)
Undo(c) ==
    /\ pc[c] = "undo"
    /\ current_connections' = current_connections - 1
    /\ pc' = [pc EXCEPT ![c] = "closed"]
    /\ ip' = [ip EXCEPT ![c] = NoAddr]
    /\ UNCHANGED ip_counts

(* bind_ip counts the guard for the address.  An unspecified address or a guard
   that has one already is Ok without a change, and at the limit the answer is
   an error, for which the caller drops the guard. *)
BindIp(c, a) ==
    LET i == Canonical[a] IN
    /\ pc[c] = "open"
    /\ i \notin Unspecified
    /\ ip[c] = NoAddr
    /\ ip_counts[i] < MaxPerIp
    /\ ip_counts' = [ip_counts EXCEPT ![i] = @ + 1]
    /\ ip' = [ip EXCEPT ![c] = i]
    /\ UNCHANGED <<current_connections, pc>>

(* Mutant: the drop forgets the address of a guard. *)
ReleaseGlobalOnly(c) ==
    /\ pc[c] = "open"
    /\ current_connections' = current_connections - 1
    /\ pc' = [pc EXCEPT ![c] = "closed"]
    /\ ip' = [ip EXCEPT ![c] = NoAddr]
    /\ UNCHANGED ip_counts

(* release, called by the guard's drop at any time, first step. *)
Release(c) ==
    /\ pc[c] = "open"
    /\ current_connections' = current_connections - 1
    /\ IF Countable(ip[c])
       THEN pc' = [pc EXCEPT ![c] = "release_ip"] /\ UNCHANGED ip
       ELSE /\ pc' = [pc EXCEPT ![c] = "closed"]
            /\ ip' = [ip EXCEPT ![c] = NoAddr]
    /\ UNCHANGED ip_counts

(* release, second step: the occupied entry is removed at 1. *)
ReleaseIp(c) ==
    /\ pc[c] = "release_ip"
    /\ ip_counts' = [ip_counts EXCEPT ![ip[c]] = IF @ <= 1 THEN 0 ELSE @ - 1]
    /\ pc' = [pc EXCEPT ![c] = "closed"]
    /\ ip' = [ip EXCEPT ![c] = NoAddr]
    /\ UNCHANGED current_connections

Next ==
    \E c \in Conns :
        \/ \E a \in Addrs \cup {NoAddr} : Acquire(c, a)
        \/ \E a \in Addrs : BindIp(c, a)
        \/ AcquireIp(c) \/ Undo(c) \/ Release(c) \/ ReleaseIp(c)

Spec == Init /\ [][Next]_vars

-----------------------------------------------------------------------------
Counted  == {c \in Conns : pc[c] \in {"ip", "undo", "open"}}
Admitted == {c \in Conns : pc[c] \in {"ip", "open"}}
Bound(a) == {c \in Conns : ip[c] = a /\ pc[c] \in {"open", "release_ip"}}

(* No interleaving of accepts, rejections and closes lets more connections in
   than max_connections: the counter is incremented before it is compared. *)
GlobalCap == Cardinality(Admitted) <= MaxConns

(* The counter is the connections that hold or are giving back a permit, so
   that it returns to 0 when the last connection is gone. *)
GlobalCountExact == current_connections = Cardinality(Counted)

(* Each address counts exactly the connections bound to it, whether by accept
   or by a late bind_ip, never more than max_connections_per_ip, and addresses
   of one IPv6 /64 share one count. *)
PerIpExact ==
    \A a \in Addrs \ Unspecified :
        ip_counts[a] = Cardinality(Bound(a)) /\ ip_counts[a] <= MaxPerIp

(* The tracker implements a pool of max_connections permits, held from the
   moment a connection passes the global check. *)
Pool == INSTANCE PermitPool
    WITH Clients <- Conns, Permits <- MaxConns, holders <- Admitted

(* Whatever the interleaving of fetch_add, comparison and fetch_sub, permits
   are handed out one at a time, never beyond max_connections, and given back
   once. *)
PermitsPooled == Pool!Spec

-----------------------------------------------------------------------------
(* A promise of the documentation that the code breaks; no run lists it. *)

(* "The global server connection limit has been reached": a connection is
   turned away by the global cap only when that many are admitted. *)
RejectedOnlyWhenFull ==
    [][\A c \in Conns : pc[c] = "closed" /\ pc'[c] = "undo"
          => Cardinality(Admitted) >= MaxConns]_vars
=============================================================================
