---------------------------- MODULE RelayLimits -----------------------------
(***************************************************************************)
(* RelayConnectionTracker of relay-server/src/main.rs: the global and      *)
(* per-IP concurrency caps of the relay's data plane.  Only the accept     *)
(* loop of run_data_plane acquires, one connection after the other; the    *)
(* guards are dropped by the connections' own tasks at any time.           *)
(*                                                                         *)
(* global_count is an atomic, an entry of ip_counts is locked only while   *)
(* it is read and written, and Drop decrements an entry and removes it     *)
(* under two different locks: each is a step here.                         *)
(***************************************************************************)
EXTENDS Integers, FiniteSets

CONSTANTS
    Conns,   \* public connections
    Addrs,   \* canonical peer addresses (canonicalize_ip)
    NoAddr,
    MaxGlobal,
    MaxPerIp

VARIABLES
    global_count,
    ip_counts,   \* the map; an absent entry counts 0
    pc,
    ip

vars == <<global_count, ip_counts, pc, ip>>

PCs == {"closed", "ip", "undo", "open", "drop_ip", "drop_remove"}

TypeOK ==
    /\ global_count \in Nat
    /\ ip_counts \in [Addrs -> 0..MaxPerIp]
    /\ pc \in [Conns -> PCs]
    /\ ip \in [Conns -> Addrs \cup {NoAddr}]

Init ==
    /\ global_count = 0
    /\ ip_counts = [a \in Addrs |-> 0]
    /\ pc = [c \in Conns |-> "closed"]
    /\ ip = [c \in Conns |-> NoAddr]

At(c, l)   == pc[c] = l
Goto(c, l) == pc' = [pc EXCEPT ![c] = l]
Closed(c)  == Goto(c, "closed") /\ ip' = [ip EXCEPT ![c] = NoAddr]

(* The accept loop is not inside another acquire. *)
LoopFree == \A c \in Conns : pc[c] \notin {"ip", "undo"}

-----------------------------------------------------------------------------
(* acquire: fetch_add on the global counter. *)
Acquire(c, a) ==
    /\ At(c, "closed") /\ LoopFree
    /\ global_count' = global_count + 1
    /\ ip' = [ip EXCEPT ![c] = a]
    /\ Goto(c, IF global_count >= MaxGlobal THEN "undo" ELSE "ip")
    /\ UNCHANGED ip_counts

(* acquire: the address' entry. *)
AcquireIp(c) ==
    /\ At(c, "ip")
    /\ \/ /\ ip_counts[ip[c]] >= MaxPerIp
          /\ Goto(c, "undo") /\ UNCHANGED ip_counts
       \/ /\ ip_counts[ip[c]] < MaxPerIp
          /\ Goto(c, "open")
          /\ ip_counts' = [ip_counts EXCEPT ![ip[c]] = @ + 1]
    /\ UNCHANGED <<global_count, ip>>

(* acquire: a rejected connection gives the global permit back. *)
Undo(c) ==
    /\ At(c, "undo")
    /\ global_count' = global_count - 1
    /\ Closed(c)
    /\ UNCHANGED ip_counts

-----------------------------------------------------------------------------
(* Drop for RelayConnectionGuard, in three steps. *)
Drop(c) ==
    /\ At(c, "open")
    /\ global_count' = global_count - 1
    /\ Goto(c, "drop_ip")
    /\ UNCHANGED <<ip_counts, ip>>

(* Mutant: the last connection of an address leaves its count in place. *)
DropIpKeepsLast(c) ==
    /\ At(c, "drop_ip")
    /\ ip_counts' = IF ip_counts[ip[c]] > 1
                    THEN [ip_counts EXCEPT ![ip[c]] = @ - 1] ELSE ip_counts
    /\ Closed(c)
    /\ UNCHANGED global_count

(* get_mut: decrement, and remember to remove an entry that reached 0. *)
DropIp(c) ==
    LET n == ip_counts[ip[c]] IN
    /\ At(c, "drop_ip")
    /\ ip_counts' = IF n > 0 THEN [ip_counts EXCEPT ![ip[c]] = n - 1]
                    ELSE ip_counts
    /\ IF n <= 1 THEN Goto(c, "drop_remove") /\ UNCHANGED ip ELSE Closed(c)
    /\ UNCHANGED global_count

(* remove, whatever the entry holds by now. *)
DropRemove(c) ==
    /\ At(c, "drop_remove")
    /\ ip_counts' = [ip_counts EXCEPT ![ip[c]] = 0]
    /\ Closed(c)
    /\ UNCHANGED global_count

-----------------------------------------------------------------------------
Next ==
    \E c \in Conns :
        \/ \E a \in Addrs : Acquire(c, a)
        \/ AcquireIp(c) \/ Undo(c) \/ Drop(c) \/ DropIp(c) \/ DropRemove(c)

Spec == Init /\ [][Next]_vars

-----------------------------------------------------------------------------
(* Properties *)

Holders(a) == {c \in Conns : ip[c] = a /\ pc[c] \in {"open", "drop_ip"}}

(* The per-IP map never counts more than the connections of an address: no
   order of drops and accepts locks an address out, and an address without
   connections has no count left. *)
NeverOvercounts == \A a \in Addrs : ip_counts[a] <= Cardinality(Holders(a))

-----------------------------------------------------------------------------
(* A promise of the documentation that the code breaks; no run lists it. *)

(* "Enforces global and per-canonical-IP concurrency limits using RAII
   guards": the tasks of one address never outnumber the cap. *)
PerIpCap ==
    \A a \in Addrs :
        Cardinality({c \in Conns : ip[c] = a /\ pc[c] = "open"}) <= MaxPerIp
=============================================================================
