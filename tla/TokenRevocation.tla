-------------------------- MODULE TokenRevocation --------------------------
(***************************************************************************)
(* JwtAuthService and the process-wide JwtRevocationStore of               *)
(* server/src/middleware/jwt.rs, with the endpoint that feeds it, POST     *)
(* /auth/revoke of server/src/middleware/idp/mod.rs.                       *)
(*                                                                         *)
(* A request's token is verified on a blocking thread, then looked up in   *)
(* the denylist when the request's future is polled, and on a logout path  *)
(* added to it before the request is forwarded.  Every access to the       *)
(* DashMap and to last_cleanup is a step of its own.  Time is UNIX seconds *)
(* from a common origin.                                                   *)
(***************************************************************************)
EXTENDS Integers, FiniteSets, Functions

CONSTANTS
    Tokens,        \* JWTs the identity provider has signed or will sign
    Exp,           \* the exp claim of each
    Jti,           \* the jti claim of each, or None
    LongJtis,      \* jtis of more than MAX_JTI_LEN characters
    Clients,       \* tasks that serve a request behind JwtAuth
    Revokers,      \* tasks that serve /auth/revoke
    None,          \* an absent value
    TokenExpiry,   \* token_expiry_seconds
    Leeway,        \* clock skew the JWT library tolerates on exp (60 s)
    MaxRevoked,    \* MAX_REVOKED_ENTRIES
    CleanupEvery,  \* REVOCATION_CLEANUP_INTERVAL_SECS
    MaxTime,       \* bound: the last second considered
    MaxCalls       \* bound: the requests considered

Tasks == Clients \cup Revokers

ASSUME ClaimsAssumption ==
    /\ Exp \in [Tokens -> Nat \ {0}] /\ DOMAIN Jti = Tokens
    /\ Clients \cap Revokers = {}
    /\ \A t, u \in Tokens : Jti[t] = Jti[u] /\ Jti[t] # None => t = u
ASSUME BoundsAssumption ==
    {TokenExpiry, Leeway, MaxRevoked, CleanupEvery, MaxTime, MaxCalls} \subseteq Nat

VARIABLES
    clock,         \* SystemTime::now()
    revoked,       \* the denylist: a function on the jtis it holds
    last_cleanup,  \* the atomic of that name
    task,          \* the local state of each task
    calls,         \* requests so far, for the bound
    recorded       \* history: tokens whose jti was put into the denylist

store == <<revoked, last_cleanup>>
vars  == <<clock, revoked, last_cleanup, task, calls, recorded>>

(* barred and at are history: the token was recorded as revoked when its
   request arrived; when the denylist was consulted. *)
NoTask == [pc |-> "idle", token |-> None, logout |-> FALSE, jti |-> None,
           exp |-> 0, then |-> None, now |-> 0, last |-> 0,
           barred |-> FALSE, at |-> 0]

Init ==
    /\ clock = 0 /\ last_cleanup = 0
    /\ revoked = [j \in {} |-> 0]
    /\ task = [p \in Tasks |-> NoTask]
    /\ calls = 0
    /\ recorded = {}

Since(later, earlier) == IF later > earlier THEN later - earlier ELSE 0
Size == Cardinality(DOMAIN revoked)

(* A token exists from its issue, TokenExpiry before its exp. *)
Issued == {t \in Tokens : Exp[t] <= clock + TokenExpiry}

(* A caller can only name a jti that has been issued: it is random. *)
KnownJtis == {Jti[t] : t \in Issued} \ {None}

Goto(p, pc) == task' = [task EXCEPT ![p].pc = pc]

Call == calls < MaxCalls /\ calls' = calls + 1

-----------------------------------------------------------------------------
(* JwtRevocationStore::revoke(jti, exp), run by the task p; afterwards p is at
   the end of what it does.  A jti that is too long is silently dropped. *)

Revoke(p, local, jti, exp) ==
    task' = [task EXCEPT ![p] =
                [local EXCEPT !.jti = jti, !.exp = exp,
                              !.pc = IF jti \in LongJtis THEN "end" ELSE "load"]]

Ended(p) ==
    task' = [task EXCEPT ![p] = [NoTask EXCEPT !.pc = "end",
                                    !.token = task[p].token, !.then = task[p].then,
                                    !.barred = task[p].barred, !.at = task[p].at]]

RevokeLoad(p) ==
    /\ task[p].pc = "load"
    /\ task' = [task EXCEPT ![p].pc = "cas", ![p].now = clock,
                            ![p].last = last_cleanup]
    /\ UNCHANGED <<clock, store, calls, recorded>>

(* len, the interval and the compare_exchange. *)
RevokeCas(p) ==
    LET due == \/ Size >= MaxRevoked
               \/ Since(task[p].now, task[p].last) >= CleanupEvery
        won == last_cleanup = task[p].last
    IN  /\ task[p].pc = "cas"
        /\ last_cleanup' = IF due /\ won THEN task[p].now ELSE last_cleanup
        /\ Goto(p, IF due /\ won THEN "sweep" ELSE "room")
        /\ UNCHANGED <<clock, revoked, calls, recorded>>

(* Mutant: the sweep keeps what it should drop, and the reverse. *)
UnexpiredReversed == {j \in DOMAIN revoked : clock >= revoked[j]}

(* cleanup_expired: what retain keeps. *)
Unexpired == {j \in DOMAIN revoked : clock < revoked[j]}

RevokeSweep(p) ==
    /\ task[p].pc = "sweep"
    /\ revoked' = Restrict(revoked, Unexpired)
    /\ Goto(p, "room")
    /\ UNCHANGED <<clock, last_cleanup, calls, recorded>>

(* At capacity the revocation of an unknown jti is dropped with a warning. *)
RevokeRoom(p) ==
    /\ task[p].pc = "room"
    /\ IF Size < MaxRevoked \/ task[p].jti \in DOMAIN revoked
       THEN Goto(p, "insert") ELSE Ended(p)
    /\ UNCHANGED <<clock, store, calls, recorded>>

RevokeInsert(p) ==
    /\ task[p].pc = "insert"
    /\ revoked' = [j \in DOMAIN revoked \cup {task[p].jti} |->
                      IF j = task[p].jti THEN task[p].exp ELSE revoked[j]]
    /\ recorded' = recorded \cup {t \in Tokens : Jti[t] = task[p].jti}
    /\ Ended(p)
    /\ UNCHANGED <<clock, last_cleanup, calls>>

-----------------------------------------------------------------------------
(* JwtAuthService::call: the token of the header or the cookie goes to a
   blocking thread.  None stands for a missing token and for one that no key
   verifies or whose issuer or audience is wrong: both end in 401. *)
Arrive(c) ==
    /\ task[c].pc = "idle" /\ Call
    /\ \E t \in Issued \cup {None}, logout \in BOOLEAN :
          task' = [task EXCEPT ![c] =
                      [NoTask EXCEPT !.pc = IF t = None THEN "denied" ELSE "verify",
                          !.token = t, !.logout = logout,
                          !.barred = t \in recorded]]
    /\ UNCHANGED <<clock, store, recorded>>

(* verify_jwt on the blocking thread: the library refuses a token whose exp
   lies more than the leeway in the past. *)
Verify(c) ==
    /\ task[c].pc = "verify"
    /\ Goto(c, IF Exp[task[c].token] + Leeway < clock THEN "denied" ELSE "check")
    /\ UNCHANGED <<clock, store, calls, recorded>>

(* JwtAuthFuture::poll after verification: the sample of is_revoked. *)
Check(c) ==
    /\ task[c].pc = "check"
    /\ task' = [task EXCEPT ![c].now = clock,
                   ![c].pc = IF Jti[task[c].token] = None THEN "pass" ELSE "get"]
    /\ UNCHANGED <<clock, store, calls, recorded>>

IsRevoked(c) ==
    LET j == Jti[task[c].token]
    IN  j \in DOMAIN revoked /\ task[c].now < revoked[j]

Get(c) ==
    /\ task[c].pc = "get"
    /\ task' = [task EXCEPT ![c].at = clock,
                   ![c].pc = IF IsRevoked(c) THEN "denied"
                             ELSE IF Jti[task[c].token] \in DOMAIN revoked
                             THEN "prune" ELSE "pass"]
    /\ UNCHANGED <<clock, store, calls, recorded>>

(* drop(entry); remove(jti): whatever is there by now. *)
Prune(c) ==
    /\ task[c].pc = "prune"
    /\ revoked' = Restrict(revoked, DOMAIN revoked \ {Jti[task[c].token]})
    /\ Goto(c, "pass")
    /\ UNCHANGED <<clock, last_cleanup, calls, recorded>>

(* On a logout path the token is revoked before the request is forwarded. *)
Pass(c) ==
    LET t == task[c].token
    IN  /\ task[c].pc = "pass"
        /\ IF task[c].logout /\ Jti[t] # None
           THEN Revoke(c, task[c], Jti[t], Exp[t])
           ELSE Goto(c, "end")
        /\ UNCHANGED <<clock, store, calls, recorded>>

(* The request is forwarded, or was answered with 401. *)
Leave(c) ==
    /\ c \in Clients /\ task[c].pc \in {"end", "denied"}
    /\ task' = [task EXCEPT ![c] = NoTask]
    /\ UNCHANGED <<clock, store, calls, recorded>>

-----------------------------------------------------------------------------
(* POST /auth/revoke: the caller's own token, whose signature alone is
   verified, and then an explicit jti, for which the caller needs a client
   certificate. *)
RevokeRequest(p) ==
    /\ task[p].pc = "idle" /\ Call
    /\ \E t \in Issued \cup {None}, explicit \in KnownJtis \cup {None} :
          LET local == [NoTask EXCEPT !.then = explicit]
          IN  IF t # None /\ Jti[t] # None
              THEN Revoke(p, local, Jti[t], Exp[t])
              ELSE task' = [task EXCEPT ![p] = [local EXCEPT !.pc = "end"]]
    /\ UNCHANGED <<clock, store, recorded>>

(* Without the certificate the answer is 401; the explicit jti is revoked for
   the lifetime of a token issued now. *)
RevokeExplicit(p) ==
    /\ p \in Revokers /\ task[p].pc = "end" /\ task[p].then # None
    /\ \/ Revoke(p, [task[p] EXCEPT !.then = None], task[p].then,
                 clock + TokenExpiry)
       \/ task' = [task EXCEPT ![p].then = None]
    /\ UNCHANGED <<clock, store, calls, recorded>>

Answer(p) ==
    /\ p \in Revokers /\ task[p].pc = "end" /\ task[p].then = None
    /\ task' = [task EXCEPT ![p] = NoTask]
    /\ UNCHANGED <<clock, store, calls, recorded>>

Tick ==
    /\ clock < MaxTime
    /\ clock' = clock + 1
    /\ UNCHANGED <<store, task, calls, recorded>>

(* The bounds are reached and every task has returned. *)
Quiet ==
    /\ clock = MaxTime /\ calls = MaxCalls
    /\ \A p \in Tasks : task[p].pc = "idle"
    /\ UNCHANGED vars

Next ==
    \/ Tick \/ Quiet
    \/ \E c \in Clients : \/ Arrive(c) \/ Verify(c) \/ Check(c) \/ Get(c)
                          \/ Prune(c) \/ Pass(c) \/ Leave(c)
    \/ \E p \in Revokers : RevokeRequest(p) \/ RevokeExplicit(p) \/ Answer(p)
    \/ \E p \in Tasks : \/ RevokeLoad(p) \/ RevokeCas(p) \/ RevokeSweep(p)
                        \/ RevokeRoom(p) \/ RevokeInsert(p)

Spec == Init /\ [][Next]_vars

-----------------------------------------------------------------------------
(* Properties *)

(* A request that arrives with a token whose revocation is recorded is let
   through only once the token has expired: no sweep, lazy removal or later
   revocation of the same jti lifts a revocation early. *)
RevokedStaysOut ==
    \A c \in Clients :
        task[c].barred /\ task[c].pc \notin {"verify", "check", "get", "denied"}
            => task[c].at >= Exp[task[c].token]
=============================================================================
