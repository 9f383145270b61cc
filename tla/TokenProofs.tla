---------------------------- MODULE TokenProofs -----------------------------
(***************************************************************************)
(* Proofs about the life of a token: the denylist that ends it (module     *)
(* TokenRevocation), for any number of tokens, requests and revocations    *)
(* and whatever the capacity and the intervals of the denylist are, and    *)
(* the login that issues it (module IdpSessions, whose state is its own).  *)
(*                                                                         *)
(* The argument for the denylist: an entry never ends before the token it  *)
(* bars, so whoever removes one, the sweep or the lazy removal, can only   *)
(* do so when the token has expired; the lazy removal, which removes       *)
(* whatever is there by then, decided on an earlier entry, and time has    *)
(* not gone back since.                                                    *)
(***************************************************************************)
EXTENDS TokenRevocation, IdpSessions, FiniteSetTheorems, TLAPS

Revoking == {"load", "cas", "sweep", "room", "insert"}
Fields == {"pc", "token", "logout", "jti", "exp", "then", "now", "last", "barred", "at"}

(* An entry for jti until exp outlasts every token with that jti. *)
Outlasts(jti, exp) == exp \in Nat /\ \A t \in Tokens : Jti[t] = jti => exp >= Exp[t]

(* The local state x of a task at time c, when R are the recorded tokens. *)

LocalShape(x, c) ==
    /\ DOMAIN x = Fields
    /\ x.now \in Nat /\ x.now <= c
    /\ x.pc \in {"idle", "verify", "check", "get", "prune", "pass", "denied", "end"} \cup Revoking
    /\ x.pc \in {"verify", "check", "get", "prune", "pass"} => x.token \in Tokens

(* A revocation under way, or announced, will make an entry that outlasts its
   tokens. *)
RevokesInTime(x, c) ==
    /\ x.pc \in Revoking => x.jti # None /\ Outlasts(x.jti, x.exp)
    /\ x.then # None => \A t \in Tokens : Jti[t] = x.then => Exp[t] <= c + TokenExpiry

(* The lazy removal is for a token that has expired. *)
PrunesExpired(x, c) == x.pc = "prune" => Exp[x.token] <= c

(* A request that was barred on arrival is recorded until the look at the
   denylist, which only an expired token passes. *)
BarredUntilExpiry(x, R) ==
    x.barred => /\ x.pc \in {"verify", "check", "get"} => x.token \in R
                /\ x.pc \notin {"verify", "check", "get", "denied"} => x.at >= Exp[x.token]

TaskOk(x, c, R) ==
    LocalShape(x, c) /\ RevokesInTime(x, c) /\ PrunesExpired(x, c) /\ BarredUntilExpiry(x, R)

Shape == clock \in Nat /\ DOMAIN task = Tasks /\ recorded \subseteq Tokens

(* Every entry bars the tokens with its jti until they expire, and those are
   recorded. *)
EntriesOutlast ==
    \A j \in DOMAIN revoked :
        /\ Outlasts(j, revoked[j])
        /\ \A t \in Tokens : Jti[t] = j => t \in recorded

(* A recorded token that has not expired is in the denylist. *)
RecordedBarred ==
    \A t \in recorded : Jti[t] # None /\ (clock < Exp[t] => Jti[t] \in DOMAIN revoked)

TasksOk == \A p \in Tasks : TaskOk(task[p], clock, recorded)

(* The inductive invariant. *)
IInv == Shape /\ EntriesOutlast /\ RecordedBarred /\ TasksOk
-----------------------------------------------------------------------------
(* What the claims of the tokens are: a jti names one token. *)
LEMMA Claims ==
    /\ \A t \in Tokens : Exp[t] \in Nat \ {0}
    /\ \A t, u \in Tokens : Jti[t] = Jti[u] /\ Jti[t] # None => t = u
    /\ TokenExpiry \in Nat
BY ClaimsAssumption, BoundsAssumption

(* The fields of a task that serves nobody. *)
LEMMA NoTaskFields ==
    /\ DOMAIN NoTask = Fields /\ NoTask.pc = "idle" /\ NoTask.token = None
    /\ NoTask.jti = None /\ NoTask.exp = 0 /\ NoTask.then = None /\ NoTask.now = 0
    /\ NoTask.barred = FALSE /\ NoTask.at = 0
BY DEF NoTask, Fields

(* Time passes and tokens are recorded: what held of a task still does. *)
LEMMA TaskOkStays ==
    ASSUME NEW x, NEW c \in Nat, NEW d \in Nat, c <= d, NEW R, NEW Q, R \subseteq Q,
           TaskOk(x, c, R)
    PROVE  TaskOk(x, d, Q)
<1>1. LocalShape(x, d)
  BY DEF TaskOk, LocalShape
<1>2. RevokesInTime(x, d)
  BY Claims DEF TaskOk, RevokesInTime
<1>3. PrunesExpired(x, d)
  BY Claims DEF TaskOk, LocalShape, PrunesExpired
<1>4. BarredUntilExpiry(x, Q)
  BY DEF TaskOk, BarredUntilExpiry
<1> QED
  BY <1>1, <1>2, <1>3, <1>4 DEF TaskOk

(* A step of one task at one instant, whatever it does to the denylist. *)
LEMMA OneTask ==
    ASSUME IInv, NEW p \in Tasks, NEW x, task' = [task EXCEPT ![p] = x],
           clock' = clock, recorded \subseteq recorded', recorded' \subseteq Tokens,
           TaskOk(x, clock, recorded'), EntriesOutlast', RecordedBarred'
    PROVE  IInv'
<1>1. clock \in Nat /\ DOMAIN task = Tasks /\ \A q \in Tasks : TaskOk(task[q], clock, recorded)
  BY DEF IInv, Shape, TasksOk
<1>2. Shape'
  BY <1>1 DEF Shape
<1>3. ASSUME NEW q \in Tasks
      PROVE  TaskOk(task'[q], clock', recorded')
  <2>1. CASE q = p
    BY <1>1, <2>1
  <2>2. CASE q # p
    <3>1. task'[q] = task[q]
      BY <1>1, <2>2
    <3>2. TaskOk(task[q], clock, recorded')
      BY <1>1, TaskOkStays
    <3> QED
      BY <3>1, <3>2
  <2> QED
    BY <2>1, <2>2
<1> QED
  BY <1>2, <1>3 DEF IInv, TasksOk

(* The same, where the denylist stays as it is. *)
LEMMA OneLocal ==
    ASSUME IInv, NEW p \in Tasks, NEW x, task' = [task EXCEPT ![p] = x],
           clock' = clock, revoked' = revoked, recorded' = recorded,
           TaskOk(x, clock, recorded)
    PROVE  IInv'
<1>1. EntriesOutlast' /\ RecordedBarred'
  BY DEF IInv, EntriesOutlast, RecordedBarred
<1>2. recorded \subseteq recorded' /\ recorded' \subseteq Tokens
  BY DEF IInv, Shape
<1> QED
  BY <1>1, <1>2, OneTask

(* A task that goes to another label with the rest of its state. *)
LEMMA Relabelled ==
    ASSUME IInv, NEW p \in Tasks, NEW l, Goto(p, l)
    PROVE  LET x == [task[p] EXCEPT !.pc = l]
           IN  /\ task' = [task EXCEPT ![p] = x]
               /\ DOMAIN x = Fields /\ x.pc = l
               /\ x.token = task[p].token /\ x.jti = task[p].jti /\ x.exp = task[p].exp
               /\ x.then = task[p].then /\ x.now = task[p].now
               /\ x.barred = task[p].barred /\ x.at = task[p].at
<1>1. DOMAIN task = Tasks /\ DOMAIN task[p] = Fields
  BY DEF IInv, Shape, TasksOk, TaskOk, LocalShape
<1> QED
  BY <1>1 DEF Goto, Fields

(* JwtRevocationStore::revoke begins, for an entry that outlasts its tokens. *)
LEMMA RevokeBegins ==
    ASSUME IInv, NEW p \in Tasks, NEW local, NEW jti, NEW exp,
           TaskOk([local EXCEPT !.pc = "end"], clock, recorded), DOMAIN local = Fields,
           jti # None, Outlasts(jti, exp), Revoke(p, local, jti, exp),
           clock' = clock, revoked' = revoked, recorded' = recorded
    PROVE  IInv'
<1> DEFINE l == IF jti \in LongJtis THEN "end" ELSE "load"
           x == [local EXCEPT !.jti = jti, !.exp = exp, !.pc = l]
           y == [local EXCEPT !.pc = "end"]
<1>1. task' = [task EXCEPT ![p] = x]
  BY DEF Revoke
<1>2. /\ DOMAIN x = Fields /\ x.pc = l /\ x.jti = jti /\ x.exp = exp /\ x.token = y.token
      /\ x.then = y.then /\ x.now = y.now /\ x.barred = y.barred /\ x.at = y.at /\ y.pc = "end"
  BY DEF Fields
<1>3. l \in {"end", "load"}
  OBVIOUS
<1> HIDE DEF x, y, l
<1>4. TaskOk(y, clock, recorded)
  BY DEF y
<1>5. TaskOk(x, clock, recorded)
  BY <1>2, <1>3, <1>4
     DEF TaskOk, LocalShape, RevokesInTime, PrunesExpired, BarredUntilExpiry, Revoking
<1> QED
  BY <1>1, <1>5, OneLocal

(* revoke ends, and leaves of the task what the request needs. *)
LEMMA EndedOk ==
    ASSUME IInv, NEW p \in Tasks, task[p].pc \in Revoking
    PROVE  LET x == [NoTask EXCEPT !.pc = "end", !.token = task[p].token, !.then = task[p].then,
                                   !.barred = task[p].barred, !.at = task[p].at]
           IN  TaskOk(x, clock, recorded) /\ x.pc = "end"
<1> DEFINE x == [NoTask EXCEPT !.pc = "end", !.token = task[p].token, !.then = task[p].then,
                               !.barred = task[p].barred, !.at = task[p].at]
<1>1. /\ DOMAIN x = Fields /\ x.pc = "end" /\ x.token = task[p].token /\ x.then = task[p].then
      /\ x.barred = task[p].barred /\ x.at = task[p].at /\ x.now = 0
  BY DEF NoTask, Fields
<1> HIDE DEF x
<1>2. TaskOk(task[p], clock, recorded) /\ clock \in Nat
  BY DEF IInv, TasksOk, Shape
<1>3. TaskOk(x, clock, recorded)
  BY <1>1, <1>2 DEF TaskOk, LocalShape, RevokesInTime, PrunesExpired, BarredUntilExpiry, Revoking
<1> QED
  BY <1>1, <1>3 DEF x

-----------------------------------------------------------------------------
(* The steps of revoke. *)

(* The clock and last_cleanup are sampled. *)
LEMMA RevokeLoadStep ==
    ASSUME IInv, NEW p \in Tasks, RevokeLoad(p)
    PROVE  IInv'
<1> DEFINE x == [task[p] EXCEPT !.pc = "cas", !.now = clock, !.last = last_cleanup]
<1>1. DOMAIN task = Tasks /\ TaskOk(task[p], clock, recorded) /\ clock \in Nat
  BY DEF IInv, Shape, TasksOk
<1>2. DOMAIN task[p] = Fields
  BY <1>1 DEF TaskOk, LocalShape
<1>3. task' = [task EXCEPT ![p] = x] /\ UNCHANGED <<clock, revoked, recorded>>
  BY <1>1, <1>2 DEF RevokeLoad, Fields, store
<1>4. /\ DOMAIN x = Fields /\ x.pc = "cas" /\ x.now = clock /\ x.jti = task[p].jti
      /\ x.exp = task[p].exp /\ x.then = task[p].then /\ x.token = task[p].token
      /\ x.barred = task[p].barred /\ x.at = task[p].at
  BY <1>2 DEF Fields
<1> HIDE DEF x
<1>5. task[p].pc = "load"
  BY DEF RevokeLoad
<1>6. TaskOk(x, clock, recorded)
  BY <1>1, <1>4, <1>5 DEF TaskOk, LocalShape, RevokesInTime, PrunesExpired, BarredUntilExpiry, Revoking
<1> QED
  BY <1>3, <1>6, OneLocal

(* A task that is revoking and goes on to another step of revoke. *)
LEMMA StillRevoking ==
    ASSUME IInv, NEW p \in Tasks, task[p].pc \in Revoking, NEW l \in Revoking
    PROVE  TaskOk([task[p] EXCEPT !.pc = l], clock, recorded)
<1> DEFINE x == [task[p] EXCEPT !.pc = l]
<1>1. TaskOk(task[p], clock, recorded)
  BY DEF IInv, TasksOk
<1>2. DOMAIN task[p] = Fields
  BY <1>1 DEF TaskOk, LocalShape
<1>3. /\ DOMAIN x = Fields /\ x.pc = l /\ x.now = task[p].now /\ x.jti = task[p].jti
      /\ x.exp = task[p].exp /\ x.then = task[p].then /\ x.token = task[p].token
      /\ x.barred = task[p].barred /\ x.at = task[p].at
  BY <1>2 DEF Fields
<1> HIDE DEF x
<1>4. TaskOk(x, clock, recorded)
  BY <1>1, <1>3 DEF TaskOk, LocalShape, RevokesInTime, PrunesExpired, BarredUntilExpiry, Revoking
<1> QED
  BY <1>4 DEF x

(* The sweep is claimed, or left to another. *)
LEMMA RevokeCasStep ==
    ASSUME IInv, NEW p \in Tasks, RevokeCas(p)
    PROVE  IInv'
<1>1. PICK l \in {"sweep", "room"} : Goto(p, l)
  BY DEF RevokeCas
<1>2. task[p].pc \in Revoking /\ l \in Revoking /\ UNCHANGED <<clock, revoked, recorded>>
  BY DEF RevokeCas, Revoking
<1>3. TaskOk([task[p] EXCEPT !.pc = l], clock, recorded)
  BY <1>2, StillRevoking
<1>4. task' = [task EXCEPT ![p] = [task[p] EXCEPT !.pc = l]]
  BY <1>1, Relabelled
<1> QED
  BY <1>2, <1>3, <1>4, OneLocal

(* retain drops an entry only when the tokens it bars have expired. *)
LEMMA RevokeSweepStep ==
    ASSUME IInv, NEW p \in Tasks, RevokeSweep(p)
    PROVE  IInv'
<1>1. /\ Goto(p, "room") /\ task[p].pc \in Revoking /\ "room" \in Revoking
      /\ clock' = clock /\ recorded' = recorded
      /\ DOMAIN revoked' = Unexpired /\ \A j \in Unexpired : revoked'[j] = revoked[j]
  BY DEF RevokeSweep, Revoking, Restrict
<1>2. Unexpired \subseteq DOMAIN revoked
      /\ \A j \in DOMAIN revoked : clock < revoked[j] => j \in Unexpired
  BY DEF Unexpired
<1>3. EntriesOutlast'
  BY <1>1, <1>2 DEF IInv, EntriesOutlast
<1>4. RecordedBarred'
  <2> SUFFICES ASSUME NEW t \in recorded
               PROVE  Jti[t] # None /\ (clock < Exp[t] => Jti[t] \in Unexpired)
    BY <1>1 DEF RecordedBarred
  <2>1. t \in Tokens /\ clock \in Nat /\ Jti[t] # None
        /\ (clock < Exp[t] => Jti[t] \in DOMAIN revoked)
    BY DEF IInv, Shape, RecordedBarred
  <2>2. ASSUME clock < Exp[t]
        PROVE  Jti[t] \in Unexpired
    <3>1. Jti[t] \in DOMAIN revoked /\ Outlasts(Jti[t], revoked[Jti[t]])
      BY <2>1, <2>2 DEF IInv, EntriesOutlast
    <3>2. revoked[Jti[t]] \in Nat /\ revoked[Jti[t]] >= Exp[t] /\ Exp[t] \in Nat
      BY <2>1, <3>1, Claims DEF Outlasts
    <3> QED
      BY <1>2, <2>1, <2>2, <3>1, <3>2
  <2> QED
    BY <2>1, <2>2
<1>5. TaskOk([task[p] EXCEPT !.pc = "room"], clock, recorded)
  BY <1>1, StillRevoking
<1>6. task' = [task EXCEPT ![p] = [task[p] EXCEPT !.pc = "room"]]
  BY <1>1, Relabelled
<1>7. recorded \subseteq recorded' /\ recorded' \subseteq Tokens
  BY <1>1 DEF IInv, Shape
<1> QED
  BY <1>1, <1>3, <1>4, <1>5, <1>6, <1>7, OneTask

(* At capacity the revocation is dropped, and nothing is recorded. *)
LEMMA RevokeRoomStep ==
    ASSUME IInv, NEW p \in Tasks, RevokeRoom(p)
    PROVE  IInv'
<1>1. task[p].pc \in Revoking /\ "insert" \in Revoking /\ UNCHANGED <<clock, revoked, recorded>>
  BY DEF RevokeRoom, Revoking, store
<1>2. CASE Goto(p, "insert")
  <2>1. TaskOk([task[p] EXCEPT !.pc = "insert"], clock, recorded)
    BY <1>1, StillRevoking
  <2>2. task' = [task EXCEPT ![p] = [task[p] EXCEPT !.pc = "insert"]]
    BY <1>2, Relabelled
  <2> QED
    BY <1>1, <2>1, <2>2, OneLocal
<1>3. CASE Ended(p)
  <2> DEFINE x == [NoTask EXCEPT !.pc = "end", !.token = task[p].token, !.then = task[p].then,
                                 !.barred = task[p].barred, !.at = task[p].at]
  <2>1. task' = [task EXCEPT ![p] = x]
    BY <1>3 DEF Ended
  <2>2. TaskOk(x, clock, recorded)
    BY <1>1, EndedOk
  <2> HIDE DEF x
  <2> QED
    BY <1>1, <2>1, <2>2, OneLocal
<1> QED
  BY <1>2, <1>3 DEF RevokeRoom

(* An entry is made, or one for the same jti replaced. *)
LEMMA RevokeInsertStep ==
    ASSUME IInv, NEW p \in Tasks, RevokeInsert(p)
    PROVE  IInv'
<1> DEFINE jti == task[p].jti
           exp == task[p].exp
           new == {t \in Tokens : Jti[t] = jti}
           x == [NoTask EXCEPT !.pc = "end", !.token = task[p].token, !.then = task[p].then,
                               !.barred = task[p].barred, !.at = task[p].at]
<1>1. /\ task[p].pc \in Revoking /\ clock' = clock /\ recorded' = recorded \cup new
      /\ DOMAIN revoked' = DOMAIN revoked \cup {jti} /\ revoked'[jti] = exp
      /\ \A j \in DOMAIN revoked : j # jti => revoked'[j] = revoked[j]
      /\ task' = [task EXCEPT ![p] = x]
  BY DEF RevokeInsert, Revoking, Ended
<1>2. TaskOk(x, clock, recorded)
  BY <1>1, EndedOk
<1> HIDE DEF x
<1>3. jti # None /\ Outlasts(jti, exp) /\ clock \in Nat /\ recorded \subseteq Tokens
  BY <1>1 DEF IInv, Shape, TasksOk, TaskOk, RevokesInTime
<1> HIDE DEF jti, exp
<1>4. TaskOk(x, clock, recorded')
  BY <1>1, <1>2, <1>3, TaskOkStays
<1>5. EntriesOutlast'
  <2> SUFFICES ASSUME NEW j \in DOMAIN revoked \cup {jti}
               PROVE  /\ Outlasts(j, revoked'[j])
                      /\ \A t \in Tokens : Jti[t] = j => t \in recorded'
    BY <1>1 DEF EntriesOutlast, Outlasts
  <2>1. CASE j = jti
    BY <1>1, <1>3, <2>1
  <2>2. CASE j # jti
    BY <1>1, <2>2 DEF IInv, EntriesOutlast
  <2> QED
    BY <2>1, <2>2
<1>6. RecordedBarred'
  BY <1>1, <1>3 DEF IInv, RecordedBarred
<1>7. recorded \subseteq recorded' /\ recorded' \subseteq Tokens
  BY <1>1, <1>3
<1> QED
  BY <1>1, <1>4, <1>5, <1>6, <1>7, OneTask

-----------------------------------------------------------------------------
(* The steps of a request. *)

(* A task that has returned is ready for the next request. *)
LEMMA IdleStep ==
    ASSUME IInv, NEW p \in Tasks, task' = [task EXCEPT ![p] = NoTask],
           UNCHANGED <<clock, revoked, recorded>>
    PROVE  IInv'
<1>1. clock \in Nat
  BY DEF IInv, Shape
<1>2. TaskOk(NoTask, clock, recorded)
  BY <1>1, NoTaskFields DEF TaskOk, LocalShape, RevokesInTime, PrunesExpired, BarredUntilExpiry, Revoking
<1> QED
  BY <1>2, OneLocal

(* A request arrives: it is barred if its token is recorded by then. *)
LEMMA ArriveStep ==
    ASSUME IInv, NEW c \in Clients, Arrive(c)
    PROVE  IInv'
<1>1. PICK t \in Issued \cup {None}, logout \in BOOLEAN :
        task' = [task EXCEPT ![c] =
                    [NoTask EXCEPT !.pc = IF t = None THEN "denied" ELSE "verify",
                        !.token = t, !.logout = logout, !.barred = t \in recorded]]
  BY DEF Arrive
<1> DEFINE l == IF t = None THEN "denied" ELSE "verify"
           x == [NoTask EXCEPT !.pc = l, !.token = t, !.logout = logout, !.barred = t \in recorded]
<1>2. /\ DOMAIN x = Fields /\ x.pc = l /\ x.token = t /\ x.barred = (t \in recorded)
      /\ x.now = 0 /\ x.then = None
  BY DEF NoTask, Fields
<1>3. task' = [task EXCEPT ![c] = x]
  BY <1>1
<1>4. l = "denied" \/ (l = "verify" /\ t \in Tokens)
  BY <1>1 DEF Issued
<1> HIDE DEF x, l
<1>5. clock \in Nat
  BY DEF IInv, Shape
<1>6. TaskOk(x, clock, recorded)
  <2>1. x.barred => x.token \in recorded
    BY <1>2
  <2>2. x.pc \in {"denied", "verify"} /\ (x.pc = "verify" => x.token \in Tokens)
    BY <1>2, <1>4
  <2>3. LocalShape(x, clock)
    BY <1>2, <1>5, <2>2 DEF LocalShape, Revoking
  <2>4. RevokesInTime(x, clock) /\ PrunesExpired(x, clock)
    BY <1>2, <2>2 DEF RevokesInTime, PrunesExpired, Revoking
  <2>5. BarredUntilExpiry(x, recorded)
    BY <2>1, <2>2 DEF BarredUntilExpiry
  <2> QED
    BY <2>3, <2>4, <2>5 DEF TaskOk
<1>7. UNCHANGED <<clock, revoked, recorded>> /\ c \in Tasks
  BY DEF Arrive, store, Tasks
<1> QED
  BY <1>3, <1>6, <1>7, OneLocal

(* A token's signature and exp are verified. *)
LEMMA VerifyStep ==
    ASSUME IInv, NEW c \in Clients, Verify(c)
    PROVE  IInv'
<1>1. PICK l \in {"denied", "check"} : Goto(c, l)
  BY DEF Verify
<1>2. task[c].pc = "verify" /\ UNCHANGED <<clock, revoked, recorded>> /\ c \in Tasks
  BY DEF Verify, store, Tasks
<1> DEFINE x == [task[c] EXCEPT !.pc = l]
<1>3. /\ task' = [task EXCEPT ![c] = x]
      /\ DOMAIN x = Fields /\ x.pc = l /\ x.token = task[c].token /\ x.then = task[c].then
      /\ x.now = task[c].now /\ x.barred = task[c].barred
  BY <1>1, <1>2, Relabelled
<1> HIDE DEF x
<1>4. TaskOk(task[c], clock, recorded)
  BY <1>2 DEF IInv, TasksOk
<1>5. TaskOk(x, clock, recorded)
  BY <1>1, <1>2, <1>3, <1>4 DEF TaskOk, LocalShape, RevokesInTime, PrunesExpired, BarredUntilExpiry, Revoking
<1> QED
  BY <1>2, <1>3, <1>5, OneLocal

(* A token without jti is never recorded as revoked. *)
LEMMA CheckStep ==
    ASSUME IInv, NEW c \in Clients, Check(c)
    PROVE  IInv'
<1> DEFINE l == IF Jti[task[c].token] = None THEN "pass" ELSE "get"
           x == [task[c] EXCEPT !.now = clock, !.pc = l]
<1>1. /\ DOMAIN task = Tasks /\ TaskOk(task[c], clock, recorded) /\ clock \in Nat
      /\ c \in Tasks /\ task[c].pc = "check" /\ UNCHANGED <<clock, revoked, recorded>>
  BY DEF IInv, Shape, TasksOk, Tasks, Check, store
<1>2. DOMAIN task[c] = Fields
  BY <1>1 DEF TaskOk, LocalShape
<1>3. task' = [task EXCEPT ![c] = x]
  BY <1>1, <1>2 DEF Check, Fields
<1>4. /\ DOMAIN x = Fields /\ x.pc = l /\ x.now = clock /\ x.then = task[c].then
      /\ x.token = task[c].token /\ x.barred = task[c].barred
  BY <1>2 DEF Fields
<1>5. l = "get" \/ (l = "pass" /\ Jti[task[c].token] = None)
  OBVIOUS
<1>6. task[c].token \in recorded => Jti[task[c].token] # None
  BY DEF IInv, RecordedBarred
<1> HIDE DEF x, l
<1>7. TaskOk(x, clock, recorded)
  BY <1>1, <1>4, <1>5, <1>6 DEF TaskOk, LocalShape, RevokesInTime, PrunesExpired, BarredUntilExpiry, Revoking
<1> QED
  BY <1>1, <1>3, <1>7, OneLocal

(* The look at the denylist: a recorded token that is not found there, or
   whose entry has ended, has expired. *)
LEMMA GetStep ==
    ASSUME IInv, NEW c \in Clients, Get(c)
    PROVE  IInv'
<1> DEFINE t == task[c].token
           j == Jti[t]
           l == IF IsRevoked(c) THEN "denied" ELSE IF j \in DOMAIN revoked THEN "prune" ELSE "pass"
           x == [task[c] EXCEPT !.at = clock, !.pc = l]
<1>1. /\ DOMAIN task = Tasks /\ TaskOk(task[c], clock, recorded) /\ clock \in Nat
      /\ c \in Tasks /\ task[c].pc = "get" /\ UNCHANGED <<clock, revoked, recorded>>
  BY DEF IInv, Shape, TasksOk, Tasks, Get, store
<1>2. /\ DOMAIN task[c] = Fields /\ t \in Tokens /\ task[c].now \in Nat /\ task[c].now <= clock
      /\ Exp[t] \in Nat
  BY <1>1, Claims DEF TaskOk, LocalShape
<1>3. task' = [task EXCEPT ![c] = x]
  BY <1>1, <1>2 DEF Get, Fields
<1>4. /\ DOMAIN x = Fields /\ x.pc = l /\ x.at = clock /\ x.now = task[c].now
      /\ x.then = task[c].then /\ x.token = t /\ x.barred = task[c].barred
  BY <1>2 DEF Fields
<1>5. ASSUME l = "prune"
      PROVE  Exp[t] <= clock
  <2>1. j \in DOMAIN revoked /\ ~(task[c].now < revoked[j])
    BY <1>5 DEF IsRevoked
  <2>2. revoked[j] \in Nat /\ revoked[j] >= Exp[t]
    BY <1>2, <2>1 DEF IInv, EntriesOutlast, Outlasts
  <2> QED
    BY <1>1, <1>2, <2>1, <2>2
<1>6. ASSUME l = "pass", t \in recorded
      PROVE  Exp[t] <= clock
  <2>1. j \notin DOMAIN revoked
    BY <1>6
  <2> QED
    BY <1>1, <1>2, <1>6, <2>1 DEF IInv, RecordedBarred
<1>7. l \in {"denied", "prune", "pass"}
  OBVIOUS
<1> HIDE DEF x, l
<1>8. TaskOk(x, clock, recorded)
  BY <1>1, <1>2, <1>4, <1>5, <1>6, <1>7 DEF TaskOk, LocalShape, RevokesInTime, PrunesExpired, BarredUntilExpiry, Revoking
<1> QED
  BY <1>1, <1>3, <1>8, OneLocal

(* remove(jti), whatever entry is there by now: the token has expired, and no
   other has the jti. *)
LEMMA PruneStep ==
    ASSUME IInv, NEW c \in Clients, Prune(c)
    PROVE  IInv'
<1> DEFINE t == task[c].token
           x == [task[c] EXCEPT !.pc = "pass"]
<1>1. /\ TaskOk(task[c], clock, recorded) /\ clock \in Nat /\ recorded \subseteq Tokens
      /\ c \in Tasks /\ task[c].pc = "prune" /\ Goto(c, "pass")
      /\ clock' = clock /\ recorded' = recorded
      /\ DOMAIN revoked' = DOMAIN revoked \ {Jti[t]}
      /\ \A j \in DOMAIN revoked \ {Jti[t]} : revoked'[j] = revoked[j]
  BY DEF IInv, Shape, TasksOk, Tasks, Prune, Restrict
<1>2. t \in Tokens /\ Exp[t] <= clock
  BY <1>1 DEF TaskOk, LocalShape, PrunesExpired
<1>3. EntriesOutlast'
  BY <1>1 DEF IInv, EntriesOutlast
<1>4. RecordedBarred'
  <2> SUFFICES ASSUME NEW u \in recorded
               PROVE  Jti[u] # None /\ (clock < Exp[u] => Jti[u] \in DOMAIN revoked')
    BY <1>1 DEF RecordedBarred
  <2>1. u \in Tokens /\ Jti[u] # None /\ (clock < Exp[u] => Jti[u] \in DOMAIN revoked)
    BY <1>1 DEF IInv, RecordedBarred
  <2>2. CASE u = t
    BY <1>1, <1>2, <2>1, <2>2, Claims
  <2>3. CASE u # t
    <3>1. Jti[u] # Jti[t]
      BY <1>2, <2>1, <2>3, Claims
    <3> QED
      BY <1>1, <2>1, <3>1
  <2> QED
    BY <2>2, <2>3
<1>5. /\ task' = [task EXCEPT ![c] = x] /\ DOMAIN x = Fields /\ x.pc = "pass" /\ x.token = t
      /\ x.then = task[c].then /\ x.now = task[c].now /\ x.barred = task[c].barred
      /\ x.at = task[c].at
  BY <1>1, Relabelled
<1> HIDE DEF x
<1>6. TaskOk(x, clock, recorded)
  BY <1>1, <1>5 DEF TaskOk, LocalShape, RevokesInTime, PrunesExpired, BarredUntilExpiry, Revoking
<1> QED
  BY <1>1, <1>3, <1>4, <1>5, <1>6, OneTask

(* On a logout path the request's token is revoked, until its own exp. *)
LEMMA PassStep ==
    ASSUME IInv, NEW c \in Clients, Pass(c)
    PROVE  IInv'
<1> DEFINE t == task[c].token
           x == [task[c] EXCEPT !.pc = "end"]
<1>1. /\ DOMAIN task = Tasks /\ TaskOk(task[c], clock, recorded) /\ c \in Tasks
      /\ task[c].pc = "pass" /\ UNCHANGED <<clock, revoked, recorded>>
  BY DEF IInv, Shape, TasksOk, Tasks, Pass, store
<1>2. DOMAIN task[c] = Fields /\ t \in Tokens
  BY <1>1 DEF TaskOk, LocalShape
<1>3. /\ DOMAIN x = Fields /\ x.pc = "end" /\ x.token = t /\ x.then = task[c].then
      /\ x.now = task[c].now /\ x.barred = task[c].barred /\ x.at = task[c].at
  BY <1>2 DEF Fields
<1>4. TaskOk(x, clock, recorded)
  <2> HIDE DEF x
  <2> QED
    BY <1>1, <1>3 DEF TaskOk, LocalShape, RevokesInTime, PrunesExpired, BarredUntilExpiry, Revoking
<1>5. CASE Jti[t] # None /\ Revoke(c, task[c], Jti[t], Exp[t])
  <2>1. Outlasts(Jti[t], Exp[t])
    BY <1>2, <1>5, Claims DEF Outlasts
  <2> QED
    BY <1>1, <1>2, <1>4, <1>5, <2>1, RevokeBegins
<1>6. CASE Goto(c, "end")
  <2>1. task' = [task EXCEPT ![c] = x]
    BY <1>1, <1>6, Relabelled
  <2> HIDE DEF x
  <2> QED
    BY <1>1, <1>4, <2>1, OneLocal
<1> QED
  BY <1>5, <1>6 DEF Pass

-----------------------------------------------------------------------------
(* The steps of POST /auth/revoke. *)

(* The caller's own token is revoked until it expires; an explicit jti is kept
   for later, and a token that carries it was issued already. *)
LEMMA RevokeRequestStep ==
    ASSUME IInv, NEW p \in Revokers, RevokeRequest(p)
    PROVE  IInv'
<1>1. PICK t \in Issued \cup {None}, explicit \in KnownJtis \cup {None} :
        IF t # None /\ Jti[t] # None
        THEN Revoke(p, [NoTask EXCEPT !.then = explicit], Jti[t], Exp[t])
        ELSE task' = [task EXCEPT ![p] = [[NoTask EXCEPT !.then = explicit] EXCEPT !.pc = "end"]]
  BY DEF RevokeRequest
<1> DEFINE local == [NoTask EXCEPT !.then = explicit]
           x == [local EXCEPT !.pc = "end"]
<1>2. p \in Tasks /\ clock \in Nat /\ UNCHANGED <<clock, revoked, recorded>>
  BY DEF IInv, Shape, Tasks, RevokeRequest, store
<1>3. /\ DOMAIN local = Fields /\ DOMAIN x = Fields /\ x.pc = "end" /\ x.then = explicit
      /\ x.now = 0 /\ x.barred = FALSE
  BY DEF NoTask, Fields
<1>4. ASSUME explicit # None, NEW u \in Tokens, Jti[u] = explicit
      PROVE  Exp[u] <= clock + TokenExpiry
  BY <1>4, Claims DEF KnownJtis, Issued
<1>5. TaskOk(x, clock, recorded)
  <2> HIDE DEF x
  <2>1. LocalShape(x, clock)
    BY <1>2, <1>3 DEF LocalShape, Revoking
  <2>2. RevokesInTime(x, clock) /\ PrunesExpired(x, clock)
    BY <1>3, <1>4 DEF RevokesInTime, PrunesExpired, Revoking
  <2>3. BarredUntilExpiry(x, recorded)
    BY <1>3 DEF BarredUntilExpiry
  <2> QED
    BY <2>1, <2>2, <2>3 DEF TaskOk
<1>6. CASE t # None /\ Jti[t] # None
  <2>1. Revoke(p, local, Jti[t], Exp[t]) /\ t \in Tokens
    BY <1>1, <1>6 DEF Issued
  <2>2. Outlasts(Jti[t], Exp[t])
    BY <1>6, <2>1, Claims DEF Outlasts
  <2> HIDE DEF local
  <2> QED
    BY <1>2, <1>3, <1>5, <1>6, <2>1, <2>2, RevokeBegins
<1>7. CASE ~(t # None /\ Jti[t] # None)
  <2>1. task' = [task EXCEPT ![p] = x]
    BY <1>1, <1>7
  <2> HIDE DEF x
  <2> QED
    BY <1>2, <1>5, <2>1, OneLocal
<1> QED
  BY <1>6, <1>7

(* The explicit jti is revoked for the lifetime of a token issued now, or the
   caller has no certificate and it is dropped. *)
LEMMA RevokeExplicitStep ==
    ASSUME IInv, NEW p \in Revokers, RevokeExplicit(p)
    PROVE  IInv'
<1> DEFINE local == [task[p] EXCEPT !.then = None]
           y == [local EXCEPT !.pc = "end"]
<1>1. /\ DOMAIN task = Tasks /\ TaskOk(task[p], clock, recorded) /\ clock \in Nat /\ p \in Tasks
      /\ task[p].pc = "end" /\ task[p].then # None /\ UNCHANGED <<clock, revoked, recorded>>
  BY DEF IInv, Shape, TasksOk, Tasks, RevokeExplicit, store
<1>2. DOMAIN task[p] = Fields
  BY <1>1 DEF TaskOk, LocalShape
<1>3. /\ DOMAIN local = Fields /\ DOMAIN y = Fields /\ y.pc = "end" /\ y.then = None
      /\ y.now = task[p].now /\ y.token = task[p].token /\ y.barred = task[p].barred
      /\ y.at = task[p].at
  BY <1>2 DEF Fields
<1>4. y = local
  BY <1>1, <1>2 DEF Fields
<1>5. TaskOk(y, clock, recorded)
  <2> HIDE DEF y
  <2> QED
    BY <1>1, <1>3 DEF TaskOk, LocalShape, RevokesInTime, PrunesExpired, BarredUntilExpiry, Revoking
<1>6. Outlasts(task[p].then, clock + TokenExpiry)
  BY <1>1, Claims DEF TaskOk, RevokesInTime, Outlasts
<1>7. CASE Revoke(p, local, task[p].then, clock + TokenExpiry)
  <2> HIDE DEF local
  <2> QED
    BY <1>1, <1>3, <1>5, <1>6, <1>7, RevokeBegins
<1>8. CASE task' = [task EXCEPT ![p].then = None]
  <2>1. task' = [task EXCEPT ![p] = local]
    BY <1>1, <1>8
  <2>2. TaskOk(local, clock, recorded)
    BY <1>4, <1>5
  <2> HIDE DEF local
  <2> QED
    BY <1>1, <2>1, <2>2, OneLocal
<1> QED
  BY <1>7, <1>8 DEF RevokeExplicit

(* A second passes: tokens may expire, and none becomes valid again. *)
LEMMA TickStep ==
    ASSUME IInv, Tick
    PROVE  IInv'
<1>1. clock \in Nat /\ clock' = clock + 1 /\ UNCHANGED <<revoked, task, recorded>>
  BY DEF IInv, Shape, Tick, store
<1>2. Shape' /\ EntriesOutlast'
  BY <1>1 DEF IInv, Shape, EntriesOutlast
<1>3. RecordedBarred'
  BY <1>1, Claims DEF IInv, Shape, RecordedBarred
<1>4. TasksOk'
  <2> SUFFICES ASSUME NEW q \in Tasks
               PROVE  TaskOk(task[q], clock + 1, recorded)
    BY <1>1 DEF TasksOk
  <2>1. TaskOk(task[q], clock, recorded)
    BY DEF IInv, TasksOk
  <2> QED
    BY <1>1, <2>1, TaskOkStays
<1> QED
  BY <1>2, <1>3, <1>4 DEF IInv

-----------------------------------------------------------------------------
(* At the start the denylist is empty and no request is served. *)
LEMMA InitInv ==
    Init => IInv
<1> SUFFICES ASSUME Init
             PROVE  IInv
  OBVIOUS
<1>1. TaskOk(NoTask, 0, {})
  BY NoTaskFields DEF TaskOk, LocalShape, RevokesInTime, PrunesExpired, BarredUntilExpiry, Revoking
<1>2. TasksOk
  BY <1>1 DEF Init, TasksOk
<1> QED
  BY <1>2 DEF Init, IInv, Shape, EntriesOutlast, RecordedBarred

(* Every step, of whichever task, keeps the invariant. *)
LEMMA NextInv ==
    IInv /\ [Next]_vars => IInv'
<1> SUFFICES ASSUME IInv, [Next]_vars
             PROVE  IInv'
  OBVIOUS
<1>1. CASE UNCHANGED vars
  BY <1>1 DEF vars, IInv, Shape, EntriesOutlast, RecordedBarred, TasksOk
<1>2. CASE Tick
  BY <1>2, TickStep
<1>3. ASSUME NEW c \in Clients,
             Arrive(c) \/ Verify(c) \/ Check(c) \/ Get(c) \/ Prune(c) \/ Pass(c) \/ Leave(c)
      PROVE  IInv'
  <2>1. CASE Leave(c)
    BY <2>1, IdleStep DEF Leave, store, Tasks
  <2> QED
    BY <1>3, <2>1, ArriveStep, VerifyStep, CheckStep, GetStep, PruneStep, PassStep
<1>4. ASSUME NEW p \in Revokers, RevokeRequest(p) \/ RevokeExplicit(p) \/ Answer(p)
      PROVE  IInv'
  <2>1. CASE Answer(p)
    BY <2>1, IdleStep DEF Answer, store, Tasks
  <2> QED
    BY <1>4, <2>1, RevokeRequestStep, RevokeExplicitStep
<1>5. ASSUME NEW p \in Tasks,
             RevokeLoad(p) \/ RevokeCas(p) \/ RevokeSweep(p) \/ RevokeRoom(p) \/ RevokeInsert(p)
      PROVE  IInv'
  BY <1>5, RevokeLoadStep, RevokeCasStep, RevokeSweepStep, RevokeRoomStep, RevokeInsertStep
<1> QED
  BY <1>1, <1>2, <1>3, <1>4, <1>5 DEF Next, Quiet

(* A request that arrives with a token whose revocation is recorded is let
   through only once the token has expired: neither cleanup_expired, nor the
   lazy removal of is_revoked, nor a later revocation of the same jti lifts a
   revocation early. *)
THEOREM RevokedOut == Spec => []RevokedStaysOut
<1>1. IInv => RevokedStaysOut
  BY DEF IInv, TasksOk, TaskOk, BarredUntilExpiry, RevokedStaysOut, Tasks
<1> QED
  BY <1>1, InitInv, NextInv, PTL DEF Spec

(* A jti in the denylist stays there until its token has expired, and a
   recorded token that is still valid is in it: what the sweep at capacity and
   the lazy removal may take away. *)
THEOREM DenylistSound == Spec => [](EntriesOutlast /\ RecordedBarred)
<1>1. IInv => EntriesOutlast /\ RecordedBarred
  BY DEF IInv
<1> QED
  BY <1>1, InitInv, NextInv, PTL DEF Spec

-----------------------------------------------------------------------------
(* The QR-code login that signs the tokens, for any number of sessions,
   devices, browsers and creators, any limits, with and without a webhook.
   Each property fails to be inductive for the same reason: it speaks of what a
   handler decided in one lock scope and does in the next.  The invariant says
   what the handlers in between hold: the requests that decided to remove an
   entry bound the guesses it may still see, the requests past the webhook hold
   its OIDs, and a session that has issued its JWT has no entry. *)

(* A /auth/confirm task at work has a session, and past the webhook it holds
   the OIDs the webhook granted, unless the certificate's may be used. *)
DeviceStates ==
    {r \in [pc : {"idle", "verify", "webhook", "reverify", "confirm", "remove"},
            sid : Sessions \cup {NoSession}, code : BOOLEAN,
            oids : {"cert", "webhook"}] :
        /\ r.pc # "idle" => r.sid \in Sessions
        /\ Webhook /\ ~FallbackToCert /\ r.pc \in {"reverify", "confirm"}
              => r.oids = "webhook"}

BrowserStates ==
    {r \in [pc : {"idle", "consume", "remove"}, sid : Sessions \cup {NoSession}] :
        r.pc # "idle" => r.sid \in Sessions}

LoginShape ==
    /\ sessions \in [Sessions -> Entries \cup {NoEntry}]
    /\ rate \in [Ips -> 0..(MaxLogins + 1)]
    /\ window \subseteq Ips
    /\ creator \in [Creators -> {"idle", "capacity", "insert"}]
    /\ device \in [Devices -> DeviceStates]
    /\ browser \in [Browsers -> BrowserStates]
    /\ guesses \in [Sessions -> Nat]
    /\ issued \in [Sessions -> Seq(Identities)]

(* The requests that have decided to remove the entry of s. *)
Removers(s) == {d \in Devices : device[d].sid = s /\ device[d].pc = "remove"}

(* The entry counts the wrong codes, and each one past the limit is that of a
   request which is about to remove it. *)
GuessesCounted ==
    \A s \in Sessions :
        /\ guesses[s] <= MaxAttempts - 1 + Cardinality(Devices)
        /\ sessions[s] # NoEntry =>
              /\ guesses[s] = sessions[s].failed_attempts
              /\ guesses[s] <= MaxAttempts - 1 + Cardinality(Removers(s))

(* A session that has issued its JWT is no longer in the store. *)
IssuedIsGone ==
    \A s \in Sessions :
        \/ issued[s] = << >>
        \/ sessions[s] = NoEntry /\ Len(issued[s]) = 1

(* The inductive invariant. *)
LoginInv == LoginShape /\ GuessesCounted /\ IssuedIsGone /\ WebhookDecides

(* The requests about to remove an entry are among the devices. *)
LEMMA SomeDevices ==
    /\ Cardinality(Devices) \in Nat
    /\ \A R \in SUBSET Devices :
          Cardinality(R) \in Nat /\ Cardinality(R) <= Cardinality(Devices)
    /\ \A R, T \in SUBSET Devices :
          R \subseteq T => Cardinality(R) <= Cardinality(T)
    /\ \A R \in SUBSET Devices : \A d \in Devices :
          d \notin R => Cardinality(R \cup {d}) = Cardinality(R) + 1
<1>1. IsFiniteSet(Devices)
  BY FiniteAssumption
<1>2. \A R \in SUBSET Devices : IsFiniteSet(R)
  BY <1>1, FS_Subset
<1>3. \A R \in SUBSET Devices :
         Cardinality(R) \in Nat /\ Cardinality(R) <= Cardinality(Devices)
  BY <1>1, <1>2, FS_Subset, FS_CardinalityType
<1>4. \A R, T \in SUBSET Devices :
         R \subseteq T => Cardinality(R) <= Cardinality(T)
  BY <1>2, FS_Subset
<1>5. \A R \in SUBSET Devices : \A d \in Devices :
         d \notin R => Cardinality(R \cup {d}) = Cardinality(R) + 1
  BY <1>2, FS_AddElement
<1> QED
  BY <1>1, <1>3, <1>4, <1>5, FS_CardinalityType

(* The empty store. *)
LEMMA LoginBegins == LoginInit => LoginInv
<1> SUFFICES ASSUME LoginInit PROVE LoginInv
  OBVIOUS
<1>1. LoginShape
  BY LimitsAssumption
  DEF LoginInit, LoginShape, IdleDevice, DeviceStates, BrowserStates
<1>2. GuessesCounted
  BY SomeDevices, LimitsAssumption DEF LoginInit, GuessesCounted
<1>3. IssuedIsGone /\ WebhookDecides
  BY DEF LoginInit, IssuedIsGone, WebhookDecides, Live
<1> QED
  BY <1>1, <1>2, <1>3 DEF LoginInv

(* The steps that neither create nor confirm a session nor count a wrong code:
   they may only lose entries, and add to those about to remove one. *)
LEMMA EntriesOnlyLeave ==
    ASSUME LoginInv, LoginShape', UNCHANGED <<guesses, issued>>,
           \A s \in Sessions :
               \/ sessions'[s] = NoEntry
               \/ /\ sessions[s] # NoEntry
                  /\ sessions'[s].status = sessions[s].status
                  /\ sessions'[s].failed_attempts = sessions[s].failed_attempts
                  /\ Removers(s) \subseteq Removers(s)'
    PROVE  LoginInv'
<1> USE DEF LoginInv
<1>1. GuessesCounted'
  <2> SUFFICES ASSUME NEW s \in Sessions, sessions'[s] # NoEntry
               PROVE  /\ guesses[s] = sessions'[s].failed_attempts
                      /\ guesses[s] <= MaxAttempts - 1
                                        + Cardinality(Removers(s)')
    BY DEF GuessesCounted
  <2>1. /\ sessions[s] # NoEntry
        /\ sessions'[s].failed_attempts = sessions[s].failed_attempts
        /\ Removers(s) \subseteq Removers(s)'
    OBVIOUS
  <2>2. Removers(s) \subseteq Devices /\ Removers(s)' \subseteq Devices
    BY DEF Removers
  <2>3. /\ Cardinality(Removers(s)) <= Cardinality(Removers(s)')
        /\ Cardinality(Removers(s)) \in Nat /\ Cardinality(Removers(s)') \in Nat
    BY <2>1, <2>2, SomeDevices
  <2> QED
    BY <2>1, <2>3, LimitsAssumption DEF GuessesCounted, LoginShape
<1>2. IssuedIsGone'
  BY DEF IssuedIsGone
<1>3. WebhookDecides'
  BY DEF WebhookDecides, Live
<1> QED
  BY <1>1, <1>2, <1>3

(* POST /auth/login and the passing of time. *)
LEMMA CreatorPreserves ==
    ASSUME LoginInv, NEW k \in Creators, CreatorStep(k) PROVE LoginInv'
<1> USE DEF LoginInv
<1>1. /\ Cleaned \in [Sessions -> Entries \cup {NoEntry}]
      /\ \A s \in Sessions : Cleaned[s] = NoEntry \/ Cleaned[s] = sessions[s]
  BY DEF Cleaned, LoginShape
<1>2. CleanedRate \in [Ips -> 0..(MaxLogins + 1)]
  BY LimitsAssumption DEF CleanedRate, LoginShape
<1>3. ASSUME NEW i \in Ips, CreateRate(k, i) PROVE LoginInv'
  <2>1. PICK purge \in BOOLEAN :
           LET r == IF purge THEN CleanedRate ELSE rate
               n == IF r[i] = 0 \/ i \in window THEN 1
                    ELSE IF r[i] > MaxLogins THEN r[i] ELSE r[i] + 1
           IN  /\ CleanupExpired(purge)
               /\ rate' = r \/ rate' = [r EXCEPT ![i] = n]
               /\ window' \subseteq window
               /\ \/ UNCHANGED creator
                  \/ creator' = [creator EXCEPT ![k] =
                                   IF n <= MaxLogins THEN "capacity" ELSE "idle"]
    BY <1>3 DEF CreateRate
  <2>2. rate' \in [Ips -> 0..(MaxLogins + 1)]
    <3> DEFINE r == IF purge THEN CleanedRate ELSE rate
               n == IF r[i] = 0 \/ i \in window THEN 1
                    ELSE IF r[i] > MaxLogins THEN r[i] ELSE r[i] + 1
    <3>1. r \in [Ips -> 0..(MaxLogins + 1)]
      BY <1>2 DEF LoginShape
    <3>2. n \in 0..(MaxLogins + 1)
      BY <3>1, LimitsAssumption
    <3>3. rate' = r \/ rate' = [r EXCEPT ![i] = n]
      BY <2>1
    <3> HIDE DEF r, n
    <3> QED
      BY <3>1, <3>2, <3>3
  <2>3. LoginShape'
    BY <1>1, <1>3, <2>1, <2>2 DEF CreateRate, CleanupExpired, LoginShape
  <2> QED
    BY <1>1, <1>3, <2>1, <2>3, EntriesOnlyLeave
    DEF CreateRate, CleanupExpired, Removers
<1>4. CASE CreateCapacity(k)
  <2>1. LoginShape'
    BY <1>1, <1>2, <1>4 DEF CreateCapacity, CleanupExpired, LoginShape
  <2> QED
    BY <1>1, <1>4, <2>1, EntriesOnlyLeave
    DEF CreateCapacity, CleanupExpired, Removers
<1>5. CASE CreateInsert(k)
  <2> DEFINE new == [status |-> Pending, failed_attempts |-> 0, expired |-> FALSE]
  <2>1. PICK s \in Sessions :
           /\ Fresh(s)
           /\ sessions' = [sessions EXCEPT ![s] = new]
           /\ guesses' = [guesses EXCEPT ![s] = 0]
           /\ issued' = [issued EXCEPT ![s] = << >>]
    BY <1>5 DEF CreateInsert
  <2>2. new \in Entries
    BY SomeDevices, LimitsAssumption DEF Entries
  <2>3. new # NoEntry
    BY <2>2, FreshAssumption
  <2>4. LoginShape'
    BY <1>5, <2>1, <2>2 DEF CreateInsert, LoginShape
  <2>5. \A t \in Sessions : /\ Removers(t)' = Removers(t)
                            /\ Cardinality(Removers(t)) \in Nat
    BY <1>5, SomeDevices DEF CreateInsert, Removers
  <2>6. GuessesCounted'
    <3> SUFFICES ASSUME NEW t \in Sessions
                 PROVE  /\ guesses'[t] <= MaxAttempts - 1 + Cardinality(Devices)
                        /\ sessions'[t] # NoEntry =>
                           /\ guesses'[t] = sessions'[t].failed_attempts
                           /\ guesses'[t] <= MaxAttempts - 1
                                              + Cardinality(Removers(t))
      BY <2>5 DEF GuessesCounted
    <3>1. CASE t = s
      BY <3>1, <2>1, <2>5, SomeDevices, LimitsAssumption DEF LoginShape
    <3>2. CASE t # s
      BY <3>2, <2>1 DEF LoginShape, GuessesCounted
    <3> QED
      BY <3>1, <3>2
  <2>7. IssuedIsGone'
    BY <2>1 DEF IssuedIsGone, LoginShape
  <2>8. WebhookDecides'
    BY <2>1 DEF WebhookDecides, Live, LoginShape
  <2> QED
    BY <2>4, <2>6, <2>7, <2>8
<1> QED
  BY <1>3, <1>4, <1>5 DEF CreatorStep

(* An entry that outlives its ttl. *)
LEMMA ExpirePreserves ==
    ASSUME LoginInv, NEW s \in Sessions, Expire(s) PROVE LoginInv'
<1> USE DEF LoginInv
<1>1. sessions[s] \in Entries
  BY DEF Expire, LoginShape
<1>2. [sessions[s] EXCEPT !.expired = TRUE] \in Entries
  BY <1>1 DEF Entries
<1>3. LoginShape'
  BY <1>2 DEF Expire, LoginShape
<1>4. \A t \in Sessions :
         \/ sessions'[t] = sessions[t]
         \/ /\ sessions[t] # NoEntry
            /\ sessions'[t].status = sessions[t].status
            /\ sessions'[t].failed_attempts = sessions[t].failed_attempts
  BY <1>1 DEF Expire, LoginShape, Entries
<1> QED
  BY <1>3, <1>4, EntriesOnlyLeave DEF Expire, Removers

(* One lock scope of verify_session_code, for the first and for the second
   verification of a request that goes on to `next`. *)
LEMMA VerifyPreserves ==
    ASSUME LoginInv, NEW d \in Devices, device[d].pc \in {"verify", "reverify"},
           NEW next \in {"webhook", "reverify", "confirm"},
           next = "confirm" => device[d].pc = "reverify",
           next = "reverify" => ~Webhook,
           VerifySessionCode(d, next)
    PROVE  LoginInv'
<1> USE DEF LoginInv
<1>0. PICK s \in Sessions : s = device[d].sid
  BY DEF LoginShape, DeviceStates
<1> DEFINE e == sessions[s]
           n == Attempts(e)
<1>1. device[d] \in DeviceStates /\ device[d].sid = s
  BY <1>0 DEF LoginShape
<1>2. IdleDevice \in DeviceStates
  BY DEF IdleDevice, DeviceStates
<1>3. \A pc \in {"remove", next} : [device[d] EXCEPT !.pc = pc] \in DeviceStates
  BY <1>1 DEF DeviceStates
<1>4. DeviceDone(d) \/ ToDevice(d, "remove") \/ ToDevice(d, next)
  BY DEF VerifySessionCode
<1>5. device' \in [Devices -> DeviceStates]
  BY <1>2, <1>3, <1>4 DEF DeviceDone, ToDevice, LoginShape
<1>6. \A t \in Sessions : Removers(t) \subseteq Removers(t)'
  <2>1. \A c \in Devices : c # d => device'[c] = device[c]
    BY <1>4 DEF DeviceDone, ToDevice, LoginShape
  <2> QED
    BY <2>1 DEF Removers
<1>7. CASE UNCHANGED <<sessions, guesses>>
  <2>1. LoginShape'
    BY <1>5, <1>7 DEF VerifySessionCode, LoginShape
  <2> QED
    BY <1>6, <1>7, <2>1, EntriesOnlyLeave DEF VerifySessionCode
<1>8. CASE /\ e # NoEntry /\ e.status = Pending
           /\ sessions' = [sessions EXCEPT ![s].failed_attempts = n]
           /\ guesses' = [guesses EXCEPT ![s] = @ + 1]
           /\ IF LockedOut(n) THEN ToDevice(d, "remove") ELSE DeviceDone(d)
  <2>1. e \in Entries /\ n \in Nat /\ n = guesses[s] + 1 /\ guesses[s] \in Nat
    BY <1>1, <1>8, SomeDevices, LimitsAssumption
    DEF LoginShape, Entries, Attempts, GuessesCounted
  <2>2. /\ Removers(s) \subseteq Devices /\ Removers(s)' \subseteq Devices
        /\ Cardinality(Removers(s)) \in Nat /\ Cardinality(Removers(s)') \in Nat
        /\ Cardinality(Removers(s)') <= Cardinality(Devices)
    BY SomeDevices DEF Removers
  <2>3. n <= MaxAttempts - 1 + Cardinality(Removers(s)')
    <3>1. CASE LockedOut(n)
      <4>1. Removers(s)' = Removers(s) \cup {d} /\ d \notin Removers(s)
        BY <1>1, <1>8, <3>1 DEF Removers, ToDevice, LoginShape, DeviceStates
      <4>2. Cardinality(Removers(s)') = Cardinality(Removers(s)) + 1
        BY <4>1, <2>2, SomeDevices
      <4> QED
        BY <4>2, <1>1, <1>8, <2>1, <2>2, LimitsAssumption DEF GuessesCounted
    <3>2. CASE ~LockedOut(n)
      BY <3>2, <2>1, <2>2, LimitsAssumption DEF LockedOut
    <3> QED
      BY <3>1, <3>2
  <2>4. n <= MaxAttempts - 1 + Cardinality(Devices)
    BY <2>1, <2>2, <2>3, SomeDevices, LimitsAssumption
  <2>5. [e EXCEPT !.failed_attempts = n] \in Entries
    BY <2>1, <2>4, SomeDevices, LimitsAssumption DEF Entries
  <2>6. LoginShape'
    BY <1>1, <1>5, <1>8, <2>1, <2>5 DEF VerifySessionCode, LoginShape
  <2>7. /\ \A t \in Sessions : t # s => /\ sessions'[t] = sessions[t]
                                        /\ guesses'[t] = guesses[t]
        /\ sessions'[s].failed_attempts = n /\ guesses'[s] = n
        /\ sessions'[s].status = Pending
    BY <1>1, <1>8, <2>1 DEF LoginShape, Entries
  <2>8. GuessesCounted'
    <3> SUFFICES ASSUME NEW t \in Sessions
                 PROVE  /\ guesses'[t] <= MaxAttempts - 1 + Cardinality(Devices)
                        /\ sessions'[t] # NoEntry =>
                           /\ guesses'[t] = sessions'[t].failed_attempts
                           /\ guesses'[t] <= MaxAttempts - 1
                                              + Cardinality(Removers(t)')
      BY DEF GuessesCounted
    <3>1. CASE t = s
      BY <3>1, <2>3, <2>4, <2>7
    <3>2. CASE t # s
      <4>1. /\ Removers(t) \subseteq Devices /\ Removers(t)' \subseteq Devices
            /\ Removers(t) \subseteq Removers(t)'
        BY <1>6 DEF Removers
      <4>2. /\ Cardinality(Removers(t)) <= Cardinality(Removers(t)')
            /\ Cardinality(Removers(t)) \in Nat
            /\ Cardinality(Removers(t)') \in Nat
        BY <4>1, SomeDevices
      <4> QED
        BY <3>2, <4>2, <2>7, LimitsAssumption DEF GuessesCounted, LoginShape
    <3> QED
      BY <3>1, <3>2
  <2>9. IssuedIsGone'
    BY <1>8, <2>7 DEF VerifySessionCode, IssuedIsGone
  <2>10. WebhookDecides'
    BY <2>7 DEF WebhookDecides, Live
  <2> QED
    BY <2>6, <2>8, <2>9, <2>10
<1> QED
  BY <1>0, <1>7, <1>8 DEF VerifySessionCode

(* The steps of /auth/confirm that leave the store alone: the start of a
   request, and the answer or the failure of the webhook. *)
LEMMA DeviceAlone ==
    ASSUME LoginInv, NEW d \in Devices, NEW r \in DeviceStates,
           device[d].pc # "remove",
           device' = [device EXCEPT ![d] = r],
           UNCHANGED <<login_store, creator, browser, guesses, issued>>
    PROVE  LoginInv'
<1> USE DEF LoginInv
<1>1. LoginShape'
  BY DEF LoginShape, login_store
<1>2. \A s \in Sessions : Removers(s) \subseteq Removers(s)'
  BY DEF Removers, LoginShape
<1> QED
  BY <1>1, <1>2, EntriesOnlyLeave DEF login_store

(* POST /auth/confirm. *)
LEMMA DevicePreserves ==
    ASSUME LoginInv, NEW d \in Devices,
           DeviceStep(d) \/ \E s \in Sessions, code \in BOOLEAN :
                               StartConfirm(d, s, code)
    PROVE  LoginInv'
<1> USE DEF LoginInv
<1>0. device[d] \in DeviceStates /\ IdleDevice \in DeviceStates
  BY DEF LoginShape, IdleDevice, DeviceStates
<1>1. ASSUME NEW s \in Sessions, NEW code \in BOOLEAN, StartConfirm(d, s, code)
      PROVE  LoginInv'
  <2>1. [pc |-> "verify", sid |-> s, code |-> code, oids |-> "cert"]
           \in DeviceStates
    BY DEF DeviceStates
  <2> QED
    BY <1>1, <2>1, DeviceAlone DEF StartConfirm
<1>2. CASE VerifyCode(d)
  BY <1>2, VerifyPreserves, LimitsAssumption DEF VerifyCode
<1>3. CASE WebhookOk(d)
  <2>1. [device[d] EXCEPT !.pc = "reverify", !.oids = "webhook"] \in DeviceStates
    BY <1>0, <1>3 DEF DeviceStates, WebhookOk
  <2> QED
    BY <1>3, <2>1, DeviceAlone DEF WebhookOk
<1>4. CASE WebhookFails(d)
  <2>1. FallbackToCert => [device[d] EXCEPT !.pc = "reverify"] \in DeviceStates
    BY <1>0, <1>4 DEF DeviceStates, WebhookFails
  <2> QED
    BY <1>0, <1>4, <2>1, DeviceAlone DEF WebhookFails, ToDevice, DeviceDone
<1>5. CASE DeviceGone(d)
  BY <1>0, <1>5, DeviceAlone DEF DeviceGone, DeviceDone
<1>6. CASE Reverify(d)
  BY <1>6, VerifyPreserves DEF Reverify
<1>7. CASE DeviceRemove(d)
  <2>0. PICK s \in Sessions : s = device[d].sid
    BY <1>0, <1>7 DEF DeviceRemove, DeviceStates
  <2>1. LoginShape'
    BY <1>0, <1>7, <2>0 DEF DeviceRemove, DeviceDone, LoginShape
  <2>2. \A t \in Sessions : t # s =>
           sessions'[t] = sessions[t] /\ Removers(t) \subseteq Removers(t)'
    BY <1>7, <2>0 DEF DeviceRemove, DeviceDone, Removers, LoginShape
  <2>3. sessions'[s] = NoEntry
    BY <1>7, <2>0 DEF DeviceRemove, LoginShape
  <2> QED
    BY <1>7, <2>1, <2>2, <2>3, EntriesOnlyLeave DEF DeviceRemove
<1>8. CASE Confirm(d)
  <2>0. PICK s \in Sessions : s = device[d].sid
    BY <1>0, <1>8 DEF Confirm, DeviceStates
  <2> DEFINE id == [user |-> d, oids |-> device[d].oids]
  <2>1. id \in Identities
    BY <1>0 DEF Identities, DeviceStates
  <2>2. device' \in [Devices -> DeviceStates]
    BY <1>0, <1>8 DEF Confirm, DeviceDone, LoginShape
  <2>3. \A t \in Sessions : Removers(t) \subseteq Removers(t)'
    BY <1>8 DEF Confirm, DeviceDone, Removers, LoginShape
  <2>4. CASE UNCHANGED sessions
    <3>1. LoginShape'
      BY <1>8, <2>2, <2>4 DEF Confirm, LoginShape
    <3> QED
      BY <1>8, <2>3, <2>4, <3>1, EntriesOnlyLeave DEF Confirm
  <2>5. CASE /\ sessions[s] # NoEntry
             /\ sessions' = [sessions EXCEPT ![s].status = id]
    <3>1. sessions[s] \in Entries
      BY <2>5 DEF LoginShape
    <3>2. [sessions[s] EXCEPT !.status = id] \in Entries
      BY <2>1, <3>1 DEF Entries
    <3>3. /\ sessions' \in [Sessions -> Entries \cup {NoEntry}]
          /\ sessions'[s].status = id
          /\ sessions'[s].failed_attempts = sessions[s].failed_attempts
          /\ \A t \in Sessions : t # s => sessions'[t] = sessions[t]
      BY <2>5, <3>1, <3>2 DEF LoginShape, Entries
    <3>4. LoginShape'
      BY <1>8, <2>2, <3>3 DEF Confirm, LoginShape
    <3>5. GuessesCounted'
      <4> SUFFICES ASSUME NEW t \in Sessions, sessions'[t] # NoEntry
                   PROVE  /\ guesses[t] = sessions'[t].failed_attempts
                          /\ guesses[t] <= MaxAttempts - 1
                                            + Cardinality(Removers(t)')
        BY <1>8 DEF Confirm, GuessesCounted
      <4>1. /\ sessions[t] # NoEntry
            /\ sessions'[t].failed_attempts = sessions[t].failed_attempts
        BY <2>5, <3>3
      <4>2. /\ Removers(t) \subseteq Devices /\ Removers(t)' \subseteq Devices
            /\ Removers(t) \subseteq Removers(t)'
        BY <2>3 DEF Removers
      <4>3. /\ Cardinality(Removers(t)) <= Cardinality(Removers(t)')
            /\ Cardinality(Removers(t)) \in Nat
            /\ Cardinality(Removers(t)') \in Nat
        BY <4>2, SomeDevices
      <4> QED
        BY <4>1, <4>3, LimitsAssumption DEF GuessesCounted, LoginShape
    <3>6. IssuedIsGone'
      BY <1>8, <2>5, <3>3 DEF Confirm, IssuedIsGone
    <3>7. WebhookDecides'
      <4>1. Webhook /\ ~FallbackToCert => id.oids = "webhook"
        BY <1>0, <1>8 DEF Confirm, DeviceStates
      <4> QED
        BY <2>5, <3>3, <4>1 DEF WebhookDecides, Live
    <3> QED
      BY <3>4, <3>5, <3>6, <3>7
  <2> QED
    BY <1>8, <2>0, <2>4, <2>5 DEF Confirm
<1> QED
  BY <1>1, <1>2, <1>3, <1>4, <1>5, <1>6, <1>7, <1>8 DEF DeviceStep

(* GET /auth/status. *)
LEMMA BrowserPreserves ==
    ASSUME LoginInv, NEW b \in Browsers,
           BrowserStep(b) \/ \E s \in Sessions : Poll(b, s)
    PROVE  LoginInv'
<1> USE DEF LoginInv
<1>0. browser[b] \in BrowserStates
      /\ (NoSession \in Sessions \cup {NoSession} =>
            [pc |-> "idle", sid |-> NoSession] \in BrowserStates)
  BY DEF LoginShape, BrowserStates
<1>1. ASSUME NEW s \in Sessions, Poll(b, s) PROVE LoginInv'
  <2>1. \A pc \in {"consume", "remove"} : [pc |-> pc, sid |-> s] \in BrowserStates
    BY DEF BrowserStates
  <2>2. LoginShape'
    BY <1>1, <2>1 DEF Poll, ToBrowser, LoginShape, login_store
  <2> QED
    BY <1>1, <2>2, EntriesOnlyLeave DEF Poll, login_store, Removers
<1>2. CASE BrowserRemove(b)
  <2>0. PICK s \in Sessions : s = browser[b].sid
    BY <1>0, <1>2 DEF BrowserRemove, BrowserStates
  <2>1. LoginShape'
    BY <1>0, <1>2, <2>0 DEF BrowserRemove, ToBrowser, LoginShape
  <2>2. \A t \in Sessions : sessions'[t] = NoEntry \/ sessions'[t] = sessions[t]
    BY <1>2, <2>0 DEF BrowserRemove, LoginShape
  <2> QED
    BY <1>2, <2>1, <2>2, EntriesOnlyLeave DEF BrowserRemove, Removers
<1>3. CASE Consume(b)
  <2>0. PICK s \in Sessions : s = browser[b].sid
    BY <1>0, <1>3 DEF Consume, BrowserStates
  <2>1. \A t \in Sessions : sessions'[t] = NoEntry \/ sessions'[t] = sessions[t]
    BY <1>3, <2>0 DEF Consume, LoginShape
  <2>2. /\ sessions' \in [Sessions -> Entries \cup {NoEntry}]
        /\ browser' \in [Browsers -> BrowserStates]
    BY <1>0, <1>3, <2>0 DEF Consume, ToBrowser, LoginShape
  <2>3. CASE UNCHANGED issued
    <3>1. LoginShape'
      BY <1>3, <2>2, <2>3 DEF Consume, LoginShape
    <3> QED
      BY <1>3, <2>1, <2>3, <3>1, EntriesOnlyLeave DEF Consume, Removers
  <2>4. CASE /\ sessions[s] # NoEntry /\ sessions[s].status # Pending
             /\ sessions' = [sessions EXCEPT ![s] = NoEntry]
             /\ issued' = [issued EXCEPT ![s] = Append(@, sessions[s].status)]
    <3>1. sessions[s].status \in Identities
      BY <2>4 DEF LoginShape, Entries
    <3>2. issued[s] = << >> /\ sessions'[s] = NoEntry
      BY <2>4 DEF IssuedIsGone, LoginShape
    <3>3. /\ Len(issued'[s]) = 1
          /\ \A t \in Sessions : t # s => issued'[t] = issued[t]
          /\ issued' \in [Sessions -> Seq(Identities)]
      BY <2>4, <3>1, <3>2 DEF LoginShape
    <3>4. LoginShape'
      BY <1>3, <2>2, <3>3 DEF Consume, LoginShape
    <3>5. GuessesCounted' /\ WebhookDecides'
      BY <1>3, <2>1 DEF Consume, GuessesCounted, Removers, WebhookDecides, Live
    <3>6. IssuedIsGone'
      BY <2>1, <3>2, <3>3 DEF IssuedIsGone
    <3> QED
      BY <3>4, <3>5, <3>6
  <2> QED
    BY <1>3, <2>0, <2>3, <2>4 DEF Consume
<1> QED
  BY <1>1, <1>2, <1>3 DEF BrowserStep

(* Every step preserves the invariant. *)
LEMMA LoginKept == LoginInv /\ [LoginNext]_login_vars => LoginInv'
<1> SUFFICES ASSUME LoginInv, [LoginNext]_login_vars PROVE LoginInv'
  OBVIOUS
<1>1. ASSUME NEW i \in Ips, WindowOver(i) PROVE LoginInv'
  <2>1. LoginShape'
    BY <1>1 DEF WindowOver, LoginInv, LoginShape
  <2> QED
    BY <1>1, <2>1, EntriesOnlyLeave DEF WindowOver, Removers
<1>2. CASE UNCHANGED login_vars
  <2>1. LoginShape'
    BY <1>2 DEF login_vars, login_store, LoginInv, LoginShape
  <2> QED
    BY <1>2, <2>1, EntriesOnlyLeave DEF login_vars, login_store, Removers
<1> QED
  BY <1>1, <1>2, CreatorPreserves, DevicePreserves, BrowserPreserves,
     ExpirePreserves DEF LoginNext

(* The invariant holds in every reachable state. *)
LEMMA LoginInvariance == LoginSpec => []LoginInv
<1> QED
  BY LoginBegins, LoginKept, PTL DEF LoginSpec

(* Every variable of the login flow keeps its type; in particular no entry
   counts more wrong codes than the lockout and the requests it races allow. *)
THEOREM LoginTypes == LoginSpec => []TypeOK
<1>1. LoginInv => TypeOK
  BY DEF LoginInv, LoginShape, TypeOK, DeviceStates, BrowserStates
<1> QED
  BY <1>1, LoginInvariance, PTL

(* However polls, confirmations and the webhook interleave, a login yields at
   most one JWT (get_and_consume), and without fallback_to_cert only for what
   the webhook granted (confirm_session). *)
THEOREM TokensEarned == LoginSpec => []TokensAreEarned
<1>1. LoginInv => TokensAreEarned
  <2> SUFFICES ASSUME LoginInv, NEW s \in Sessions PROVE Len(issued[s]) <= 1
    BY DEF LoginInv, TokensAreEarned, OneTimeUse
  <2>1. CASE issued[s] = << >>
    BY <2>1
  <2>2. CASE Len(issued[s]) = 1
    BY <2>2
  <2> QED
    BY <2>1, <2>2 DEF LoginInv, IssuedIsGone
<1> QED
  BY <1>1, LoginInvariance, PTL

(* The number of wrong codes a session evaluates stays below
   MAX_CONFIRM_ATTEMPTS plus the confirm requests in flight
   (verify_session_code releases the entry before it removes it). *)
THEOREM LockoutHolds == LoginSpec => []LockoutNearlyExact
<1>1. LoginInv => LockoutNearlyExact
  BY SomeDevices, LimitsAssumption
  DEF LoginInv, GuessesCounted, LockoutNearlyExact, LoginShape
<1> QED
  BY <1>1, LoginInvariance, PTL

(* A confirmed identity is never replaced: the second of two requests that both
   passed both verifications finds the session confirmed (confirm_session). *)
THEOREM IdentityStable == LoginSpec => IdentityIsStable
<1> DEFINE Stable ==
      \A s \in Sessions :
          /\ sessions[s] # NoEntry /\ sessions[s].status # Pending
          /\ sessions'[s] # NoEntry
          => sessions'[s].status = sessions[s].status
<1>1. LoginInv /\ [LoginNext]_login_vars => [Stable]_login_vars
  <2> SUFFICES ASSUME LoginInv, LoginNext, NEW s \in Sessions,
                      sessions[s] # NoEntry, sessions[s].status # Pending,
                      sessions'[s] # NoEntry
               PROVE  sessions'[s].status = sessions[s].status
    OBVIOUS
  <2>0. /\ sessions \in [Sessions -> Entries \cup {NoEntry}]
        /\ sessions[s] \in Entries
    BY DEF LoginInv, LoginShape
  <2>1. ASSUME NEW k \in Creators, CreatorStep(k)
        PROVE  sessions'[s] = sessions[s]
    <3>1. CASE CreateInsert(k)
      BY <3>1, <2>0 DEF CreateInsert, Fresh
    <3>2. CASE CreateCapacity(k) \/ \E i \in Ips : CreateRate(k, i)
      BY <3>2, <2>0 DEF CreateCapacity, CreateRate, CleanupExpired, Cleaned
    <3> QED
      BY <2>1, <3>1, <3>2 DEF CreatorStep
  <2>2. ASSUME NEW d \in Devices, DeviceStep(d)
        PROVE  sessions'[s].status = sessions[s].status
    <3>1. ASSUME NEW next, VerifySessionCode(d, next)
          PROVE  sessions'[s].status = sessions[s].status
      BY <3>1, <2>0 DEF VerifySessionCode
    <3>2. CASE DeviceRemove(d)
      BY <3>2, <2>0 DEF DeviceRemove
    <3>3. CASE Confirm(d)
      BY <3>3, <2>0 DEF Confirm
    <3>4. CASE WebhookOk(d) \/ WebhookFails(d) \/ DeviceGone(d)
      BY <3>4 DEF WebhookOk, WebhookFails, DeviceGone, login_store
    <3> QED
      BY <2>2, <3>1, <3>2, <3>3, <3>4 DEF DeviceStep, VerifyCode, Reverify
  <2>3. ASSUME NEW b \in Browsers, BrowserStep(b)
        PROVE  sessions'[s] = sessions[s]
    BY <2>3, <2>0 DEF BrowserStep, BrowserRemove, Consume
  <2>4. ASSUME NEW t \in Sessions, Expire(t)
        PROVE  sessions'[s].status = sessions[s].status
    BY <2>4, <2>0 DEF Expire, Entries
  <2> QED
    BY <2>1, <2>2, <2>3, <2>4 DEF LoginNext, StartConfirm, Poll, WindowOver,
                                  login_store
<1> QED
  BY <1>1, LoginInvariance, PTL DEF LoginSpec, IdentityIsStable
=============================================================================
