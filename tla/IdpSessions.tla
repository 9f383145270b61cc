---------------------------- MODULE IdpSessions -----------------------------
(***************************************************************************)
(* The QR-code login of the identity provider: SessionStore                *)
(* (server/src/middleware/idp/session.rs) and the /auth/login,             *)
(* /auth/confirm and /auth/status handlers of idp/mod.rs that drive it.    *)
(*                                                                         *)
(* A browser creates a session and polls it with its secret; a device that *)
(* is authenticated by mTLS confirms it with the session's user code; the  *)
(* next poll takes the confirmed identity out of the store and answers     *)
(* with a JWT.  The store is a DashMap: a handler holds the lock of an     *)
(* entry only inside one of its calls, so each lock scope is one step and  *)
(* the handlers interleave between them, in particular while /auth/confirm *)
(* awaits the claims webhook.                                              *)
(***************************************************************************)
EXTENDS Integers, FiniteSets, Sequences

CONSTANTS
    Sessions,     \* session ids
    Creators,     \* tasks serving /auth/login
    Devices,      \* tasks serving /auth/confirm, each for its own identity
    Browsers,     \* tasks serving /auth/status
    Ips,          \* canonical client addresses
    MaxSessions,  \* max_active_sessions
    MaxAttempts,  \* MAX_CONFIRM_ATTEMPTS
    MaxLogins,    \* MAX_LOGIN_REQUESTS_PER_MINUTE
    Webhook,      \* a claims webhook is configured
    FallbackToCert,\* on_webhook_failure = "fallback_to_cert"
    NoEntry,      \* the map has no entry for a session
    NoSession,    \* a task that handles no session
    Pending       \* SessionStatus::Pending

ASSUME LimitsAssumption ==
    /\ MaxSessions \in Nat \ {0} /\ MaxAttempts \in Nat \ {0}
    /\ MaxLogins \in Nat \ {0}
    /\ Webhook \in BOOLEAN /\ FallbackToCert \in BOOLEAN
ASSUME FiniteAssumption ==
    IsFiniteSet(Sessions) /\ IsFiniteSet(Creators) /\ IsFiniteSet(Devices)

VARIABLES
    sessions,   \* the session map: id -> entry, or NoEntry
    rate,       \* ip_rate_limits: attempts in the window, 0 if absent
    window,     \* the addresses whose RATE_LIMIT_WINDOW is over
    creator,    \* local state of the /auth/login tasks
    device,     \* local state of the /auth/confirm tasks
    browser,    \* local state of the /auth/status tasks
    guesses,    \* history: wrong user codes evaluated per session
    issued      \* history: the identities a JWT was issued for, per session

login_store == <<sessions, rate, window>>
login_vars  == <<login_store, creator, device, browser, guesses, issued>>

Identities == [user : Devices, oids : {"cert", "webhook"}]
Entries    == [status : {Pending} \cup Identities,
               failed_attempts : 0..(MaxAttempts + Cardinality(Devices) - 1),
               expired : BOOLEAN]
Live       == {s \in Sessions : sessions[s] # NoEntry}

ASSUME FreshAssumption ==
    NoEntry \notin Entries /\ Pending \notin Identities

IdleDevice == [pc |-> "idle", sid |-> NoSession, code |-> FALSE,
               oids |-> "cert"]

TypeOK ==
    /\ \A s \in Sessions : sessions[s] = NoEntry \/ sessions[s] \in Entries
    /\ rate \in [Ips -> 0..(MaxLogins + 1)]
    /\ window \subseteq Ips
    /\ creator \in [Creators -> {"idle", "capacity", "insert"}]
    /\ device \in [Devices ->
          [pc : {"idle", "verify", "webhook", "reverify", "confirm", "remove"},
           sid : Sessions \cup {NoSession}, code : BOOLEAN,
           oids : {"cert", "webhook"}]]
    /\ browser \in [Browsers ->
          [pc : {"idle", "consume", "remove"}, sid : Sessions \cup {NoSession}]]
    /\ guesses \in [Sessions -> Nat]
    /\ issued \in [Sessions -> Seq(Identities)]

LoginInit ==
    /\ sessions = [s \in Sessions |-> NoEntry]
    /\ rate = [i \in Ips |-> 0]
    /\ window = {}
    /\ creator = [k \in Creators |-> "idle"]
    /\ device = [d \in Devices |-> IdleDevice]
    /\ browser = [b \in Browsers |-> [pc |-> "idle", sid |-> NoSession]]
    /\ guesses = [s \in Sessions |-> 0]
    /\ issued = [s \in Sessions |-> << >>]

-----------------------------------------------------------------------------
(* create_session.  cleanup_expired_force purges what has expired from both
   maps: retain. *)

(* Mutant: a confirmed session is kept for its browser. *)
CleanedButConfirmed ==
    [s \in Sessions |-> IF /\ sessions[s] # NoEntry /\ sessions[s].expired
                           /\ sessions[s].status = Pending
                        THEN NoEntry ELSE sessions[s]]

Cleaned == [s \in Sessions |-> IF sessions[s] # NoEntry /\ sessions[s].expired
                               THEN NoEntry ELSE sessions[s]]
CleanedRate == [i \in Ips |-> IF i \in window THEN 0 ELSE rate[i]]

CleanupExpired(purge) ==
    sessions' = IF purge THEN Cleaned ELSE sessions

(* The per-IP table holds at most twice as many addresses as sessions. *)
RateTableFull(r, i) ==
    r[i] = 0 /\ Cardinality({j \in Ips : r[j] # 0}) >= 2 * MaxSessions

(* The per-IP limit.  The throttled cleanup may be due, and a full table
   forces one.  The bound on the table is read together with the address's
   entry, although the code locks the entry only afterwards: no property here
   is about the table's size. *)
CreateRate(k, i) ==
    /\ creator[k] = "idle"
    /\ \E purge \in BOOLEAN :
          LET r == IF purge THEN CleanedRate ELSE rate
              n == IF r[i] = 0 \/ i \in window THEN 1
                   ELSE IF r[i] > MaxLogins THEN r[i] ELSE r[i] + 1
          IN  /\ RateTableFull(rate, i) => purge
              /\ CleanupExpired(purge)
              /\ \/ /\ RateTableFull(r, i)
                    /\ rate' = r
                    /\ window' = {}
                    /\ UNCHANGED creator
                 \/ /\ ~RateTableFull(r, i)
                    /\ rate' = [r EXCEPT ![i] = n]
                    /\ window' = IF purge THEN {} ELSE window \ {i}
                    /\ creator' = [creator EXCEPT ![k] =
                                      IF n <= MaxLogins THEN "capacity"
                                      ELSE "idle"]
    /\ UNCHANGED <<device, browser, guesses, issued>>

Full(map) == Cardinality({s \in Sessions : map[s] # NoEntry}) >= MaxSessions

(* The capacity check, after which the maps are not locked. *)
CreateCapacity(k) ==
    /\ creator[k] = "capacity"
    /\ CleanupExpired(Full(sessions))
    /\ rate' = IF Full(sessions) THEN CleanedRate ELSE rate
    /\ window' = IF Full(sessions) THEN {} ELSE window
    /\ creator' = [creator EXCEPT ![k] =
                      IF Full(sessions') THEN "idle" ELSE "insert"]
    /\ UNCHANGED <<device, browser, guesses, issued>>

(* generate_session_id: an id that nobody holds.  The histories start anew. *)
Fresh(s) ==
    /\ sessions[s] = NoEntry
    /\ \A d \in Devices : device[d].sid # s
    /\ \A b \in Browsers : browser[b].sid # s

CreateInsert(k) ==
    /\ creator[k] = "insert"
    /\ \E s \in Sessions :
          /\ Fresh(s)
          /\ sessions' = [sessions EXCEPT ![s] =
                [status |-> Pending, failed_attempts |-> 0, expired |-> FALSE]]
          /\ guesses' = [guesses EXCEPT ![s] = 0]
          /\ issued' = [issued EXCEPT ![s] = << >>]
    /\ creator' = [creator EXCEPT ![k] = "idle"]
    /\ UNCHANGED <<rate, window, device, browser>>

(* Time: an entry outlives its ttl, an address its rate window. *)
Expire(s) ==
    /\ sessions[s] # NoEntry /\ ~sessions[s].expired
    /\ sessions' = [sessions EXCEPT ![s].expired = TRUE]
    /\ UNCHANGED <<rate, window, creator, device, browser, guesses,
                   issued>>

WindowOver(i) ==
    /\ rate[i] # 0 /\ i \notin window
    /\ window' = window \cup {i}
    /\ UNCHANGED <<sessions, rate, creator, device, browser, guesses,
                   issued>>

-----------------------------------------------------------------------------
(* POST /auth/confirm *)

ToDevice(d, pc) == device' = [device EXCEPT ![d].pc = pc]
DeviceDone(d)   == device' = [device EXCEPT ![d] = IdleDevice]

StartConfirm(d, s, code) ==
    /\ device[d].pc = "idle"
    /\ device' = [device EXCEPT ![d] = [pc |-> "verify", sid |-> s,
                                        code |-> code, oids |-> "cert"]]
    /\ UNCHANGED <<login_store, creator, browser, guesses, issued>>

LockedOut(attempts) == attempts >= MaxAttempts

(* Mutant: the wrong codes of earlier requests are forgotten. *)
AttemptsForgotten(e) == 1

(* The wrong codes seen by an entry, the present one included. *)
Attempts(e) == e.failed_attempts + 1

(* verify_session_code up to the release of the entry's lock, for a request
   that goes on to `next` when the code is right.  The removal of an expired
   or locked-out entry is a step of its own. *)
VerifySessionCode(d, next) ==
    LET s == device[d].sid
        e == sessions[s]
        n == Attempts(e)
    IN  /\ UNCHANGED <<rate, window, creator, browser, issued>>
        /\ \/ /\ e = NoEntry
              /\ DeviceDone(d) /\ UNCHANGED <<sessions, guesses>>
           \/ /\ e # NoEntry /\ e.expired
              /\ ToDevice(d, "remove") /\ UNCHANGED <<sessions, guesses>>
           \/ /\ e # NoEntry /\ ~e.expired /\ e.status # Pending
              /\ DeviceDone(d) /\ UNCHANGED <<sessions, guesses>>
           \/ /\ e # NoEntry /\ ~e.expired /\ e.status = Pending
              /\ ~device[d].code
              /\ sessions' = [sessions EXCEPT ![s].failed_attempts = n]
              /\ guesses' = [guesses EXCEPT ![s] = @ + 1]
              /\ IF LockedOut(n) THEN ToDevice(d, "remove")
                 ELSE DeviceDone(d)
           \/ /\ e # NoEntry /\ ~e.expired /\ e.status = Pending
              /\ device[d].code
              /\ ToDevice(d, next) /\ UNCHANGED <<sessions, guesses>>

VerifyCode(d) ==
    /\ device[d].pc = "verify"
    /\ VerifySessionCode(d, IF Webhook THEN "webhook" ELSE "reverify")

(* sessions.remove outside the lock scope that decided it. *)
DeviceRemove(d) ==
    /\ device[d].pc = "remove"
    /\ sessions' = [sessions EXCEPT ![device[d].sid] = NoEntry]
    /\ DeviceDone(d)
    /\ UNCHANGED <<rate, window, creator, browser, guesses, issued>>

(* The webhook answers, or it fails (or the request to it cannot be built). *)
WebhookOk(d) ==
    /\ device[d].pc = "webhook"
    /\ device' = [device EXCEPT ![d].pc = "reverify", ![d].oids = "webhook"]
    /\ UNCHANGED <<login_store, creator, browser, guesses, issued>>

WebhookFails(d) ==
    /\ device[d].pc = "webhook"
    /\ IF FallbackToCert THEN ToDevice(d, "reverify") ELSE DeviceDone(d)
    /\ UNCHANGED <<login_store, creator, browser, guesses, issued>>

(* confirm_session verifies again, releases the entry and locks it again. *)
Reverify(d) ==
    /\ device[d].pc = "reverify"
    /\ VerifySessionCode(d, "confirm")

(* Mutant: the second look at the status is missing. *)
ConfirmOverwrites(d) ==
    LET s == device[d].sid IN
    /\ device[d].pc = "confirm"
    /\ sessions' = IF sessions[s] = NoEntry THEN sessions
                   ELSE [sessions EXCEPT ![s].status =
                           [user |-> d, oids |-> device[d].oids]]
    /\ DeviceDone(d)
    /\ UNCHANGED <<rate, window, creator, browser, guesses, issued>>

Confirm(d) ==
    LET s == device[d].sid IN
    /\ device[d].pc = "confirm"
    /\ sessions' = IF sessions[s] = NoEntry THEN sessions
                   ELSE IF sessions[s].status # Pending THEN sessions
                   ELSE [sessions EXCEPT ![s].status =
                           [user |-> d, oids |-> device[d].oids]]
    /\ DeviceDone(d)
    /\ UNCHANGED <<rate, window, creator, browser, guesses, issued>>

(* The device disconnects while the webhook is awaited. *)
DeviceGone(d) ==
    /\ device[d].pc = "webhook"
    /\ DeviceDone(d)
    /\ UNCHANGED <<login_store, creator, browser, guesses, issued>>

-----------------------------------------------------------------------------
(* GET /auth/status with the session's poll_secret: get_and_consume.  A wrong
   secret changes nothing. *)

ToBrowser(b, pc, s) == browser' = [browser EXCEPT ![b] = [pc |-> pc, sid |-> s]]

Poll(b, s) ==
    LET e == sessions[s] IN
    /\ browser[b].pc = "idle" /\ e # NoEntry
    /\ \/ e.expired /\ ToBrowser(b, "remove", s)
       \/ ~e.expired /\ e.status # Pending /\ ToBrowser(b, "consume", s)
    /\ UNCHANGED <<login_store, creator, device, guesses, issued>>

BrowserRemove(b) ==
    /\ browser[b].pc = "remove"
    /\ sessions' = [sessions EXCEPT ![browser[b].sid] = NoEntry]
    /\ ToBrowser(b, "idle", NoSession)
    /\ UNCHANGED <<rate, window, creator, device, guesses, issued>>

(* Mutant: the identity is handed out and the entry left to expire. *)
ConsumeKeepsEntry(b) ==
    LET s == browser[b].sid IN
    /\ browser[b].pc = "consume"
    /\ issued' = IF sessions[s] # NoEntry /\ Len(issued[s]) < 2
                 THEN [issued EXCEPT ![s] = Append(@, sessions[s].status)]
                 ELSE issued
    /\ ToBrowser(b, "idle", NoSession)
    /\ UNCHANGED <<login_store, creator, device, guesses>>

(* remove_if(secret matches and status is Confirmed), then the JWT, whose
   signature may fail after the session is gone. *)
Consume(b) ==
    LET s == browser[b].sid
        e == sessions[s]
    IN  /\ browser[b].pc = "consume"
        /\ \/ /\ e # NoEntry /\ e.status # Pending
              /\ sessions' = [sessions EXCEPT ![s] = NoEntry]
              /\ \/ issued' = [issued EXCEPT ![s] = Append(@, e.status)]
                 \/ UNCHANGED issued
           \/ /\ ~(e # NoEntry /\ e.status # Pending)
              /\ UNCHANGED <<sessions, issued>>
        /\ ToBrowser(b, "idle", NoSession)
        /\ UNCHANGED <<rate, window, creator, device, guesses>>

-----------------------------------------------------------------------------
CreatorStep(k) ==
    \/ \E i \in Ips : CreateRate(k, i)
    \/ CreateCapacity(k) \/ CreateInsert(k)

DeviceStep(d) ==
    \/ VerifyCode(d) \/ WebhookOk(d) \/ WebhookFails(d) \/ DeviceGone(d)
    \/ Reverify(d) \/ Confirm(d) \/ DeviceRemove(d)

BrowserStep(b) == BrowserRemove(b) \/ Consume(b)

LoginNext ==
    \/ \E k \in Creators : CreatorStep(k)
    \/ \E d \in Devices :
          \/ DeviceStep(d)
          \/ \E s \in Sessions, code \in BOOLEAN : StartConfirm(d, s, code)
    \/ \E b \in Browsers : BrowserStep(b) \/ \E s \in Sessions : Poll(b, s)
    \/ \E s \in Sessions : Expire(s)
    \/ \E i \in Ips : WindowOver(i)

LoginSpec == LoginInit /\ [][LoginNext]_login_vars

(* Time passes, and create_session, which awaits nothing, ends.  No browser has
   to poll and no device to confirm; a handler of theirs may hang. *)
LoginFairSpec ==
    /\ LoginSpec
    /\ \A k \in Creators : WF_login_vars(CreateCapacity(k) \/ CreateInsert(k))
    /\ \A s \in Sessions : WF_login_vars(Expire(s))

-----------------------------------------------------------------------------
(* Properties *)

(* One confirmation, one JWT: two polls that both saw the session Confirmed
   do not both take it. *)
OneTimeUse == \A s \in Sessions : Len(issued[s]) <= 1

(* A confirmed identity is never replaced by another device's, even when both
   passed both verifications: it only ever leaves the store. *)
IdentityIsStable ==
    [][\A s \in Sessions :
          /\ sessions[s] # NoEntry /\ sessions[s].status # Pending
          /\ sessions'[s] # NoEntry
          => sessions'[s].status = sessions[s].status]_login_vars

(* Fail closed: with a webhook and without fallback_to_cert, no session is
   confirmed with OIDs that did not come from the webhook. *)
WebhookDecides ==
    Webhook /\ ~FallbackToCert
        => \A s \in Live : sessions[s].status # Pending
                               => sessions[s].status.oids = "webhook"

(* A login yields at most one JWT, and for no more than the webhook granted. *)
TokensAreEarned == OneTimeUse /\ WebhookDecides

(* Each concurrent confirm request can add at most one guess beyond
   MAX_CONFIRM_ATTEMPTS, between the decision to lock out and the removal. *)
LockoutNearlyExact ==
    \A s \in Sessions : guesses[s] < MaxAttempts + Cardinality(Devices)

(* Sessions that nobody polls, confirmed ones among them, do not keep the store
   full: while logins that are within their address's limit keep coming, again
   and again one of them finds room. *)
AbandonedMakeWay ==
    []<>(\E k \in Creators : creator[k] = "capacity")
        => []<>(\E k \in Creators : creator[k] = "insert")
=============================================================================
