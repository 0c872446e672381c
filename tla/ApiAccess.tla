----------------------------- MODULE ApiAccess ------------------------------
(***************************************************************************)
(* Who reaches the HTTP API: the login with its limit on failed attempts,  *)
(* the sessions in memory or signed, the middleware of the protected       *)
(* routes, and the limiter of the manual sync (api/auth.go,                *)
(* auth/session.go, api/router.go).                                        *)
(*                                                                         *)
(* Requests run concurrently.  A step ends where a lock is released: the   *)
(* check of the failed attempts and their increment are two critical       *)
(* sections, and so are the lookup of a session and its removal.           *)
(***************************************************************************)
EXTENDS Integers, FiniteSets, FiniteSetsExt

CONSTANTS
    Clients,      \* client addresses
    Calls,        \* concurrent requests
    TTL,          \* AUTH_SESSION_TTL
    MaxFailed,    \* maxFailedLoginAttempts
    Window,       \* failedLoginAttemptWindow
    MaxTokens,    \* bound: sessions created
    MaxTime       \* bound: the clock

ASSUME ApiAccessAssumption ==
    /\ TTL \in Nat \ {0} /\ MaxFailed \in Nat \ {0} /\ Window \in Nat
    /\ MaxTokens \in Nat /\ MaxTime \in Nat
    /\ IsFiniteSet(Calls)

Tokens == 1 .. MaxTokens
NoToken == 0
Absent == -1     \* no entry in a map

VARIABLES
    signed,     \* AUTH_SESSION_SECRET is set
    time,
    sessions,   \* the map of a manager without a key: token -> expiry or Absent
    expiry,     \* the expiry of every token ever created
    gone,       \* tokens logged out, or lost with the memory (history)
    failed,     \* failedAttempts: client -> [count, last]
    lastSync,   \* of the sync limiter
    call        \* the requests: [pc, client, token, seen, dead]

accessVars == <<signed, time, sessions, expiry, gone, failed, lastSync, call>>

IdleCall == [pc |-> "idle", client |-> CHOOSE c \in Clients : TRUE, token |-> NoToken,
             seen |-> Absent, dead |-> FALSE]
NoFailures == [count |-> 0, last |-> 0]

AccessInit ==
    /\ signed \in BOOLEAN
    /\ time = 0 /\ lastSync = Absent
    /\ sessions = [t \in Tokens |-> Absent]
    /\ expiry = [t \in Tokens |-> Absent]
    /\ gone = {}
    /\ failed = [c \in Clients |-> NoFailures]
    /\ call = [r \in Calls |-> IdleCall]

-----------------------------------------------------------------------------
(* Login. *)

\* pruneExpiredFailedAttemptsLocked
Pruned == [c \in Clients |-> IF time - failed[c].last > Window THEN NoFailures ELSE failed[c]]

\* A plausible bug: the limit is crossed before it is enforced.
tooManyFailedAttemptsLate(f, c) == f[c].count > MaxFailed

tooManyFailedAttempts(f, c) == f[c].count >= MaxFailed

\* login up to the first unlock: a wrong password over the limit is refused
\* (429), any other goes on.
BeginLogin(r) ==
    /\ call[r].pc = "idle"
    /\ \E c \in Clients, matches \in BOOLEAN :
         call' = [call EXCEPT ![r] =
                    [IdleCall EXCEPT !.client = c,
                       !.pc = IF matches THEN "clear"
                              ELSE IF tooManyFailedAttempts(Pruned, c) THEN "refused" ELSE "record"]]
    /\ failed' = Pruned
    /\ UNCHANGED <<signed, time, sessions, expiry, gone, lastSync>>

\* recordFailedAttempt (401).
recordFailedAttempt(r) ==
    /\ call[r].pc = "record"
    /\ failed' = [Pruned EXCEPT ![call[r].client] = [count |-> @.count + 1, last |-> time]]
    /\ call' = [call EXCEPT ![r].pc = "refused"]
    /\ UNCHANGED <<signed, time, sessions, expiry, gone, lastSync>>

\* clearFailedAttempts, after a password that matches.
clearFailedAttempts(r) ==
    /\ call[r].pc = "clear"
    /\ failed' = [failed EXCEPT ![call[r].client] = NoFailures]
    /\ call' = [call EXCEPT ![r].pc = "create"]
    /\ UNCHANGED <<signed, time, sessions, expiry, gone, lastSync>>

\* cleanupExpiredLocked
Unexpired(s) == [t \in Tokens |-> IF s[t] > time THEN s[t] ELSE Absent]

\* Create: a new token in the cookie; without a key it enters the map, from
\* which the expired ones are removed.
CreateSession(r) ==
    /\ call[r].pc = "create"
    /\ \E t \in Tokens :
         /\ expiry[t] = Absent
         /\ expiry' = [expiry EXCEPT ![t] = time + TTL]
         /\ sessions' = IF signed THEN sessions
                        ELSE [Unexpired(sessions) EXCEPT ![t] = time + TTL]
         /\ call' = [call EXCEPT ![r].pc = "created", ![r].token = t]
    /\ UNCHANGED <<signed, time, gone, failed, lastSync>>

\* The token source fails (500).
CreateFails(r) ==
    /\ call[r].pc = "create"
    /\ call' = [call EXCEPT ![r].pc = "refused"]
    /\ UNCHANGED <<signed, time, sessions, expiry, gone, failed, lastSync>>

\* Logout: a session of the map is removed; a signed token lives on, only the
\* cookie is cleared.
Logout(t) ==
    /\ expiry[t] # Absent
    /\ sessions' = IF signed THEN sessions ELSE [sessions EXCEPT ![t] = Absent]
    /\ gone' = gone \cup {t}
    /\ UNCHANGED <<signed, time, expiry, failed, lastSync, call>>

-----------------------------------------------------------------------------
(* The middleware of the protected routes. *)

\* The token cannot be accepted any more: it has expired, or it was removed
\* where removal counts.
Dead(t) == time >= expiry[t] \/ (~signed /\ t \in gone)

\* A signed token carries its expiry (validateSignedToken); another one has
\* it in the map.
ExpiryOf(t) == IF signed THEN expiry[t] ELSE sessions[t]

\* Validate, the lookup, under the read lock.
BeginAccess(r) ==
    /\ call[r].pc = "idle"
    /\ \E t \in Tokens :
         /\ expiry[t] # Absent
         /\ call' = [call EXCEPT ![r] =
                       [IdleCall EXCEPT !.token = t, !.seen = ExpiryOf(t), !.dead = Dead(t),
                          !.pc = IF ExpiryOf(t) = Absent THEN "unauthorized" ELSE "found"]]
    /\ UNCHANGED <<signed, time, sessions, expiry, gone, failed, lastSync>>

\* A plausible bug: the expiry of a session of the map is not compared.
FinishAccessUnchecked(r) ==
    /\ call[r].pc = "found"
    /\ call' = [call EXCEPT ![r].pc = "accepted"]
    /\ UNCHANGED <<signed, time, sessions, expiry, gone, failed, lastSync>>

\* Validate, the comparison with the clock; an expired session is deleted.
FinishAccess(r) ==
    /\ call[r].pc = "found"
    /\ LET t == call[r].token IN
       IF call[r].seen > time
       THEN call' = [call EXCEPT ![r].pc = "accepted"] /\ UNCHANGED sessions
       ELSE /\ call' = [call EXCEPT ![r].pc = "unauthorized"]
            /\ sessions' = IF signed THEN sessions ELSE [sessions EXCEPT ![t] = Absent]
    /\ UNCHANGED <<signed, time, expiry, gone, failed, lastSync>>

\* A request with the shared bearer token passes without a session; one without
\* any credential is refused.
BearerAccess(r) ==
    /\ call[r].pc = "idle"
    /\ \E ok \in BOOLEAN :
         call' = [call EXCEPT ![r] = [IdleCall EXCEPT !.pc = IF ok THEN "bearer" ELSE "unauthorized"]]
    /\ UNCHANGED <<signed, time, sessions, expiry, gone, failed, lastSync>>

SyncWindow == 1

\* POST /sync on an accepted request: one in a window, others get 429.
SyncRequest(r) ==
    /\ call[r].pc \in {"accepted", "bearer"}
    /\ IF lastSync = Absent \/ time - lastSync >= SyncWindow
       THEN lastSync' = time /\ call' = [call EXCEPT ![r].pc = "synced"]
       ELSE UNCHANGED lastSync /\ call' = [call EXCEPT ![r].pc = "limited"]
    /\ UNCHANGED <<signed, time, sessions, expiry, gone, failed>>

-----------------------------------------------------------------------------
Answered(r) ==
    /\ call[r].pc \in {"refused", "created", "accepted", "bearer", "unauthorized", "synced", "limited"}
    /\ call' = [call EXCEPT ![r] = IdleCall]
    /\ UNCHANGED <<signed, time, sessions, expiry, gone, failed, lastSync>>

AccessTick ==
    /\ time < MaxTime
    /\ time' = time + 1
    /\ UNCHANGED <<signed, sessions, expiry, gone, failed, lastSync, call>>

\* The process is started again: its maps are empty, signed tokens stay valid.
AccessRestart ==
    /\ sessions' = [t \in Tokens |-> Absent]
    /\ gone' = IF signed THEN gone ELSE {t \in Tokens : expiry[t] # Absent}
    /\ failed' = [c \in Clients |-> NoFailures]
    /\ lastSync' = Absent
    /\ call' = [r \in Calls |-> IdleCall]
    /\ UNCHANGED <<signed, time, expiry>>

AccessNext ==
    \/ \E r \in Calls :
         \/ BeginLogin(r) \/ recordFailedAttempt(r) \/ clearFailedAttempts(r)
         \/ CreateSession(r) \/ CreateFails(r)
         \/ BeginAccess(r) \/ FinishAccess(r) \/ BearerAccess(r) \/ SyncRequest(r) \/ Answered(r)
    \/ \E t \in Tokens : Logout(t)
    \/ AccessTick \/ AccessRestart

AccessSpec == AccessInit /\ [][AccessNext]_accessVars

-----------------------------------------------------------------------------
(* Properties. *)

\* Concurrent wrong passwords cross the limit by at most the other requests
\* that passed the check before the limit was reached.
FailuresBounded ==
    \A c \in Clients : failed[c].count <= MaxFailed + Cardinality(Calls) - 1

\* A protected handler never runs for a session that had ended when the request
\* arrived: expired, logged out or lost in a restart; whatever other requests
\* and logouts do between the lookup and the comparison.
EndedSessionsRefused == \A r \in Calls : call[r].pc \in {"accepted"} => ~call[r].dead

=============================================================================
