-------------------------- MODULE OperationsProofs --------------------------
(***************************************************************************)
(* Proofs about five parts of the process that share nothing with each     *)
(* other: access to the API, the database backup, the load of model        *)
(* support, passive quota and the client of the usage queue; each for any  *)
(* value of its constants.                                                 *)
(***************************************************************************)
EXTENDS ApiAccess, DatabaseBackup, ModelSupport, PassiveQuota, QueueClient, TLAPS,
        FiniteSetTheorems

-----------------------------------------------------------------------------
(* ApiAccess.  A wrong password is counted after the lock was released, so *)
(* the counter alone is not bounded by an invariant of its own: what never *)
(* exceeds the bound is the counter together with the requests that have   *)
(* passed the check and are still to be counted.                           *)

CallPC == {"idle", "clear", "record", "refused", "create", "created", "found", "accepted",
           "unauthorized", "bearer", "synced", "limited"}

CallRecord ==
    [pc : CallPC, client : Clients \cup {IdleCall.client}, token : Tokens \cup {NoToken},
     seen : Int, dead : BOOLEAN]

AccessTypeOK ==
    /\ time \in Nat
    /\ sessions \in [Tokens -> Int]
    /\ expiry \in [Tokens -> Int]
    /\ gone \subseteq Tokens
    /\ failed \in [Clients -> [count : Nat, last : Nat]]
    /\ call \in [Calls -> CallRecord]

\* A session in the map has the expiry it was created with, and without a key
\* a token that is gone is not in the map.
SessionsOK ==
    \A t \in Tokens :
        /\ sessions[t] \in {Absent, expiry[t]}
        /\ t \in gone => expiry[t] # Absent
        /\ ~signed /\ t \in gone => sessions[t] = Absent

\* A token that had ended when the request looked it up fails the comparison
\* with the clock.
CallsOK ==
    \A r \in Calls :
        /\ call[r].pc = "found" /\ call[r].dead => call[r].seen <= time
        /\ call[r].pc = "accepted" => ~call[r].dead
        /\ call[r].pc \in {"record", "clear"} => call[r].client \in Clients

\* The requests of a client between the check and recordFailedAttempt.
Pending(c) == {r \in Calls : call[r].pc = "record" /\ call[r].client = c}

FailuresAndPending ==
    \A c \in Clients :
        failed[c].count + Cardinality(Pending(c)) <= MaxFailed + Cardinality(Calls) - 1

AccessInv == AccessTypeOK /\ SessionsOK /\ CallsOK /\ FailuresAndPending

LEMMA PendingFinite ==
    ASSUME NEW c
    PROVE  /\ IsFiniteSet(Pending(c)) /\ Cardinality(Pending(c)) \in Nat
           /\ Cardinality(Pending(c)) <= Cardinality(Calls)
           /\ Cardinality(Calls) \in Nat
<1>1. Pending(c) \subseteq Calls /\ IsFiniteSet(Calls)
  BY ApiAccessAssumption DEF Pending
<1> QED
  BY <1>1, FS_Subset, FS_CardinalityType

\* No step of the other kinds adds a failure or a pending request.
LEMMA NoMoreFailures ==
    ASSUME AccessInv, AccessTypeOK',
           \A c \in Clients : failed'[c].count <= failed[c].count,
           \A c \in Clients : Pending(c)' \subseteq Pending(c)
    PROVE  FailuresAndPending'
<1> SUFFICES ASSUME NEW c \in Clients
             PROVE  failed'[c].count + Cardinality(Pending(c)') <= MaxFailed + Cardinality(Calls) - 1
  BY DEF FailuresAndPending
<1>1. /\ Cardinality(Pending(c)') \in Nat
      /\ Cardinality(Pending(c)') <= Cardinality(Pending(c))
  BY PendingFinite, FS_Subset, FS_CardinalityType
<1>2. failed[c].count + Cardinality(Pending(c)) <= MaxFailed + Cardinality(Calls) - 1
  BY DEF AccessInv, FailuresAndPending
<1>3. failed[c].count \in Nat /\ failed'[c].count \in Nat
  BY DEF AccessInv, AccessTypeOK
<1> QED
  BY <1>1, <1>2, <1>3, PendingFinite, ApiAccessAssumption

LEMMA IdleCallType == IdleCall \in CallRecord
  BY DEF IdleCall, CallRecord, CallPC, Tokens, NoToken, Absent

LEMMA WithPC ==
    ASSUME NEW x \in CallRecord, NEW p \in CallPC
    PROVE  /\ [x EXCEPT !.pc = p] \in CallRecord
           /\ [x EXCEPT !.pc = p].pc = p /\ [x EXCEPT !.pc = p].dead = x.dead
  BY DEF CallRecord

LEMMA InitAccessInv == AccessInit => AccessInv
<1> SUFFICES ASSUME AccessInit PROVE AccessInv
  OBVIOUS
<1> USE DEF AccessInit
<1>1. AccessTypeOK
  BY IdleCallType DEF AccessTypeOK, Absent, NoFailures
<1>2. SessionsOK /\ CallsOK
  BY DEF SessionsOK, CallsOK, IdleCall
<1>3. FailuresAndPending
  <2> SUFFICES ASSUME NEW c \in Clients
               PROVE  failed[c].count + Cardinality(Pending(c)) <= MaxFailed + Cardinality(Calls) - 1
    BY DEF FailuresAndPending
  <2>1. Pending(c) = {}
    BY DEF Pending, IdleCall
  <2>2. failed[c].count = 0 /\ Cardinality(Pending(c)) = 0
    BY <2>1, FS_EmptySet DEF NoFailures
  <2> QED
    BY <2>2, PendingFinite, ApiAccessAssumption
<1> QED
  BY <1>1, <1>2, <1>3 DEF AccessInv

\* pruneExpiredFailedAttemptsLocked only forgets.
LEMMA PrunedLess ==
    ASSUME AccessInv
    PROVE  /\ Pruned \in [Clients -> [count : Nat, last : Nat]]
           /\ \A c \in Clients : Pruned[c].count <= failed[c].count
  BY ApiAccessAssumption DEF AccessInv, AccessTypeOK, Pruned, NoFailures

\* A wrong password passes the check only below the limit, so all other
\* requests may be pending as well.
LEMMA BeginLoginStep ==
    ASSUME AccessInv, NEW r \in Calls, BeginLogin(r)
    PROVE  AccessInv'
<1>1. PICK c \in Clients, matches \in BOOLEAN :
         call' = [call EXCEPT ![r] =
                    [IdleCall EXCEPT !.client = c,
                       !.pc = IF matches THEN "clear"
                              ELSE IF tooManyFailedAttempts(Pruned, c) THEN "refused" ELSE "record"]]
  BY DEF BeginLogin
<1>2. failed' = Pruned /\ UNCHANGED <<signed, time, sessions, expiry, gone, lastSync>>
  BY DEF BeginLogin
<1> DEFINE new == [IdleCall EXCEPT !.client = c,
                       !.pc = IF matches THEN "clear"
                              ELSE IF tooManyFailedAttempts(Pruned, c) THEN "refused" ELSE "record"]
<1>3. /\ new \in CallRecord /\ new.client = c
      /\ new.pc \in {"clear", "refused", "record"}
      /\ new.pc = "record" => ~tooManyFailedAttempts(Pruned, c)
  BY IdleCallType DEF CallRecord, CallPC, IdleCall
<1> HIDE DEF new
<1>4. call' = [call EXCEPT ![r] = new]
  BY <1>1 DEF new
<1>5. AccessTypeOK'
  BY <1>2, <1>3, <1>4, PrunedLess DEF AccessInv, AccessTypeOK
<1>6. SessionsOK' /\ CallsOK'
  BY <1>2, <1>3, <1>4 DEF AccessInv, AccessTypeOK, SessionsOK, CallsOK
<1>7. FailuresAndPending'
  <2> SUFFICES ASSUME NEW d \in Clients
               PROVE  failed'[d].count + Cardinality(Pending(d)') <= MaxFailed + Cardinality(Calls) - 1
    BY DEF FailuresAndPending
  <2>1. Pruned[d].count \in Nat /\ Pruned[d].count <= failed[d].count
    BY PrunedLess
  <2>2. failed[d].count \in Nat
    BY DEF AccessInv, AccessTypeOK
  <2>3. /\ Cardinality(Pending(d)') \in Nat /\ Cardinality(Pending(d)') <= Cardinality(Calls)
        /\ Cardinality(Calls) \in Nat
    <3>1. Pending(d)' \subseteq Calls /\ IsFiniteSet(Calls)
      BY ApiAccessAssumption DEF Pending
    <3> QED
      BY <3>1, FS_Subset, FS_CardinalityType
  <2>4. CASE new.pc = "record" /\ d = c
    <3>1. Pruned[d].count < MaxFailed
      BY <1>3, <2>1, <2>4, ApiAccessAssumption DEF tooManyFailedAttempts
    <3> QED
      BY <1>2, <2>1, <2>3, <3>1, ApiAccessAssumption
  <2>5. CASE ~(new.pc = "record" /\ d = c)
    <3>1. Pending(d)' \subseteq Pending(d)
      BY <1>3, <1>4, <2>5 DEF Pending, AccessInv, AccessTypeOK
    <3>2. Cardinality(Pending(d)') <= Cardinality(Pending(d))
      BY <3>1, PendingFinite, FS_Subset
    <3>3. failed[d].count + Cardinality(Pending(d)) <= MaxFailed + Cardinality(Calls) - 1
      BY DEF AccessInv, FailuresAndPending
    <3> QED
      BY <1>2, <2>1, <2>2, <2>3, <3>2, <3>3, PendingFinite, ApiAccessAssumption
  <2> QED
    BY <2>4, <2>5
<1> QED
  BY <1>5, <1>6, <1>7 DEF AccessInv

\* recordFailedAttempt counts one pending request.
LEMMA RecordStep ==
    ASSUME AccessInv, NEW r \in Calls, recordFailedAttempt(r)
    PROVE  AccessInv'
<1> DEFINE me == call[r].client
<1>1. /\ me \in Clients /\ call[r].pc = "record"
      /\ failed' = [Pruned EXCEPT ![me] = [count |-> @.count + 1, last |-> time]]
      /\ call' = [call EXCEPT ![r].pc = "refused"]
      /\ UNCHANGED <<signed, time, sessions, expiry, gone, lastSync>>
  BY DEF recordFailedAttempt, AccessInv, CallsOK
<1>2. AccessTypeOK'
  BY <1>1, PrunedLess, SMTT(30) DEF AccessInv, AccessTypeOK, CallRecord, CallPC
<1>3. SessionsOK' /\ CallsOK'
  BY <1>1 DEF AccessInv, AccessTypeOK, CallRecord, SessionsOK, CallsOK
<1>4. FailuresAndPending'
  <2> SUFFICES ASSUME NEW d \in Clients
               PROVE  failed'[d].count + Cardinality(Pending(d)') <= MaxFailed + Cardinality(Calls) - 1
    BY DEF FailuresAndPending
  <2>1. Pruned[d].count \in Nat /\ Pruned[d].count <= failed[d].count /\ failed[d].count \in Nat
    BY PrunedLess DEF AccessInv, AccessTypeOK
  <2>2. failed'[d].count = IF d = me THEN Pruned[d].count + 1 ELSE Pruned[d].count
    BY <1>1, PrunedLess
  <2>3. Pending(d)' = IF d = me THEN Pending(d) \ {r} ELSE Pending(d)
    BY <1>1 DEF Pending, AccessInv, AccessTypeOK, CallRecord
  <2>4. r \in Pending(me)
    BY <1>1 DEF Pending
  <2> HIDE DEF me
  <2>5. Cardinality(Pending(d)') = IF d = me THEN Cardinality(Pending(d)) - 1
                                             ELSE Cardinality(Pending(d))
    BY <2>3, <2>4, PendingFinite, FS_RemoveElement
  <2>6. failed[d].count + Cardinality(Pending(d)) <= MaxFailed + Cardinality(Calls) - 1
    BY DEF AccessInv, FailuresAndPending
  <2> QED
    BY <2>1, <2>2, <2>5, <2>6, PendingFinite, ApiAccessAssumption
<1> QED
  BY <1>2, <1>3, <1>4 DEF AccessInv

\* Steps of a request that count no failure; its record is one of the others.
LEMMA OtherCallStep ==
    ASSUME AccessInv, NEW r \in Calls, NEW new \in CallRecord,
           new.pc \notin {"record", "clear"},
           call' = [call EXCEPT ![r] = new],
           failed' \in [Clients -> [count : Nat, last : Nat]],
           \A c \in Clients : failed'[c].count <= failed[c].count,
           sessions' \in [Tokens -> Int], expiry' \in [Tokens -> Int],
           UNCHANGED <<signed, time, gone>>,
           SessionsOK',
           new.pc = "found" /\ new.dead => new.seen <= time,
           new.pc = "accepted" => ~new.dead
    PROVE  AccessInv'
<1>1. AccessTypeOK'
  BY DEF AccessInv, AccessTypeOK
<1>2. CallsOK'
  BY DEF AccessInv, AccessTypeOK, CallsOK
<1>3. \A c \in Clients : Pending(c)' \subseteq Pending(c)
  BY DEF Pending, AccessInv, AccessTypeOK
<1>4. FailuresAndPending'
  BY <1>1, <1>3, NoMoreFailures
<1> QED
  BY <1>1, <1>2, <1>4 DEF AccessInv

LEMMA ClearStep ==
    ASSUME AccessInv, NEW r \in Calls, clearFailedAttempts(r)
    PROVE  AccessInv'
<1> DEFINE new == [call[r] EXCEPT !.pc = "create"]
<1>1. new \in CallRecord /\ new.pc = "create"
  BY DEF AccessInv, AccessTypeOK, CallRecord, CallPC
<1>2. call' = [call EXCEPT ![r] = new]
  BY DEF clearFailedAttempts
<1>3. /\ failed' \in [Clients -> [count : Nat, last : Nat]]
      /\ \A c \in Clients : failed'[c].count <= failed[c].count
  <2>1. failed' = [failed EXCEPT ![call[r].client] = NoFailures]
    BY DEF clearFailedAttempts
  <2>2. failed \in [Clients -> [count : Nat, last : Nat]]
    BY DEF AccessInv, AccessTypeOK
  <2>3. NoFailures \in [count : Nat, last : Nat] /\ NoFailures.count = 0
    BY DEF NoFailures
  <2>4. failed' \in [Clients -> [count : Nat, last : Nat]]
    BY <2>1, <2>2, <2>3
  <2>5. \A c \in Clients : failed'[c] \in {failed[c], NoFailures} /\ failed[c].count \in Nat
    BY <2>1, <2>2
  <2> QED
    BY <2>3, <2>4, <2>5
<1>4. UNCHANGED <<signed, time, gone, sessions, expiry>>
  BY DEF clearFailedAttempts
<1>5. SessionsOK' /\ sessions' \in [Tokens -> Int] /\ expiry' \in [Tokens -> Int]
  BY <1>4 DEF AccessInv, SessionsOK, AccessTypeOK
<1> HIDE DEF new
<1> QED
  BY <1>1, <1>2, <1>3, <1>4, <1>5, OtherCallStep

\* A new session has a fresh token, which is not gone.
LEMMA CreateSessionStep ==
    ASSUME AccessInv, NEW r \in Calls, CreateSession(r)
    PROVE  AccessInv'
<1>1. PICK t \in Tokens :
         /\ expiry[t] = Absent
         /\ expiry' = [expiry EXCEPT ![t] = time + TTL]
         /\ sessions' = IF signed THEN sessions
                        ELSE [Unexpired(sessions) EXCEPT ![t] = time + TTL]
         /\ call' = [call EXCEPT ![r].pc = "created", ![r].token = t]
  BY DEF CreateSession
<1> DEFINE new == [call[r] EXCEPT !.pc = "created", !.token = t]
<1>2. new \in CallRecord /\ new.pc = "created" /\ call' = [call EXCEPT ![r] = new]
  BY <1>1 DEF AccessInv, AccessTypeOK, CallRecord, CallPC
<1>3. UNCHANGED <<signed, time, gone, failed>>
  BY DEF CreateSession
<1>4. time + TTL \in Nat /\ time + TTL # Absent
  BY ApiAccessAssumption DEF AccessInv, AccessTypeOK, Absent
<1>5. sessions' \in [Tokens -> Int] /\ expiry' \in [Tokens -> Int]
  BY <1>1, <1>4 DEF AccessInv, AccessTypeOK, Unexpired, Absent
<1>6. SessionsOK'
  <2> SUFFICES ASSUME NEW u \in Tokens
               PROVE  /\ sessions'[u] \in {Absent, expiry'[u]}
                      /\ u \in gone => expiry'[u] # Absent
                      /\ ~signed /\ u \in gone => sessions'[u] = Absent
    BY <1>3 DEF SessionsOK
  <2>1. /\ sessions[u] \in {Absent, expiry[u]}
        /\ u \in gone => expiry[u] # Absent
        /\ ~signed /\ u \in gone => sessions[u] = Absent
    BY DEF AccessInv, SessionsOK
  <2>2. expiry'[u] = IF u = t THEN time + TTL ELSE expiry[u]
    BY <1>1 DEF AccessInv, AccessTypeOK
  <2>3. ~signed => sessions'[u] = IF u = t THEN time + TTL
                                  ELSE IF sessions[u] > time THEN sessions[u] ELSE Absent
    BY <1>1 DEF AccessInv, AccessTypeOK, Unexpired
  <2>4. signed => sessions'[u] = sessions[u]
    BY <1>1
  <2> QED
    BY <1>1, <1>4, <2>1, <2>2, <2>3, <2>4
<1>7. \A c \in Clients : failed'[c].count <= failed[c].count
  BY <1>3 DEF AccessInv, AccessTypeOK
<1>8. failed' \in [Clients -> [count : Nat, last : Nat]]
  BY <1>3 DEF AccessInv, AccessTypeOK
<1> HIDE DEF new
<1> QED
  BY <1>2, <1>3, <1>5, <1>6, <1>7, <1>8, OtherCallStep

\* The lookup sees the expiry of the token, or nothing when it is gone.
LEMMA BeginAccessStep ==
    ASSUME AccessInv, NEW r \in Calls, BeginAccess(r)
    PROVE  AccessInv'
<1>1. PICK t \in Tokens :
         /\ expiry[t] # Absent
         /\ call' = [call EXCEPT ![r] =
                       [IdleCall EXCEPT !.token = t, !.seen = ExpiryOf(t), !.dead = Dead(t),
                          !.pc = IF ExpiryOf(t) = Absent THEN "unauthorized" ELSE "found"]]
  BY DEF BeginAccess
<1> DEFINE new == [IdleCall EXCEPT !.token = t, !.seen = ExpiryOf(t), !.dead = Dead(t),
                          !.pc = IF ExpiryOf(t) = Absent THEN "unauthorized" ELSE "found"]
<1>2. UNCHANGED <<signed, time, sessions, expiry, gone, failed>>
  BY DEF BeginAccess
<1>3. ExpiryOf(t) \in Int /\ Dead(t) \in BOOLEAN
  BY DEF ExpiryOf, Dead, AccessInv, AccessTypeOK
<1>4. new \in CallRecord /\ new.pc \in {"unauthorized", "found"}
  BY <1>3, IdleCallType DEF CallRecord, CallPC, IdleCall
<1>5. new.pc = "found" /\ new.dead => new.seen <= time
  <2>1. ExpiryOf(t) # Absent /\ Dead(t) => ExpiryOf(t) <= time
    BY DEF ExpiryOf, Dead, AccessInv, AccessTypeOK, SessionsOK
  <2> QED
    BY <2>1 DEF IdleCall
<1>6. SessionsOK' /\ sessions' \in [Tokens -> Int] /\ expiry' \in [Tokens -> Int]
  BY <1>2 DEF AccessInv, SessionsOK, AccessTypeOK
<1>7. \A c \in Clients : failed'[c].count <= failed[c].count
  BY <1>2 DEF AccessInv, AccessTypeOK
<1>8. failed' \in [Clients -> [count : Nat, last : Nat]]
  BY <1>2 DEF AccessInv, AccessTypeOK
<1>9. call' = [call EXCEPT ![r] = new]
  BY <1>1
<1> HIDE DEF new
<1> QED
  BY <1>2, <1>4, <1>5, <1>6, <1>7, <1>8, <1>9, OtherCallStep

\* The other steps of a request, FinishAccess among them: it accepts only what
\* the comparison with the clock lets pass.
LEMMA RequestStep ==
    ASSUME AccessInv, NEW r \in Calls,
           CreateFails(r) \/ FinishAccess(r) \/ BearerAccess(r) \/ SyncRequest(r) \/ Answered(r)
    PROVE  AccessInv'
<1> DEFINE old == call[r]
<1>1. old \in CallRecord /\ CallsOK /\ SessionsOK /\ AccessTypeOK
  BY DEF AccessInv, AccessTypeOK
<1>2. UNCHANGED <<signed, time, gone, expiry, failed>>
  BY DEF CreateFails, FinishAccess, BearerAccess, SyncRequest, Answered
<1>3. /\ failed' \in [Clients -> [count : Nat, last : Nat]]
      /\ \A c \in Clients : failed'[c].count <= failed[c].count
      /\ expiry' \in [Tokens -> Int]
  BY <1>1, <1>2 DEF AccessTypeOK
<1>4. /\ sessions' \in [Tokens -> Int]
      /\ \A t \in Tokens : sessions'[t] \in {Absent, sessions[t]}
  BY <1>1 DEF CreateFails, FinishAccess, BearerAccess, SyncRequest, Answered, AccessTypeOK, Absent
<1>5. SessionsOK'
  BY <1>1, <1>2, <1>4 DEF SessionsOK
<1>6. \E new \in CallRecord :
        /\ new.pc \notin {"record", "clear", "found"}
        /\ call' = [call EXCEPT ![r] = new]
        /\ new.pc = "accepted" => ~new.dead
  <2>1. CASE CreateFails(r)
    <3>1. call' = [call EXCEPT ![r] = [old EXCEPT !.pc = "refused"]]
      BY <2>1 DEF CreateFails
    <3> QED
      BY <1>1, <3>1, WithPC DEF CallPC
  <2>2. CASE FinishAccess(r)
    <3>1. CASE old.seen > time
      <4>1. ~old.dead
        BY <1>1, <2>2, <3>1 DEF FinishAccess, CallsOK, CallRecord, AccessTypeOK
      <4>2. call' = [call EXCEPT ![r] = [old EXCEPT !.pc = "accepted"]]
        BY <2>2, <3>1 DEF FinishAccess
      <4>3. /\ [old EXCEPT !.pc = "accepted"] \in CallRecord
            /\ [old EXCEPT !.pc = "accepted"].pc = "accepted"
            /\ ~[old EXCEPT !.pc = "accepted"].dead
        BY <1>1, <4>1 DEF CallRecord, CallPC
      <4> QED
        BY <4>2, <4>3
    <3>2. CASE ~(old.seen > time)
      <4>1. call' = [call EXCEPT ![r] = [old EXCEPT !.pc = "unauthorized"]]
        BY <2>2, <3>2 DEF FinishAccess
      <4> QED
        BY <1>1, <4>1, WithPC DEF CallPC
    <3> QED
      BY <3>1, <3>2
  <2>3. CASE BearerAccess(r)
    <3>1. PICK p \in {"bearer", "unauthorized"} :
             call' = [call EXCEPT ![r] = [IdleCall EXCEPT !.pc = p]]
      BY <2>3 DEF BearerAccess
    <3> QED
      BY <3>1, IdleCallType, WithPC DEF CallPC
  <2>4. CASE SyncRequest(r)
    <3>1. PICK p \in {"synced", "limited"} : call' = [call EXCEPT ![r] = [old EXCEPT !.pc = p]]
      BY <2>4 DEF SyncRequest
    <3> QED
      BY <1>1, <3>1, WithPC, ZenonT(60) DEF CallPC
  <2>5. CASE Answered(r)
    <3> WITNESS IdleCall \in CallRecord
    <3> QED
      BY <2>5, IdleCallType DEF Answered, IdleCall
  <2> QED
    BY <2>1, <2>2, <2>3, <2>4, <2>5
<1> QED
  BY <1>2, <1>3, <1>4, <1>5, <1>6, OtherCallStep

LEMMA LogoutStep ==
    ASSUME AccessInv, NEW t \in Tokens, Logout(t)
    PROVE  AccessInv'
<1> USE DEF Logout
<1>1. AccessTypeOK'
  BY DEF AccessInv, AccessTypeOK, Absent
<1>2. SessionsOK'
  BY DEF AccessInv, AccessTypeOK, SessionsOK
<1>3. CallsOK'
  BY DEF AccessInv, CallsOK
<1>4. FailuresAndPending'
  BY DEF AccessInv, FailuresAndPending, Pending
<1> QED
  BY <1>1, <1>2, <1>3, <1>4 DEF AccessInv

LEMMA AccessTickStep ==
    ASSUME AccessInv, AccessTick
    PROVE  AccessInv'
<1> USE DEF AccessTick
<1>1. AccessTypeOK' /\ SessionsOK'
  BY DEF AccessInv, AccessTypeOK, SessionsOK
<1>2. CallsOK'
  BY DEF AccessInv, AccessTypeOK, CallRecord, CallsOK
<1>3. FailuresAndPending'
  BY DEF AccessInv, FailuresAndPending, Pending
<1> QED
  BY <1>1, <1>2, <1>3 DEF AccessInv

LEMMA AccessRestartStep ==
    ASSUME AccessInv, AccessRestart
    PROVE  AccessInv'
<1> USE DEF AccessRestart
<1>1. AccessTypeOK'
  BY IdleCallType DEF AccessInv, AccessTypeOK, Absent, NoFailures
<1>2. SessionsOK' /\ CallsOK'
  BY DEF AccessInv, SessionsOK, CallsOK, IdleCall
<1>3. \A c \in Clients : failed'[c].count <= failed[c].count
  BY DEF AccessInv, AccessTypeOK, NoFailures
<1>4. \A c \in Clients : Pending(c)' \subseteq Pending(c)
  BY DEF Pending, IdleCall
<1>5. FailuresAndPending'
  BY <1>1, <1>3, <1>4, NoMoreFailures
<1> QED
  BY <1>1, <1>2, <1>5 DEF AccessInv

LEMMA NextAccessInv == AccessInv /\ [AccessNext]_accessVars => AccessInv'
<1> SUFFICES ASSUME AccessInv, [AccessNext]_accessVars PROVE AccessInv'
  OBVIOUS
<1>1. CASE UNCHANGED accessVars
  BY <1>1 DEF accessVars, AccessInv, AccessTypeOK, SessionsOK, CallsOK, FailuresAndPending, Pending
<1> QED
  BY <1>1, BeginLoginStep, RecordStep, ClearStep, CreateSessionStep, BeginAccessStep, RequestStep,
     LogoutStep, AccessTickStep, AccessRestartStep DEF AccessNext

LEMMA SpecAccessInv == AccessSpec => []AccessInv
  BY InitAccessInv, NextAccessInv, PTL DEF AccessSpec

\* The failed logins of a client exceed the limit at most by the other
\* concurrent requests, however logins, successes, the pruning of the window
\* and restarts interleave.
THEOREM SpecFailuresBounded == AccessSpec => []FailuresBounded
<1>1. ASSUME AccessInv PROVE FailuresBounded
  <2> SUFFICES ASSUME NEW c \in Clients
               PROVE  failed[c].count <= MaxFailed + Cardinality(Calls) - 1
    BY DEF FailuresBounded
  <2>1. failed[c].count + Cardinality(Pending(c)) <= MaxFailed + Cardinality(Calls) - 1
    BY <1>1 DEF AccessInv, FailuresAndPending
  <2>2. failed[c].count \in Nat
    BY <1>1 DEF AccessInv, AccessTypeOK
  <2> QED
    BY <2>1, <2>2, PendingFinite, ApiAccessAssumption
<1> QED
  BY <1>1, SpecAccessInv, PTL

\* No protected handler runs for a session that had ended when the request
\* arrived.
THEOREM SpecEndedSessionsRefused == AccessSpec => []EndedSessionsRefused
<1>1. AccessInv => EndedSessionsRefused
  BY DEF AccessInv, CallsOK, EndedSessionsRefused
<1> QED
  BY <1>1, SpecAccessInv, PTL

-----------------------------------------------------------------------------
(* DatabaseBackup.  The file of the last successful backup is named in the *)
(* invariant: it is exactly as old as that backup, and no cleanup of a run *)
(* that began later calls it expired while it is within the retention.     *)

LEMMA MaxPair ==
    ASSUME NEW a \in Int, NEW b \in Int
    PROVE  Max({a, b}) = IF a >= b THEN a ELSE b
<1> DEFINE m == IF a >= b THEN a ELSE b
<1>1. m \in {a, b} /\ \A y \in {a, b} : m >= y
  OBVIOUS
<1>2. \A x \in {a, b} : (\A y \in {a, b} : x >= y) => x = m
  OBVIOUS
<1> QED
  BY <1>1, <1>2 DEF Max

LEMMA MinPair ==
    ASSUME NEW a \in Int, NEW b \in Int
    PROVE  Min({a, b}) = IF a <= b THEN a ELSE b
<1> DEFINE m == IF a <= b THEN a ELSE b
<1>1. m \in {a, b} /\ \A y \in {a, b} : m <= y
  OBVIOUS
<1>2. \A x \in {a, b} : (\A y \in {a, b} : x <= y) => x = m
  OBVIOUS
<1> QED
  BY <1>1, <1>2 DEF Min

Moment == [days : Int, hour : Int]

RunnerRecord ==
    [pc : {"plan", "sleep", "copy", "clean", "stopped"}, wake : Int, last : Moment,
     attempts : Int, retry : BOOLEAN, began : Moment]

StorageRecord == [pc : {"plan", "sleep", "stopped"}, wake : Int, ran : BOOLEAN]

FileRecord == [dir : Nat, kind : {"db", "tmp"}, whole : BOOLEAN]

BackupTypeOK ==
    /\ interval \in Intervals
    /\ hour \in Nat
    /\ files \subseteq FileRecord
    /\ newest \in Moment
    /\ runner \in RunnerRecord
    /\ storage \in StorageRecord
    /\ cancelled \in BOOLEAN
    /\ sinceLast \in Nat

\* A run that copies or cleans has begun on a day.
BeganOK == runner.pc \in {"copy", "clean"} => runner.began.days >= 0

\* The file of the last successful backup.
LastBackupThere ==
    sinceLast <= RetentionDays => \E f \in files : f.kind = "db" /\ f.whole /\ f.dir = sinceLast

BackupInv == BackupTypeOK /\ BeganOK /\ NoTornBackup /\ LastBackupThere

\* The last age still tells the retention apart.
LEMMA MaxAgeBeyond == MaxAge \in Nat /\ MaxAge > RetentionDays
<1>1. MaxInterval \div DayTicks \in Nat
  BY DatabaseBackupAssumption
<1> QED
  BY <1>1, DatabaseBackupAssumption DEF MaxAge

LEMMA OlderType ==
    ASSUME NEW n \in Int
    PROVE  /\ Older(n) \in Int
           /\ n \in Nat => Older(n) \in Nat
           /\ Older(n) <= RetentionDays => Older(n) = n + 1
<1>1. Older(n) = IF n + 1 <= MaxAge THEN n + 1 ELSE MaxAge
  BY MaxAgeBeyond, MinPair DEF Older
<1> QED
  BY <1>1, MaxAgeBeyond, DatabaseBackupAssumption

LEMMA AgedType ==
    ASSUME NEW t \in Moment
    PROVE  Aged(t) \in Moment /\ (t.days >= 0 => Aged(t).days >= 0)
<1>1. t.days \in Int /\ Older(t.days) \in Int
  BY OlderType DEF Moment
<1>2. t.days >= 0 => Older(t.days) >= 0
  BY <1>1, OlderType
<1> QED
  BY <1>1, <1>2 DEF Aged, Moment

LEMMA NeverType == Never \in Moment /\ (hour \in Nat => Now \in Moment)
  BY DEF Never, Moment, Now

LEMMA FreshType == FreshRunner \in RunnerRecord /\ FreshStorage \in StorageRecord
<1>1. FALSE \in BOOLEAN
  OBVIOUS
<1> QED
  BY <1>1, NeverType DEF FreshRunner, FreshStorage, RunnerRecord, StorageRecord

LEMMA InitBackupInv == BackupInit => BackupInv
<1> SUFFICES ASSUME BackupInit PROVE BackupInv
  OBVIOUS
<1> USE DEF BackupInit
<1>1. BackupTypeOK
  <2>1. cancelled \in BOOLEAN
    OBVIOUS
  <2> QED
    BY <2>1, MaxAgeBeyond, NeverType, FreshType DEF BackupTypeOK
<1>2. BeganOK /\ NoTornBackup
  BY DEF BeganOK, FreshRunner, NoTornBackup, ListFiles
<1>3. LastBackupThere
  BY MaxAgeBeyond, DatabaseBackupAssumption DEF LastBackupThere
<1> QED
  BY <1>1, <1>2, <1>3 DEF BackupInv

LEMMA ElapsedType ==
    ASSUME BackupInv, NEW t \in Moment
    PROVE  Elapsed(t) \in Int
<1>1. t.days \in Int /\ t.hour \in Int /\ hour \in Int /\ DayTicks \in Int
  BY DatabaseBackupAssumption DEF BackupInv, BackupTypeOK, Moment
<1>2. t.days * DayTicks \in Int
  BY <1>1
<1> QED
  BY <1>1, <1>2 DEF Elapsed

\* The computed delay is a number, whatever the history says.
LEMMA DelayType ==
    ASSUME BackupInv, NEW readable \in BOOLEAN
    PROVE  nextDelay(lastBackupAtFromHistory(readable)) \in Int
<1> DEFINE l == lastBackupAtFromHistory(readable)
<1>1. l \in Moment
  BY NeverType DEF lastBackupAtFromHistory, StoredBackupAt, BackupInv, BackupTypeOK, RunnerRecord
<1> HIDE DEF l
<1>2. /\ hour \in Int /\ DayTicks \in Int /\ BackupTick \in Int /\ interval \in Int
      /\ l.days \in Int
  BY <1>1, DatabaseBackupAssumption DEF BackupInv, BackupTypeOK, Moment
<1>3. dailyScheduleDays \in Int
  BY <1>2, DatabaseBackupAssumption DEF dailyScheduleDays, BackupInv, BackupTypeOK
<1>4. nextDailyAt(BackupTick) \in Int
  BY <1>2 DEF nextDailyAt
<1>5. (dailyScheduleDays - l.days) * DayTicks \in Int
  BY <1>2, <1>3
<1>6. nextDailyDelay(l) \in Int
  BY <1>2, <1>4, <1>5 DEF nextDailyDelay
<1>7. interval - Elapsed(l) \in Int
  BY <1>1, <1>2, ElapsedType
<1>8. Max({0, interval - Elapsed(l)}) \in Int
  BY <1>7, MaxPair
<1>9. nextDelay(l) \in Int
  BY <1>6, <1>8 DEF nextDelay, RetryDelay
<1> QED
  BY <1>9 DEF l

\* Steps that leave the files and their ages alone.
LEMMA QuietBackupStep ==
    ASSUME BackupInv, UNCHANGED <<interval, hour, files, newest, sinceLast>>,
           runner' \in RunnerRecord, storage' \in StorageRecord, cancelled' \in BOOLEAN,
           BeganOK'
    PROVE  BackupInv'
<1>1. BackupTypeOK'
  BY DEF BackupInv, BackupTypeOK
<1>2. NoTornBackup' /\ LastBackupThere'
  BY DEF BackupInv, NoTornBackup, ListFiles, LastBackupThere
<1> QED
  BY <1>1, <1>2 DEF BackupInv

LEMMA PlanBackupStep ==
    ASSUME BackupInv, PlanBackup
    PROVE  BackupInv'
<1>1. PICK readable \in BOOLEAN :
         runner' = [runner EXCEPT !.pc = "sleep",
                                  !.wake = nextDelay(lastBackupAtFromHistory(readable))]
  BY DEF PlanBackup
<1>2. runner' \in RunnerRecord /\ runner'.pc = "sleep"
  BY <1>1, DelayType DEF BackupInv, BackupTypeOK, RunnerRecord
<1>3. storage' \in StorageRecord /\ cancelled' \in BOOLEAN
  BY DEF PlanBackup, BackupInv, BackupTypeOK
<1> QED
  BY <1>2, <1>3, QuietBackupStep DEF PlanBackup, BeganOK

LEMMA StopBackupStep ==
    ASSUME BackupInv, StopBackup
    PROVE  BackupInv'
<1>1. runner' \in RunnerRecord /\ runner'.pc = "stopped"
  BY DEF StopBackup, BackupInv, BackupTypeOK, RunnerRecord
<1>2. storage' \in StorageRecord /\ cancelled' \in BOOLEAN
  BY DEF StopBackup, BackupInv, BackupTypeOK
<1> QED
  BY <1>1, <1>2, QuietBackupStep DEF StopBackup, BeganOK

LEMMA StorageStep ==
    ASSUME BackupInv, PlanCleanup \/ RunCleanup \/ StopCleanup
    PROVE  BackupInv'
<1>1. runner' \in RunnerRecord /\ cancelled' \in BOOLEAN /\ BeganOK'
  BY DEF PlanCleanup, RunCleanup, StopCleanup, BackupInv, BackupTypeOK, BeganOK
<1>2. nextDailyAt(CleanupTick) \in Int
  BY DatabaseBackupAssumption DEF nextDailyAt, BackupInv, BackupTypeOK
<1>3. storage' \in StorageRecord
  <2>1. \A b \in BOOLEAN : /\ [pc |-> "sleep", wake |-> nextDailyAt(CleanupTick), ran |-> b] \in StorageRecord
                          /\ [storage EXCEPT !.pc = "plan", !.ran = b] \in StorageRecord
    BY <1>2 DEF BackupInv, BackupTypeOK, StorageRecord
  <2>2. TRUE \in BOOLEAN /\ FALSE \in BOOLEAN
    OBVIOUS
  <2>3. CASE PlanCleanup
    BY <2>1, <2>2, <2>3, Zenon DEF PlanCleanup
  <2>4. CASE RunCleanup
    BY <2>1, <2>2, <2>4, Zenon DEF RunCleanup
  <2>5. CASE StopCleanup
    BY <2>5 DEF StopCleanup, BackupInv, BackupTypeOK, StorageRecord
  <2> QED
    BY <2>3, <2>4, <2>5
<1> QED
  BY <1>1, <1>3, QuietBackupStep DEF PlanCleanup, RunCleanup, StopCleanup

LEMMA StopsStep ==
    ASSUME BackupInv, CancelRunners \/ Restart
    PROVE  BackupInv'
<1>1. runner' \in RunnerRecord /\ storage' \in StorageRecord
  BY FreshType DEF CancelRunners, Restart, BackupInv, BackupTypeOK
<1>2. cancelled' \in BOOLEAN
  BY DEF CancelRunners, Restart
<1>3. BeganOK'
  BY DEF CancelRunners, Restart, BackupInv, BeganOK, FreshRunner
<1> QED
  BY <1>1, <1>2, <1>3, QuietBackupStep DEF CancelRunners, Restart

\* The copy is not a backup yet.
LEMMA StartCopyStep ==
    ASSUME BackupInv, StartCopy
    PROVE  BackupInv'
<1> USE DEF StartCopy
<1>1. /\ runner' \in RunnerRecord /\ runner'.pc = "copy" /\ runner'.began = Now
  BY NeverType DEF BackupInv, BackupTypeOK, RunnerRecord
<1>2. files' \subseteq FileRecord
  <2>1. [dir |-> 0, kind |-> "tmp", whole |-> FALSE] \in FileRecord
    BY DEF FileRecord
  <2> QED
    BY <2>1 DEF BackupInv, BackupTypeOK
<1>3. BackupTypeOK'
  BY <1>1, <1>2 DEF BackupInv, BackupTypeOK
<1>4. BeganOK'
  BY <1>1 DEF BeganOK, Now
<1>5. NoTornBackup'
  BY DEF BackupInv, NoTornBackup, ListFiles
<1>6. LastBackupThere'
  BY DEF BackupInv, LastBackupThere
<1> QED
  BY <1>3, <1>4, <1>5, <1>6 DEF BackupInv

LEMMA EndedType ==
    ASSUME NEW r \in RunnerRecord, NEW b \in BOOLEAN
    PROVE  LET e == [r EXCEPT !.pc = "clean", !.last = r.began, !.attempts = 0, !.retry = b]
           IN  e \in RunnerRecord /\ e.began = r.began
<1>1. r.began \in Moment
  BY DEF RunnerRecord
<1>2. 0 \in Int
  OBVIOUS
<1> QED
  BY <1>1, <1>2 DEF RunnerRecord

\* The whole copy becomes the last successful backup.
LEMMA FinishCopyStep ==
    ASSUME BackupInv, FinishCopy
    PROVE  BackupInv'
<1> USE DEF FinishCopy
<1> DEFINE new == [dir |-> runner.began.days, kind |-> "db", whole |-> TRUE]
<1>1. runner.began \in Moment /\ runner.began.days \in Nat
  BY DEF BackupInv, BackupTypeOK, RunnerRecord, BeganOK, Moment
<1>2. new \in FileRecord
  BY <1>1 DEF FileRecord
<1>3. runner' \in RunnerRecord /\ runner'.began = runner.began
  <2> DEFINE ended(b) == [runner EXCEPT !.pc = "clean", !.last = runner.began,
                                        !.attempts = 0, !.retry = b]
  <2>1. ASSUME NEW b \in BOOLEAN
        PROVE  ended(b) \in RunnerRecord /\ ended(b).began = runner.began
    <3>1. runner \in RunnerRecord
      BY DEF BackupInv, BackupTypeOK
    <3> QED
      BY <1>1, <3>1, EndedType
  <2>2. runner' = ended(FALSE) /\ FALSE \in BOOLEAN
    BY Zenon
  <2> QED
    BY <2>1, <2>2, Zenon
<1>4. BackupTypeOK'
  BY <1>1, <1>2, <1>3, NeverType DEF BackupInv, BackupTypeOK
<1>5. BeganOK'
  BY <1>1, <1>3 DEF BeganOK
<1>6. NoTornBackup'
  BY DEF BackupInv, NoTornBackup, ListFiles
<1>7. LastBackupThere'
  <2>1. new \in files' /\ new.kind = "db" /\ new.whole /\ new.dir = sinceLast'
    OBVIOUS
  <2> QED
    BY <2>1 DEF LastBackupThere
<1> QED
  BY <1>4, <1>5, <1>6, <1>7 DEF BackupInv

\* A failed copy takes only its own partial file with it.
LEMMA FailCopyStep ==
    ASSUME BackupInv, FailCopy
    PROVE  BackupInv'
<1> USE DEF FailCopy
<1>1. Min({runner.attempts + 1, MaxRetries + 1}) \in Int
  BY MinPair DEF BackupInv, BackupTypeOK, RunnerRecord, MaxRetries
<1>2. (runner.attempts + 1 <= MaxRetries) \in BOOLEAN
  OBVIOUS
<1>3. runner' \in RunnerRecord /\ runner'.began = runner.began
  BY <1>1, <1>2 DEF BackupInv, BackupTypeOK, RunnerRecord
<1>4. BackupTypeOK' /\ BeganOK'
  BY <1>3 DEF BackupInv, BackupTypeOK, BeganOK
<1>5. NoTornBackup'
  BY DEF BackupInv, NoTornBackup, ListFiles
<1>6. LastBackupThere'
  BY DEF BackupInv, LastBackupThere, Copied
<1> QED
  BY <1>4, <1>5, <1>6 DEF BackupInv

\* The retention does not reach the last backup while it is within it.
LEMMA CleanBackupsStep ==
    ASSUME BackupInv, CleanBackups
    PROVE  BackupInv'
<1>1. PICK left \in {0} \cup {f.dir : f \in {x \in files : Expired(x)}} :
         files' = {f \in files : ~Expired(f) \/ f.dir <= left}
  BY DEF CleanBackups
<1>2. runner' \in RunnerRecord /\ runner'.pc = "plan"
  BY DEF CleanBackups, BackupInv, BackupTypeOK, RunnerRecord
<1>3. BackupTypeOK' /\ BeganOK'
  BY <1>1, <1>2 DEF CleanBackups, BackupInv, BackupTypeOK, BeganOK
<1>4. NoTornBackup'
  BY <1>1 DEF BackupInv, NoTornBackup, ListFiles
<1>5. LastBackupThere'
  <2> SUFFICES ASSUME sinceLast <= RetentionDays
               PROVE  \E f \in files' : f.kind = "db" /\ f.whole /\ f.dir = sinceLast
    BY DEF CleanBackups, LastBackupThere
  <2>1. PICK f \in files : f.kind = "db" /\ f.whole /\ f.dir = sinceLast
    BY DEF BackupInv, LastBackupThere
  <2>2. runner.began.days \in Nat
    BY DEF CleanBackups, BackupInv, BackupTypeOK, RunnerRecord, Moment, BeganOK
  <2>3. ~Expired(f)
    BY <2>1, <2>2, DatabaseBackupAssumption DEF Expired, BackupInv, BackupTypeOK
  <2> QED
    BY <1>1, <2>1, <2>3
<1> QED
  BY <1>3, <1>4, <1>5 DEF BackupInv

\* The files and the last backup grow older together.
LEMMA TickStep ==
    ASSUME BackupInv, Tick
    PROVE  BackupInv'
<1> DEFINE age(n) == IF hour' = 0 THEN Older(n) ELSE n
           old(t) == IF hour' = 0 THEN Aged(t) ELSE t
           aged(f) == [f EXCEPT !.dir = age(@)]
<1>1. /\ hour' = (hour + 1) % DayTicks
      /\ files' = {aged(f) : f \in files}
      /\ newest' = old(newest)
      /\ runner' = [runner EXCEPT !.wake = Max({0, @ - 1}), !.last = old(@), !.began = old(@)]
      /\ storage' = [storage EXCEPT !.wake = @ - 1, !.ran = FALSE]
      /\ sinceLast' = age(sinceLast)
      /\ UNCHANGED <<interval, cancelled>>
  BY DEF Tick
<1>2. hour' \in Nat
  BY <1>1, DatabaseBackupAssumption DEF BackupInv, BackupTypeOK
<1>3. \A n \in Nat : age(n) \in Nat /\ (age(n) <= RetentionDays => n <= RetentionDays)
  BY OlderType, DatabaseBackupAssumption
<1>4. \A t \in Moment : old(t) \in Moment /\ (t.days >= 0 => old(t).days >= 0)
  BY AgedType
<1> HIDE DEF age, old
<1>5. Max({0, runner.wake - 1}) \in Int
  BY MaxPair DEF BackupInv, BackupTypeOK, RunnerRecord
<1>6. runner' \in RunnerRecord /\ runner'.pc = runner.pc /\ runner'.began = old(runner.began)
  BY <1>1, <1>4, <1>5 DEF BackupInv, BackupTypeOK, RunnerRecord
<1>7. storage' \in StorageRecord
  <2>1. storage.wake - 1 \in Int
    BY DEF BackupInv, BackupTypeOK, StorageRecord
  <2>2. \A b \in BOOLEAN : [storage EXCEPT !.wake = @ - 1, !.ran = b] \in StorageRecord
    BY <2>1 DEF BackupInv, BackupTypeOK, StorageRecord
  <2>3. FALSE \in BOOLEAN
    OBVIOUS
  <2> QED
    BY <1>1, <2>2, <2>3, Zenon
<1>8. \A f \in files : /\ aged(f) \in FileRecord /\ aged(f).dir = age(f.dir)
                       /\ aged(f).kind = f.kind /\ aged(f).whole = f.whole
  BY <1>3 DEF BackupInv, BackupTypeOK, FileRecord
<1> HIDE DEF aged
<1>9. BackupTypeOK'
  BY <1>1, <1>2, <1>3, <1>4, <1>6, <1>7, <1>8 DEF BackupInv, BackupTypeOK
<1>10. BeganOK'
  BY <1>4, <1>6 DEF BackupInv, BackupTypeOK, BeganOK, RunnerRecord
<1>11. NoTornBackup'
  BY <1>1, <1>8 DEF BackupInv, NoTornBackup, ListFiles
<1>12. LastBackupThere'
  <2> SUFFICES ASSUME age(sinceLast) <= RetentionDays
               PROVE  \E g \in files' : g.kind = "db" /\ g.whole /\ g.dir = age(sinceLast)
    BY <1>1 DEF LastBackupThere
  <2>1. sinceLast <= RetentionDays
    BY <1>3 DEF BackupInv, BackupTypeOK
  <2>2. PICK f \in files : f.kind = "db" /\ f.whole /\ f.dir = sinceLast
    BY <2>1 DEF BackupInv, LastBackupThere
  <2>3. aged(f) \in files' /\ aged(f).kind = "db" /\ aged(f).whole /\ aged(f).dir = age(sinceLast)
    BY <1>1, <1>8, <2>2
  <2> QED
    BY <2>3
<1> QED
  BY <1>9, <1>10, <1>11, <1>12 DEF BackupInv

LEMMA NextBackupInv == BackupInv /\ [BackupNext]_backupVars => BackupInv'
<1> SUFFICES ASSUME BackupInv, [BackupNext]_backupVars PROVE BackupInv'
  OBVIOUS
<1>1. CASE UNCHANGED backupVars
  BY <1>1 DEF backupVars, BackupInv, BackupTypeOK, BeganOK, NoTornBackup, ListFiles, LastBackupThere
<1> QED
  BY <1>1, PlanBackupStep, StartCopyStep, FinishCopyStep, FailCopyStep, CleanBackupsStep,
     StopBackupStep, StorageStep, TickStep, StopsStep DEF BackupNext

LEMMA SpecBackupInv == BackupSpec => []BackupInv
  BY InitBackupInv, NextBackupInv, PTL DEF BackupSpec

\* No file under a backup's name is a torn copy, wherever a copy failed or the
\* process died.
THEOREM SpecNoTornBackup == BackupSpec => []NoTornBackup
<1>1. BackupInv => NoTornBackup
  BY DEF BackupInv
<1> QED
  BY <1>1, SpecBackupInv, PTL

\* A backup within the retention is never cleaned up.
THEOREM SpecRecentBackupKept == BackupSpec => []RecentBackupKept
<1>1. BackupInv => RecentBackupKept
  BY DEF BackupInv, LastBackupThere, RecentBackupKept, ListFiles
<1> QED
  BY <1>1, SpecBackupInv, PTL

-----------------------------------------------------------------------------
(* The model support of selected accounts (ModelSupport). *)

SupportCodes ==
    {"none", "ok", "upstream_error", "auth_file_missing", "invalid_upstream_response"}

FoundRecord == [status : {"failed", "loaded"}, code : SupportCodes, models : SUBSET Models]

\* A loaded account has the models CPA registered for it, and the scope is a set
\* of accounts.
SupportFacts ==
    /\ load.scope \subseteq Accounts
    /\ upstream \in [Accounts -> SUBSET Models]
    /\ found \in [Accounts -> FoundRecord]
    /\ \A a \in Accounts : found[a].status = "loaded" => found[a].models = upstream[a]

\* What a claim says is true of what is registered upstream.
SupportInv == SupportFacts /\ SingleClaimSound

\* Observed accounts register the model; in a complete scope they are all.
LEMMA ObservedSound ==
    ASSUME SupportFacts, NEW m
    PROVE  LET true == {a \in load.scope : m \in upstream[a]} IN
           /\ Cardinality(Observed(m)) <= Cardinality(true)
           /\ ScopeComplete => Observed(m) = true
<1> DEFINE true == {a \in load.scope : m \in upstream[a]}
<1>1. IsFiniteSet(true)
  BY FS_Subset, ModelSupportAssumption DEF SupportFacts
<1>2. Observed(m) \subseteq true
  BY DEF SupportFacts, Observed
<1>3. Cardinality(Observed(m)) <= Cardinality(true)
  BY <1>1, <1>2, FS_Subset
<1>4. ScopeComplete => Observed(m) = true
  BY DEF SupportFacts, Observed, ScopeComplete
<1> QED
  BY <1>3, <1>4

LEMMA CoverageSound ==
    ASSUME SupportFacts, NEW x \in Coverage
    PROVE  LET true == Cardinality({a \in load.scope : x.model \in upstream[a]}) IN
           /\ x.observed <= true
           /\ TRUE \in x.single => true = 1
<1>1. PICK m \in Models :
         x = [model |-> m, observed |-> Cardinality(Observed(m)),
              single |-> IF ScopeComplete THEN {Cardinality(Observed(m)) = 1} ELSE {}]
  BY DEF Coverage
<1>2. x.model = m /\ x.observed = Cardinality(Observed(m))
  BY <1>1
<1>3. TRUE \in x.single => ScopeComplete /\ Cardinality(Observed(m)) = 1
  BY <1>1
<1> QED
  BY <1>2, <1>3, ObservedSound

LEMMA InitSupportInv == SupportInit => SupportInv
  BY DEF SupportInit, NoLoad, NotFound, SupportInv, SupportFacts, FoundRecord, SupportCodes, SingleClaimSound

\* Steps of a load under way: no result yet.
LEMMA LoadingStep ==
    ASSUME SupportInv, UNCHANGED <<upstream, load>>, SupportFacts'
    PROVE  SupportInv'
  BY DEF SupportInv, SingleClaimSound

LEMMA NextSupportInv == SupportInv /\ [SupportNext]_supportVars => SupportInv'
<1> SUFFICES ASSUME SupportInv, [SupportNext]_supportVars PROVE SupportInv'
  OBVIOUS
<1> USE DEF SupportInv
<1>1. ASSUME NEW s \in SUBSET Accounts, BeginLoad(s) PROVE SupportInv'
  <2>1. load'.scope \in {{}, s} /\ load'.pc # "done"
    BY <1>1 DEF BeginLoad, NoLoad
  <2>2. SupportFacts'
    BY <1>1, <2>1 DEF BeginLoad, SupportFacts, FoundRecord, SupportCodes, NotFound
  <2> QED
    BY <2>1, <2>2 DEF SingleClaimSound
<1>2. ASSUME NEW a \in Accounts, StartAccount(a) PROVE SupportInv'
  BY <1>2, LoadingStep DEF StartAccount, SupportFacts
<1>3. ASSUME NEW a \in Accounts, AuthFileAnswered(a) PROVE SupportInv'
  <2>1. SupportFacts'
    <3>1. UNCHANGED found \/ \E r \in SupportCodes : found' = [found EXCEPT ![a].code = r]
      BY <1>3 DEF AuthFileAnswered, Answers, SupportCodes
    <3> QED
      BY <1>3, <3>1 DEF AuthFileAnswered, SupportFacts, FoundRecord, SupportCodes
  <2> QED
    BY <1>3, <2>1, LoadingStep DEF AuthFileAnswered
<1>4. ASSUME NEW a \in Accounts, ModelsAnswered(a) PROVE SupportInv'
  <2>1. SupportFacts'
    <3>1. PICK r \in SupportCodes :
             found' = [found EXCEPT ![a] = IF r = "ok"
                         THEN [status |-> "loaded", code |-> "none", models |-> upstream[a]]
                         ELSE [@ EXCEPT !.code = r]]
      BY <1>4 DEF ModelsAnswered, Answers, SupportCodes
    <3> QED
      BY <1>4, <3>1 DEF ModelsAnswered, SupportFacts, FoundRecord, SupportCodes
  <2> QED
    BY <1>4, <2>1, LoadingStep DEF ModelsAnswered
<1>5. ASSUME BeginCatalogs PROVE SupportInv'
  <2>1. load'.pc # "done" /\ load'.scope = load.scope
    BY <1>5 DEF BeginCatalogs
  <2> QED
    BY <1>5, <2>1 DEF BeginCatalogs, SupportFacts, SingleClaimSound
<1>6. ASSUME NEW c \in Channels, StartCatalog(c) \/ CatalogAnswered(c) PROVE SupportInv'
  BY <1>6, LoadingStep DEF StartCatalog, CatalogAnswered, SupportFacts
<1>7. ASSUME FinishLoad PROVE SupportInv'
  <2>1. load'.claims = Coverage /\ load'.scope = load.scope
    BY <1>7 DEF FinishLoad
  <2>2. SupportFacts'
    BY <1>7, <2>1 DEF FinishLoad, SupportFacts
  <2>3. SingleClaimSound'
    BY <1>7, <2>1, CoverageSound, ZenonT(60) DEF FinishLoad, SingleClaimSound
  <2> QED
    BY <2>2, <2>3
<1>8. ASSUME Deadline PROVE SupportInv'
  BY <1>8, LoadingStep DEF Deadline, SupportFacts
<1>9. CASE UNCHANGED supportVars
  BY <1>9, LoadingStep DEF supportVars, SupportFacts
<1> QED
  BY <1>1, <1>2, <1>3, <1>4, <1>5, <1>6, <1>7, <1>8, <1>9 DEF SupportNext

LEMMA SpecSupportInv == SupportSpec => []SupportInv
  BY InitSupportInv, NextSupportInv, PTL DEF SupportSpec

\* A model is called a single account's only when it is, for every set of
\* accounts and models and every mix of failed and late requests.
THEOREM SpecSingleClaimSound == SupportSpec => []SingleClaimSound
<1>1. SupportInv => SingleClaimSound
  BY DEF SupportInv
<1> QED
  BY <1>1, SpecSupportInv, PTL

-----------------------------------------------------------------------------
(* Passive quota: what the visited signals have left in the groups. *)

Visited == IF stage = "idle" THEN {} ELSE input \ pending

Keyed(s, n, w, f) == s.group = n /\ s.window = w /\ s.field = f

\* A signal that states a fact: well formed, and not a zero duration.
IsFact(s) == s.value # "bad" /\ ~ (s.field = "minutes" /\ s.value = "zero")

\* v is the fact the signals V state for a field, Nil when they state none.
Holds(V, n, w, f, v) ==
    /\ \A s \in V : Keyed(s, n, w, f) /\ IsFact(s) => v = s.value
    /\ v # Nil => \E s \in V : Keyed(s, n, w, f) /\ IsFact(s) /\ v = s.value

ZeroSaid(V, n, w) == \E s \in V : Keyed(s, n, w, "minutes") /\ s.value = "zero"

WindowBuilt(V, win, n, w) ==
    /\ DOMAIN win = {"used", "minutes", "after", "at", "zero"}
    /\ \A f \in WindowFields : Holds(V, n, w, f, win[f])
    /\ win["zero"] = ZeroSaid(V, n, w)

GroupBuilt(V, g, n) ==
    /\ DOMAIN g = {"allowed", "limit", "windows"}
    /\ Holds(V, n, Nil, "allowed", g.allowed)
    /\ Holds(V, n, Nil, "limit-reached", g.limit)
    /\ DOMAIN g.windows = {s.window : s \in {x \in V : x.group = n}} \ {Nil}
    /\ \A w \in DOMAIN g.windows : WindowBuilt(V, g.windows[w], n, w)

\* The signals of a map have different keys, and the groups hold exactly the
\* facts of the signals visited so far.
PassiveInv ==
    /\ stage \in {"idle", "visiting", "done"}
    /\ input \subseteq Signals /\ pending \subseteq input
    /\ \A s, t \in input : SameKey(s, t) => s = t
    /\ stage # "visiting" => pending = {}
    /\ DOMAIN groups = {s.group : s \in Visited}
    /\ \A n \in DOMAIN groups : GroupBuilt(Visited, groups[n], n)
    /\ stage = "done" => rows = UNION {GroupRows(n) : n \in DOMAIN groups}

LEMMA FieldsOf == WindowFields = {"used", "minutes", "after", "at"}
  BY DEF WindowFields, FieldValues

\* Signals have a place, and their values are not Nil.
LEMMA SignalTypes ==
    ASSUME NEW s \in Signals
    PROVE  /\ s.group \in Groups /\ s.value # Nil
           /\ s.window \in Windows \cup {Nil}
           /\ s.window = Nil => s.field \in GroupFields /\ s.value \in Verdicts
           /\ s.window # Nil => s.field \in WindowFields /\ s.value \in FieldValues[s.field]
<1>1. CASE s \in [group : Groups, window : {Nil}, field : GroupFields, value : Verdicts]
  BY <1>1 DEF Verdicts, Nil
<1>2. ASSUME NEW f \in WindowFields,
             s \in [group : Groups, window : Windows, field : {f}, value : FieldValues[f]]
      PROVE  /\ s.group \in Groups /\ s.value # Nil /\ s.window \in Windows /\ s.window # Nil
             /\ s.field \in WindowFields /\ s.value \in FieldValues[s.field]
  <2>1. /\ s.group \in Groups /\ s.window \in Windows /\ s.field = f
        /\ s.value \in FieldValues[f]
    BY <1>2
  <2>2. s.value # Nil
    BY <1>2, <2>1, FieldsOf DEF FieldValues, FiveHours, Weekly, OtherTime, Nil
  <2>3. s.window # Nil
    BY <2>1 DEF Windows, Nil
  <2> QED
    BY <2>1, <2>2, <2>3
<1> QED
  BY <1>1, <1>2 DEF Signals

\* A signal with another key leaves a fact as it is, and so does one that
\* states none; one that states a fact makes it the fact of its own key.
LEMMA HoldsOther ==
    ASSUME NEW V, NEW s, NEW n, NEW w, NEW f, NEW v, Holds(V, n, w, f, v),
           ~ Keyed(s, n, w, f) \/ ~ IsFact(s)
    PROVE  Holds(V \cup {s}, n, w, f, v)
  BY DEF Holds

LEMMA HoldsOwn ==
    ASSUME NEW V, NEW s, IsFact(s), \A t \in V : ~ SameKey(s, t)
    PROVE  Holds(V \cup {s}, s.group, s.window, s.field, s.value)
  BY DEF Holds, Keyed, SameKey

\* Setting one field from a signal.
LEMMA SetFieldBuilds ==
    ASSUME NEW V, NEW s \in Signals, s.window # Nil, \A t \in V : ~ SameKey(s, t),
           NEW win, WindowBuilt(V, win, s.group, s.window)
    PROVE  WindowBuilt(V \cup {s}, SetField(win, s.field, s.value), s.group, s.window)
<1> DEFINE W == V \cup {s}
           new == SetField(win, s.field, s.value)
<1>1. s.field \in WindowFields /\ s.field # "zero" /\ s.field \in DOMAIN win
  BY SignalTypes, FieldsOf DEF WindowBuilt
<1>2. CASE s.value = "bad"
  <2>1. new = win
    BY <1>2 DEF SetField
  <2>2. \A f \in WindowFields : Holds(W, s.group, s.window, f, win[f])
    BY <1>2, HoldsOther DEF WindowBuilt, IsFact
  <2>3. ZeroSaid(W, s.group, s.window) = ZeroSaid(V, s.group, s.window)
    BY <1>2 DEF ZeroSaid
  <2> QED
    BY <2>1, <2>2, <2>3 DEF WindowBuilt
<1>3. CASE s.field = "minutes" /\ s.value = "zero"
  <2>1. new = [win EXCEPT !["zero"] = TRUE]
    BY <1>3 DEF SetField
  <2>2. DOMAIN new = DOMAIN win /\ new["zero"] = TRUE /\ \A f \in WindowFields : new[f] = win[f]
    BY <2>1, FieldsOf DEF WindowBuilt
  <2>3. \A f \in WindowFields : Holds(W, s.group, s.window, f, win[f])
    BY <1>3, HoldsOther DEF WindowBuilt, IsFact
  <2>4. ZeroSaid(W, s.group, s.window) = TRUE
    BY <1>3 DEF ZeroSaid, Keyed
  <2> QED
    BY <2>2, <2>3, <2>4 DEF WindowBuilt
<1>4. CASE s.value # "bad" /\ ~ (s.field = "minutes" /\ s.value = "zero")
  <2>1. new = [win EXCEPT ![s.field] = s.value]
    BY <1>4 DEF SetField
  <2>2. /\ DOMAIN new = DOMAIN win /\ new["zero"] = win["zero"] /\ new[s.field] = s.value
        /\ \A f \in WindowFields : f # s.field => new[f] = win[f]
    BY <1>1, <2>1, FieldsOf DEF WindowBuilt
  <2>3. Holds(W, s.group, s.window, s.field, s.value)
    BY <1>4, HoldsOwn DEF IsFact
  <2>4. \A f \in WindowFields : f # s.field => Holds(W, s.group, s.window, f, win[f])
    BY HoldsOther DEF WindowBuilt, Keyed
  <2>5. ZeroSaid(W, s.group, s.window) = ZeroSaid(V, s.group, s.window)
    BY <1>4 DEF ZeroSaid, Keyed
  <2> QED
    BY <2>2, <2>3, <2>4, <2>5 DEF WindowBuilt
<1> QED
  BY <1>2, <1>3, <1>4

\* A window nobody spoke of, and one another signal is about.
LEMMA EmptyWindowBuilt ==
    ASSUME NEW V, NEW n, NEW w, \A t \in V : ~ (t.group = n /\ t.window = w)
    PROVE  WindowBuilt(V, EmptyWindow, n, w)
<1>1. DOMAIN EmptyWindow = {"used", "minutes", "after", "at", "zero"}
  BY DEF EmptyWindow
<1>2. \A f \in WindowFields : EmptyWindow[f] = Nil
  BY FieldsOf DEF EmptyWindow
<1>3. EmptyWindow["zero"] = FALSE
  BY DEF EmptyWindow
<1>4. ZeroSaid(V, n, w) = FALSE
  BY DEF ZeroSaid, Keyed
<1>5. \A f \in WindowFields : Holds(V, n, w, f, Nil)
  BY DEF Holds, Keyed
<1> QED
  BY <1>1, <1>2, <1>3, <1>4, <1>5 DEF WindowBuilt

LEMMA WindowOther ==
    ASSUME NEW V, NEW s, NEW n, NEW w, NEW win, WindowBuilt(V, win, n, w),
           ~ (s.group = n /\ s.window = w)
    PROVE  WindowBuilt(V \cup {s}, win, n, w)
<1>1. \A f \in WindowFields : Holds(V \cup {s}, n, w, f, win[f])
  BY HoldsOther DEF WindowBuilt, Keyed
<1>2. ZeroSaid(V \cup {s}, n, w) = ZeroSaid(V, n, w)
  BY DEF ZeroSaid, Keyed
<1> QED
  BY <1>1, <1>2 DEF WindowBuilt

LEMMA EmptyGroupBuilt ==
    ASSUME NEW V, NEW n, \A t \in V : t.group # n
    PROVE  GroupBuilt(V, EmptyGroup, n)
<1>1. /\ DOMAIN EmptyGroup = {"allowed", "limit", "windows"}
      /\ EmptyGroup.allowed = Nil /\ EmptyGroup.limit = Nil
      /\ DOMAIN EmptyGroup.windows = {}
  BY DEF EmptyGroup
<1>2. \A w, f : Holds(V, n, w, f, Nil)
  BY DEF Holds, Keyed
<1>3. {s.window : s \in {x \in V : x.group = n}} = {}
  OBVIOUS
<1> QED
  BY <1>1, <1>2, <1>3 DEF GroupBuilt

LEMMA GroupOther ==
    ASSUME NEW V, NEW s, NEW n, NEW g, GroupBuilt(V, g, n), s.group # n
    PROVE  GroupBuilt(V \cup {s}, g, n)
<1>1. /\ Holds(V \cup {s}, n, Nil, "allowed", g.allowed)
      /\ Holds(V \cup {s}, n, Nil, "limit-reached", g.limit)
  BY HoldsOther DEF GroupBuilt, Keyed
<1>2. {x \in V \cup {s} : x.group = n} = {x \in V : x.group = n}
  OBVIOUS
<1>3. \A w \in DOMAIN g.windows : WindowBuilt(V \cup {s}, g.windows[w], n, w)
  BY WindowOther DEF GroupBuilt
<1> QED
  BY <1>1, <1>2, <1>3 DEF GroupBuilt

\* A verdict signal.
LEMMA VerdictBuilds ==
    ASSUME NEW V, NEW s \in Signals, s.window = Nil, \A t \in V : ~ SameKey(s, t),
           NEW g, GroupBuilt(V, g, s.group)
    PROVE  GroupBuilt(V \cup {s}, WithVerdict(g, s), s.group)
<1> DEFINE W == V \cup {s}
           new == WithVerdict(g, s)
<1>1. s.field \in {"allowed", "limit-reached"}
  BY SignalTypes DEF GroupFields
<1>2. {x.window : x \in {y \in W : y.group = s.group}} \ {Nil}
        = {x.window : x \in {y \in V : y.group = s.group}} \ {Nil}
  OBVIOUS
<1>3. \A w \in DOMAIN g.windows : WindowBuilt(W, g.windows[w], s.group, w)
  BY WindowOther DEF GroupBuilt
<1>4. DOMAIN new = DOMAIN g /\ new.windows = g.windows
  BY DEF WithVerdict, GroupBuilt
<1>5. Holds(W, s.group, Nil, "allowed", new.allowed)
  <2>1. CASE s.value = "bad"
    <3>1. new = g
      BY <2>1 DEF WithVerdict
    <3> HIDE DEF new
    <3> QED
      BY <2>1, <3>1, HoldsOther DEF GroupBuilt, IsFact
  <2>2. CASE s.value # "bad" /\ s.field = "allowed"
    <3>1. new.allowed = s.value
      BY <2>2 DEF WithVerdict, GroupBuilt
    <3>2. IsFact(s)
      BY <2>2 DEF IsFact
    <3> QED
      BY <2>2, <3>1, <3>2, HoldsOwn
  <2>3. CASE s.value # "bad" /\ s.field = "limit-reached"
    <3>1. new.allowed = g.allowed
      BY <2>3 DEF WithVerdict, GroupBuilt
    <3> QED
      BY <2>3, <3>1, HoldsOther DEF GroupBuilt, Keyed
  <2> QED
    BY <1>1, <2>1, <2>2, <2>3
<1>6. Holds(W, s.group, Nil, "limit-reached", new.limit)
  <2>1. CASE s.value = "bad"
    <3>1. new = g
      BY <2>1 DEF WithVerdict
    <3> HIDE DEF new
    <3> QED
      BY <2>1, <3>1, HoldsOther DEF GroupBuilt, IsFact
  <2>2. CASE s.value # "bad" /\ s.field = "limit-reached"
    <3>1. new.limit = s.value
      BY <2>2 DEF WithVerdict, GroupBuilt
    <3>2. IsFact(s)
      BY <2>2 DEF IsFact
    <3> QED
      BY <2>2, <3>1, <3>2, HoldsOwn
  <2>3. CASE s.value # "bad" /\ s.field = "allowed"
    <3>1. new.limit = g.limit
      BY <2>3 DEF WithVerdict, GroupBuilt
    <3> QED
      BY <2>3, <3>1, HoldsOther DEF GroupBuilt, Keyed
  <2> QED
    BY <1>1, <2>1, <2>2, <2>3
<1> HIDE DEF new
<1> QED
  BY <1>2, <1>3, <1>4, <1>5, <1>6 DEF GroupBuilt, new

\* A signal of a window.
LEMMA WindowBuilds ==
    ASSUME NEW V, NEW s \in Signals, s.window # Nil, \A t \in V : ~ SameKey(s, t),
           NEW g, GroupBuilt(V, g, s.group)
    PROVE  GroupBuilt(V \cup {s}, WithWindow(g, s), s.group)
<1> DEFINE W == V \cup {s}
           old == IF s.window \in DOMAIN g.windows THEN g.windows[s.window] ELSE EmptyWindow
           win == SetField(old, s.field, s.value)
           new == WithWindow(g, s)
<1>1. WindowBuilt(V, old, s.group, s.window)
  <2>1. CASE s.window \in DOMAIN g.windows
    BY <2>1 DEF GroupBuilt
  <2>2. CASE s.window \notin DOMAIN g.windows
    <3>1. \A t \in V : ~ (t.group = s.group /\ t.window = s.window)
      BY <2>2 DEF GroupBuilt
    <3> QED
      BY <2>2, <3>1, EmptyWindowBuilt
  <2> QED
    BY <2>1, <2>2
<1> HIDE DEF old
<1>2. WindowBuilt(W, win, s.group, s.window)
  BY <1>1, SetFieldBuilds
<1>3. new = [g EXCEPT !.windows = With(g.windows, s.window, win)]
  BY DEF WithWindow, old
<1> HIDE DEF win, new
<1>4. DOMAIN new = DOMAIN g /\ new.allowed = g.allowed /\ new.limit = g.limit
      /\ new.windows = With(g.windows, s.window, win)
  BY <1>3 DEF GroupBuilt
<1>5. DOMAIN new.windows = DOMAIN g.windows \cup {s.window}
  BY <1>4 DEF With
<1>6. \A w \in DOMAIN new.windows : new.windows[w] = IF w = s.window THEN win ELSE g.windows[w]
  BY <1>4 DEF With
<1>7. {x.window : x \in {y \in W : y.group = s.group}} \ {Nil}
        = ({x.window : x \in {y \in V : y.group = s.group}} \ {Nil}) \cup {s.window}
  OBVIOUS
<1>8. \A w \in DOMAIN new.windows : WindowBuilt(W, new.windows[w], s.group, w)
  BY <1>2, <1>5, <1>6, WindowOther DEF GroupBuilt
<1>9. /\ Holds(W, s.group, Nil, "allowed", g.allowed)
      /\ Holds(W, s.group, Nil, "limit-reached", g.limit)
  BY HoldsOther DEF GroupBuilt, Keyed
<1>10. DOMAIN new.windows = {x.window : x \in {y \in W : y.group = s.group}} \ {Nil}
  BY <1>5, <1>7 DEF GroupBuilt
<1>11. DOMAIN new = {"allowed", "limit", "windows"}
  BY <1>4 DEF GroupBuilt
<1> HIDE DEF W
<1>12. GroupBuilt(W, new, s.group)
  BY <1>4, <1>8, <1>9, <1>10, <1>11 DEF GroupBuilt
<1> QED
  BY <1>12 DEF W, new

LEMMA InitPassiveInv == PassiveInit => PassiveInv
<1> SUFFICES ASSUME PassiveInit PROVE PassiveInv
  OBVIOUS
<1>1. DOMAIN groups = {} /\ Visited = {}
  BY DEF PassiveInit, Visited
<1> QED
  BY <1>1 DEF PassiveInit, PassiveInv

LEMMA SendSignalStep == ASSUME PassiveInv, NEW s \in Signals, SendSignal(s) PROVE PassiveInv'
<1>1. Visited = {} /\ Visited' = {} /\ stage = "idle"
  BY DEF SendSignal, Visited
<1>2. \A x, t \in input' : SameKey(x, t) => x = t
  BY DEF PassiveInv, SendSignal, SameKey
<1> QED
  BY <1>1, <1>2 DEF PassiveInv, SendSignal

LEMMA ObserveSignalsStep == ASSUME PassiveInv, ObserveSignals PROVE PassiveInv'
<1>1. Visited = {} /\ Visited' = {}
  BY DEF ObserveSignals, Visited
<1> QED
  BY <1>1 DEF PassiveInv, ObserveSignals

LEMMA VisitSignalStep == ASSUME PassiveInv, NEW s \in pending, VisitSignal(s) PROVE PassiveInv'
<1> DEFINE V == Visited
           g == IF s.window = Nil THEN WithVerdict(GroupOf(s.group), s)
                                  ELSE WithWindow(GroupOf(s.group), s)
<1>1. stage = "visiting" /\ stage' = "visiting" /\ s \in input /\ s \in Signals
  BY DEF PassiveInv, VisitSignal
<1>2. V = input \ pending /\ Visited' = V \cup {s}
  BY <1>1 DEF Visited, VisitSignal, PassiveInv
<1>3. \A t \in V : ~ SameKey(s, t)
  BY <1>1, <1>2 DEF PassiveInv
<1>4. GroupBuilt(V, GroupOf(s.group), s.group)
  <2>1. CASE s.group \in DOMAIN groups
    BY <2>1 DEF PassiveInv, GroupOf
  <2>2. CASE s.group \notin DOMAIN groups
    <3>1. \A t \in V : t.group # s.group
      BY <2>2 DEF PassiveInv
    <3> QED
      BY <2>2, <3>1, EmptyGroupBuilt DEF GroupOf
  <2> QED
    BY <2>1, <2>2
<1> HIDE DEF V
<1>5. GroupBuilt(V \cup {s}, g, s.group)
  <2>1. CASE s.window = Nil
    BY <1>1, <1>3, <1>4, <2>1, VerdictBuilds
  <2>2. CASE s.window # Nil
    BY <1>1, <1>3, <1>4, <2>2, WindowBuilds
  <2> QED
    BY <2>1, <2>2
<1>6. groups' = With(groups, s.group, g)
  BY DEF VisitSignal
<1> HIDE DEF g
<1>7. DOMAIN groups' = DOMAIN groups \cup {s.group}
  BY <1>6 DEF With
<1>8. \A n \in DOMAIN groups' : groups'[n] = IF n = s.group THEN g ELSE groups[n]
  BY <1>6 DEF With
<1>9. DOMAIN groups' = {t.group : t \in Visited'}
  BY <1>2, <1>7 DEF PassiveInv, V
<1>10. \A n \in DOMAIN groups' : GroupBuilt(Visited', groups'[n], n)
  <2> SUFFICES ASSUME NEW n \in DOMAIN groups' PROVE GroupBuilt(V \cup {s}, groups'[n], n)
    BY <1>2
  <2>1. CASE n = s.group
    BY <1>5, <1>8, <2>1
  <2>2. CASE n # s.group
    <3>1. n \in DOMAIN groups /\ groups'[n] = groups[n]
      BY <1>7, <1>8, <2>2
    <3>2. GroupBuilt(V, groups[n], n)
      BY <3>1 DEF PassiveInv, V
    <3> QED
      BY <2>2, <3>1, <3>2, GroupOther
  <2> QED
    BY <2>1, <2>2
<1>11. input' = input /\ pending' = pending \ {s}
  BY DEF VisitSignal
<1> QED
  BY <1>1, <1>9, <1>10, <1>11 DEF PassiveInv

LEMMA NormalizeStep == ASSUME PassiveInv, normalizeCodexPassiveRows PROVE PassiveInv'
<1>1. Visited' = Visited
  BY DEF normalizeCodexPassiveRows, Visited
<1>2. groups' = groups /\ stage' = "done"
  BY DEF normalizeCodexPassiveRows
<1>3. \A n : GroupRows(n)' = GroupRows(n)
  BY <1>2 DEF GroupRows, WindowRow, StateRow
<1>4. rows' = UNION {GroupRows(n)' : n \in DOMAIN groups'}
  BY <1>2, <1>3 DEF normalizeCodexPassiveRows
<1> QED
  BY <1>1, <1>2, <1>4 DEF PassiveInv, normalizeCodexPassiveRows

LEMMA NextObservationStep == ASSUME PassiveInv, NextObservation PROVE PassiveInv'
<1>1. Visited' = {} /\ DOMAIN groups' = {}
  BY DEF NextObservation, Visited
<1> QED
  BY <1>1 DEF PassiveInv, NextObservation

LEMMA NextPassiveInv == PassiveInv /\ [PassiveNext]_passiveVars => PassiveInv'
<1> SUFFICES ASSUME PassiveInv, [PassiveNext]_passiveVars PROVE PassiveInv'
  OBVIOUS
<1>1. CASE UNCHANGED passiveVars
  <2>1. Visited' = Visited
    BY <1>1 DEF passiveVars, Visited
  <2>2. groups' = groups
    BY <1>1 DEF passiveVars
  <2>3. \A n : GroupRows(n)' = GroupRows(n)
    BY <2>2 DEF GroupRows, WindowRow, StateRow
  <2>4. UNION {GroupRows(n)' : n \in DOMAIN groups'} = UNION {GroupRows(n) : n \in DOMAIN groups}
    BY <2>2, <2>3
  <2> QED
    BY <1>1, <2>1, <2>4 DEF passiveVars, PassiveInv
<1> QED
  BY <1>1, SendSignalStep, ObserveSignalsStep, VisitSignalStep, NormalizeStep,
     NextObservationStep DEF PassiveNext

LEMMA SpecPassiveInv == PassiveSpec => []PassiveInv
  BY InitPassiveInv, NextPassiveInv, PTL DEF PassiveSpec

\* When all signals are visited, the fact held is the one the input states.
LEMMA StatedIs ==
    ASSUME input \subseteq Signals, NEW n, NEW w, NEW f, NEW v, Holds(input, n, w, f, v)
    PROVE  Given(n, w, f) \ (IF f = "minutes" THEN {"zero"} ELSE {})
             = IF v = Nil THEN {} ELSE {v}
<1> DEFINE S == Given(n, w, f) \ (IF f = "minutes" THEN {"zero"} ELSE {})
<1>1. \A x : x \in S <=> \E s \in input : Keyed(s, n, w, f) /\ IsFact(s) /\ x = s.value
  BY DEF Given, Keyed, IsFact
<1>2. \A s \in input : s.value # Nil
  BY SignalTypes
<1> HIDE DEF S
<1>3. \A x \in S : x = v /\ x # Nil
  BY <1>1, <1>2 DEF Holds
<1>4. v # Nil => v \in S
  BY <1>1 DEF Holds
<1>5. S = IF v = Nil THEN {} ELSE {v}
  BY <1>3, <1>4
<1> QED
  BY <1>5 DEF S

LEMMA FactIs ==
    ASSUME input \subseteq Signals, NEW n, NEW w, NEW f, NEW v, Holds(input, n, w, f, v)
    PROVE  FactOf(n, w, f) = v
<1> DEFINE S == Given(n, w, f) \ (IF f = "minutes" THEN {"zero"} ELSE {})
<1>1. S = IF v = Nil THEN {} ELSE {v}
  BY StatedIs
<1>2. FactOf(n, w, f) = IF S = {} THEN Nil ELSE CHOOSE x \in S : TRUE
  BY DEF FactOf
<1> HIDE DEF S
<1>3. CASE v = Nil
  BY <1>1, <1>2, <1>3
<1>4. CASE v # Nil
  <2>1. S = {v}
    BY <1>1, <1>4
  <2>2. (CHOOSE x \in S : TRUE) \in S
    BY <2>1
  <2> QED
    BY <1>2, <2>1, <2>2
<1> QED
  BY <1>3, <1>4

LEMMA VerdictIs ==
    ASSUME input \subseteq Signals, NEW n, NEW f \in GroupFields, NEW v,
           Holds(input, n, Nil, f, v)
    PROVE  Given(n, Nil, f) = IF v = Nil THEN {} ELSE {v}
<1>1. f # "minutes"
  BY DEF GroupFields
<1> QED
  BY <1>1, StatedIs

\* A window of the built groups is kept exactly when it is to be shown.
LEMMA KeptIsShown ==
    ASSUME PassiveInv, stage = "done", NEW n \in DOMAIN groups
    PROVE  /\ KeptWindows(groups[n]) = {w \in Windows : Shown(n, w)}
           /\ KeptWindows(groups[n]) \subseteq DOMAIN groups[n].windows
           /\ \A w \in KeptWindows(groups[n]), f \in WindowFields :
                 FactOf(n, w, f) = groups[n].windows[w][f]
<1> DEFINE g == groups[n]
<1>1. input \subseteq Signals /\ Visited = input /\ \A s, t \in input : SameKey(s, t) => s = t
  BY DEF PassiveInv, Visited
<1>2. GroupBuilt(input, g, n)
  BY <1>1 DEF PassiveInv
<1> HIDE DEF g
<1>3. \A w \in DOMAIN g.windows : w \in Windows
  <2>1. \A s \in input : s.window \in Windows \cup {Nil}
    BY <1>1, SignalTypes
  <2> QED
    BY <1>2, <2>1 DEF GroupBuilt
<1>4. ASSUME NEW w \in Windows, w \notin DOMAIN g.windows PROVE ~ Shown(n, w)
  <2>1. w # Nil
    BY DEF Windows, Nil
  <2>2. \A s \in input : ~ (s.group = n /\ s.window = w)
    BY <1>2, <1>4, <2>1 DEF GroupBuilt
  <2>3. \A f : Holds(input, n, w, f, Nil)
    BY <2>2 DEF Holds, Keyed
  <2>4. \A f : FactOf(n, w, f) = Nil
    BY <1>1, <2>3, FactIs
  <2> QED
    BY <2>4 DEF Shown
<1>5. ASSUME NEW w \in DOMAIN g.windows
      PROVE  /\ \A f \in WindowFields : FactOf(n, w, f) = g.windows[w][f]
             /\ Shown(n, w) <=> ~ ZeroPlaceholder(g.windows[w]) /\ HasFact(g.windows[w])
  <2> DEFINE win == g.windows[w]
             zero == ZeroSaid(input, n, w)
  <2>1. WindowBuilt(input, win, n, w)
    BY <1>2 DEF GroupBuilt
  <2> HIDE DEF win
  <2>2. \A f \in WindowFields : FactOf(n, w, f) = win[f]
    BY <1>1, <2>1, FactIs DEF WindowBuilt
  <2>3. "zero" \in Given(n, w, "minutes") <=> zero
    BY DEF Given, ZeroSaid, Keyed
  <2>4. zero => win["minutes"] = Nil
    <3> SUFFICES ASSUME zero, win["minutes"] # Nil PROVE FALSE
      OBVIOUS
    <3>1. PICK s \in input : Keyed(s, n, w, "minutes") /\ s.value = "zero"
      BY DEF ZeroSaid
    <3>2. PICK t \in input : Keyed(t, n, w, "minutes") /\ IsFact(t)
      BY <2>1, FieldsOf DEF WindowBuilt, Holds
    <3>3. s = t
      BY <1>1, <3>1, <3>2 DEF SameKey, Keyed
    <3> QED
      BY <3>1, <3>2, <3>3 DEF IsFact, Keyed
  <2>5. win["at"] # "zero"
    <3> SUFFICES ASSUME win["at"] = "zero" PROVE FALSE
      OBVIOUS
    <3>1. PICK s \in input : Keyed(s, n, w, "at") /\ s.value = "zero"
      BY <2>1, FieldsOf DEF WindowBuilt, Holds, Nil
    <3>2. s.window # Nil
      BY <1>3, <3>1 DEF Keyed, Windows, Nil
    <3>3. s.value \in FieldValues["at"]
      BY <1>1, <3>1, <3>2, SignalTypes DEF Keyed
    <3> QED
      BY <3>1, <3>3 DEF FieldValues
  <2>6. (win["zero"] = TRUE) <=> zero
    BY <2>1 DEF WindowBuilt, ZeroSaid
  <2>7. HasFact(win) <=>
          win["used"] # Nil \/ win["minutes"] # Nil \/ win["after"] # Nil \/ win["at"] # Nil
    BY FieldsOf DEF HasFact
  <2>8. ZeroPlaceholder(win) <=>
          /\ zero /\ win["used"] \in {Nil, "zero"} /\ win["after"] \in {Nil, "zero"}
          /\ win["at"] = Nil
    BY <2>1, <2>6 DEF ZeroPlaceholder, WindowBuilt, ZeroSaid
  <2>9. Shown(n, w) <=> \E f \in WindowFields :
                           win[f] # Nil /\ (zero => win[f] # "zero")
    BY <2>2, <2>3 DEF Shown
  <2> HIDE DEF zero
  <2>10. Shown(n, w) <=>
           \/ win["used"] # Nil /\ (zero => win["used"] # "zero")
           \/ win["minutes"] # Nil /\ (zero => win["minutes"] # "zero")
           \/ win["after"] # Nil /\ (zero => win["after"] # "zero")
           \/ win["at"] # Nil /\ (zero => win["at"] # "zero")
    BY <2>9, FieldsOf
  <2>11. Shown(n, w) <=> ~ ZeroPlaceholder(win) /\ HasFact(win)
    BY <2>4, <2>5, <2>7, <2>8, <2>10
  <2> QED
    BY <2>2, <2>11 DEF win
<1>6. KeptWindows(g) = {w \in Windows : Shown(n, w)}
  BY <1>3, <1>4, <1>5 DEF KeptWindows
<1>7. KeptWindows(g) \subseteq DOMAIN g.windows
  BY DEF KeptWindows
<1> QED
  BY <1>5, <1>6, <1>7 DEF g

\* The columns of the rows of a group.
LEMMA WindowColumns ==
    \A n, w :
        /\ WindowRow(n, w).group = n /\ WindowRow(n, w).kind = w
        /\ WindowRow(n, w).label = codexPassiveLabel(groups[n].windows[w].minutes)
        /\ WindowRow(n, w).facts = [f \in WindowFields |-> groups[n].windows[w][f]]
        /\ WindowRow(n, w).verdict = Verdict(groups[n])
  BY DEF WindowRow

LEMMA StateColumns ==
    \A n : /\ StateRow(n).group = n /\ StateRow(n).kind = "state"
           /\ StateRow(n).verdict = Verdict(groups[n])
  BY DEF StateRow

LEMMA RowsOfGroup ==
    \A n, r : r \in GroupRows(n) <=>
                 \/ \E w \in KeptWindows(groups[n]) : r = WindowRow(n, w)
                 \/ NeedsStateRow(groups[n]) /\ r = StateRow(n)
  BY DEF GroupRows

\* Rows with kinds of their own are as many as the kinds.
LEMMA AsManyAsKinds ==
    ASSUME NEW M, \A r, q \in M : r.kind = q.kind => r = q,
           \A r \in M : r.kind \in {"primary", "secondary", "state"}
    PROVE  Cardinality({r.kind : r \in M}) = Cardinality(M)
<1> DEFINE K == {r.kind : r \in M}
           f == [r \in M |-> r.kind]
<1>1. IsFiniteSet({"primary"})
  BY FS_Singleton
<1>2. IsFiniteSet({"primary"} \cup {"secondary"})
  BY <1>1, FS_AddElement
<1>3. IsFiniteSet(({"primary"} \cup {"secondary"}) \cup {"state"})
  BY <1>2, FS_AddElement
<1>4. K \in SUBSET (({"primary"} \cup {"secondary"}) \cup {"state"})
  OBVIOUS
<1>5. f \in Injection(M, K) /\ f \in Surjection(M, K)
  BY DEF Injection, Surjection, IsInjective
<1> HIDE DEF K, f
<1>6. IsFiniteSet(K)
  BY <1>3, <1>4, FS_Subset
<1>7. Cardinality(M) = Cardinality(K)
  BY <1>5, <1>6, FS_Injection
<1> QED
  BY <1>7 DEF K

\* Whatever order the signals are visited in, a finished observation shows the
\* windows with a fact and no other, with exactly their facts, and a group's
\* consistent verdict on each of its rows and on at least one.
THEOREM SpecPassiveRowsFaithful == PassiveSpec => []PassiveRowsFaithful
<1>1. ASSUME PassiveInv PROVE PassiveRowsFaithful
  <2> SUFFICES ASSUME stage = "done", NEW name \in Groups
               PROVE  LET allowed == Given(name, Nil, "allowed")
                          limit   == Given(name, Nil, "limit-reached")
                          mine    == {r \in rows : r.group = name}
                          said    == IF allowed = limit THEN {} ELSE allowed \cup limit
                      IN  /\ {r.kind : r \in mine} \ {"state"} = {w \in Windows : Shown(name, w)}
                          /\ \A r \in mine :
                                /\ r.kind \in Windows =>
                                      /\ r.facts = [f \in WindowFields |-> FactOf(name, r.kind, f)]
                                      /\ r.label \in {FiveHours, Weekly} <=>
                                            FactOf(name, r.kind, "minutes") = r.label
                                /\ {r.verdict.allowed, r.verdict.limit} \ {Nil} = said
                          /\ said # {} => mine # {}
                          /\ Cardinality({r.kind : r \in mine}) = Cardinality(mine)
    BY DEF PassiveRowsFaithful
  <2> DEFINE allowed == Given(name, Nil, "allowed")
             limit   == Given(name, Nil, "limit-reached")
             mine    == {r \in rows : r.group = name}
             said    == IF allowed = limit THEN {} ELSE allowed \cup limit
             shown   == {w \in Windows : Shown(name, w)}
  <2>1. input \subseteq Signals /\ Visited = input
    BY <1>1 DEF PassiveInv, Visited
  <2>2. rows = UNION {GroupRows(n) : n \in DOMAIN groups}
    BY <1>1 DEF PassiveInv
  <2>3. \A n, r : r \in GroupRows(n) => r.group = n
    BY RowsOfGroup, WindowColumns, StateColumns
  <2>4. \A r \in mine : r.kind \in Windows \cup {"state"}
    <3> SUFFICES ASSUME NEW r \in mine PROVE r.kind \in Windows \cup {"state"}
      OBVIOUS
    <3>1. PICK n \in DOMAIN groups : r \in GroupRows(n)
      BY <2>2
    <3>2. KeptWindows(groups[n]) \subseteq Windows
      BY <1>1, <3>1, KeptIsShown
    <3> QED
      BY <3>1, <3>2, RowsOfGroup, WindowColumns, StateColumns
  <2>5. CASE name \notin DOMAIN groups
    <3>1. mine = {}
      BY <2>2, <2>3, <2>5
    <3>2. \A s \in input : s.group # name
      BY <1>1, <2>1, <2>5 DEF PassiveInv
    <3>3. \A w, f : Holds(input, name, w, f, Nil)
      BY <3>2 DEF Holds, Keyed
    <3>4. \A w, f : FactOf(name, w, f) = Nil
      BY <2>1, <3>3, FactIs
    <3>5. shown = {}
      BY <3>4 DEF Shown
    <3>6. allowed = {} /\ limit = {}
      BY <3>2 DEF Given
    <3>7. said = {}
      BY <3>6
    <3>8. Cardinality({r.kind : r \in mine}) = Cardinality(mine)
      <4>1. {r.kind : r \in mine} = mine
        BY <3>1
      <4> QED
        BY <4>1
    <3>9. {r.kind : r \in mine} \ {"state"} = shown
      BY <3>1, <3>5
    <3> HIDE DEF mine, said, shown, allowed, limit
    <3>10. \A r \in mine : FALSE
      BY <3>1
    <3> QED
      BY <3>7, <3>8, <3>9, <3>10 DEF mine, said, shown, allowed, limit
  <2>6. CASE name \in DOMAIN groups
    <3> DEFINE g == groups[name]
               kept == KeptWindows(g)
    <3>1. GroupBuilt(input, g, name)
      BY <1>1, <2>1, <2>6 DEF PassiveInv
    <3>2. /\ kept = shown /\ kept \subseteq DOMAIN g.windows
          /\ \A w \in kept, f \in WindowFields : FactOf(name, w, f) = g.windows[w][f]
      BY <1>1, <2>6, KeptIsShown
    <3>3. mine = GroupRows(name)
      BY <2>2, <2>3, <2>6
    <3> HIDE DEF g
    <3>4. \A r : r \in mine <=> \/ \E w \in kept : r = WindowRow(name, w)
                                \/ NeedsStateRow(g) /\ r = StateRow(name)
      BY <3>3, RowsOfGroup DEF g
    <3> HIDE DEF kept, mine, shown
    <3>5. kept \subseteq Windows /\ "state" \notin Windows
      BY <3>2 DEF shown, Windows
    <3>6. {r.kind : r \in mine} \ {"state"} = shown
      <4>1. \A r \in mine : r.kind = "state" \/ r.kind \in kept
        BY <3>4, WindowColumns, StateColumns
      <4>2. \A w \in kept : \E r \in mine : r.kind = w
        BY <3>4, WindowColumns, StateColumns
      <4> QED
        BY <3>2, <3>5, <4>1, <4>2
    <3>7. \A r, q \in mine : r.kind = q.kind => r = q
      BY <3>4, <3>5, WindowColumns, StateColumns
    <3>8. Cardinality({r.kind : r \in mine}) = Cardinality(mine)
      <4>1. \A r \in mine : r.kind \in {"primary", "secondary", "state"}
        BY <2>4 DEF Windows, mine
      <4> QED
        BY <3>7, <4>1, AsManyAsKinds
    <3>9. ASSUME NEW r \in mine, r.kind \in Windows
          PROVE  /\ r.facts = [f \in WindowFields |-> FactOf(name, r.kind, f)]
                 /\ r.label \in {FiveHours, Weekly} <=> FactOf(name, r.kind, "minutes") = r.label
      <4>1. PICK w \in kept : r = WindowRow(name, w)
        BY <3>4, <3>5, <3>9, WindowColumns, StateColumns
      <4> DEFINE m == g.windows[w]["minutes"]
      <4>2. r.kind = w /\ r.label = codexPassiveLabel(m)
            /\ r.facts = [f \in WindowFields |-> g.windows[w][f]]
        BY <4>1, WindowColumns, StateColumns DEF g
      <4>3. r.facts = [f \in WindowFields |-> FactOf(name, w, f)]
        BY <3>2, <4>1, <4>2
      <4>4. FactOf(name, w, "minutes") = m
        BY <3>2, <4>1, FieldsOf
      <4>5. m # "Window"
        <5> SUFFICES ASSUME m = "Window" PROVE FALSE
          OBVIOUS
        <5>1. WindowBuilt(input, g.windows[w], name, w)
          BY <3>1, <3>2, <4>1 DEF GroupBuilt
        <5>2. PICK s \in input : Keyed(s, name, w, "minutes") /\ s.value = "Window"
          BY <5>1, FieldsOf DEF WindowBuilt, Holds, Nil
        <5>3. s.window # Nil
          BY <3>5, <4>1, <5>2 DEF Keyed, Windows, Nil
        <5>4. s.value \in FieldValues["minutes"]
          BY <2>1, <5>2, <5>3, SignalTypes DEF Keyed
        <5> QED
          BY <5>2, <5>4 DEF FieldValues, FiveHours, Weekly, OtherTime
      <4> HIDE DEF m
      <4>6. r.label \in {FiveHours, Weekly} <=> m = r.label
        BY <4>2, <4>5 DEF codexPassiveLabel, FiveHours, Weekly
      <4> QED
        BY <4>2, <4>3, <4>4, <4>6
    <3>10. /\ allowed = (IF g.allowed = Nil THEN {} ELSE {g.allowed})
           /\ limit = (IF g.limit = Nil THEN {} ELSE {g.limit})
      BY <2>1, <3>1, VerdictIs DEF GroupBuilt, GroupFields
    <3> HIDE DEF allowed, limit
    <3>11. {Verdict(g).allowed, Verdict(g).limit} \ {Nil} = said
      <4>1. CASE g.allowed # Nil /\ g.limit # Nil /\ g.allowed = g.limit
        <5>1. Verdict(g).allowed = Nil /\ Verdict(g).limit = Nil
          BY <4>1 DEF Verdict
        <5>2. said = {}
          BY <3>10, <4>1
        <5> QED
          BY <5>1, <5>2
      <4>2. CASE ~ (g.allowed # Nil /\ g.limit # Nil /\ g.allowed = g.limit)
        <5>1. Verdict(g).allowed = g.allowed /\ Verdict(g).limit = g.limit
          BY <4>2 DEF Verdict
        <5>2. allowed = limit => allowed = {} /\ limit = {}
          BY <3>10, <4>2
        <5>3. said = allowed \cup limit
          BY <5>2
        <5>4. {g.allowed, g.limit} \ {Nil} = allowed \cup limit
          BY <3>10
        <5> QED
          BY <5>1, <5>3, <5>4
      <4> QED
        BY <4>1, <4>2
    <3>12. \A r \in mine : {r.verdict.allowed, r.verdict.limit} \ {Nil} = said
      <4>1. \A r \in mine : r.verdict = Verdict(g)
        BY <3>4, WindowColumns, StateColumns DEF g
      <4> QED
        BY <3>11, <4>1
    <3>13. said # {} => mine # {}
      <4> SUFFICES ASSUME said # {} PROVE mine # {}
        OBVIOUS
      <4>1. Verdict(g).allowed # Nil \/ Verdict(g).limit # Nil
        BY <3>11
      <4>2. CASE kept = {}
        BY <3>4, <4>1, <4>2 DEF NeedsStateRow, kept
      <4>3. CASE kept # {}
        BY <3>4, <4>3
      <4> QED
        BY <4>2, <4>3
    <3> HIDE DEF said
    <3> QED
      BY <3>6, <3>8, <3>9, <3>12, <3>13 DEF mine, said, shown, allowed, limit
  <2> QED
    BY <2>5, <2>6
<1> QED
  BY <1>1, SpecPassiveInv, PTL

-----------------------------------------------------------------------------
(* QueueClient, for any number of messages, callers and commands that      *)
(* outlive their call, and any batch size.  The mutex is what the argument *)
(* rests on: only its holder has a command under way or messages in its    *)
(* hands, and only up to the connect has it sent nothing, which is where   *)
(* the fallback leaves to HTTP.                                            *)

\* Everybody else is before the mutex.
HolderOnly == \A c \in Callers : pc[c] \notin {"idle", "wait"} => lock = c

\* Commands sent so far in the current call.
SentBy(p) ==
    CASE p \in {"wait", "connect", "lpop", "get"} -> {0}
      [] p = "idle"                               -> {0, 1}
      [] OTHER                                    -> {1}

IssuedMatches == \A c \in Callers : issued[c] \in SentBy(pc[c])

\* Only an answer holds messages, and they have left the queue.
RepliesPopped ==
    \A c \in Callers :
        /\ pc[c] \notin {"reply", "httpReply"} => reply[c] = NoBatch
        /\ reply[c].from >= 1 /\ reply[c].to <= popped

QueueOK ==
    /\ popped <= arrived
    /\ returned \subseteq 1 .. popped
    /\ errored \subseteq 1 .. popped

\* NoSilentLoss, message by message.
Accounted ==
    \A m \in 1 .. popped :
        m \in returned \/ m \in errored \/ \E c \in Callers : m \in Batch(reply[c])

Apart ==
    /\ returned \cap errored = {}
    /\ \A c \in Callers : Batch(reply[c]) \cap (returned \cup errored) = {}

\* The inductive invariant.
PopInv ==
    /\ PopTypeOK /\ HolderOnly /\ IssuedMatches /\ RepliesPopped /\ QueueOK
    /\ Accounted /\ Apart

USE QueueClientAssumption
    DEF PopInv, PopTypeOK, PC, SentBy, NoBatch, None, Messages, Batch, queueVars

-----------------------------------------------------------------------------

LEMMA InitPopInv == PopInit => PopInv
<1> SUFFICES ASSUME PopInit PROVE PopInv
  OBVIOUS
<1> USE DEF PopInit
<1>1. PopTypeOK
  OBVIOUS
<1>2. HolderOnly /\ IssuedMatches /\ RepliesPopped /\ QueueOK
  BY DEF HolderOnly, IssuedMatches, RepliesPopped, QueueOK
<1>3. Accounted /\ Apart
  BY DEF Accounted, Apart
<1> QED
  BY <1>1, <1>2, <1>3

\* The server finds HeadCount messages to take.
LEMMA HeadCountThere ==
    ASSUME PopInv
    PROVE  HeadCount \in Nat /\ popped + HeadCount <= arrived
  BY DEF HeadCount, QueueOK

LEMMA ArriveStep ==
    ASSUME PopInv, Arrive
    PROVE  PopInv'
<1> USE DEF Arrive
<1>1. PopTypeOK' /\ HolderOnly' /\ IssuedMatches' /\ RepliesPopped'
  BY DEF HolderOnly, IssuedMatches, RepliesPopped
<1>2. QueueOK' /\ Accounted' /\ Apart'
  BY DEF QueueOK, Accounted, Apart
<1> QED
  BY <1>1, <1>2

\* The new batch lies behind everything popped so far.
LEMMA ServerPopsStep ==
    ASSUME PopInv, NEW c \in Callers, ServerPops(c)
    PROVE  PopInv'
<1> USE DEF ServerPops
<1>1. HeadCount \in Nat /\ popped' <= arrived /\ popped' = popped + HeadCount
  BY HeadCountThere
<1>2. PopTypeOK'
  BY <1>1
<1>3. HolderOnly' /\ IssuedMatches'
  BY DEF HolderOnly, IssuedMatches
<1>4. RepliesPopped' /\ QueueOK'
  BY <1>1 DEF RepliesPopped, QueueOK
<1>5. reply[c] = NoBatch /\ reply'[c] = [from |-> popped + 1, to |-> popped']
  BY DEF RepliesPopped
<1>6. \A d \in Callers : d # c => reply'[d] = reply[d]
  OBVIOUS
<1>7. Accounted'
  <2> SUFFICES ASSUME NEW m \in 1 .. popped'
               PROVE  m \in returned \/ m \in errored \/ \E d \in Callers : m \in Batch(reply'[d])
    BY DEF Accounted
  <2>1. CASE m <= popped
    <3>1. m \in returned \/ m \in errored \/ \E d \in Callers : m \in Batch(reply[d])
      BY <2>1, <1>1 DEF Accounted
    <3> QED
      BY <3>1, <1>5, <1>6
  <2>2. CASE m > popped
    BY <2>2, <1>1, <1>5
  <2> QED
    BY <2>1, <2>2, <1>1
<1>8. Apart'
  BY <1>1, <1>5, <1>6 DEF Apart, QueueOK
<1> QED
  BY <1>2, <1>3, <1>4, <1>7, <1>8

LEMMA ServerPopsLateStep ==
    ASSUME PopInv, ServerPopsLate
    PROVE  PopInv'
<1> USE DEF ServerPopsLate
<1>1. PICK n \in {0, HeadCount} : popped' = popped + n /\ errored' = errored \cup (popped + 1 .. popped + n)
  OBVIOUS
<1>2. n \in Nat /\ popped' <= arrived
  BY <1>1, HeadCountThere DEF QueueOK
<1>3. QueueOK'
  BY <1>1, <1>2 DEF QueueOK
<1>4. PopTypeOK'
  BY <1>1, <1>2, <1>3 DEF QueueOK
<1>5. HolderOnly' /\ IssuedMatches' /\ RepliesPopped'
  BY <1>1, <1>2 DEF HolderOnly, IssuedMatches, RepliesPopped
<1>6. Accounted'
  BY <1>1, <1>2 DEF Accounted
<1>7. Apart'
  BY <1>1, <1>2 DEF Apart, QueueOK, RepliesPopped
<1> QED
  BY <1>3, <1>4, <1>5, <1>6, <1>7

\* Calling, locking, connecting, falling back and sending move no message.
LEMMA CallerStep ==
    ASSUME PopInv, NEW c \in Callers,
           Call(c) \/ Lock(c) \/ Connect(c) \/ FallBack(c) \/ Send(c)
    PROVE  PopInv'
<1> USE DEF Call, Lock, Enter, Connect, FallBack, Send
<1>1. PopTypeOK'
  BY DEF IssuedMatches
<1>2. HolderOnly'
  BY DEF HolderOnly
<1>3. IssuedMatches'
  BY DEF IssuedMatches
<1>4. RepliesPopped' /\ QueueOK' /\ Accounted' /\ Apart'
  BY ZenonT(60) DEF RepliesPopped, QueueOK, Accounted, Apart
<1> QED
  BY <1>1, <1>2, <1>3, <1>4

\* A call returns: its messages are returned or written off.
LEMMA ReturnStep ==
    ASSUME PopInv, NEW c \in Callers, pc[c] \notin {"idle", "wait"},
           NEW ok \in BOOLEAN, Return(c, ok), UNCHANGED <<arrived, popped, issued>>,
           late' \in 0 .. MaxLate, mode' \in {"unset", "redis", "http"}
    PROVE  PopInv'
<1> USE DEF Return
<1>1. reply'[c] = NoBatch /\ \A d \in Callers : d # c => reply'[d] = reply[d]
  OBVIOUS
<1>2. Batch(reply[c]) \subseteq 1 .. popped
  BY DEF RepliesPopped
<1>3. returned' \cup errored' = returned \cup errored \cup Batch(reply[c])
  OBVIOUS
<1>4. QueueOK'
  BY <1>2 DEF QueueOK
<1>5. PopTypeOK'
  BY <1>4 DEF QueueOK
<1>6. HolderOnly' /\ IssuedMatches' /\ RepliesPopped'
  BY DEF HolderOnly, IssuedMatches, RepliesPopped
<1>7. Accounted'
  BY <1>1, <1>3 DEF Accounted
<1>8. Apart'
  <2>1. returned' \cap errored' = {}
    BY DEF Apart
  <2>2. \A d \in Callers : Batch(reply'[d]) \cap (returned' \cup errored') = {}
    <3> SUFFICES ASSUME NEW d \in Callers
                 PROVE  Batch(reply'[d]) \cap (returned \cup errored \cup Batch(reply[c])) = {}
      BY <1>3
    <3>1. CASE d = c
      BY <3>1, <1>1
    <3>2. CASE d # c
      <4>1. reply'[d] = reply[d] /\ reply[d] = NoBatch
        BY <3>2, <1>1 DEF HolderOnly, RepliesPopped
      <4> QED
        BY <4>1
    <3> QED
      BY <3>1, <3>2
  <2> QED
    BY <2>1, <2>2 DEF Apart
<1> QED
  BY <1>4, <1>5, <1>6, <1>7, <1>8

\* The invariant is preserved by every step.
LEMMA NextPopInv == PopInv /\ [PopNext]_popVars => PopInv'
<1> SUFFICES ASSUME PopInv, [PopNext]_popVars PROVE PopInv'
  OBVIOUS
<1>1. CASE Arrive
  BY <1>1, ArriveStep
<1>2. CASE ServerPopsLate
  BY <1>2, ServerPopsLateStep
<1>3. ASSUME NEW c \in Callers, ServerPops(c) PROVE PopInv'
  BY <1>3, ServerPopsStep
<1>4. ASSUME NEW c \in Callers,
             Call(c) \/ Lock(c) \/ Connect(c) \/ FallBack(c) \/ Send(c)
      PROVE  PopInv'
  BY <1>4, CallerStep
<1>5. ASSUME NEW c \in Callers,
             ConnectFails(c) \/ GiveUp(c) \/ ServerRefuses(c) \/ ReplyLost(c)
      PROVE  PopInv'
  <2>1. Return(c, FALSE) /\ pc[c] \notin {"idle", "wait"}
    BY <1>5 DEF ConnectFails, GiveUp, ServerRefuses, ReplyLost
  <2>2. UNCHANGED <<arrived, popped, issued, mode>>
    BY <1>5 DEF ConnectFails, GiveUp, ServerRefuses, ReplyLost
  <2>3. late' = late \/ (late < MaxLate /\ late' = late + 1)
    BY <1>5 DEF ConnectFails, GiveUp, ServerRefuses, ReplyLost
  <2>4. late' \in 0 .. MaxLate
    BY <2>3
  <2> QED
    BY <2>1, <2>2, <2>4, ReturnStep
<1>6. ASSUME NEW c \in Callers, ReadReply(c) PROVE PopInv'
  <2>1. Return(c, TRUE) /\ pc[c] \notin {"idle", "wait"}
    BY <1>6 DEF ReadReply
  <2>2. UNCHANGED <<arrived, popped, issued, late>> /\ mode' \in {"unset", "redis", "http"}
    BY <1>6 DEF ReadReply, ModeAfter
  <2> QED
    BY <2>1, <2>2, ReturnStep
<1>7. CASE UNCHANGED popVars
  <2> USE <1>7 DEF popVars
  <2>1. PopTypeOK' /\ HolderOnly' /\ IssuedMatches' /\ RepliesPopped'
    BY DEF HolderOnly, IssuedMatches, RepliesPopped
  <2>2. QueueOK' /\ Accounted' /\ Apart'
    BY DEF QueueOK, Accounted, Apart
  <2> QED
    BY <2>1, <2>2
<1> QED
  BY <1>1, <1>2, <1>3, <1>4, <1>5, <1>6, <1>7 DEF PopNext, Step

LEMMA SpecPopInv == PopSpec => []PopInv
  BY InitPopInv, NextPopInv, PTL DEF PopSpec

-----------------------------------------------------------------------------

\* Every variable keeps its type.
THEOREM SpecPopTypeOK == PopSpec => []PopTypeOK
<1>1. PopInv => PopTypeOK
  OBVIOUS
<1> QED
  BY <1>1, SpecPopInv, PTL

\* PopUsage never sends a second destructive command in one call, over
\* whichever transports it goes.
THEOREM SpecOneCommandPerCall == PopSpec => []OneCommandPerCall
<1>1. PopInv => OneCommandPerCall
  BY DEF IssuedMatches, OneCommandPerCall
<1> QED
  BY <1>1, SpecPopInv, PTL

\* Every message that has left the queue was returned by a successful call,
\* belongs to a call that reported an error, or is in the hands of the holder
\* of the mutex, and of these only one.
THEOREM SpecNoSilentLoss == PopSpec => []NoSilentLoss
<1>1. ASSUME PopInv PROVE NoSilentLoss
  <2> DEFINE InHand == UNION {Batch(reply[c]) : c \in Callers}
  <2>1. \A m : m \in InHand <=> \E c \in Callers : m \in Batch(reply[c])
    OBVIOUS
  <2> HIDE DEF InHand
  <2>2. InHand \subseteq 1 .. popped
    <3>1. \A c \in Callers : Batch(reply[c]) \subseteq 1 .. popped
      BY <1>1 DEF RepliesPopped
    <3> QED
      BY <2>1, <3>1
  <2>3. returned \cup errored \subseteq 1 .. popped
    BY <1>1 DEF QueueOK
  <2>4. 1 .. popped \subseteq returned \cup errored \cup InHand
    BY <1>1, <2>1 DEF Accounted
  <2>5. 1 .. popped = returned \cup errored \cup InHand
    BY <2>2, <2>3, <2>4
  <2> QED
    BY <1>1, <2>5 DEF NoSilentLoss, Apart, InHand
<1> QED
  BY <1>1, SpecPopInv, PTL

-----------------------------------------------------------------------------
(* The refinement of UsageDelivery. *)

fateOf == [m \in Messages |-> FateOf(m)]

\* What a step that puts the messages of S, all of fates in From, into fate
\* to does to the abstract state.
Moves(S, From, to) ==
    /\ S \subseteq Messages
    /\ \A m \in S : FateOf(m) \in From /\ FateOf(m)' = to
    /\ \A m \in Messages \ S : FateOf(m)' = FateOf(m)

LEMMA MovesMove ==
    ASSUME NEW S, NEW From, NEW to, Moves(S, From, to)
    PROVE  S \in SUBSET Messages /\ Delivery!Move(S, From, to)
  BY DEF Moves, Delivery!Move

\* Arrive sends a message.
LEMMA ArriveSends ==
    ASSUME PopInv, Arrive
    PROVE  Moves({arrived + 1}, {"unsent"}, "queued")
  BY DEF Arrive, Moves, FateOf, QueueOK

\* The server takes messages for a caller.
LEMMA ServerTakes ==
    ASSUME PopInv, NEW c \in Callers, ServerPops(c)
    PROVE  Moves(popped + 1 .. popped + HeadCount, {"queued"}, "held")
<1>1. HeadCount \in Nat /\ popped + HeadCount <= arrived
  BY HeadCountThere
<1>2. popped' = popped + HeadCount /\ UNCHANGED <<arrived, errored>>
  BY DEF ServerPops
<1> QED
  BY <1>1, <1>2 DEF Moves, FateOf, QueueOK

\* It takes messages for a call that has ended: they are dropped.
LEMMA ServerDrops ==
    ASSUME PopInv, ServerPopsLate
    PROVE  \E n \in Nat : Moves(popped + 1 .. popped + n, {"queued"}, "dropped")
<1>1. PICK n \in {0, HeadCount} : popped' = popped + n /\ errored' = errored \cup (popped + 1 .. popped + n)
  BY DEF ServerPopsLate
<1>2. n \in Nat /\ popped + n <= arrived
  BY <1>1, HeadCountThere DEF QueueOK
<1>3. UNCHANGED arrived
  BY DEF ServerPopsLate
<1>4. Moves(popped + 1 .. popped + n, {"queued"}, "dropped")
  BY <1>1, <1>2, <1>3 DEF Moves, FateOf, QueueOK
<1> QED
  BY <1>2, <1>4

\* A failed call drops what it had been answered.
LEMMA FailureDrops ==
    ASSUME PopInv, NEW c \in Callers, Return(c, FALSE), UNCHANGED <<arrived, popped>>
    PROVE  Moves(Batch(reply[c]), {"held"}, "dropped")
<1>1. errored' = errored \cup Batch(reply[c])
  BY DEF Return
<1>2. Batch(reply[c]) \subseteq 1 .. popped /\ Batch(reply[c]) \cap errored = {}
  BY DEF RepliesPopped, Apart
<1> QED
  BY <1>1, <1>2 DEF Moves, FateOf, QueueOK

\* Every step of the client and of the server is a step of UsageDelivery or
\* leaves the fates as they are: a message is taken from the queue at most
\* once, and one that was given up never comes back.
THEOREM SpecImplementsDelivery == PopSpec => ImplementsDelivery
<1>1. PopInit => Delivery!Init
  BY DEF PopInit, Delivery!Init, FateOf
<1>2. PopInv /\ [PopNext]_popVars => [Delivery!Next]_fateOf
  <2> SUFFICES ASSUME PopInv, [PopNext]_popVars PROVE Delivery!Next \/ UNCHANGED fateOf
    OBVIOUS
  <2>1. CASE Arrive
    BY <2>1, ArriveSends, MovesMove DEF Delivery!Next, Delivery!Send
  <2>2. ASSUME NEW c \in Callers, ServerPops(c) PROVE Delivery!Next
    BY <2>2, ServerTakes, MovesMove DEF Delivery!Next, Delivery!Take
  <2>3. ASSUME NEW S, Moves(S, {"queued"}, "dropped") \/ Moves(S, {"held"}, "dropped")
        PROVE  Delivery!Next
    <3>1. Moves(S, {"queued", "held", "stored"}, "dropped")
      BY <2>3 DEF Moves
    <3> QED
      BY <3>1, MovesMove DEF Delivery!Next, Delivery!Drop
  <2>4. CASE ServerPopsLate
    BY <2>4, <2>3, ServerDrops
  <2>5. ASSUME NEW c \in Callers,
               ConnectFails(c) \/ GiveUp(c) \/ ServerRefuses(c) \/ ReplyLost(c)
        PROVE  Delivery!Next
    <3>1. Return(c, FALSE) /\ UNCHANGED <<arrived, popped>>
      BY <2>5 DEF ConnectFails, GiveUp, ServerRefuses, ReplyLost
    <3> QED
      BY <3>1, <2>3, FailureDrops
  <2>6. ASSUME UNCHANGED <<arrived, popped, errored>> PROVE UNCHANGED fateOf
    BY <2>6 DEF fateOf, FateOf
  <2>7. ASSUME NEW c \in Callers,
               \/ Call(c) \/ Lock(c) \/ Connect(c) \/ FallBack(c) \/ Send(c)
               \/ ReadReply(c)
        PROVE  UNCHANGED fateOf
    <3>1. UNCHANGED <<arrived, popped, errored>>
      BY <2>7 DEF Call, Lock, Enter, Connect, FallBack, Send, ReadReply, Return
    <3> QED
      BY <3>1, <2>6
  <2>8. CASE UNCHANGED popVars
    BY <2>8, <2>6 DEF popVars
  <2> QED
    BY <2>1, <2>2, <2>4, <2>5, <2>7, <2>8 DEF PopNext, Step
<1> QED
  BY <1>1, <1>2, SpecPopInv, PTL DEF PopSpec, ImplementsDelivery, Delivery!Spec, fateOf

=============================================================================
