------------------------- MODULE QuotaRefreshProofs -------------------------
(***************************************************************************)
(* Proofs about QuotaRefresh for any sets of auth files, requests and      *)
(* callers, any number of tasks and any number of worker tokens.           *)
(*                                                                         *)
(* The index activeTaskIDsByAuth is what keeps tasks apart: a task in      *)
(* progress is the entry of its auth, so enqueue, which looks only there,  *)
(* finds it.  That a cleanup never removes such an entry rests on the      *)
(* expired tasks being finished ones, and this on the agreement between    *)
(* the status of a task and the place of its worker.                       *)
(***************************************************************************)
EXTENDS QuotaRefresh, TLAPS, FiniteSetTheorems

\* Tasks that were not created yet have left no trace.
FutureTasks ==
    \A t \in Tasks : t > seq =>
        status[t] = "absent" /\ pc[t] = "idle" /\ observedAt[t] = Never

Checking == {"find", "provider", "save", "succeeded", "erred"}

\* Where the worker of a task is, given its status.
StatusOf(p) ==
    CASE p \in {"token", "start"} -> {"queued"}
      [] p \in Checking           -> {"running"}
      [] OTHER                    -> {"absent", "completed", "failed"}

WorkerMatchesStatus == \A t \in Tasks : status[t] \in StatusOf(pc[t])

\* Only finished tasks expire.
ExpiredFinished == \A t \in expired : status[t] \in {"completed", "failed"}

\* A task in progress is the entry of its auth in activeTaskIDsByAuth.
ActiveIndexed ==
    \A t \in Tasks : IsActive(t) => auth[t] \in Auths /\ activeTask[auth[t]] = t

\* Whoever is at work has an auth; a caller never waits for a token.
AtWork ==
    /\ \A c \in Checkers : pc[c] # "idle" => auth[c] \in Auths
    /\ \A t \in Tasks : status[t] # "absent" => auth[t] \in Auths
    /\ \A c \in Callers : pc[c] \in {"idle"} \cup Checking

\* What a checker has saved is in the database, or something newer.
Saved ==
    \A c \in Checkers :
        /\ pc[c] \in {"save", "succeeded"} => Never < observedAt[c]
        /\ pc[c] = "succeeded" => observedAt[c] <= observed[auth[c]]

\* Workers stop for good.
Stopping ==
    /\ Cancelled => closed
    /\ stopping = "stopped" => \A t \in Tasks : pc[t] = "idle"

\* refreshWorkerTokens: every token in use is held by one worker.
Holders == {t \in Tasks : pc[t] \in {"start", "release"} \cup Checking}

TokensHeld == tokens = Cardinality(Holders)

\* The inductive invariant.
IInv ==
    /\ TypeOK /\ FutureTasks /\ WorkerMatchesStatus /\ ExpiredFinished
    /\ ActiveIndexed /\ AtWork /\ Saved /\ CompletedIsPersisted
    /\ Stopping /\ TokensHeld

USE QuotaRefreshAssumption
    DEF IInv, TypeOK, Tasks, Checkers, Never, NoTask, Status, PC, Checking,
        StatusOf, storeVars, serviceVars, checkVars, requestVars, dbVars

-----------------------------------------------------------------------------

LEMMA HoldersFinite == IsFiniteSet(Holders) /\ Cardinality(Holders) \in Nat
<1>1. IsFiniteSet(Tasks)
  BY FS_Interval
<1>2. Holders \subseteq Tasks
  BY DEF Holders
<1> QED
  BY <1>1, <1>2, FS_Subset, FS_CardinalityType

LEMMA InitIInv == Init => IInv
<1> SUFFICES ASSUME Init PROVE IInv
  OBVIOUS
<1> USE DEF Init
<1>1. TypeOK /\ FutureTasks /\ WorkerMatchesStatus /\ ExpiredFinished
  <2>1. TypeOK
    <3>1. /\ seq \in 0 .. MaxTasks /\ tokens \in 0 .. WorkerLimit
          /\ clock \in 1 .. MaxClock
      OBVIOUS
    <3>2. /\ result \in [Tasks -> 0 .. MaxClock]
          /\ observedAt \in [Checkers -> 0 .. MaxClock]
          /\ observed \in [Auths -> 0 .. MaxClock]
      OBVIOUS
    <3>3. closed \in BOOLEAN
      OBVIOUS
    <3> QED
      BY <3>1, <3>2, <3>3
  <2>2. FutureTasks /\ WorkerMatchesStatus /\ ExpiredFinished
    BY DEF FutureTasks, WorkerMatchesStatus, ExpiredFinished
  <2> QED
    BY <2>1, <2>2
<1>2. ActiveIndexed /\ AtWork /\ Saved /\ CompletedIsPersisted
  BY DEF ActiveIndexed, IsActive, AtWork, Saved, CompletedIsPersisted
<1>3. Stopping
  BY DEF Stopping, Cancelled
<1>4. TokensHeld
  <2>1. Holders = {}
    BY DEF Holders
  <2> QED
    BY <2>1, FS_EmptySet DEF TokensHeld
<1> QED
  BY <1>1, <1>2, <1>3, <1>4

\* Only finished tasks expire, and nobody depends on them.
LEMMA ExpireStep ==
    ASSUME IInv, NEW t \in Tasks, Expire(t)
    PROVE  IInv'
<1> USE DEF Expire
<1>1. TypeOK'
  BY DEF TypeOK
<1>2. FutureTasks' /\ WorkerMatchesStatus' /\ ExpiredFinished'
  BY DEF FutureTasks, WorkerMatchesStatus, ExpiredFinished
<1>3. ActiveIndexed' /\ AtWork'
  BY DEF ActiveIndexed, IsActive, AtWork, FutureTasks, WorkerMatchesStatus
<1>4. Saved' /\ CompletedIsPersisted'
  BY DEF Saved, CompletedIsPersisted, AtWork, FutureTasks, WorkerMatchesStatus
<1>5. Stopping'
  BY DEF Stopping, Cancelled, AtWork
<1>6. TokensHeld'
  <2>1. Holders' = Holders
    BY DEF Holders, WorkerMatchesStatus, AtWork, FutureTasks
  <2> QED
    BY <2>1 DEF TokensHeld
<1> QED
  BY <1>1, <1>2, <1>3, <1>4, <1>5, <1>6 DEF IInv

\* cleanupExpired removes finished tasks and no index entry of a task in
\* progress; a request may validate an auth in the same step.
LEMMA CleanupStep ==
    ASSUME IInv, CleanupExpired,
           UNCHANGED <<serviceVars, checkVars, dbVars>>,
           valid' \in [Requests -> Auths \cup {NoAuth}]
    PROVE  IInv'
<1> USE DEF CleanupExpired
<1>1. TypeOK'
  BY DEF TypeOK
<1>2. FutureTasks' /\ WorkerMatchesStatus' /\ ExpiredFinished'
  <2>1. FutureTasks' /\ ExpiredFinished'
    BY DEF FutureTasks, ExpiredFinished
  <2>2. WorkerMatchesStatus'
    <3> SUFFICES ASSUME NEW t \in Tasks PROVE status'[t] \in StatusOf(pc[t])
      BY DEF WorkerMatchesStatus
    <3>1. CASE t \in expired
      BY <3>1 DEF ExpiredFinished, WorkerMatchesStatus
    <3>2. CASE t \notin expired
      BY <3>2 DEF WorkerMatchesStatus
    <3> QED
      BY <3>1, <3>2
  <2> QED
    BY <2>1, <2>2
<1>3. ActiveIndexed' /\ AtWork'
  BY DEF ActiveIndexed, IsActive, AtWork, FutureTasks, WorkerMatchesStatus
<1>4. Saved' /\ CompletedIsPersisted'
  BY DEF Saved, CompletedIsPersisted, AtWork, FutureTasks, WorkerMatchesStatus
<1>5. Stopping'
  BY DEF Stopping, Cancelled, AtWork
<1>6. TokensHeld'
  <2>1. Holders' = Holders
    BY DEF Holders, WorkerMatchesStatus, AtWork, FutureTasks
  <2> QED
    BY <2>1 DEF TokensHeld
<1> QED
  BY <1>1, <1>2, <1>3, <1>4, <1>5, <1>6 DEF IInv

\* A request that only validates, or is refused.
LEMMA ValidatedStep ==
    ASSUME IInv, UNCHANGED <<storeVars, serviceVars, checkVars, dbVars>>,
           valid' \in [Requests -> Auths \cup {NoAuth}]
    PROVE  IInv'
<1> USE DEF storeVars
<1>1. TypeOK'
  BY DEF TypeOK
<1>2. FutureTasks' /\ WorkerMatchesStatus' /\ ExpiredFinished'
  BY DEF FutureTasks, WorkerMatchesStatus, ExpiredFinished
<1>3. ActiveIndexed' /\ AtWork'
  BY DEF ActiveIndexed, IsActive, AtWork, FutureTasks, WorkerMatchesStatus
<1>4. Saved' /\ CompletedIsPersisted'
  BY DEF Saved, CompletedIsPersisted, AtWork, FutureTasks, WorkerMatchesStatus
<1>5. Stopping'
  BY DEF Stopping, Cancelled, AtWork
<1>6. TokensHeld'
  <2>1. Holders' = Holders
    BY DEF Holders, WorkerMatchesStatus, AtWork, FutureTasks
  <2> QED
    BY <2>1 DEF TokensHeld
<1> QED
  BY <1>1, <1>2, <1>3, <1>4, <1>5, <1>6 DEF IInv

\* A new task: enqueue has seen the entry of its auth, so no other task of the
\* auth is in progress.
LEMMA StartRefreshTaskStep ==
    ASSUME IInv, NEW r \in Requests, StartRefreshTask(r)
    PROVE  IInv'
<1> USE DEF StartRefreshTask, Admits, HasActive
<1>1. TypeOK'
  BY DEF TypeOK
<1>2. FutureTasks' /\ WorkerMatchesStatus' /\ ExpiredFinished'
  BY DEF FutureTasks, WorkerMatchesStatus, ExpiredFinished
<1>3. ActiveIndexed' /\ AtWork'
  BY DEF ActiveIndexed, IsActive, AtWork, FutureTasks, WorkerMatchesStatus
<1>4. Saved' /\ CompletedIsPersisted'
  BY DEF Saved, CompletedIsPersisted, AtWork, FutureTasks, WorkerMatchesStatus
<1>5. Stopping'
  BY DEF Stopping, Cancelled, AtWork
<1>6. TokensHeld'
  <2>1. Holders' = Holders
    <3>1. seq + 1 \in Tasks /\ pc[seq + 1] = "idle"
      BY DEF FutureTasks
    <3>2. \A t \in Tasks : pc'[t] = IF t = seq + 1 THEN "token" ELSE pc[t]
      BY <3>1
    <3> QED
      BY <3>1, <3>2 DEF Holders
  <2> QED
    BY <2>1 DEF TokensHeld
<1> QED
  BY <1>1, <1>2, <1>3, <1>4, <1>5, <1>6 DEF IInv

LEMMA AcquireTokenStep ==
    ASSUME IInv, NEW t \in Tasks, AcquireToken(t)
    PROVE  IInv'
<1> USE DEF AcquireToken
<1>1. TypeOK'
  BY DEF TypeOK
<1>2. FutureTasks' /\ WorkerMatchesStatus' /\ ExpiredFinished'
  BY DEF FutureTasks, WorkerMatchesStatus, ExpiredFinished
<1>3. ActiveIndexed' /\ AtWork'
  BY DEF ActiveIndexed, IsActive, AtWork, FutureTasks, WorkerMatchesStatus
<1>4. Saved' /\ CompletedIsPersisted'
  BY DEF Saved, CompletedIsPersisted, AtWork, FutureTasks, WorkerMatchesStatus
<1>5. Stopping'
  BY DEF Stopping, Cancelled, AtWork
<1>6. TokensHeld'
  <2>1. Holders' = Holders \cup {t} /\ t \notin Holders
    BY DEF Holders
  <2> QED
    BY <2>1, HoldersFinite, FS_AddElement DEF TokensHeld
<1> QED
  BY <1>1, <1>2, <1>3, <1>4, <1>5, <1>6 DEF IInv

LEMMA CancelledWaitingStep ==
    ASSUME IInv, NEW t \in Tasks, CancelledWaiting(t)
    PROVE  IInv'
<1> USE DEF CancelledWaiting
<1>1. TypeOK'
  BY DEF TypeOK
<1>2. FutureTasks' /\ WorkerMatchesStatus' /\ ExpiredFinished'
  BY DEF FutureTasks, WorkerMatchesStatus, ExpiredFinished
<1>3. ActiveIndexed' /\ AtWork'
  BY DEF ActiveIndexed, IsActive, AtWork, FutureTasks, WorkerMatchesStatus
<1>4. Saved' /\ CompletedIsPersisted'
  BY DEF Saved, CompletedIsPersisted, AtWork, FutureTasks, WorkerMatchesStatus
<1>5. Stopping'
  BY DEF Stopping, Cancelled, AtWork
<1>6. TokensHeld'
  <2>1. Holders' = Holders
    BY DEF Holders, WorkerMatchesStatus, AtWork, FutureTasks
  <2> QED
    BY <2>1 DEF TokensHeld
<1> QED
  BY <1>1, <1>2, <1>3, <1>4, <1>5, <1>6 DEF IInv

LEMMA MarkRunningStep ==
    ASSUME IInv, NEW t \in Tasks, MarkRunning(t)
    PROVE  IInv'
<1> USE DEF MarkRunning
<1> status[t] = "queued"
  BY DEF WorkerMatchesStatus
<1>1. TypeOK'
  BY DEF TypeOK
<1>2. FutureTasks' /\ WorkerMatchesStatus' /\ ExpiredFinished'
  BY DEF FutureTasks, WorkerMatchesStatus, ExpiredFinished
<1>3. ActiveIndexed' /\ AtWork'
  <2>1. ActiveIndexed'
    BY DEF ActiveIndexed, IsActive
  <2>2. AtWork'
    BY DEF AtWork
  <2> QED
    BY <2>1, <2>2
<1>4. Saved' /\ CompletedIsPersisted'
  BY DEF Saved, CompletedIsPersisted, AtWork, FutureTasks, WorkerMatchesStatus
<1>5. Stopping'
  BY DEF Stopping, Cancelled, AtWork
<1>6. TokensHeld'
  <2>1. Holders' = Holders
    BY DEF Holders, WorkerMatchesStatus, AtWork, FutureTasks
  <2> QED
    BY <2>1 DEF TokensHeld
<1> QED
  BY <1>1, <1>2, <1>3, <1>4, <1>5, <1>6 DEF IInv

LEMMA MarkFailedStep ==
    ASSUME IInv, NEW t \in Tasks, MarkFailed(t)
    PROVE  IInv'
<1> USE DEF MarkFailed
<1>1. TypeOK'
  BY DEF TypeOK
<1>2. FutureTasks' /\ WorkerMatchesStatus' /\ ExpiredFinished'
  BY DEF FutureTasks, WorkerMatchesStatus, ExpiredFinished
<1>3. ActiveIndexed' /\ AtWork'
  BY DEF ActiveIndexed, IsActive, AtWork, FutureTasks, WorkerMatchesStatus
<1>4. Saved' /\ CompletedIsPersisted'
  BY DEF Saved, CompletedIsPersisted, AtWork, FutureTasks, WorkerMatchesStatus
<1>5. Stopping'
  BY DEF Stopping, Cancelled, AtWork
<1>6. TokensHeld'
  <2>1. Holders' = Holders
    BY DEF Holders, WorkerMatchesStatus, AtWork, FutureTasks
  <2> QED
    BY <2>1 DEF TokensHeld
<1> QED
  BY <1>1, <1>2, <1>3, <1>4, <1>5, <1>6 DEF IInv

\* The answer of a completed task has been saved before.
LEMMA MarkCompletedStep ==
    ASSUME IInv, NEW t \in Tasks, MarkCompleted(t)
    PROVE  IInv'
<1> USE DEF MarkCompleted
<1>1. TypeOK'
  BY DEF TypeOK
<1>2. FutureTasks' /\ WorkerMatchesStatus' /\ ExpiredFinished'
  BY DEF FutureTasks, WorkerMatchesStatus, ExpiredFinished
<1>3. ActiveIndexed' /\ AtWork'
  BY DEF ActiveIndexed, IsActive, AtWork, FutureTasks, WorkerMatchesStatus
<1>4. Saved' /\ CompletedIsPersisted'
  <2>1. Saved'
    BY DEF Saved
  <2>2. Never < observedAt[t] /\ observedAt[t] <= observed[auth[t]]
    BY DEF Saved
  <2>3. CompletedIsPersisted'
    BY <2>2 DEF CompletedIsPersisted
  <2> QED
    BY <2>1, <2>3
<1>5. Stopping'
  BY DEF Stopping, Cancelled, AtWork
<1>6. TokensHeld'
  <2>1. Holders' = Holders
    BY DEF Holders, WorkerMatchesStatus, AtWork, FutureTasks
  <2> QED
    BY <2>1 DEF TokensHeld
<1> QED
  BY <1>1, <1>2, <1>3, <1>4, <1>5, <1>6 DEF IInv

\* The released token was one of those in use.
LEMMA ReleaseWorkerStep ==
    ASSUME IInv, NEW t \in Tasks, ReleaseWorker(t)
    PROVE  IInv'
<1> USE DEF ReleaseWorker
<1>1. TypeOK'
  <2>1. t \in Holders
    BY DEF Holders
  <2>2. tokens # 0
    BY <2>1, HoldersFinite, FS_EmptySet DEF TokensHeld
  <2> QED
    BY <2>2 DEF TypeOK
<1>2. FutureTasks' /\ WorkerMatchesStatus' /\ ExpiredFinished'
  BY DEF FutureTasks, WorkerMatchesStatus, ExpiredFinished
<1>3. ActiveIndexed' /\ AtWork'
  BY DEF ActiveIndexed, IsActive, AtWork, FutureTasks, WorkerMatchesStatus
<1>4. Saved' /\ CompletedIsPersisted'
  BY DEF Saved, CompletedIsPersisted, AtWork, FutureTasks, WorkerMatchesStatus
<1>5. Stopping'
  BY DEF Stopping, Cancelled, AtWork
<1>6. TokensHeld'
  <2>1. Holders' = Holders \ {t} /\ t \in Holders
    BY DEF Holders
  <2> QED
    BY <2>1, HoldersFinite, FS_RemoveElement DEF TokensHeld
<1> QED
  BY <1>1, <1>2, <1>3, <1>4, <1>5, <1>6 DEF IInv

LEMMA BeginCheckStep ==
    ASSUME IInv, NEW c \in Callers, NEW a \in Auths, BeginCheck(c, a)
    PROVE  IInv'
<1> USE DEF BeginCheck
<1>1. TypeOK'
  BY DEF TypeOK
<1>2. FutureTasks' /\ WorkerMatchesStatus' /\ ExpiredFinished'
  BY DEF FutureTasks, WorkerMatchesStatus, ExpiredFinished
<1>3. ActiveIndexed' /\ AtWork'
  BY DEF ActiveIndexed, IsActive, AtWork, FutureTasks, WorkerMatchesStatus
<1>4. Saved' /\ CompletedIsPersisted'
  BY DEF Saved, CompletedIsPersisted, AtWork, FutureTasks, WorkerMatchesStatus
<1>5. Stopping'
  BY DEF Stopping, Cancelled, AtWork
<1>6. TokensHeld'
  <2>1. Holders' = Holders
    BY DEF Holders, WorkerMatchesStatus, AtWork, FutureTasks
  <2> QED
    BY <2>1 DEF TokensHeld
<1> QED
  BY <1>1, <1>2, <1>3, <1>4, <1>5, <1>6 DEF IInv

LEMMA EndCheckStep ==
    ASSUME IInv, NEW c \in Callers, EndCheck(c)
    PROVE  IInv'
<1> USE DEF EndCheck
<1>1. TypeOK'
  BY DEF TypeOK
<1>2. FutureTasks' /\ WorkerMatchesStatus' /\ ExpiredFinished'
  BY DEF FutureTasks, WorkerMatchesStatus, ExpiredFinished
<1>3. ActiveIndexed' /\ AtWork'
  BY DEF ActiveIndexed, IsActive, AtWork, FutureTasks, WorkerMatchesStatus
<1>4. Saved' /\ CompletedIsPersisted'
  BY DEF Saved, CompletedIsPersisted, AtWork, FutureTasks, WorkerMatchesStatus
<1>5. Stopping'
  BY DEF Stopping, Cancelled, AtWork
<1>6. TokensHeld'
  <2>1. Holders' = Holders
    BY DEF Holders, WorkerMatchesStatus, AtWork, FutureTasks
  <2> QED
    BY <2>1 DEF TokensHeld
<1> QED
  BY <1>1, <1>2, <1>3, <1>4, <1>5, <1>6 DEF IInv

LEMMA FindIdentityStep ==
    ASSUME IInv, NEW c \in Checkers, FindIdentity(c)
    PROVE  IInv'
<1> USE DEF FindIdentity
<1>1. TypeOK'
  BY DEF TypeOK
<1>2. FutureTasks' /\ WorkerMatchesStatus' /\ ExpiredFinished'
  BY DEF FutureTasks, WorkerMatchesStatus, ExpiredFinished
<1>3. ActiveIndexed' /\ AtWork'
  BY DEF ActiveIndexed, IsActive, AtWork, FutureTasks, WorkerMatchesStatus
<1>4. Saved' /\ CompletedIsPersisted'
  BY DEF Saved, CompletedIsPersisted, AtWork, FutureTasks, WorkerMatchesStatus
<1>5. Stopping'
  BY DEF Stopping, Cancelled, AtWork
<1>6. TokensHeld'
  <2>1. Holders' = Holders
    BY DEF Holders, WorkerMatchesStatus, AtWork, FutureTasks
  <2> QED
    BY <2>1 DEF TokensHeld
<1> QED
  BY <1>1, <1>2, <1>3, <1>4, <1>5, <1>6 DEF IInv

LEMMA ObserveStep ==
    ASSUME IInv, NEW c \in Checkers, Observe(c)
    PROVE  IInv'
<1> USE DEF Observe
<1>1. TypeOK'
  BY DEF TypeOK
<1>2. FutureTasks' /\ WorkerMatchesStatus' /\ ExpiredFinished'
  BY DEF FutureTasks, WorkerMatchesStatus, ExpiredFinished
<1>3. ActiveIndexed' /\ AtWork'
  BY DEF ActiveIndexed, IsActive, AtWork, FutureTasks, WorkerMatchesStatus
<1>4. Saved' /\ CompletedIsPersisted'
  BY DEF Saved, CompletedIsPersisted, AtWork, FutureTasks, WorkerMatchesStatus
<1>5. Stopping'
  BY DEF Stopping, Cancelled, AtWork
<1>6. TokensHeld'
  <2>1. Holders' = Holders
    BY DEF Holders, WorkerMatchesStatus, AtWork, FutureTasks
  <2> QED
    BY <2>1 DEF TokensHeld
<1> QED
  BY <1>1, <1>2, <1>3, <1>4, <1>5, <1>6 DEF IInv

\* An older answer leaves the newer observation in place.
LEMMA SaveStep ==
    ASSUME IInv, NEW c \in Checkers, Save(c)
    PROVE  IInv'
<1> USE DEF Save, Newer
<1>1. TypeOK'
  BY DEF TypeOK
<1>2. FutureTasks' /\ WorkerMatchesStatus' /\ ExpiredFinished'
  BY DEF FutureTasks, WorkerMatchesStatus, ExpiredFinished
<1>3. ActiveIndexed' /\ AtWork'
  BY DEF ActiveIndexed, IsActive, AtWork, FutureTasks, WorkerMatchesStatus
<1>4. Saved' /\ CompletedIsPersisted'
  BY DEF Saved, CompletedIsPersisted, AtWork, FutureTasks, WorkerMatchesStatus
<1>5. Stopping'
  BY DEF Stopping, Cancelled, AtWork
<1>6. TokensHeld'
  <2>1. Holders' = Holders
    BY DEF Holders, WorkerMatchesStatus, AtWork, FutureTasks
  <2> QED
    BY <2>1 DEF TokensHeld
<1> QED
  BY <1>1, <1>2, <1>3, <1>4, <1>5, <1>6 DEF IInv

LEMMA CheckFailsStep ==
    ASSUME IInv, NEW c \in Checkers, CheckFails(c)
    PROVE  IInv'
<1> USE DEF CheckFails
<1>1. TypeOK'
  BY DEF TypeOK
<1>2. FutureTasks' /\ WorkerMatchesStatus' /\ ExpiredFinished'
  BY DEF FutureTasks, WorkerMatchesStatus, ExpiredFinished
<1>3. ActiveIndexed' /\ AtWork'
  BY DEF ActiveIndexed, IsActive, AtWork, FutureTasks, WorkerMatchesStatus
<1>4. Saved' /\ CompletedIsPersisted'
  BY DEF Saved, CompletedIsPersisted, AtWork, FutureTasks, WorkerMatchesStatus
<1>5. Stopping'
  BY DEF Stopping, Cancelled, AtWork
<1>6. TokensHeld'
  <2>1. Holders' = Holders
    BY DEF Holders, WorkerMatchesStatus, AtWork, FutureTasks
  <2> QED
    BY <2>1 DEF TokensHeld
<1> QED
  BY <1>1, <1>2, <1>3, <1>4, <1>5, <1>6 DEF IInv

\* CloseRefreshAdmission, StopRefreshWorkers and StopReturns.
LEMMA ShutdownStep ==
    ASSUME IInv, CloseRefreshAdmission \/ StopRefreshWorkers \/ StopReturns
    PROVE  IInv'
<1> USE DEF CloseRefreshAdmission, StopRefreshWorkers, StopReturns
<1>1. TypeOK'
  BY DEF TypeOK
<1>2. FutureTasks' /\ WorkerMatchesStatus' /\ ExpiredFinished'
  BY DEF FutureTasks, WorkerMatchesStatus, ExpiredFinished
<1>3. ActiveIndexed' /\ AtWork'
  BY DEF ActiveIndexed, IsActive, AtWork, FutureTasks, WorkerMatchesStatus
<1>4. Saved' /\ CompletedIsPersisted'
  BY DEF Saved, CompletedIsPersisted, AtWork, FutureTasks, WorkerMatchesStatus
<1>5. Stopping'
  BY DEF Stopping, Cancelled, AtWork
<1>6. TokensHeld'
  <2>1. Holders' = Holders
    BY DEF Holders, WorkerMatchesStatus, AtWork, FutureTasks
  <2> QED
    BY <2>1 DEF TokensHeld
<1> QED
  BY <1>1, <1>2, <1>3, <1>4, <1>5, <1>6 DEF IInv

\* Time and metadata sync.
LEMMA EnvironmentStep ==
    ASSUME IInv, Tick \/ \E a \in Auths : SyncIdentity(a)
    PROVE  IInv'
<1> USE DEF Tick, SyncIdentity
<1>1. TypeOK'
  <2>1. CASE Tick
    BY <2>1 DEF TypeOK
  <2>2. CASE \E a \in Auths : SyncIdentity(a)
    BY <2>2 DEF TypeOK
  <2> QED
    BY <2>1, <2>2
<1>2. FutureTasks' /\ WorkerMatchesStatus' /\ ExpiredFinished'
  BY DEF FutureTasks, WorkerMatchesStatus, ExpiredFinished
<1>3. ActiveIndexed' /\ AtWork'
  BY DEF ActiveIndexed, IsActive, AtWork, FutureTasks, WorkerMatchesStatus
<1>4. Saved' /\ CompletedIsPersisted'
  BY DEF Saved, CompletedIsPersisted, AtWork, FutureTasks, WorkerMatchesStatus
<1>5. Stopping'
  BY DEF Stopping, Cancelled, AtWork
<1>6. TokensHeld'
  <2>1. Holders' = Holders
    BY DEF Holders, WorkerMatchesStatus, AtWork, FutureTasks
  <2> QED
    BY <2>1 DEF TokensHeld
<1> QED
  BY <1>1, <1>2, <1>3, <1>4, <1>5, <1>6 DEF IInv

LEMMA CheckStepStep ==
    ASSUME IInv, NEW c \in Checkers, CheckStep(c)
    PROVE  IInv'
  BY FindIdentityStep, ObserveStep, SaveStep, CheckFailsStep DEF CheckStep

LEMMA WorkerStepStep ==
    ASSUME IInv, NEW t \in Tasks, WorkerStep(t)
    PROVE  IInv'
<1>1. CASE CheckStep(t)
  BY <1>1, CheckStepStep
<1> QED
  BY <1>1, AcquireTokenStep, CancelledWaitingStep, MarkRunningStep,
     MarkFailedStep, MarkCompletedStep, ReleaseWorkerStep DEF WorkerStep

\* The invariant is preserved by every step.
LEMMA NextIInv == IInv /\ [Next]_vars => IInv'
<1> SUFFICES ASSUME IInv, [Next]_vars PROVE IInv'
  OBVIOUS
<1>1. ASSUME NEW t \in Tasks, Expire(t) \/ WorkerStep(t) PROVE IInv'
  BY <1>1, ExpireStep, WorkerStepStep
<1>2. CASE GetRefreshTask
  BY <1>2, CleanupStep DEF GetRefreshTask
<1>3. ASSUME NEW r \in Requests, StartRefused(r) PROVE IInv'
  BY <1>3, ValidatedStep DEF StartRefused
<1>4. ASSUME NEW r \in Requests, StartRefreshTask(r) PROVE IInv'
  BY <1>4, StartRefreshTaskStep
<1>5. ASSUME NEW r \in Requests, NEW a \in Auths, Validate(r, a) PROVE IInv'
  <2>1. valid' \in [Requests -> Auths \cup {NoAuth}]
    BY <1>5 DEF Validate
  <2>2. CASE CleanupExpired
    BY <1>5, <2>1, <2>2, CleanupStep DEF Validate
  <2>3. CASE UNCHANGED storeVars
    BY <1>5, <2>1, <2>3, ValidatedStep DEF Validate
  <2> QED
    BY <1>5, <2>2, <2>3 DEF Validate
<1>6. ASSUME NEW c \in Callers, CheckStep(c) PROVE IInv'
  BY <1>6, CheckStepStep
<1>7. ASSUME NEW c \in Callers, EndCheck(c) PROVE IInv'
  BY <1>7, EndCheckStep
<1>8. ASSUME NEW c \in Callers, NEW a \in Auths, BeginCheck(c, a) PROVE IInv'
  BY <1>8, BeginCheckStep
<1>9. CASE CloseRefreshAdmission \/ StopRefreshWorkers \/ StopReturns
  BY <1>9, ShutdownStep
<1>10. CASE Tick \/ \E a \in Auths : SyncIdentity(a)
  BY <1>10, EnvironmentStep
<1>11. CASE UNCHANGED vars
  BY <1>11, ValidatedStep DEF vars
<1> QED
  BY <1>1, <1>2, <1>3, <1>4, <1>5, <1>6, <1>7, <1>8, <1>9, <1>10, <1>11 DEF Next

LEMMA SpecIInv == Spec => []IInv
  BY InitIInv, NextIInv, PTL DEF Spec

-----------------------------------------------------------------------------

\* Every variable keeps its type; in particular a worker gives back only a
\* token it holds, so refreshWorkerTokens stays within its capacity.
THEOREM SpecTypeOK == Spec => []TypeOK
<1>1. IInv => TypeOK
  OBVIOUS
<1> QED
  BY <1>1, SpecIInv, PTL

\* As many tokens are in use as there are workers between taking and giving
\* back theirs: no path of runRefreshTask leaks one.
THEOREM SpecTokensHeld == Spec => []TokensHeld
<1>1. IInv => TokensHeld
  OBVIOUS
<1> QED
  BY <1>1, SpecIInv, PTL

\* No auth ever has two refresh tasks in progress.
THEOREM SpecOneActiveTaskPerAuth == Spec => []OneActiveTaskPerAuth
<1>1. IInv => OneActiveTaskPerAuth
  BY DEF ActiveIndexed, OneActiveTaskPerAuth
<1> QED
  BY <1>1, SpecIInv, PTL

\* An unfinished task has a worker, and after StopRefreshWorkers there is
\* neither.
THEOREM SpecAcceptedTaskHasWorker == Spec => []AcceptedTaskHasWorker
<1>1. IInv => AcceptedTaskHasWorker
  BY DEF WorkerMatchesStatus, Stopping, AcceptedTaskHasWorker, IsActive, Live
<1> QED
  BY <1>1, SpecIInv, PTL

\* The answer of a completed task, or a newer one, is in the database.
THEOREM SpecCompletedIsPersisted == Spec => []CompletedIsPersisted
<1>1. IInv => CompletedIsPersisted
  OBVIOUS
<1> QED
  BY <1>1, SpecIInv, PTL

\* The stored observation of an auth never goes back in time and is written
\* only while the identity is active (SaveQuotaObservation's condition).
THEOREM SpecObservationAdvances == Spec => ObservationAdvances
<1> DEFINE Advances == \A a \in Auths : observed'[a] # observed[a] =>
                           observed'[a] > observed[a] /\ a \in active
<1>1. ASSUME IInv, NEW c \in Checkers, CheckStep(c) PROVE Advances
  <2>1. CASE Save(c)
    BY <1>1, <2>1 DEF Save, Newer
  <2> QED
    BY <1>1, <2>1 DEF CheckStep, FindIdentity, Observe, CheckFails
<1>2. IInv /\ [Next]_vars => [Advances]_vars
  <2> SUFFICES ASSUME IInv, Next PROVE Advances
    BY DEF vars
  <2>1. ASSUME NEW t \in Tasks, Expire(t) \/ WorkerStep(t) PROVE Advances
    BY <1>1, <2>1 DEF Expire, WorkerStep, AcquireToken, CancelledWaiting,
       MarkRunning, MarkFailed, MarkCompleted, ReleaseWorker
  <2>2. ASSUME NEW r \in Requests,
               StartRefused(r) \/ StartRefreshTask(r) \/ \E a \in Auths : Validate(r, a)
        PROVE  Advances
    BY <2>2 DEF StartRefused, StartRefreshTask, Validate
  <2>3. ASSUME NEW c \in Callers,
               CheckStep(c) \/ EndCheck(c) \/ \E a \in Auths : BeginCheck(c, a)
        PROVE  Advances
    BY <1>1, <2>3 DEF EndCheck, BeginCheck
  <2>4. CASE \/ GetRefreshTask \/ CloseRefreshAdmission \/ StopRefreshWorkers
             \/ StopReturns \/ Tick \/ \E a \in Auths : SyncIdentity(a)
    BY <2>4 DEF GetRefreshTask, CloseRefreshAdmission, StopRefreshWorkers,
       StopReturns, Tick, SyncIdentity
  <2> QED
    BY <2>1, <2>2, <2>3, <2>4 DEF Next
<1> QED
  BY <1>2, SpecIInv, PTL DEF Spec, ObservationAdvances

=============================================================================
