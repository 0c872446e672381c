---------------------------- MODULE QuotaRefresh ----------------------------
(***************************************************************************)
(* Quota checks: asynchronous refresh tasks with their workers, the        *)
(* synchronous check endpoint, and the latest observation persisted for    *)
(* each auth file (quota/refresh.go, quota/refresh_task_store.go,          *)
(* quota/service.go, quota/repository.go,                                  *)
(* repository/quota_observations.go).                                      *)
(*                                                                         *)
(* One step is one critical section of the lifecycle lock or of the task   *)
(* store's lock, one database transaction, one provider call, or one       *)
(* channel operation.  A task id is its sequence number; a worker is named *)
(* by the id of its task.  What the provider answers is reduced to the     *)
(* time at which the answer was observed.                                  *)
(***************************************************************************)
EXTENDS Naturals, FiniteSets

CONSTANTS
    Auths,         \* auth indexes
    NoAuth,        \* none of them
    MaxTasks,      \* bound: tasks ever created
    WorkerLimit,   \* defaultRefreshWorkerLimit
    Requests,      \* concurrent POST /quota/refresh requests
    Callers,       \* concurrent POST /quota/check requests
    MaxClock       \* bound: the last value of the clock

Tasks    == 1 .. MaxTasks
Checkers == Tasks \cup Callers
NoTask   == 0
Never    == 0      \* the zero time

ASSUME QuotaRefreshAssumption ==
    /\ NoAuth \notin Auths
    /\ MaxTasks \in Nat
    /\ WorkerLimit \in Nat \ {0}
    /\ MaxClock \in Nat \ {0}
    /\ Callers \cap Tasks = {}

VARIABLES
    (* refreshTaskStore *)
    seq,          \* the last task id handed out
    status,       \* Status of a task, "absent" when the map has no such task
    expired,      \* tasks whose ExpiresAt has passed
    result,       \* Quota of a task: when it was observed
    activeTask,   \* activeTaskIDsByAuth
    (* Service *)
    closed,       \* refreshWorkersClose
    stopping,     \* how far StopRefreshWorkers is
    tokens,       \* refreshWorkerTokens in use
    (* goroutines *)
    pc,           \* what each checker does next
    auth,         \* the auth index of a task, or of a caller's check
    observedAt,   \* the observation a checker holds
    valid,        \* the auth index a request has validated, not started yet
    (* database and time *)
    active,       \* auth indexes with an active auth-file identity
    observed,     \* quota_observations.observed_at
    clock

storeVars   == <<seq, status, expired, result, activeTask>>
serviceVars == <<closed, stopping, tokens>>
checkVars   == <<pc, auth, observedAt>>
requestVars == <<valid>>
dbVars      == <<active, observed, clock>>
vars        == <<seq, status, expired, result, activeTask, closed, stopping,
                 tokens, pc, auth, observedAt, valid, active, observed, clock>>

Status == {"absent", "queued", "running", "completed", "failed"}
PC     == {"idle", "token", "start", "find", "provider", "save",
           "succeeded", "erred", "release"}

TypeOK ==
    /\ seq \in 0 .. MaxTasks
    /\ status \in [Tasks -> Status]
    /\ expired \subseteq Tasks
    /\ result \in [Tasks -> 0 .. MaxClock]
    /\ activeTask \in [Auths -> Tasks \cup {NoTask}]
    /\ closed \in BOOLEAN
    /\ stopping \in {"no", "waiting", "stopped"}
    /\ tokens \in 0 .. WorkerLimit
    /\ pc \in [Checkers -> PC]
    /\ auth \in [Checkers -> Auths \cup {NoAuth}]
    /\ observedAt \in [Checkers -> 0 .. MaxClock]
    /\ valid \in [Requests -> Auths \cup {NoAuth}]
    /\ active \subseteq Auths
    /\ observed \in [Auths -> 0 .. MaxClock]
    /\ clock \in 1 .. MaxClock

Init ==
    /\ seq = 0
    /\ status = [t \in Tasks |-> "absent"]
    /\ expired = {}
    /\ result = [t \in Tasks |-> Never]
    /\ activeTask = [a \in Auths |-> NoTask]
    /\ closed = FALSE
    /\ stopping = "no"
    /\ tokens = 0
    /\ pc = [c \in Checkers |-> "idle"]
    /\ auth = [c \in Checkers |-> NoAuth]
    /\ observedAt = [c \in Checkers |-> Never]
    /\ valid = [r \in Requests |-> NoAuth]
    /\ active = Auths
    /\ observed = [a \in Auths |-> Never]
    /\ clock = 1

-----------------------------------------------------------------------------
(* The task store. *)

IsActive(t) == status[t] \in {"queued", "running"}

\* A plausible bug: the index entry goes with any expired task of the auth.
CleanupExpiredAnyIndex ==
    /\ status' = [t \in Tasks |-> IF t \in expired THEN "absent" ELSE status[t]]
    /\ activeTask' = [a \in Auths |->
          IF \E t \in expired : status[t] # "absent" /\ auth[t] = a
            THEN NoTask ELSE activeTask[a]]
    /\ expired' = {}
    /\ result' = [t \in Tasks |-> IF t \in expired THEN Never ELSE result[t]]
    /\ UNCHANGED seq

\* cleanupExpired, called by Refresh and by GetRefreshTask.
CleanupExpired ==
    /\ status' = [t \in Tasks |-> IF t \in expired THEN "absent" ELSE status[t]]
    /\ activeTask' = [a \in Auths |->
          IF activeTask[a] \in expired THEN NoTask ELSE activeTask[a]]
    /\ expired' = {}
    /\ result' = [t \in Tasks |-> IF t \in expired THEN Never ELSE result[t]]
    /\ UNCHANGED seq

\* The TTL of a finished task passes.
Expire(t) ==
    /\ status[t] \in {"completed", "failed"}
    /\ t \notin expired
    /\ expired' = expired \cup {t}
    /\ UNCHANGED <<seq, status, result, activeTask, serviceVars, checkVars,
                   requestVars, dbVars>>

GetRefreshTask ==
    /\ CleanupExpired
    /\ UNCHANGED <<serviceVars, checkVars, requestVars, dbVars>>

-----------------------------------------------------------------------------
(* Refresh handles the auth indexes of a request one by one: validate,     *)
(* then create a task.  A rejected index (over the limit, not an active    *)
(* auth file, no quota provider) and a failing lookup, which ends the      *)
(* request, leave the tasks created so far alone and change nothing.       *)

\* The first index of a request is preceded by the cleanup.
Validate(r, a) ==
    /\ valid[r] = NoAuth
    /\ a \in active
    /\ valid' = [valid EXCEPT ![r] = a]
    /\ CleanupExpired \/ UNCHANGED storeVars
    /\ UNCHANGED <<serviceVars, checkVars, dbVars>>

\* refreshWorkerCtx is done.
Cancelled == stopping # "no"

Admits == ~ closed /\ ~ Cancelled

\* enqueue's test for an existing task.
HasActive(a) == activeTask[a] # NoTask /\ IsActive(activeTask[a])

\* startRefreshTask, refused: closing, or the auth has an active task.
StartRefused(r) ==
    /\ valid[r] # NoAuth
    /\ ~ Admits \/ HasActive(valid[r])
    /\ valid' = [valid EXCEPT ![r] = NoAuth]
    /\ UNCHANGED <<storeVars, serviceVars, checkVars, dbVars>>

\* startRefreshTask: the task, its index entry and its worker.
StartRefreshTask(r) ==
    LET t == seq + 1 IN
    /\ valid[r] # NoAuth
    /\ Admits
    /\ ~ HasActive(valid[r])
    /\ seq < MaxTasks
    /\ seq' = t
    /\ status' = [status EXCEPT ![t] = "queued"]
    /\ activeTask' = [activeTask EXCEPT ![valid[r]] = t]
    /\ auth' = [auth EXCEPT ![t] = valid[r]]
    /\ pc' = [pc EXCEPT ![t] = "token"]
    /\ valid' = [valid EXCEPT ![r] = NoAuth]
    /\ UNCHANGED <<expired, result, serviceVars, observedAt, dbVars>>

-----------------------------------------------------------------------------
(* runRefreshTask, the worker of task t. *)

AcquireToken(t) ==
    /\ pc[t] = "token"
    /\ tokens < WorkerLimit
    /\ tokens' = tokens + 1
    /\ pc' = [pc EXCEPT ![t] = "start"]
    /\ UNCHANGED <<storeVars, closed, stopping, auth, observedAt,
                   requestVars, dbVars>>

\* A plausible bug: a worker that gives up leaves its task as it is.
CancelledWaitingUnmarked(t) ==
    /\ pc[t] = "token"
    /\ Cancelled
    /\ pc' = [pc EXCEPT ![t] = "idle"]
    /\ UNCHANGED <<storeVars, serviceVars, auth, observedAt, requestVars, dbVars>>

\* The worker context ends first (or both are ready and select takes it).
CancelledWaiting(t) ==
    /\ pc[t] = "token"
    /\ Cancelled
    /\ status' = [status EXCEPT ![t] = IF @ = "absent" THEN @ ELSE "failed"]
    /\ pc' = [pc EXCEPT ![t] = "idle"]
    /\ UNCHANGED <<seq, expired, result, activeTask, serviceVars, auth,
                   observedAt, requestVars, dbVars>>

MarkRunning(t) ==
    /\ pc[t] = "start"
    /\ IF status[t] = "queued"
         THEN /\ status' = [status EXCEPT ![t] = "running"]
              /\ pc' = [pc EXCEPT ![t] = "find"]
         ELSE /\ pc' = [pc EXCEPT ![t] = "release"]
              /\ UNCHANGED status
    /\ UNCHANGED <<seq, expired, result, activeTask, serviceVars, auth,
                   observedAt, requestVars, dbVars>>

\* A plausible bug: the failing path does not give its token back.
MarkFailedLeaking(t) ==
    /\ pc[t] = "erred"
    /\ status' = [status EXCEPT ![t] = IF @ = "absent" THEN @ ELSE "failed"]
    /\ pc' = [pc EXCEPT ![t] = "idle"]
    /\ UNCHANGED <<seq, expired, result, activeTask, serviceVars, auth,
                   observedAt, requestVars, dbVars>>

\* markFailed and markCompleted do not look at the status.
MarkFailed(t) ==
    /\ pc[t] = "erred"
    /\ status' = [status EXCEPT ![t] = IF @ = "absent" THEN @ ELSE "failed"]
    /\ pc' = [pc EXCEPT ![t] = "release"]
    /\ UNCHANGED <<seq, expired, result, activeTask, serviceVars, auth,
                   observedAt, requestVars, dbVars>>

MarkCompleted(t) ==
    /\ pc[t] = "succeeded"
    /\ status' = [status EXCEPT ![t] = IF @ = "absent" THEN @ ELSE "completed"]
    /\ result' = [result EXCEPT ![t] = observedAt[t]]
    /\ pc' = [pc EXCEPT ![t] = "release"]
    /\ UNCHANGED <<seq, expired, activeTask, serviceVars, auth, observedAt,
                   requestVars, dbVars>>

\* A plausible bug: the release sends to the channel instead of receiving.
ReleaseWorkerSending(t) ==
    /\ pc[t] = "release"
    /\ tokens < WorkerLimit
    /\ tokens' = tokens + 1
    /\ pc' = [pc EXCEPT ![t] = "idle"]
    /\ UNCHANGED <<storeVars, closed, stopping, auth, observedAt, requestVars,
                   dbVars>>

\* The deferred releases: the token, then the wait group.
ReleaseWorker(t) ==
    /\ pc[t] = "release"
    /\ tokens' = tokens - 1
    /\ pc' = [pc EXCEPT ![t] = "idle"]
    /\ observedAt' = [observedAt EXCEPT ![t] = Never]
    /\ UNCHANGED <<storeVars, closed, stopping, auth, requestVars, dbVars>>

-----------------------------------------------------------------------------
(* Check, by a worker or by a request of its own. *)

BeginCheck(c, a) ==
    /\ pc[c] = "idle"
    /\ pc' = [pc EXCEPT ![c] = "find"]
    /\ auth' = [auth EXCEPT ![c] = a]
    /\ UNCHANGED <<storeVars, serviceVars, observedAt, requestVars, dbVars>>

EndCheck(c) ==
    /\ c \in Callers
    /\ pc[c] \in {"succeeded", "erred"}
    /\ pc' = [pc EXCEPT ![c] = "idle"]
    /\ auth' = [auth EXCEPT ![c] = NoAuth]
    /\ observedAt' = [observedAt EXCEPT ![c] = Never]
    /\ UNCHANGED <<storeVars, serviceVars, requestVars, dbVars>>

FindIdentity(c) ==
    /\ pc[c] = "find"
    /\ auth[c] \in active
    /\ pc' = [pc EXCEPT ![c] = "provider"]
    /\ UNCHANGED <<storeVars, serviceVars, auth, observedAt, requestVars, dbVars>>

\* The provider has answered with usable rows.
Observe(c) ==
    /\ pc[c] = "provider"
    /\ observedAt' = [observedAt EXCEPT ![c] = clock]
    /\ pc' = [pc EXCEPT ![c] = "save"]
    /\ UNCHANGED <<storeVars, serviceVars, auth, requestVars, dbVars>>

\* A plausible bug: the last writer wins.
NewerAlways(c) == TRUE

\* The condition of the upsert; a first observation is always inserted.
Newer(c) == observedAt[c] > observed[auth[c]]

\* SaveQuotaObservation: the identity is checked in the same transaction.
Save(c) ==
    /\ pc[c] = "save"
    /\ auth[c] \in active
    /\ observed' = [observed EXCEPT ![auth[c]] =
                       IF Newer(c) THEN observedAt[c] ELSE @]
    /\ pc' = [pc EXCEPT ![c] = "succeeded"]
    /\ UNCHANGED <<storeVars, serviceVars, auth, observedAt, requestVars,
                   active, clock>>

\* A plausible bug: the error of the save is dropped.
CheckFailsIgnored(c) ==
    /\ pc[c] \in {"find", "provider", "save"}
    /\ pc' = [pc EXCEPT ![c] = IF @ = "save" THEN "succeeded" ELSE "erred"]
    /\ UNCHANGED <<storeVars, serviceVars, auth, observedAt, requestVars, dbVars>>

\* Any of the three calls fails: an error, a timeout, a cancelled context, or
\* an identity that is not (any more) active.
CheckFails(c) ==
    /\ pc[c] \in {"find", "provider", "save"}
    /\ pc' = [pc EXCEPT ![c] = "erred"]
    /\ UNCHANGED <<storeVars, serviceVars, auth, observedAt, requestVars, dbVars>>

-----------------------------------------------------------------------------
(* Shutdown. *)

CloseRefreshAdmission ==
    /\ closed' = TRUE
    /\ UNCHANGED <<storeVars, stopping, tokens, checkVars,
                   requestVars, dbVars>>

StopRefreshWorkers ==
    /\ stopping = "no"
    /\ closed' = TRUE
    /\ stopping' = "waiting"
    /\ UNCHANGED <<storeVars, tokens, checkVars, requestVars, dbVars>>

\* The wait group is empty.
StopReturns ==
    /\ stopping = "waiting"
    /\ \A t \in Tasks : pc[t] = "idle"
    /\ stopping' = "stopped"
    /\ UNCHANGED <<storeVars, closed, tokens, checkVars,
                   requestVars, dbVars>>

-----------------------------------------------------------------------------
(* The environment: time, and metadata sync that removes and restores the  *)
(* identity of an auth file.                                               *)

Tick ==
    /\ clock < MaxClock
    /\ clock' = clock + 1
    /\ UNCHANGED <<storeVars, serviceVars, checkVars, requestVars, active,
                   observed>>

SyncIdentity(a) ==
    /\ active' = IF a \in active THEN active \ {a} ELSE active \cup {a}
    /\ UNCHANGED <<storeVars, serviceVars, checkVars, requestVars, observed,
                   clock>>

CheckStep(c) ==
    FindIdentity(c) \/ Observe(c) \/ Save(c) \/ CheckFails(c)

WorkerStep(t) ==
    AcquireToken(t) \/ CancelledWaiting(t) \/ MarkRunning(t) \/ CheckStep(t)
    \/ MarkFailed(t) \/ MarkCompleted(t) \/ ReleaseWorker(t)

Next ==
    \/ \E t \in Tasks : Expire(t) \/ WorkerStep(t)
    \/ GetRefreshTask
    \/ \E r \in Requests :
        StartRefused(r) \/ StartRefreshTask(r) \/ \E a \in Auths : Validate(r, a)
    \/ \E c \in Callers :
        CheckStep(c) \/ EndCheck(c) \/ \E a \in Auths : BeginCheck(c, a)
    \/ CloseRefreshAdmission
    \/ StopRefreshWorkers
    \/ StopReturns
    \/ Tick
    \/ \E a \in Auths : SyncIdentity(a)

Spec == Init /\ [][Next]_vars

\* Goroutines keep running, a call ends within its timeout, and a worker that
\* waits for a token gets one if tokens become free again and again.
Fairness ==
    /\ \A t \in Tasks : WF_vars(WorkerStep(t)) /\ SF_vars(AcquireToken(t))
    /\ WF_vars(StopReturns)

FairSpec == Spec /\ Fairness

-----------------------------------------------------------------------------
Live(t) == pc[t] # "idle"

\* An auth index never has two tasks in progress, although expiry, cleanup
\* and new requests run at any time (enqueue's deduplication).
OneActiveTaskPerAuth ==
    \A t, u \in Tasks : t # u /\ IsActive(t) /\ IsActive(u) => auth[t] # auth[u]

\* startRefreshTask: "an accepted task is always taken over by a worker".  An
\* unfinished task has a worker, and once StopRefreshWorkers has returned
\* there is neither: no client polls a task that will never finish.
AcceptedTaskHasWorker ==
    /\ \A t \in Tasks : IsActive(t) => Live(t)
    /\ stopping = "stopped" => \A t \in Tasks : ~ Live(t)

\* A completed task stands for a persisted observation at least as new.
CompletedIsPersisted ==
    \A t \in Tasks : status[t] = "completed" => Never < result[t] /\
        result[t] <= observed[auth[t]]

\* The stored observation never goes back in time, whatever the order in
\* which concurrent checks of one auth file save theirs, and nothing is
\* stored for an identity that is gone.
ObservationAdvances ==
    [][\A a \in Auths : observed'[a] # observed[a] =>
        observed'[a] > observed[a] /\ a \in active]_vars

\* Every accepted task finishes.
TasksFinish == \A t \in Tasks : IsActive(t) ~> ~ IsActive(t)

\* StopRefreshWorkers returns.
StopEnds == (stopping = "waiting") ~> (stopping = "stopped")

=============================================================================
