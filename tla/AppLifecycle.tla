----------------------------- MODULE AppLifecycle ----------------------------
(***************************************************************************)
(* The process lifecycle owned by internal/app: start, HTTP admission, the *)
(* manual sync command, and the shutdown that drains handlers, quota       *)
(* refresh workers and background runners before the database and the log  *)
(* are closed (app/app.go, app/manual_sync.go, cmd/server/main.go).        *)
(*                                                                         *)
(* One step is one critical section of a lock, one channel or wait group   *)
(* operation, or one call of the HTTP server or of a shared resource.  An  *)
(* admitted handler, a live worker and a running background runner may use *)
(* the database at any time.                                               *)
(***************************************************************************)
EXTENDS Naturals, FiniteSets

CONSTANTS
    Requests,    \* concurrent HTTP requests
    Workers,     \* bound: quota refresh workers that may exist at once
    Runners,     \* background runners: poller, cleanup, metadata, backup, ...
    Closers,     \* other goroutines that call Close
    Main         \* the goroutine that calls Run

None  == "none"
Calls == Closers \cup {Main}

ASSUME AppLifecycleAssumption == Main \notin Closers /\ None \notin Calls

VARIABLES
    (* App *)
    run,               \* where Run is
    at,                \* where each call of Close is
    attempt,           \* closeAttempt: the call that owns it
    closed, closeErr,  \* closed and its error: the steps that failed
    httpClosing,
    httpCancelled,     \* httpContext is done
    bgCancelled,       \* the context of the background runners is done
    err,               \* the error collected by the owner
    outcome,           \* the error each call of Close has returned
    (* what it owns *)
    server,            \* the HTTP server
    request,           \* where each request is
    worker, runner,    \* quota workers and background runners
    dbOpen, logOpen,
    (* manualSyncRunner and quota.Service *)
    syncClosed, manualRunning, lastStatus,
    refreshClosed, workersCancelled,
    (* the operating system *)
    signalled          \* the context given to Run is done

closeVars  == <<at, attempt, closed, closeErr, httpClosing, httpCancelled,
                bgCancelled, err, outcome>>
syncVars   == <<syncClosed, manualRunning, lastStatus>>
quotaVars  == <<refreshClosed, workersCancelled>>
ownedVars  == <<server, request, worker, runner, dbOpen, logOpen>>
vars       == <<run, at, attempt, closed, closeErr, httpClosing, httpCancelled,
                bgCancelled, err, outcome, server, request, worker, runner, dbOpen,
                logOpen, syncClosed, manualRunning, lastStatus, refreshClosed,
                workersCancelled, signalled>>

Failures == {"drain", "db", "log"}

\* closeRuntime, step by step, between beginCloseAttempt and finishCloseAttempt.
AllDrained     == {"closeDB", "closeLog", "finish"}
WorkersDrained == {"cancelRunners", "waitRunners"} \cup AllDrained
HTTPDrained    == {"stopWorkers", "waitWorkers"} \cup WorkersDrained
Closing        == {"syncAdmission", "refreshAdmission", "shutdown", "cancelHTTP",
                   "waitHTTP"} \cup HTTPDrained

SyncStages == {"redis", "metadata", "syncDone"}
Handling   == {"handler"} \cup SyncStages

TypeOK ==
    /\ run \in {"new", "serving", "failed", "stopping", "returned"}
    /\ at \in [Calls -> {"idle", "begin", "follow", "returned"} \cup Closing]
    /\ attempt \in Calls \cup {None}
    /\ closed \in BOOLEAN
    /\ closeErr \subseteq Failures
    /\ httpClosing \in BOOLEAN
    /\ httpCancelled \in BOOLEAN
    /\ bgCancelled \in BOOLEAN
    /\ err \subseteq Failures
    /\ outcome \in [Calls -> SUBSET Failures]
    /\ server \in {"new", "serving", "down", "failed"}
    /\ request \in [Requests -> {"idle", "arrived"} \cup Handling]
    /\ worker \in [Workers -> {"idle", "live"}]
    /\ runner \in [Runners -> {"idle", "live"}]
    /\ dbOpen \in BOOLEAN
    /\ logOpen \in BOOLEAN
    /\ syncClosed \in BOOLEAN
    /\ manualRunning \in BOOLEAN
    /\ lastStatus \in {"never", "completed", "failed", "completed_with_warnings"}
    /\ refreshClosed \in BOOLEAN
    /\ workersCancelled \in BOOLEAN
    /\ signalled \in BOOLEAN

Init ==
    /\ run = "new"
    /\ at = [c \in Calls |-> "idle"]
    /\ attempt = None
    /\ closed = FALSE /\ closeErr = {}
    /\ httpClosing = FALSE /\ httpCancelled = FALSE /\ bgCancelled = FALSE
    /\ err = {}
    /\ outcome = [c \in Calls |-> {}]
    /\ server = "new"
    /\ request = [r \in Requests |-> "idle"]
    /\ worker = [w \in Workers |-> "idle"]
    /\ runner = [b \in Runners |-> "idle"]
    /\ dbOpen = TRUE /\ logOpen = TRUE
    /\ syncClosed = FALSE /\ manualRunning = FALSE /\ lastStatus = "never"
    /\ refreshClosed = FALSE /\ workersCancelled = FALSE
    /\ signalled = FALSE

-----------------------------------------------------------------------------
(* Run *)

\* startRuntime's test, under the lifecycle lock.
MayStart == ~ closed /\ attempt = None

\* startRuntime: the runners and the server are started under the same lock.
StartRuntime ==
    /\ run = "new"
    /\ MayStart
    /\ run' = "serving"
    /\ server' = IF server = "new" THEN "serving" ELSE server
    /\ runner' = [b \in Runners |-> "live"]
    /\ UNCHANGED <<closeVars, request, worker, dbOpen, logOpen, syncVars, quotaVars,
                   signalled>>

CallClose(c) == at' = [at EXCEPT ![c] = "begin"]

\* startRuntime fails: the application is closing or cannot listen.
StartFails ==
    /\ run = "new"
    /\ run' = "failed"
    /\ CallClose(Main)
    /\ UNCHANGED <<attempt, closed, closeErr, httpClosing, httpCancelled, bgCancelled,
                   err, outcome, ownedVars, syncVars, quotaVars, signalled>>

\* Run's select: the server has failed, or the context is done.
RunCloses ==
    /\ run = "serving"
    /\ \/ server = "failed" /\ run' = "failed"
       \/ signalled /\ run' = "stopping"
    /\ CallClose(Main)
    /\ UNCHANGED <<attempt, closed, closeErr, httpClosing, httpCancelled, bgCancelled,
                   err, outcome, ownedVars, syncVars, quotaVars, signalled>>

\* Run's select: another goroutine has called Close and the server is down.
RunSeesServerClosed ==
    /\ run = "serving"
    /\ server = "down"
    /\ run' = "returned"
    /\ UNCHANGED <<closeVars, ownedVars, syncVars, quotaVars, signalled>>

\* Its own Close has returned; without an error Run also takes serverDone.
RunReturns ==
    /\ at[Main] = "returned"
    /\ \/ run = "failed"
       \/ run = "stopping" /\ (outcome[Main] # {} \/ server \in {"down", "failed"})
    /\ run' = "returned"
    /\ UNCHANGED <<closeVars, ownedVars, syncVars, quotaVars, signalled>>

Signal ==
    /\ ~ signalled
    /\ signalled' = TRUE
    /\ UNCHANGED <<run, closeVars, ownedVars, syncVars, quotaVars>>

ServeFails ==
    /\ server = "serving"
    /\ server' = "failed"
    /\ UNCHANGED <<run, closeVars, request, worker, runner, dbOpen, logOpen, syncVars,
                   quotaVars, signalled>>

-----------------------------------------------------------------------------
(* Close *)

\* Another goroutine calls Close, once.
Close(c) ==
    /\ at[c] = "idle"
    /\ CallClose(c)
    /\ UNCHANGED <<run, attempt, closed, closeErr, httpClosing, httpCancelled,
                   bgCancelled, err, outcome, ownedVars, syncVars, quotaVars, signalled>>

MayOwn == ~ closed /\ attempt = None

\* beginCloseAttempt: this call becomes the owner.
BeginClose(c) ==
    /\ at[c] = "begin"
    /\ MayOwn
    /\ attempt' = c
    /\ httpClosing' = TRUE
    /\ err' = {}
    /\ at' = [at EXCEPT ![c] = "syncAdmission"]
    /\ UNCHANGED <<run, closed, closeErr, httpCancelled, bgCancelled, outcome,
                   ownedVars, syncVars, quotaVars, signalled>>

\* beginCloseAttempt: another call owns the attempt.
FollowClose(c) ==
    /\ at[c] = "begin"
    /\ ~ closed
    /\ attempt # None
    /\ at' = [at EXCEPT ![c] = "follow"]
    /\ UNCHANGED <<run, attempt, closed, closeErr, httpClosing, httpCancelled,
                   bgCancelled, err, outcome, ownedVars, syncVars, quotaVars, signalled>>

\* The call comes after the close, or its attempt is done (which is always
\* complete, so that the attempt's error is the recorded one).
RepeatClose(c) ==
    /\ at[c] \in {"begin", "follow"}
    /\ closed
    /\ at' = [at EXCEPT ![c] = "returned"]
    /\ outcome' = [outcome EXCEPT ![c] = closeErr]
    /\ UNCHANGED <<run, attempt, closed, closeErr, httpClosing, httpCancelled,
                   bgCancelled, err, ownedVars, syncVars, quotaVars, signalled>>

\* One step of closeRuntime.
Advance(c, from, to) ==
    /\ at[c] = from
    /\ at' = [at EXCEPT ![c] = to]
    /\ UNCHANGED <<run, attempt, closed, closeErr, httpClosing, outcome, signalled>>

CloseSyncAdmission(c) ==
    /\ Advance(c, "syncAdmission", "refreshAdmission")
    /\ syncClosed' = TRUE
    /\ UNCHANGED <<httpCancelled, bgCancelled, err, ownedVars, manualRunning,
                   lastStatus, quotaVars>>

CloseRefreshAdmission(c) ==
    /\ Advance(c, "refreshAdmission", "shutdown")
    /\ refreshClosed' = TRUE
    /\ UNCHANGED <<httpCancelled, bgCancelled, err, ownedVars, syncVars,
                   workersCancelled>>

\* Server.Shutdown stops the listener at once ...
StopListening(c) ==
    /\ at[c] = "shutdown"
    /\ server # "down"
    /\ server' = "down"
    /\ UNCHANGED <<run, closeVars, request, worker, runner, dbOpen, logOpen, syncVars,
                   quotaVars, signalled>>

\* ... and returns when the handlers are done, or with an error at the deadline.
ShutdownReturns(c) ==
    /\ Advance(c, "shutdown", "cancelHTTP")
    /\ server = "down"
    /\ \/ (\A r \in Requests : request[r] \notin Handling) /\ UNCHANGED err
       \/ err' = err \cup {"drain"}
    /\ UNCHANGED <<httpCancelled, bgCancelled, ownedVars, syncVars, quotaVars>>

\* A plausible bug: the handlers keep their contexts after the deadline.
CancelHTTPHandlersNot(c) ==
    /\ Advance(c, "cancelHTTP", "waitHTTP")
    /\ UNCHANGED <<httpCancelled, bgCancelled, err, ownedVars, syncVars, quotaVars>>

CancelHTTPHandlers(c) ==
    /\ Advance(c, "cancelHTTP", "waitHTTP")
    /\ httpCancelled' = TRUE
    /\ UNCHANGED <<bgCancelled, err, ownedVars, syncVars, quotaVars>>

\* A plausible bug: the handlers are cancelled and not waited for.
WaitHTTPNot(c) ==
    /\ Advance(c, "waitHTTP", "stopWorkers")
    /\ UNCHANGED <<httpCancelled, bgCancelled, err, ownedVars, syncVars, quotaVars>>

\* httpWG.Wait
WaitHTTP(c) ==
    /\ Advance(c, "waitHTTP", "stopWorkers")
    /\ \A r \in Requests : request[r] \notin Handling
    /\ UNCHANGED <<httpCancelled, bgCancelled, err, ownedVars, syncVars, quotaVars>>

\* A plausible bug: the workers are waited for, not cancelled.
StopWorkersWaitingOnly(c) ==
    /\ Advance(c, "stopWorkers", "waitWorkers")
    /\ refreshClosed' = TRUE
    /\ UNCHANGED <<httpCancelled, bgCancelled, err, ownedVars, syncVars,
                   workersCancelled>>

\* StopRefreshWorkers, up to its wait.
StopWorkers(c) ==
    /\ Advance(c, "stopWorkers", "waitWorkers")
    /\ refreshClosed' = TRUE
    /\ workersCancelled' = TRUE
    /\ UNCHANGED <<httpCancelled, bgCancelled, err, ownedVars, syncVars>>

WaitWorkers(c) ==
    /\ Advance(c, "waitWorkers", "cancelRunners")
    /\ \A w \in Workers : worker[w] = "idle"
    /\ UNCHANGED <<httpCancelled, bgCancelled, err, ownedVars, syncVars, quotaVars>>

CancelRunners(c) ==
    /\ Advance(c, "cancelRunners", "waitRunners")
    /\ bgCancelled' = TRUE
    /\ UNCHANGED <<httpCancelled, err, ownedVars, syncVars, quotaVars>>

\* backgroundWG.Wait
WaitRunners(c) ==
    /\ Advance(c, "waitRunners", "closeDB")
    /\ \A b \in Runners : runner[b] = "idle"
    /\ UNCHANGED <<httpCancelled, bgCancelled, err, ownedVars, syncVars, quotaVars>>

\* closeGormDB; a.DB is forgotten whether or not it fails.
CloseDB(c) ==
    /\ Advance(c, "closeDB", "closeLog")
    /\ dbOpen' = FALSE
    /\ err' \in {err, err \cup {"db"}}
    /\ UNCHANGED <<httpCancelled, bgCancelled, server, request, worker, runner,
                   logOpen, syncVars, quotaVars>>

CloseLog(c) ==
    /\ Advance(c, "closeLog", "finish")
    /\ logOpen' = FALSE
    /\ err' \in {err, err \cup {"log"}}
    /\ UNCHANGED <<httpCancelled, bgCancelled, server, request, worker, runner,
                   dbOpen, syncVars, quotaVars>>

\* finishCloseAttempt and the return of its owner.
FinishClose(c) ==
    /\ at[c] = "finish"
    /\ closed' = TRUE
    /\ closeErr' = err
    /\ attempt' = None
    /\ outcome' = [outcome EXCEPT ![c] = err]
    /\ at' = [at EXCEPT ![c] = "returned"]
    /\ UNCHANGED <<run, httpClosing, httpCancelled, bgCancelled, err, ownedVars,
                   syncVars, quotaVars, signalled>>

-----------------------------------------------------------------------------
(* HTTP requests *)

Arrive(r) ==
    /\ server = "serving"
    /\ request[r] = "idle"
    /\ request' = [request EXCEPT ![r] = "arrived"]
    /\ UNCHANGED <<run, closeVars, server, worker, runner, dbOpen, logOpen, syncVars,
                   quotaVars, signalled>>

Move(r, from, to) ==
    /\ request[r] = from
    /\ request' = [request EXCEPT ![r] = to]
    /\ UNCHANGED <<run, closeVars, server, worker, runner, dbOpen, logOpen, quotaVars,
                   signalled>>

\* A plausible bug: admission does not look at httpClosing.
AdmitsAlways == TRUE

\* admitHTTPRequest's test, under the lifecycle lock with the counting.
Admits == ~ httpClosing

Admit(r)  == Admits /\ Move(r, "arrived", "handler") /\ UNCHANGED syncVars
Refuse(r) == ~ Admits /\ Move(r, "arrived", "idle") /\ UNCHANGED syncVars

\* The handler returns, and with it the request's share of httpWG.
EndRequest(r) == Move(r, "handler", "idle") /\ UNCHANGED syncVars

\* POST /quota/refresh: a task is accepted together with its worker.
StartWorker(r, w) ==
    /\ request[r] = "handler"
    /\ ~ refreshClosed /\ ~ workersCancelled
    /\ worker[w] = "idle"
    /\ worker' = [worker EXCEPT ![w] = "live"]
    /\ UNCHANGED <<run, closeVars, server, request, runner, dbOpen, logOpen, syncVars,
                   quotaVars, signalled>>

\* manualSyncRunner.begin; a refused command just returns (EndRequest).
BeginSync(r) ==
    /\ Move(r, "handler", "redis")
    /\ ~ syncClosed
    /\ ~ manualRunning
    /\ manualRunning' = TRUE
    /\ UNCHANGED <<syncClosed, lastStatus>>

\* SyncNow of the drain: on to metadata, or a failure to record, or the drain
\* was busy, which is not recorded.
RedisSynced(r) ==
    /\ \/ Move(r, "redis", "metadata") /\ UNCHANGED lastStatus
       \/ Move(r, "redis", "syncDone") /\ lastStatus' \in {lastStatus, "failed"}
    /\ UNCHANGED <<syncClosed, manualRunning>>

MetadataSynced(r) ==
    /\ Move(r, "metadata", "syncDone")
    /\ lastStatus' \in {"completed", "completed_with_warnings"}
    /\ UNCHANGED <<syncClosed, manualRunning>>

\* finishRunning
EndSync(r) ==
    /\ Move(r, "syncDone", "handler")
    /\ manualRunning' = FALSE
    /\ UNCHANGED <<syncClosed, lastStatus>>

-----------------------------------------------------------------------------
WorkerEnds(w) ==
    /\ worker[w] = "live"
    /\ worker' = [worker EXCEPT ![w] = "idle"]
    /\ UNCHANGED <<run, closeVars, server, request, runner, dbOpen, logOpen, syncVars,
                   quotaVars, signalled>>

RunnerEnds(b) ==
    /\ runner[b] = "live"
    /\ runner' = [runner EXCEPT ![b] = "idle"]
    /\ UNCHANGED <<run, closeVars, server, request, worker, dbOpen, logOpen, syncVars,
                   quotaVars, signalled>>

CloseStep(c) ==
    \/ BeginClose(c) \/ FollowClose(c) \/ RepeatClose(c) \/ CloseSyncAdmission(c)
    \/ CloseRefreshAdmission(c) \/ StopListening(c) \/ ShutdownReturns(c)
    \/ CancelHTTPHandlers(c) \/ WaitHTTP(c) \/ StopWorkers(c) \/ WaitWorkers(c)
    \/ CancelRunners(c) \/ WaitRunners(c) \/ CloseDB(c) \/ CloseLog(c)
    \/ FinishClose(c)

SyncStep(r) == RedisSynced(r) \/ MetadataSynced(r) \/ EndSync(r)

RunStep == StartRuntime \/ StartFails \/ RunCloses \/ RunSeesServerClosed \/ RunReturns

Next ==
    \/ RunStep
    \/ Signal
    \/ ServeFails
    \/ \E c \in Closers : Close(c)
    \/ \E c \in Calls : CloseStep(c)
    \/ \E r \in Requests :
        \/ Arrive(r) \/ Admit(r) \/ Refuse(r) \/ EndRequest(r) \/ BeginSync(r)
        \/ SyncStep(r)
        \/ \E w \in Workers : StartWorker(r, w)
    \/ \E w \in Workers : WorkerEnds(w)
    \/ \E b \in Runners : RunnerEnds(b)

Spec == Init /\ [][Next]_vars

\* Goroutines keep running.  A handler, a worker or a runner need only return
\* once its context is cancelled: handlers may block until the drain deadline.
FairSpec ==
    /\ Spec
    /\ WF_vars(RunStep)
    /\ \A c \in Calls : WF_vars(CloseStep(c))
    /\ \A r \in Requests :
        WF_vars(httpCancelled /\ (SyncStep(r) \/ EndRequest(r)))
    /\ \A w \in Workers : WF_vars(workersCancelled /\ WorkerEnds(w))
    /\ \A b \in Runners : WF_vars(bgCancelled /\ RunnerEnds(b))

-----------------------------------------------------------------------------
HandlersLive == \E r \in Requests : request[r] \in Handling
WorkersLive  == \E w \in Workers : worker[w] = "live"
RunnersLive  == \E b \in Runners : runner[b] = "live"

\* docs/project/contract.md: shutdown goes "through HTTP drain, background-
\* runner cancellation and wait, then database and log closure".  While a
\* handler, a worker or a runner is left, both resources are open.
ResourcesOutliveUsers ==
    HandlersLive \/ WorkersLive \/ RunnersLive => dbOpen /\ logOpen

\* At most one call of Close tears the application down.
OneCloseOwner ==
    \A c, d \in Calls : at[c] \in Closing /\ at[d] \in Closing => c = d

\* Whoever returns from Close finds everything closed and idle, and every
\* call reports the error of the one teardown.
CloseReturnsClosed ==
    \A c \in Calls : at[c] = "returned" =>
        /\ ~ dbOpen /\ ~ logOpen /\ ~ HandlersLive /\ ~ WorkersLive /\ ~ RunnersLive
        /\ outcome[c] = closeErr

\* Once a wait group has been waited for, nothing is added to it.
NoAdmissionAfterDrain ==
    [][\A c \in Calls :
        /\ at[c] \in HTTPDrained => ~ HandlersLive'
        /\ at[c] \in WorkersDrained => ~ WorkersLive'
        /\ at[c] \in AllDrained => ~ RunnersLive']_vars

\* A handler loses its context to the shutdown only when the drain deadline
\* has passed, and Close then reports it.
CancelledOnlyAtDeadline == httpCancelled /\ HandlersLive => "drain" \in err

\* The manual sync flag is up exactly while one admitted request runs the
\* command, so that none is left to refuse later ones.
ManualSyncOwned ==
    /\ manualRunning <=> \E r \in Requests : request[r] \in SyncStages
    /\ \A r, s \in Requests :
        request[r] \in SyncStages /\ request[s] \in SyncStages => r = s

\* The shutdown ends after a signal, whatever the handlers are doing.
SignalEndsRun == signalled ~> run = "returned"

\* Every call of Close returns.
CloseReturns == \A c \in Calls : at[c] = "begin" ~> at[c] = "returned"

=============================================================================
