------------------------- MODULE AppLifecycleProofs -------------------------
(***************************************************************************)
(* The shutdown of AppLifecycle proved for every number of requests,       *)
(* workers, runners and callers of Close.                                  *)
(***************************************************************************)
EXTENDS AppLifecycle, TLAPS

\* The type invariant without its Boolean flags, whose types no step needs.
ShapeOK ==
    /\ run \in {"new", "serving", "failed", "stopping", "returned"}
    /\ at \in [Calls -> {"idle", "begin", "follow", "returned"} \cup Closing]
    /\ attempt \in Calls \cup {None}
    /\ closeErr \subseteq Failures
    /\ err \subseteq Failures
    /\ outcome \in [Calls -> SUBSET Failures]
    /\ server \in {"new", "serving", "down", "failed"}
    /\ request \in [Requests -> {"idle", "arrived"} \cup Handling]
    /\ worker \in [Workers -> {"idle", "live"}]
    /\ runner \in [Runners -> {"idle", "live"}]
    /\ lastStatus \in {"never", "completed", "failed", "completed_with_warnings"}

\* The attempt and the closing flags belong to the one call that tears down.
OwnerOK ==
    /\ \A c \in Calls : at[c] \in Closing <=> attempt = c
    /\ closed => attempt = None
    /\ httpClosing <=> closed \/ attempt # None

\* What has been waited for stays empty until the end.
DrainedOK ==
    /\ closed \/ (attempt # None /\ at[attempt] \in HTTPDrained) => ~ HandlersLive
    /\ closed \/ (attempt # None /\ at[attempt] \in WorkersDrained) => ~ WorkersLive
    /\ closed \/ (attempt # None /\ at[attempt] \in AllDrained) => ~ RunnersLive

\* The resources are closed exactly by the last steps of the owner.
ResourceOK ==
    /\ ~ dbOpen <=> closed \/ (attempt # None /\ at[attempt] \in {"closeLog", "finish"})
    /\ ~ logOpen <=> closed \/ (attempt # None /\ at[attempt] = "finish")

\* Whoever has returned has seen the final state.
ReturnedOK ==
    \A c \in Calls : at[c] = "returned" => closed /\ outcome[c] = closeErr

\* Handlers that are left when Shutdown has returned have run into the deadline.
CancelOK ==
    /\ httpCancelled => closed \/ (attempt # None /\
                                   at[attempt] \in {"waitHTTP"} \cup HTTPDrained)
    /\ attempt # None /\ at[attempt] \in {"cancelHTTP", "waitHTTP"} /\ HandlersLive
         => "drain" \in err

\* Run has not called Close while it starts or serves.
MainOK == run \in {"new", "serving"} => at[Main] = "idle"

Inv ==
    /\ ShapeOK
    /\ OwnerOK
    /\ MainOK
    /\ DrainedOK
    /\ ResourceOK
    /\ ReturnedOK
    /\ CancelOK
    /\ ManualSyncOwned

-----------------------------------------------------------------------------
\* The invariant holds when the application has been built.
LEMMA InitInv == Init => Inv
<1> USE AppLifecycleAssumption DEF Inv, ShapeOK, OwnerOK, MainOK, DrainedOK, ResourceOK,
        ReturnedOK, CancelOK, ManualSyncOwned, HandlersLive, WorkersLive, RunnersLive,
        Closing, HTTPDrained, WorkersDrained, AllDrained, Handling, SyncStages, Failures,
        Calls, None, closeVars, ownedVars, syncVars, quotaVars
<1> QED
  BY DEF Init

\* Close, from beginCloseAttempt to finishCloseAttempt, preserves it.
LEMMA CloseStepInv ==
  ASSUME Inv, NEW c \in Calls, CloseStep(c)
  PROVE  Inv'
<1> USE AppLifecycleAssumption DEF Inv, ShapeOK, OwnerOK, MainOK, DrainedOK, ResourceOK,
        ReturnedOK, CancelOK, ManualSyncOwned, HandlersLive, WorkersLive, RunnersLive,
        Closing, HTTPDrained, WorkersDrained, AllDrained, Handling, SyncStages, Failures,
        Calls, None, closeVars, ownedVars, syncVars, quotaVars
<1>1. CASE BeginClose(c)
  BY <1>1 DEF BeginClose, MayOwn
<1>2. CASE FollowClose(c)
  BY <1>2 DEF FollowClose
<1>3. CASE RepeatClose(c)
  BY <1>3 DEF RepeatClose
<1>4. CASE CloseSyncAdmission(c)
  BY <1>4 DEF CloseSyncAdmission, Advance
<1>5. CASE CloseRefreshAdmission(c)
  BY <1>5 DEF CloseRefreshAdmission, Advance
<1>6. CASE StopListening(c)
  BY <1>6 DEF StopListening
<1>7. CASE ShutdownReturns(c)
  <2>1. CASE ~ HandlersLive /\ err' = err
    BY <1>7, <2>1 DEF ShutdownReturns, Advance
  <2>2. CASE err' = err \cup {"drain"}
    <3>1. err' \subseteq Failures /\ "drain" \in err'
      BY <2>2
    <3> QED
      BY <1>7, <3>1 DEF ShutdownReturns, Advance
  <2> QED
    BY <1>7, <2>1, <2>2 DEF ShutdownReturns
<1>8. CASE CancelHTTPHandlers(c)
  BY <1>8 DEF CancelHTTPHandlers, Advance
<1>9. CASE WaitHTTP(c)
  BY <1>9 DEF WaitHTTP, Advance
<1>10. CASE StopWorkers(c)
  BY <1>10 DEF StopWorkers, Advance
<1>11. CASE WaitWorkers(c)
  BY <1>11 DEF WaitWorkers, Advance
<1>12. CASE CancelRunners(c)
  BY <1>12 DEF CancelRunners, Advance
<1>13. CASE WaitRunners(c)
  BY <1>13 DEF WaitRunners, Advance
<1>14. CASE CloseDB(c)
  BY <1>14 DEF CloseDB, Advance
<1>15. CASE CloseLog(c)
  BY <1>15 DEF CloseLog, Advance
<1>16. CASE FinishClose(c)
  BY <1>16 DEF FinishClose
<1> QED
  BY <1>1, <1>2, <1>3, <1>4, <1>5, <1>6, <1>7, <1>8, <1>9,
     <1>10, <1>11, <1>12, <1>13, <1>14, <1>15, <1>16
  DEF CloseStep

\* So do the requests, among them the manual sync and the quota refresh.
LEMMA RequestStepInv ==
  ASSUME Inv, NEW r \in Requests,
         \/ Arrive(r) \/ Admit(r) \/ Refuse(r) \/ EndRequest(r) \/ BeginSync(r)
         \/ SyncStep(r)
         \/ \E w \in Workers : StartWorker(r, w)
  PROVE  Inv'
<1> USE AppLifecycleAssumption DEF Inv, ShapeOK, OwnerOK, MainOK, DrainedOK, ResourceOK,
        ReturnedOK, CancelOK, ManualSyncOwned, HandlersLive, WorkersLive, RunnersLive,
        Closing, HTTPDrained, WorkersDrained, AllDrained, Handling, SyncStages, Failures,
        Calls, None, closeVars, ownedVars, syncVars, quotaVars
<1>1. CASE Arrive(r)
  BY <1>1 DEF Arrive
<1>2. CASE Admit(r)
  BY <1>2 DEF Admit, Move, Admits
<1>3. CASE Refuse(r)
  BY <1>3 DEF Refuse, Move, Admits
<1>4. CASE EndRequest(r)
  BY <1>4 DEF EndRequest, Move
<1>5. CASE BeginSync(r)
  BY <1>5 DEF BeginSync, Move
<1>6. CASE RedisSynced(r)
  <2>1. CASE Move(r, "redis", "metadata") /\ UNCHANGED lastStatus
    BY <1>6, <2>1 DEF RedisSynced, Move
  <2>2. CASE Move(r, "redis", "syncDone") /\ lastStatus' \in {lastStatus, "failed"}
    BY <1>6, <2>2 DEF RedisSynced, Move
  <2> QED
    BY <1>6, <2>1, <2>2 DEF RedisSynced
<1>7. CASE MetadataSynced(r)
  BY <1>7 DEF MetadataSynced, Move
<1>8. CASE EndSync(r)
  BY <1>8 DEF EndSync, Move
<1>9. ASSUME NEW w \in Workers, StartWorker(r, w)
      PROVE  Inv'
  BY <1>9 DEF StartWorker
<1> QED
  BY <1>1, <1>2, <1>3, <1>4, <1>5, <1>6, <1>7, <1>8, <1>9 DEF SyncStep

\* Every step preserves the invariant.
LEMMA NextInv == Inv /\ [Next]_vars => Inv'
<1> SUFFICES ASSUME Inv, [Next]_vars
             PROVE  Inv'
  OBVIOUS
<1> USE AppLifecycleAssumption DEF Inv, ShapeOK, OwnerOK, MainOK, DrainedOK, ResourceOK,
        ReturnedOK, CancelOK, ManualSyncOwned, HandlersLive, WorkersLive, RunnersLive,
        Closing, HTTPDrained, WorkersDrained, AllDrained, Handling, SyncStages, Failures,
        Calls, None, closeVars, ownedVars, syncVars, quotaVars
<1>1. CASE StartRuntime
  BY <1>1 DEF StartRuntime, MayStart
<1>2. CASE StartFails
  BY <1>2 DEF StartFails, CallClose
<1>3. CASE RunCloses
  BY <1>3 DEF RunCloses, CallClose
<1>4. CASE RunSeesServerClosed
  BY <1>4 DEF RunSeesServerClosed
<1>5. CASE RunReturns
  BY <1>5 DEF RunReturns
<1>6. CASE Signal
  BY <1>6 DEF Signal
<1>7. CASE ServeFails
  BY <1>7 DEF ServeFails
<1>8. ASSUME NEW c \in Closers, Close(c)
      PROVE  Inv'
  BY <1>8 DEF Close, CallClose
<1>9. ASSUME NEW w \in Workers, WorkerEnds(w)
      PROVE  Inv'
  BY <1>9 DEF WorkerEnds
<1>10. ASSUME NEW b \in Runners, RunnerEnds(b)
       PROVE  Inv'
  BY <1>10 DEF RunnerEnds
<1>11. CASE UNCHANGED vars
  BY <1>11 DEF vars
<1> QED
  BY <1>1, <1>2, <1>3, <1>4, <1>5, <1>6, <1>7, <1>8, <1>9, <1>10, <1>11,
     CloseStepInv, RequestStepInv DEF Next, RunStep

\* The inductive invariant holds in every reachable state.
THEOREM SpecInv == Spec => []Inv
  BY InitInv, NextInv, PTL DEF Spec

-----------------------------------------------------------------------------
\* The database and the log stay open while a handler, a quota worker or a
\* background runner is left, however many there are (closeRuntime).
THEOREM SpecResourcesOutliveUsers == Spec => []ResourcesOutliveUsers
<1>1. Inv => ResourcesOutliveUsers
  BY DEF Inv, DrainedOK, ResourceOK, ResourcesOutliveUsers, HTTPDrained, WorkersDrained,
         AllDrained
<1> QED
  BY <1>1, SpecInv, PTL

\* At most one call of Close runs closeRuntime (beginCloseAttempt).
THEOREM SpecOneCloseOwner == Spec => []OneCloseOwner
<1>1. Inv => OneCloseOwner
  BY DEF Inv, OwnerOK, OneCloseOwner
<1> QED
  BY <1>1, SpecInv, PTL

\* Close returns only after the teardown, and with its error (Close,
\* finishCloseAttempt).
THEOREM SpecCloseReturnsClosed == Spec => []CloseReturnsClosed
<1>1. Inv => CloseReturnsClosed
  BY DEF Inv, OwnerOK, DrainedOK, ResourceOK, ReturnedOK, CloseReturnsClosed
<1> QED
  BY <1>1, SpecInv, PTL

\* A handler is cancelled by the shutdown only after the drain deadline.
THEOREM SpecCancelledOnlyAtDeadline == Spec => []CancelledOnlyAtDeadline
<1>1. Inv => CancelledOnlyAtDeadline
  BY DEF Inv, DrainedOK, CancelOK, CancelledOnlyAtDeadline
<1> QED
  BY <1>1, SpecInv, PTL

\* manualRunning is up exactly while one request runs the command.
THEOREM SpecManualSyncOwned == Spec => []ManualSyncOwned
<1>1. Inv => ManualSyncOwned
  BY DEF Inv
<1> QED
  BY <1>1, SpecInv, PTL

\* The owner goes on from a drained stage to a drained stage, or finishes.
Later(c, stages) == closed' \/ (attempt' = c /\ at'[c] \in stages)

LEMMA DrainedStays ==
  ASSUME Inv, [Next]_vars, NEW c \in Calls, at[c] \in HTTPDrained
  PROVE  /\ Later(c, HTTPDrained)
         /\ at[c] \in WorkersDrained => Later(c, WorkersDrained)
         /\ at[c] \in AllDrained => Later(c, AllDrained)
<1> USE AppLifecycleAssumption DEF Inv, ShapeOK, OwnerOK, MainOK, Closing, HTTPDrained,
        WorkersDrained, AllDrained, Calls, None, closeVars, Later
<1>1. attempt = c /\ ~ closed
  OBVIOUS
<1>2. ASSUME NEW d \in Calls, CloseStep(d)
      PROVE  \/ UNCHANGED <<at, attempt>>
             \/ at' = [at EXCEPT ![d] = "follow"] /\ at[d] = "begin" /\ UNCHANGED attempt
             \/ d = c /\ UNCHANGED attempt /\
                  <<at[c], at'[c]>> \in {<<"stopWorkers", "waitWorkers">>,
                    <<"waitWorkers", "cancelRunners">>, <<"cancelRunners", "waitRunners">>,
                    <<"waitRunners", "closeDB">>, <<"closeDB", "closeLog">>,
                    <<"closeLog", "finish">>}
             \/ closed'
  BY <1>1, <1>2 DEF CloseStep, Advance, MayOwn, BeginClose, FollowClose, RepeatClose,
     CloseSyncAdmission, CloseRefreshAdmission, StopListening, ShutdownReturns,
     CancelHTTPHandlers, WaitHTTP, StopWorkers, WaitWorkers, CancelRunners, WaitRunners,
     CloseDB, CloseLog, FinishClose
<1>3. CASE \E d \in Calls : CloseStep(d)
  BY <1>1, <1>2, <1>3
<1>4. CASE StartFails \/ RunCloses
  BY <1>1, <1>4 DEF StartFails, RunCloses, CallClose
<1>5. ASSUME NEW d \in Closers, Close(d)
      PROVE  UNCHANGED attempt /\ at'[c] = at[c]
  BY <1>1, <1>5 DEF Close, CallClose
<1>6. CASE \E d \in Closers : Close(d)
  BY <1>1, <1>5, <1>6
<1>7. CASE UNCHANGED closeVars
  BY <1>1, <1>7
<1>8. \/ UNCHANGED closeVars
      \/ StartFails \/ RunCloses
      \/ \E d \in Calls : CloseStep(d)
      \/ \E d \in Closers : Close(d)
  BY DEF Next, vars, RunStep, StartRuntime, RunSeesServerClosed, RunReturns, Signal,
     ServeFails, Arrive, Admit, Refuse, EndRequest, BeginSync, SyncStep, RedisSynced,
     MetadataSynced, EndSync, StartWorker, WorkerEnds, RunnerEnds, Move
<1> QED
  BY <1>3, <1>4, <1>6, <1>7, <1>8

\* Nothing is added to a wait group once it has been waited for.
THEOREM SpecNoAdmissionAfterDrain == Spec => NoAdmissionAfterDrain
<1> DEFINE Drained(c) ==
        /\ at[c] \in HTTPDrained => ~ HandlersLive'
        /\ at[c] \in WorkersDrained => ~ WorkersLive'
        /\ at[c] \in AllDrained => ~ RunnersLive'
<1>1. Inv /\ Inv' /\ [Next]_vars => [\A c \in Calls : Drained(c)]_vars
  <2> SUFFICES ASSUME Inv, Inv', [Next]_vars, NEW c \in Calls, at[c] \in HTTPDrained
               PROVE  Drained(c)
    BY DEF HTTPDrained, WorkersDrained
  <2>1. attempt' = c => attempt' # None
    BY AppLifecycleAssumption DEF Calls
  <2> QED
    BY <2>1, DrainedStays DEF Inv, DrainedOK, Later
<1> QED
  BY <1>1, SpecInv, PTL DEF Spec, NoAdmissionAfterDrain

=============================================================================
