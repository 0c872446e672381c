-------------------------- MODULE UsageInboxProofs --------------------------
(***************************************************************************)
(* Proofs about UsageInbox for every number of messages, batch size,       *)
(* attempt limit and set of manual requests.                               *)
(*                                                                         *)
(* The argument has two layers.  StagesOK only speaks of pc and the flags  *)
(* of RedisDrain and is inductive on its own; it makes every stage the     *)
(* property of one actor.  With it, the data invariant Inv is inductive:   *)
(* nobody else changes the rows a processor has listed, and what a puller  *)
(* holds is always the newest part of what was popped.                     *)
(***************************************************************************)
EXTENDS UsageInbox, FiniteSetTheorems, WellFoundedInduction, TLAPS

\* The part of the type invariant the stages rest on.
StageTypeOK ==
    /\ pc \in [Actors -> PC]
    /\ pullRunning \in BOOLEAN
    /\ processRunning \in BOOLEAN
    /\ manualRunning \in BOOLEAN

\* A step of actor a that stays inside its stage and touches no flag.
Continue(a) ==
    /\ UNCHANGED flagVars
    /\ \/ pc[a] = "pop" /\ pc' = [pc EXCEPT ![a] = "insert"]
       \/ pc[a] = "list" /\ pc' = [pc EXCEPT ![a] = "batch"]
       \/ pc[a] = "batch" /\ pc' = [pc EXCEPT ![a] = "mark"]
       \/ pc[a] = "batch" /\ pc' = [pc EXCEPT ![a] = "fail"]
       \/ pc[a] = "batch" /\ pc' = pc
       \/ a \in Requests /\ InPull(a) /\ pc' = [pc EXCEPT ![a] = "list"]

\* What any step of the specification does to pc and the flags.
StageStep ==
    \/ UNCHANGED <<pc, flagVars>>
    \/ pc[Puller] = "idle" /\ ~ pullRunning /\ pullRunning' = TRUE
         /\ UNCHANGED <<processRunning, manualRunning>>
         /\ pc' = [pc EXCEPT ![Puller] = "pop"]
    \/ pc[Processor] = "idle" /\ ~ processRunning /\ processRunning' = TRUE
         /\ UNCHANGED <<pullRunning, manualRunning>>
         /\ pc' = [pc EXCEPT ![Processor] = "list"]
    \/ \E r \in Requests :
         /\ ~ pullRunning /\ ~ processRunning
         /\ pullRunning' = TRUE /\ processRunning' = TRUE /\ manualRunning' = TRUE
         /\ pc' = [pc EXCEPT ![r] = "pop"]
    \/ \E a \in Actors : Continue(a)
    \/ \E a \in Actors : Busy(a) /\ Release(a) /\ pc' = [pc EXCEPT ![a] = "idle"]
    \/ /\ pc' = [a \in Actors |-> "idle"]
       /\ pullRunning' = FALSE /\ processRunning' = FALSE /\ manualRunning' = FALSE

\* Every step of the pipeline is, for pc and the flags, one of these.
LEMMA NextStageStep == [Next]_vars => StageStep
<1> SUFFICES ASSUME [Next]_vars PROVE StageStep
  OBVIOUS
<1>1. CASE Arrive \/ (\E i \in Ids : Expire(i)) \/ CleanupProcessed
            \/ CleanupFailed \/ CleanupAborts \/ UNCHANGED vars
  BY <1>1 DEF Arrive, Expire, CleanupProcessed, CleanupFailed, CleanupAborts,
              DeleteOld, vars, flagVars, StageStep
<1>2. CASE BeginPull
  BY <1>2 DEF BeginPull, StageStep
<1>3. CASE BeginProcess
  BY <1>3 DEF BeginProcess, StageStep
<1>4. CASE \E r \in Requests : BeginManualSync(r)
  BY <1>4 DEF BeginManualSync, StageStep
<1>5. ASSUME NEW a \in Actors, PullStep(a) PROVE StageStep
  <2>1. CASE Pop(a)
    BY <2>1 DEF Pop, Continue, StageStep
  <2>2. CASE PopEmpty(a) \/ InsertInbox(a)
    <3>1. InPull(a) /\ PullReturns(a)
      BY <2>2 DEF PopEmpty, InsertInbox, InPull
    <3>2. CASE Finish(a)
      BY <3>1, <3>2 DEF Finish, StageStep, InPull, Busy
    <3>3. CASE ~ Finish(a)
      BY <3>1, <3>3 DEF PullReturns, StageStep, Continue
    <3> QED
      BY <3>2, <3>3
  <2>3. CASE PopFails(a) \/ InsertInboxFails(a)
    BY <2>3 DEF PopFails, InsertInboxFails, Finish, StageStep, Busy
  <2> QED
    BY <1>5, <2>1, <2>2, <2>3 DEF PullStep
<1>6. ASSUME NEW a \in Actors, ProcessStep(a) PROVE StageStep
  <2>1. CASE List(a) \/ MarkDecodeFailed(a) \/ InsertEvents(a) \/ InsertEventsFails(a)
    <3>1. Continue(a)
      BY <2>1 DEF List, MarkDecodeFailed, InsertEvents, InsertEventsFails, Continue
    <3> QED
      BY <3>1 DEF StageStep
  <2>2. CASE \/ ListEmptyOrFails(a) \/ MarkDecodeFailedFails(a) \/ NothingDecoded(a)
             \/ MarkProcessed(a) \/ MarkProcessedFails(a)
             \/ MarkProcessFailed(a) \/ MarkProcessFailedFails(a)
    <3>1. Busy(a) /\ Finish(a)
      BY <2>2 DEF ListEmptyOrFails, MarkDecodeFailedFails, NothingDecoded,
                  MarkProcessed, MarkProcessedFails, MarkProcessFailed,
                  MarkProcessFailedFails, Busy
    <3> QED
      BY <3>1 DEF Finish, StageStep
  <2> QED
    BY <1>6, <2>1, <2>2 DEF ProcessStep
<1>7. CASE Crash
  BY <1>7 DEF Crash, StageStep
<1> QED
  BY <1>1, <1>2, <1>3, <1>4, <1>5, <1>6, <1>7 DEF Next

LEMMA StageStepPreserves ==
    ASSUME StageTypeOK, StagesOK, StageStep
    PROVE  StageTypeOK' /\ StagesOK'
<1> USE UsageInboxAssumption DEF StageTypeOK, PC, Actors, Puller, Processor
<1>1. CASE UNCHANGED <<pc, flagVars>>
  BY <1>1 DEF StagesOK, StageExclusion, InPull, InProcess, Busy, flagVars
<1>2. CASE /\ pc[Puller] = "idle" /\ ~ pullRunning /\ pullRunning' = TRUE
           /\ UNCHANGED <<processRunning, manualRunning>>
           /\ pc' = [pc EXCEPT ![Puller] = "pop"]
  BY <1>2 DEF StagesOK, StageExclusion, InPull, InProcess, Busy
<1>3. CASE /\ pc[Processor] = "idle" /\ ~ processRunning /\ processRunning' = TRUE
           /\ UNCHANGED <<pullRunning, manualRunning>>
           /\ pc' = [pc EXCEPT ![Processor] = "list"]
  BY <1>3 DEF StagesOK, StageExclusion, InPull, InProcess, Busy
<1>4. ASSUME NEW r \in Requests,
             ~ pullRunning, ~ processRunning,
             pullRunning' = TRUE, processRunning' = TRUE, manualRunning' = TRUE,
             pc' = [pc EXCEPT ![r] = "pop"]
      PROVE  StageTypeOK' /\ StagesOK'
  <2>1. \A a \in Actors : pc[a] = "idle"
    BY <1>4 DEF StagesOK, InPull, InProcess
  <2> QED
    BY <1>4, <2>1 DEF StagesOK, StageExclusion, InPull, InProcess, Busy
<1>5. ASSUME NEW a \in Actors, Continue(a)
      PROVE  StageTypeOK' /\ StagesOK'
  <2>1. UNCHANGED flagVars /\ StageTypeOK'
    BY <1>5 DEF Continue, flagVars, InPull
  <2>2. \A b \in Actors : b # a => pc'[b] = pc[b]
    BY <1>5 DEF Continue
  <2>3. \/ InPull(a) /\ (InPull(a)' \/ (a \in Requests /\ InProcess(a)'))
        \/ InProcess(a) /\ InProcess(a)'
    BY <1>5 DEF Continue, InPull, InProcess
  <2>4. /\ pc'[Puller] \in {"idle", "pop", "insert"}
        /\ pc'[Processor] \in {"idle", "list", "batch", "mark", "fail"}
    BY <1>5 DEF Continue, InPull, StagesOK
  <2>5. \A b \in Actors :
          /\ InPull(b)' => pullRunning'
          /\ InProcess(b)' => processRunning'
          /\ b \in Requests /\ Busy(b)' => pullRunning' /\ processRunning'
    BY <2>1, <2>2, <2>3 DEF StagesOK, InPull, InProcess, Busy, flagVars
  <2>6. StageExclusion'
    BY <2>2, <2>3 DEF StagesOK, StageExclusion, InPull, InProcess, Busy
  <2> QED
    BY <2>1, <2>4, <2>5, <2>6 DEF StagesOK
<1>6. ASSUME NEW a \in Actors, Busy(a), Release(a), pc' = [pc EXCEPT ![a] = "idle"]
      PROVE  StageTypeOK' /\ StagesOK'
  <2>1. StageTypeOK'
    BY <1>6 DEF Release
  <2>2. \A b \in Actors : b # a => pc'[b] = pc[b]
    BY <1>6
  <2>3. \A b \in Actors :
          /\ InPull(b)' => pullRunning'
          /\ InProcess(b)' => processRunning'
          /\ b \in Requests /\ Busy(b)' => pullRunning' /\ processRunning'
    <3>1. CASE a = Puller
      BY <1>6, <2>2, <3>1 DEF Release, StagesOK, StageExclusion, InPull, InProcess, Busy
    <3>2. CASE a = Processor
      BY <1>6, <2>2, <3>2 DEF Release, StagesOK, StageExclusion, InPull, InProcess, Busy
    <3>3. CASE a \in Requests
      <4>1. \A b \in Actors : pc'[b] = "idle"
        BY <1>6, <2>2, <3>3 DEF StagesOK, StageExclusion, Busy
      <4> QED
        BY <4>1 DEF InPull, InProcess, Busy
    <3> QED
      BY <3>1, <3>2, <3>3
  <2>4. StageExclusion'
    BY <1>6, <2>2 DEF StagesOK, StageExclusion, InPull, InProcess, Busy
  <2> QED
    BY <1>6, <2>1, <2>3, <2>4 DEF StagesOK
<1>7. CASE /\ pc' = [a \in Actors |-> "idle"]
           /\ pullRunning' = FALSE /\ processRunning' = FALSE /\ manualRunning' = FALSE
  BY <1>7 DEF StagesOK, StageExclusion, InPull, InProcess, Busy
<1> QED
  BY <1>1, <1>2, <1>3, <1>4, <1>5, <1>6, <1>7 DEF StageStep

LEMMA InitStages == Init => StageTypeOK /\ StagesOK
  BY UsageInboxAssumption
  DEF Init, StageTypeOK, StagesOK, StageExclusion, InPull, InProcess, Busy, PC,
      Actors, Puller, Processor

\* In every reachable state the flags of RedisDrain admit one actor per
\* stage and nobody beside a manual sync, for any number of requests.
THEOREM SpecStageExclusion == Spec => []StageExclusion
<1>1. Init => StageTypeOK /\ StagesOK
  BY InitStages
<1>2. StageTypeOK /\ StagesOK /\ [Next]_vars => StageTypeOK' /\ StagesOK'
  BY NextStageStep, StageStepPreserves
<1>3. StagesOK => StageExclusion
  BY DEF StagesOK
<1> QED
  BY <1>1, <1>2, <1>3, PTL DEF Spec

-----------------------------------------------------------------------------
(* The data invariant. *)

DataOK ==
    /\ TypeOK
    /\ CountersOK
    /\ RowsOK
    /\ AttemptsOK
    /\ BufOK
    /\ BatchOK
    /\ EventIsItsOwn
    /\ ProcessedHasEvent
    /\ Conservation

\* A step that leaves the queue head, the inbox, the events and every held
\* message alone can only disturb the types and BatchOK.
LEMMA QuietStep ==
    ASSUME Inv, TypeOK', BatchOK',
           arrived <= arrived',
           UNCHANGED <<popped, lastId, rowMsg, status, attempts, eventOf, lost>>,
           \A a \in Actors : pc[a] = "insert" <=> pc'[a] = "insert",
           \A a \in Actors : buf'[a] = buf[a]
    PROVE  DataOK'
<1> USE DEF Inv
<1>1. CountersOK' /\ RowsOK'
  BY DEF CountersOK, RowsOK, TypeOK
<1>2. AttemptsOK' /\ EventIsItsOwn' /\ ProcessedHasEvent'
  BY DEF AttemptsOK, Processable, EventIsItsOwn, ProcessedHasEvent
<1>3. BufOK'
  BY DEF BufOK, NoBatch
<1>4. \A m \in 1 .. popped : Held(m)' <=> Held(m)
  BY DEF Held
<1>5. Conservation'
  BY <1>4 DEF Conservation, RowsOf
<1> QED
  BY <1>1, <1>2, <1>3, <1>5 DEF DataOK

\* Finish drops the actor's batch, so BatchOK survives when no row changes.
LEMMA FinishQuiet ==
    ASSUME Inv, NEW a \in Actors, pc[a] # "insert", Finish(a),
           UNCHANGED <<arrived, popped, inboxVars, eventOf, processedEvents,
                       cleaning, lost>>
    PROVE  DataOK'
<1> USE DEF Inv
<1>1. TypeOK'
  BY DEF TypeOK, Finish, Release, inboxVars, NoBatch, PC
<1>2. BatchOK'
  BY DEF BatchOK, Finish, inboxVars, TypeOK
<1>3. \A b \in Actors : buf'[b] = buf[b] /\ (pc[b] = "insert" <=> pc'[b] = "insert")
  BY DEF BufOK, Finish, TypeOK
<1>4. arrived <= arrived' /\ UNCHANGED <<popped, lastId, rowMsg, status, attempts, eventOf, lost>>
  BY DEF inboxVars, TypeOK
<1> QED
  BY <1>1, <1>2, <1>3, <1>4, QuietStep

LEMMA QuietActions ==
    ASSUME Inv,
           \/ Arrive \/ BeginPull \/ BeginProcess
           \/ \E r \in Requests : BeginManualSync(r)
           \/ \E i \in Ids : Expire(i)
           \/ CleanupAborts
           \/ UNCHANGED vars
           \/ \E a \in Actors : List(a) \/ InsertEventsFails(a)
    PROVE  DataOK'
<1> USE UsageInboxAssumption DEF Inv
<1>1. TypeOK'
  <2>1. CASE Arrive
    BY <2>1 DEF Arrive, TypeOK, inboxVars, flagVars
  <2>2. CASE BeginPull \/ BeginProcess \/ \E r \in Requests : BeginManualSync(r)
    BY <2>2 DEF BeginPull, BeginProcess, BeginManualSync, TypeOK, inboxVars,
                queueVars, PC
  <2>3. CASE (\E i \in Ids : Expire(i)) \/ CleanupAborts \/ UNCHANGED vars
    BY <2>3 DEF Expire, CleanupAborts, vars, TypeOK, inboxVars, queueVars, flagVars
  <2>4. ASSUME NEW a \in Actors, List(a) \/ InsertEventsFails(a) PROVE TypeOK'
    <3>1. ListProcessable \in SUBSET Ids
      BY DEF ListProcessable, Processable
    <3> QED
      BY <2>4, <3>1 DEF List, InsertEventsFails, TypeOK, inboxVars, queueVars,
                        flagVars, PC
  <2> QED
    BY <2>1, <2>2, <2>3, <2>4
<1>2. BatchOK'
  <2>1. CASE Arrive \/ (\E i \in Ids : Expire(i)) \/ CleanupAborts \/ UNCHANGED vars
    BY <2>1 DEF Arrive, Expire, CleanupAborts, vars, BatchOK, inboxVars, queueVars
  <2>2. CASE BeginPull \/ BeginProcess \/ \E r \in Requests : BeginManualSync(r)
    BY <2>2 DEF BeginPull, BeginProcess, BeginManualSync, BatchOK, inboxVars,
                TypeOK, Actors
  <2>3. ASSUME NEW a \in Actors, List(a) PROVE BatchOK'
    <3>1. \A i \in ListProcessable : i <= lastId /\ status[i] \in {"pending", "process_failed"}
      BY DEF ListProcessable, Processable, RowsOK, TypeOK, Ids
    <3> QED
      BY <2>3, <3>1 DEF List, BatchOK, inboxVars, TypeOK
  <2>4. ASSUME NEW a \in Actors, InsertEventsFails(a) PROVE BatchOK'
    BY <2>4 DEF InsertEventsFails, BatchOK, inboxVars, TypeOK
  <2> QED
    BY <2>1, <2>2, <2>3, <2>4
<1>3. /\ arrived <= arrived'
      /\ UNCHANGED <<popped, lastId, rowMsg, status, attempts, eventOf, lost>>
  BY DEF Arrive, BeginPull, BeginProcess, BeginManualSync, Expire, CleanupAborts,
         List, InsertEventsFails, vars, inboxVars, queueVars, TypeOK
<1>4. \A a \in Actors : buf'[a] = buf[a] /\ (pc[a] = "insert" <=> pc'[a] = "insert")
  BY DEF Arrive, BeginPull, BeginProcess, BeginManualSync, Expire, CleanupAborts,
         List, InsertEventsFails, vars, TypeOK, Actors
<1> QED
  BY <1>1, <1>2, <1>3, <1>4, QuietStep

\* Pop: the messages move from the queue into the puller's memory.
LEMMA PopPreserves ==
    ASSUME Inv, NEW a \in Actors, Pop(a)
    PROVE  DataOK'
<1> USE UsageInboxAssumption DEF Inv
<1>1. /\ popped' \in popped + 1 .. arrived
      /\ UNCHANGED <<arrived, lastId, rowMsg, status, attempts, old, eventOf,
                     processedEvents, batch, cleaning, lost, flagVars>>
      /\ pc' = [pc EXCEPT ![a] = "insert"]
      /\ buf' = [buf EXCEPT ![a] = [from |-> popped + 1, to |-> popped']]
  BY DEF Pop, PopCount, inboxVars, TypeOK, CountersOK
<1>2. TypeOK'
  BY <1>1 DEF TypeOK, flagVars, PC
<1>3. CountersOK' /\ RowsOK' /\ AttemptsOK' /\ EventIsItsOwn' /\ ProcessedHasEvent'
  BY <1>1 DEF TypeOK, CountersOK, RowsOK, AttemptsOK, Processable, EventIsItsOwn,
              ProcessedHasEvent
<1>4. \A b \in Actors : b # a => pc[b] # "insert" /\ pc'[b] = pc[b] /\ buf'[b] = buf[b]
  BY <1>1 DEF Pop, StagesOK, StageExclusion, InPull, TypeOK
<1>5. /\ pc'[a] = "insert" /\ buf'[a].from = popped + 1 /\ buf'[a].to = popped'
  BY <1>1 DEF TypeOK
<1>6. BufOK'
  <2>1. \A i \in Ids : i <= lastId => rowMsg[i] < popped + 1
    BY DEF RowsOK, TypeOK
  <2>2. \A m \in lost : m < popped + 1
    BY DEF Conservation, TypeOK
  <2>3. lastId < popped + 1
    BY DEF CountersOK, TypeOK
  <2> QED
    BY <1>1, <1>4, <1>5, <2>1, <2>2, <2>3 DEF BufOK, TypeOK
<1>7. BatchOK'
  BY <1>1 DEF BatchOK, Pop, TypeOK
<1>8. Conservation'
  <2>1. \A m : Held(m)' <=> m \in popped + 1 .. popped'
    BY <1>4, <1>5 DEF Held
  <2>2. \A m : ~ Held(m)
    BY <1>4 DEF Held, Pop
  <2>3. \A m \in popped + 1 .. popped' : RowsOf(m)' = {} /\ m \notin lost'
    BY <1>1 DEF RowsOf, RowsOK, Conservation, TypeOK
  <2>4. \A m : RowsOf(m)' = RowsOf(m)
    BY <1>1 DEF RowsOf
  <2>5. 1 .. popped' = (1 .. popped) \cup (popped + 1 .. popped')
    BY <1>1 DEF TypeOK
  <2>6. lost' \subseteq 1 .. popped'
    BY <1>1, <2>5 DEF Conservation
  <2>7. \A i, j \in 1 .. lastId' : i < j => rowMsg'[i] < rowMsg'[j]
    BY <1>1 DEF Conservation
  <2>8. \A m \in 1 .. popped :
            \/ m \in lost' /\ ~ Held(m)' /\ RowsOf(m)' = {}
            \/ m \notin lost' /\ ~ Held(m)' /\ RowsOf(m)' # {}
    BY <1>1, <2>1, <2>2, <2>4 DEF Conservation, TypeOK
  <2> QED
    BY <2>1, <2>3, <2>5, <2>6, <2>7, <2>8 DEF Conservation
<1> QED
  BY <1>2, <1>3, <1>6, <1>7, <1>8 DEF DataOK

\* PopFails: whatever LPOP took is lost.
LEMMA PopFailsPreserves ==
    ASSUME Inv, NEW a \in Actors, PopFails(a)
    PROVE  DataOK'
<1> USE UsageInboxAssumption DEF Inv
<1>1. PICK n \in {0, PopCount} : popped' = popped + n /\ lost' = lost \cup (popped + 1 .. popped + n)
  BY DEF PopFails
<1>2. n \in Nat /\ popped' \in popped .. arrived /\ popped' = popped + n
  BY <1>1 DEF PopCount, TypeOK, CountersOK
<1>3. /\ UNCHANGED <<arrived, lastId, rowMsg, status, attempts, old, eventOf,
                     processedEvents, cleaning>>
      /\ Finish(a)
      /\ pc[a] = "pop"
  BY DEF PopFails, inboxVars
<1>4. \A b \in Actors : pc[b] # "insert" /\ pc'[b] # "insert" /\ buf'[b] = NoBatch
  BY <1>3 DEF Finish, StagesOK, StageExclusion, InPull, TypeOK, BufOK
<1>5. TypeOK'
  BY <1>1, <1>2, <1>3 DEF TypeOK, Finish, Release, PC, NoBatch, Messages
<1>6. CountersOK' /\ RowsOK' /\ AttemptsOK' /\ EventIsItsOwn' /\ ProcessedHasEvent'
  BY <1>2, <1>3 DEF TypeOK, CountersOK, RowsOK, AttemptsOK, Processable, EventIsItsOwn,
              ProcessedHasEvent
<1>7. BufOK'
  BY <1>4 DEF BufOK, NoBatch
<1>8. BatchOK'
  BY <1>3 DEF BatchOK, Finish, TypeOK
<1>9. Conservation'
  <2>1. \A m : ~ Held(m) /\ ~ Held(m)'
    BY <1>4 DEF Held
  <2>2. \A m : RowsOf(m)' = RowsOf(m)
    BY <1>3 DEF RowsOf
  <2>3. \A m \in popped + 1 .. popped' : RowsOf(m) = {} /\ m \in lost'
    BY <1>1, <1>2 DEF RowsOf, RowsOK, TypeOK
  <2>4. 1 .. popped' = (1 .. popped) \cup (popped + 1 .. popped')
    BY <1>2 DEF TypeOK
  <2>5. lost' = lost \cup (popped + 1 .. popped')
    BY <1>1
  <2>6. \A m \in 1 .. popped : m \in lost' <=> m \in lost
    BY <1>2, <2>5 DEF TypeOK
  <2> QED
    BY <1>3, <2>1, <2>2, <2>3, <2>4, <2>5, <2>6 DEF Conservation
<1> QED
  BY <1>5, <1>6, <1>7, <1>8, <1>9 DEF DataOK

\* InsertInbox: the held messages become rows with fresh ids.
LEMMA InsertInboxPreserves ==
    ASSUME Inv, NEW a \in Actors, InsertInbox(a)
    PROVE  DataOK'
<1> DEFINE first == lastId + 1
           last  == first + (buf[a].to - buf[a].from)
           new   == first .. last
<1> USE UsageInboxAssumption DEF Inv
<1>1. /\ pc[a] = "insert"
      /\ buf[a].from \in Nat /\ buf[a].to \in Nat
      /\ buf[a].to = popped
      /\ buf[a].from <= buf[a].to
      /\ lastId < buf[a].from
  BY DEF InsertInbox, BufOK, TypeOK
<1>2. /\ \A i \in Ids : i <= lastId => rowMsg[i] < buf[a].from
      /\ \A m \in lost : m < buf[a].from
  BY <1>1 DEF BufOK
<1>3. last \in Nat /\ lastId < last /\ last <= popped /\ first \in Nat
  BY <1>1 DEF TypeOK
<1>4. /\ lastId' = last
      /\ rowMsg' = [i \in Ids |-> IF i \in new THEN buf[a].from + (i - first)
                                               ELSE rowMsg[i]]
      /\ status' = [i \in Ids |-> IF i \in new THEN "pending" ELSE status[i]]
      /\ attempts' = [i \in Ids |-> IF i \in new THEN 0 ELSE attempts[i]]
      /\ old' = [i \in Ids |-> IF i \in new THEN FALSE ELSE old[i]]
      /\ PullReturns(a)
      /\ UNCHANGED <<arrived, popped, eventOf, processedEvents, cleaning, lost>>
  BY DEF InsertInbox, FirstNewId, queueVars
<1>5. /\ \A b \in Actors : pc'[b] # "insert" /\ buf'[b] = NoBatch
      /\ \A b \in Actors : b # a => pc[b] # "insert"
      /\ pc' \in [Actors -> PC] /\ buf' \in [Actors -> [from : Nat, to : Nat]]
  <2>1. \A b \in Actors : b # a => pc[b] # "insert" /\ buf[b] = NoBatch
    BY <1>1 DEF StagesOK, StageExclusion, InPull, BufOK
  <2>2. CASE Finish(a)
    BY <2>1, <2>2 DEF Finish, TypeOK, PC, NoBatch
  <2>3. CASE ~ Finish(a)
    <3>1. pc' = [pc EXCEPT ![a] = "list"] /\ buf' = [buf EXCEPT ![a] = NoBatch]
      BY <1>4, <2>3 DEF PullReturns
    <3>2. NoBatch \in [from : Nat, to : Nat] /\ "list" \in PC
      BY DEF NoBatch, PC
    <3> QED
      BY <2>1, <3>1, <3>2 DEF TypeOK
  <2> QED
    BY <2>1, <2>2, <2>3
<1>6. batch' \in [Actors -> SUBSET Ids] /\ \A b \in Actors : batch'[b] \subseteq batch[b]
  BY <1>4 DEF PullReturns, Finish, TypeOK
<1>7. \A b \in Actors : b # a => pc'[b] = pc[b]
  BY <1>4 DEF PullReturns, Finish, TypeOK
<1>8. pullRunning' \in BOOLEAN /\ processRunning' \in BOOLEAN /\ manualRunning' \in BOOLEAN
  BY <1>4 DEF PullReturns, Finish, Release, TypeOK, flagVars
<1>9. \A i \in new : buf[a].from + (i - first) \in buf[a].from .. popped
  BY <1>1, <1>3 DEF TypeOK
<1>10. TypeOK'
  <2>1. lastId' \in 0 .. MaxMessages
    BY <1>3, <1>4 DEF TypeOK
  <2>2. rowMsg' \in [Ids -> Messages \cup {None}]
    BY <1>1, <1>4, <1>9 DEF TypeOK, Messages
  <2> HIDE DEF new, first, last
  <2>3. status' \in [Ids -> Status]
    BY <1>4 DEF TypeOK, Status
  <2>4. attempts' \in [Ids -> 0 .. MaxProcessAttempts]
    BY <1>4 DEF TypeOK
  <2>5. old' \in [Ids -> BOOLEAN]
    BY <1>4 DEF TypeOK
  <2> QED
    BY <1>4, <1>5, <1>6, <1>8, <2>1, <2>2, <2>3, <2>4, <2>5 DEF TypeOK
<1>11. CountersOK'
  BY <1>3, <1>4 DEF CountersOK
<1>12. \A i \in Ids : i \in new <=> lastId < i /\ i <= lastId'
  BY <1>3, <1>4 DEF Ids, TypeOK
<1>13. \A i, j \in Ids : i < j /\ j <= lastId' => rowMsg'[i] < rowMsg'[j]
  <2> SUFFICES ASSUME NEW i \in Ids, NEW j \in Ids, i < j, j <= lastId'
               PROVE  rowMsg'[i] < rowMsg'[j]
    OBVIOUS
  <2>1. CASE j <= lastId
    BY <1>4, <1>12, <2>1 DEF RowsOK, Ids, TypeOK
  <2>2. CASE i <= lastId /\ lastId < j
    <3>1. rowMsg'[i] < buf[a].from
      BY <1>2, <1>4, <1>12, <2>2 DEF Ids, TypeOK
    <3>2. j \in new /\ rowMsg'[j] = buf[a].from + (j - first)
      BY <1>4, <1>12, <2>2
    <3>3. rowMsg'[i] \in Nat
      BY <1>10 DEF TypeOK, Messages, None
    <3> QED
      BY <1>1, <1>9, <3>1, <3>2, <3>3 DEF TypeOK
  <2>3. CASE lastId < i
    <3>1. i \in new /\ j \in new
      BY <1>3, <1>4, <1>12, <2>3 DEF Ids, TypeOK
    <3>2. rowMsg'[i] = buf[a].from + (i - first) /\ rowMsg'[j] = buf[a].from + (j - first)
      BY <1>4, <3>1
    <3> QED
      BY <1>1, <3>1, <3>2 DEF Ids, TypeOK
  <2> QED
    BY <2>1, <2>2, <2>3 DEF Ids, TypeOK
<1>14. RowsOK'
  <2>1. ASSUME NEW i \in Ids, i <= lastId' PROVE rowMsg'[i] \in 1 .. popped'
    <3>1. CASE i <= lastId
      BY <1>4, <1>12, <3>1 DEF RowsOK, Ids, TypeOK
    <3>2. CASE lastId < i
      BY <1>1, <1>4, <1>9, <1>12, <2>1, <3>2 DEF TypeOK
    <3> QED
      BY <3>1, <3>2 DEF Ids, TypeOK
  <2>2. ASSUME NEW i \in Ids, lastId' < i PROVE status'[i] = "absent" /\ eventOf'[i] = None
    BY <1>3, <1>4, <1>12, <2>2 DEF RowsOK, Ids, TypeOK
  <2> QED
    BY <1>13, <2>1, <2>2 DEF RowsOK
<1>15. AttemptsOK'
  <2> HIDE DEF new
  <2> QED
    BY <1>4 DEF AttemptsOK, Processable, TypeOK
<1>16. BufOK'
  BY <1>5 DEF BufOK
<1>17. \A b \in Actors : \A i \in batch'[b] :
          /\ i \in Ids /\ i <= lastId /\ i \notin new
          /\ pc[b] \in {"batch", "mark", "fail"} /\ b # a
  BY <1>1, <1>6, <1>12 DEF BatchOK, TypeOK, Ids
<1>18. BatchOK'
  <2> SUFFICES ASSUME NEW b \in Actors, NEW i \in batch'[b]
               PROVE  /\ pc'[b] \in {"batch", "mark", "fail"}
                      /\ i <= lastId'
                      /\ status'[i] \in {"absent", "pending", "process_failed"}
                      /\ pc'[b] = "mark" => eventOf'[i] = rowMsg'[i]
    BY DEF BatchOK
  <2>1. i \in batch[b] /\ b # a /\ pc'[b] = pc[b] /\ i \in Ids /\ i \notin new /\ i <= lastId
    BY <1>6, <1>7, <1>17
  <2>2. i <= lastId'
    BY <1>3, <1>4, <2>1 DEF Ids, TypeOK
  <2> HIDE DEF new
  <2>3. status'[i] = status[i] /\ eventOf'[i] = eventOf[i] /\ rowMsg'[i] = rowMsg[i]
    BY <1>4, <2>1
  <2> QED
    BY <2>1, <2>2, <2>3 DEF BatchOK
<1>19. EventIsItsOwn' /\ ProcessedHasEvent'
  <2>1. ASSUME NEW i \in Ids, eventOf[i] # None \/ status'[i] = "processed"
        PROVE  /\ i <= lastId /\ i <= lastId' /\ i \notin new
    BY <1>3, <1>4, <1>12, <2>1 DEF RowsOK, Ids, TypeOK
  <2> HIDE DEF new
  <2> QED
    BY <1>4, <2>1 DEF EventIsItsOwn, ProcessedHasEvent
<1>20. Conservation'
  <2>1. \A m : ~ Held(m)'
    BY <1>5 DEF Held
  <2>2. \A m : Held(m) <=> m \in buf[a].from .. buf[a].to
    BY <1>1, <1>5 DEF Held
  <2>3. ASSUME NEW m \in 1 .. popped, m < buf[a].from PROVE RowsOf(m)' = RowsOf(m)
    <3>1. \A i \in Ids : i \in new => rowMsg'[i] # m
      BY <1>4, <1>9, <2>3, <1>1 DEF TypeOK
    <3>2. \A i \in Ids : i \notin new => rowMsg'[i] = rowMsg[i] /\ (i <= lastId' <=> i <= lastId)
      BY <1>3, <1>4, <1>12 DEF Ids, TypeOK
    <3>3. \A i \in Ids : i \in new => ~ (i <= lastId)
      BY <1>12 DEF Ids, TypeOK
    <3> QED
      BY <3>1, <3>2, <3>3 DEF RowsOf
  <2>4. ASSUME NEW m \in 1 .. popped, buf[a].from <= m PROVE RowsOf(m)' # {}
    <3> DEFINE k == first + (m - buf[a].from)
    <3>1. k \in new /\ k <= lastId' /\ k - first = m - buf[a].from
      BY <1>1, <1>3, <1>4, <2>4 DEF TypeOK
    <3> HIDE DEF k
    <3>2. k \in Ids
      BY <1>3, <1>10, <3>1 DEF Ids, TypeOK
    <3>3. rowMsg'[k] = buf[a].from + (m - buf[a].from)
      BY <1>4, <3>1, <3>2
    <3>4. rowMsg'[k] = m
      BY <1>1, <3>3 DEF TypeOK
    <3> QED
      BY <3>1, <3>2, <3>4 DEF RowsOf
  <2>5. \A i, j \in 1 .. lastId' : i < j => rowMsg'[i] < rowMsg'[j]
    <3>1. 1 .. lastId' \subseteq Ids
      BY <1>10 DEF Ids, TypeOK
    <3>2. \A i, j \in 1 .. lastId' : j <= lastId'
      BY <1>10 DEF TypeOK
    <3> QED
      BY <1>13, <3>1, <3>2
  <2>6. ASSUME NEW m \in 1 .. popped
        PROVE  \/ m \in lost' /\ ~ Held(m)' /\ RowsOf(m)' = {}
               \/ m \notin lost' /\ ~ Held(m)' /\ RowsOf(m)' # {}
    <3>1. CASE m < buf[a].from
      BY <1>1, <1>4, <2>1, <2>2, <2>3, <3>1 DEF Conservation, TypeOK
    <3>2. CASE buf[a].from <= m
      BY <1>1, <1>2, <1>4, <2>1, <2>4, <3>2 DEF Conservation, TypeOK
    <3> QED
      BY <1>1, <3>1, <3>2 DEF TypeOK
  <2> QED
    BY <1>4, <2>5, <2>6 DEF Conservation
<1> QED
  BY <1>10, <1>11, <1>14, <1>15, <1>16, <1>18, <1>19, <1>20 DEF DataOK

\* InsertInboxFails: what the puller held is lost.
LEMMA InsertInboxFailsPreserves ==
    ASSUME Inv, NEW a \in Actors, InsertInboxFails(a)
    PROVE  DataOK'
<1> USE UsageInboxAssumption DEF Inv
<1>1. /\ pc[a] = "insert" /\ Finish(a)
      /\ lost' = lost \cup (buf[a].from .. buf[a].to)
      /\ UNCHANGED <<arrived, popped, lastId, rowMsg, status, attempts, old,
                     eventOf, processedEvents, cleaning>>
  BY DEF InsertInboxFails, inboxVars, queueVars
<1>2. /\ buf[a].from \in Nat /\ buf[a].to = popped /\ lastId < buf[a].from
      /\ \A i \in Ids : i <= lastId => rowMsg[i] < buf[a].from
  BY <1>1 DEF BufOK, TypeOK
<1>3. \A b \in Actors : b # a => pc[b] # "insert"
  BY <1>1 DEF StagesOK, StageExclusion, InPull
<1>4. \A b \in Actors : pc'[b] # "insert" /\ buf'[b] = NoBatch
  BY <1>1, <1>3 DEF Finish, TypeOK, BufOK
<1>5. buf[a].from .. popped \subseteq 1 .. popped /\ 1 .. popped \subseteq Messages
  BY <1>2 DEF TypeOK, Messages
<1>6. TypeOK'
  BY <1>1, <1>2, <1>5 DEF TypeOK, Finish, Release, PC, NoBatch
<1>7. CountersOK' /\ RowsOK' /\ AttemptsOK' /\ EventIsItsOwn' /\ ProcessedHasEvent'
  BY <1>1 DEF CountersOK, RowsOK, AttemptsOK, Processable, EventIsItsOwn,
              ProcessedHasEvent
<1>8. BufOK'
  BY <1>4 DEF BufOK
<1>9. BatchOK'
  BY <1>1 DEF BatchOK, Finish, TypeOK
<1>10. Conservation'
  <2>1. \A m : ~ Held(m)'
    BY <1>4 DEF Held
  <2>2. \A m : Held(m) <=> m \in buf[a].from .. popped
    BY <1>1, <1>2, <1>3 DEF Held
  <2>3. \A m : RowsOf(m)' = RowsOf(m)
    BY <1>1 DEF RowsOf
  <2> QED
    BY <1>1, <1>2, <1>5, <2>1, <2>2, <2>3 DEF Conservation
<1> QED
  BY <1>6, <1>7, <1>8, <1>9, <1>10 DEF DataOK

\* A step that only marks or deletes rows: three conjuncts are at stake.
LEMMA RowStep ==
    ASSUME Inv, TypeOK', BatchOK', AttemptsOK', ProcessedHasEvent',
           UNCHANGED <<arrived, popped, lastId, rowMsg, eventOf, lost>>,
           \A i \in Ids : status[i] = "absent" => status'[i] = "absent",
           \A a \in Actors : pc[a] = "insert" <=> pc'[a] = "insert",
           \A a \in Actors : buf'[a] = buf[a]
    PROVE  DataOK'
<1> USE DEF Inv
<1>1. CountersOK' /\ RowsOK' /\ EventIsItsOwn'
  BY DEF CountersOK, RowsOK, EventIsItsOwn
<1>2. BufOK'
  BY DEF BufOK, NoBatch
<1>3. \A m \in 1 .. popped : Held(m)' <=> Held(m)
  BY DEF Held
<1>4. Conservation'
  BY <1>3 DEF Conservation, RowsOf
<1> QED
  BY <1>1, <1>2, <1>4 DEF DataOK

\* While an actor works on a batch nobody else does.
LEMMA OnlyBatch ==
    ASSUME Inv, NEW a \in Actors, InProcess(a)
    PROVE  \A b \in Actors : b # a => batch[b] = {}
BY DEF Inv, BatchOK, StagesOK, StageExclusion, InProcess

LEMMA MarkDecodeFailedPreserves ==
    ASSUME Inv, NEW a \in Actors, MarkDecodeFailed(a)
    PROVE  DataOK'
<1> USE UsageInboxAssumption DEF Inv
<1> DEFINE k == Min(Undecodable(batch[a]))
           hit == {k} \cap Stored(a)
<1>1. /\ pc[a] = "batch"
      /\ status' = [j \in Ids |-> IF j \in hit THEN "decode_failed" ELSE status[j]]
      /\ attempts' = [j \in Ids |-> IF j \in hit THEN attempts[j] + 1 ELSE attempts[j]]
      /\ old' = [j \in Ids |-> IF j \in hit THEN FALSE ELSE old[j]]
      /\ batch' = [batch EXCEPT ![a] = @ \ {k}]
      /\ UNCHANGED <<arrived, popped, lastId, rowMsg, eventOf, flagVars,
                     processedEvents, pc, buf, cleaning, lost>>
  BY DEF MarkDecodeFailed, queueVars
<1>2. hit \subseteq batch[a] /\ hit \subseteq {k} /\ hit \subseteq Processable
  BY DEF Stored, BatchOK, Processable, TypeOK
<1> HIDE DEF hit, k
<1>3. \A i \in hit : attempts[i] + 1 \in 0 .. MaxProcessAttempts
  BY <1>2 DEF AttemptsOK, TypeOK, Processable
<1>4. TypeOK'
  <2>1. attempts' \in [Ids -> 0 .. MaxProcessAttempts]
    BY <1>1, <1>3 DEF TypeOK
  <2>2. status' \in [Ids -> Status]
    BY <1>1 DEF TypeOK, Status
  <2>3. old' \in [Ids -> BOOLEAN]
    BY <1>1 DEF TypeOK
  <2>4. batch' \in [Actors -> SUBSET Ids]
    BY <1>1 DEF TypeOK
  <2> QED
    BY <1>1, <2>1, <2>2, <2>3, <2>4 DEF TypeOK, flagVars
<1>5. AttemptsOK'
  BY <1>1 DEF AttemptsOK, Processable
<1>6. ProcessedHasEvent'
  BY <1>1 DEF ProcessedHasEvent
<1>7. BatchOK'
  <2>1. \A b \in Actors : b # a => batch'[b] = {}
    BY <1>1, OnlyBatch DEF InProcess, TypeOK
  <2>2. \A i \in batch'[a] : i \in batch[a] /\ i \notin hit
    BY <1>1, <1>2 DEF TypeOK
  <2> QED
    BY <1>1, <2>1, <2>2 DEF BatchOK, TypeOK
<1>8. \A i \in Ids : status[i] = "absent" => status'[i] = "absent"
  BY <1>1, <1>2 DEF Processable
<1> QED
  BY <1>1, <1>4, <1>5, <1>6, <1>7, <1>8, RowStep

\* MarkProcessed and MarkProcessFailed: the marks of the batch that end a
\* process run.
LEMMA MarkBatchPreserves ==
    ASSUME Inv, NEW a \in Actors, MarkProcessed(a) \/ MarkProcessFailed(a)
    PROVE  DataOK'
<1> USE UsageInboxAssumption DEF Inv
<1>1. /\ pc[a] \in {"mark", "fail"}
      /\ Finish(a)
      /\ UNCHANGED <<arrived, popped, lastId, rowMsg, eventOf, cleaning, lost>>
      /\ old' = [i \in Ids |-> IF i \in Stored(a) THEN FALSE ELSE old[i]]
  BY DEF MarkProcessed, MarkProcessFailed, queueVars
<1>2. Stored(a) \subseteq Processable /\ Stored(a) \subseteq batch[a] /\ batch[a] \subseteq Ids
  BY DEF Stored, BatchOK, Processable, TypeOK
<1>3. \A i \in Stored(a) : attempts[i] + 1 \in 0 .. MaxProcessAttempts
  BY <1>2 DEF AttemptsOK, TypeOK, Processable
<1>4. \A i \in Stored(a) :
        /\ status'[i] \in Status
        /\ attempts'[i] \in 0 .. MaxProcessAttempts
        /\ status'[i] = "processed" => pc[a] = "mark"
        /\ status'[i] \in {"pending", "process_failed"} => attempts'[i] < MaxProcessAttempts
  <2>1. CASE MarkProcessed(a)
    BY <1>2, <2>1 DEF MarkProcessed, TypeOK, Status, Stored
  <2>2. CASE MarkProcessFailed(a)
    BY <1>2, <1>3, <2>2 DEF MarkProcessFailed, FailedStatus, TypeOK, Status, Stored
  <2> QED
    BY <2>1, <2>2
<1>5. /\ \A i \in Ids : i \notin Stored(a) => status'[i] = status[i] /\ attempts'[i] = attempts[i]
      /\ status' = [i \in Ids |-> status'[i]] /\ attempts' = [i \in Ids |-> attempts'[i]]
  BY <1>2 DEF MarkProcessed, MarkProcessFailed, TypeOK
<1>6. processedEvents' \in Nat
  <2>1. IsFiniteSet(batch[a])
    <3>1. IsFiniteSet(Ids)
      BY FS_Interval DEF Ids
    <3> QED
      BY <1>2, <3>1, FS_Subset
  <2>2. Cardinality(batch[a]) \in Nat
    BY <2>1, FS_CardinalityType
  <2> QED
    <3>1. processedEvents' \in {processedEvents, processedEvents + Cardinality(batch[a])}
      BY DEF MarkProcessed, MarkProcessFailed
    <3>2. processedEvents \in Nat
      BY DEF TypeOK
    <3> QED
      BY <2>2, <3>1, <3>2
<1>7. TypeOK'
  <2>1. status' \in [Ids -> Status] /\ attempts' \in [Ids -> 0 .. MaxProcessAttempts]
    BY <1>2, <1>4, <1>5 DEF TypeOK
  <2>2. old' \in [Ids -> BOOLEAN]
    BY <1>1 DEF TypeOK
  <2>3. /\ pc' \in [Actors -> PC] /\ buf' \in [Actors -> [from : Nat, to : Nat]]
        /\ batch' \in [Actors -> SUBSET Ids]
        /\ pullRunning' \in BOOLEAN /\ processRunning' \in BOOLEAN
        /\ manualRunning' \in BOOLEAN
    BY <1>1 DEF Finish, Release, TypeOK, PC, NoBatch
  <2> QED
    BY <1>1, <1>6, <2>1, <2>2, <2>3 DEF TypeOK
<1>8. AttemptsOK'
  BY <1>4, <1>5 DEF AttemptsOK, Processable
<1>9. ProcessedHasEvent'
  <2>1. \A i \in Stored(a) : pc[a] = "mark" => eventOf[i] = rowMsg[i] /\ i <= lastId
    BY <1>2 DEF BatchOK
  <2> QED
    BY <1>1, <1>4, <1>5, <2>1 DEF ProcessedHasEvent
<1>10. BatchOK'
  <2>1. \A b \in Actors : batch'[b] = {}
    BY <1>1, OnlyBatch DEF InProcess, Finish, TypeOK
  <2> QED
    BY <2>1 DEF BatchOK
<1>11. \A b \in Actors : buf'[b] = buf[b] /\ (pc[b] = "insert" <=> pc'[b] = "insert")
  BY <1>1 DEF BufOK, Finish, TypeOK
<1>12. \A i \in Ids : status[i] = "absent" => status'[i] = "absent"
  BY <1>2, <1>5 DEF Processable
<1> QED
  BY <1>1, <1>7, <1>8, <1>9, <1>10, <1>11, <1>12, RowStep

\* InsertEvents: exactly the decodable rows of the batch get their own event.
LEMMA InsertEventsPreserves ==
    ASSUME Inv, NEW a \in Actors, InsertEvents(a)
    PROVE  DataOK'
<1> USE UsageInboxAssumption DEF Inv
<1>1. /\ pc[a] = "batch" /\ Undecodable(batch[a]) = {}
      /\ eventOf' = [i \in Ids |-> IF i \in batch[a] /\ eventOf[i] = None
                                   THEN rowMsg[i] ELSE eventOf[i]]
      /\ pc' = [pc EXCEPT ![a] = "mark"]
      /\ UNCHANGED <<arrived, popped, lastId, rowMsg, status, attempts, old,
                     flagVars, processedEvents, buf, batch, cleaning, lost>>
  BY DEF InsertEvents, inboxVars, queueVars
<1>2. \A i \in batch[a] : i \in Ids /\ i <= lastId /\ rowMsg[i] \in 1 .. popped
                          /\ rowMsg[i] \notin Malformed
  BY <1>1 DEF Undecodable, BatchOK, RowsOK, TypeOK
<1>3. \A i \in Ids : /\ eventOf'[i] # eventOf[i] => i \in batch[a]
                     /\ i \in batch[a] => eventOf'[i] = rowMsg[i]
                     /\ eventOf'[i] \in Messages \cup {None}
  BY <1>1, <1>2 DEF EventIsItsOwn, TypeOK
<1>4. TypeOK'
  <2>1. eventOf' \in [Ids -> Messages \cup {None}]
    BY <1>1, <1>3
  <2> QED
    BY <1>1, <2>1 DEF TypeOK, flagVars, PC
<1>5. CountersOK' /\ AttemptsOK'
  BY <1>1 DEF CountersOK, AttemptsOK, Processable
<1>6. RowsOK'
  <2>1. \A i \in Ids : lastId < i => eventOf'[i] = eventOf[i]
    BY <1>2, <1>3 DEF Ids, TypeOK
  <2> QED
    BY <1>1, <2>1 DEF RowsOK
<1>7. EventIsItsOwn' /\ ProcessedHasEvent'
  BY <1>1, <1>2, <1>3 DEF EventIsItsOwn, ProcessedHasEvent
<1>8. \A b \in Actors : pc[b] = "insert" <=> pc'[b] = "insert"
  BY <1>1 DEF TypeOK
<1>9. BufOK'
  BY <1>1, <1>8 DEF BufOK
<1>10. BatchOK'
  <2>1. \A b \in Actors : b # a => batch'[b] = {}
    BY <1>1, OnlyBatch DEF InProcess
  <2> QED
    BY <1>1, <1>2, <1>3, <2>1 DEF BatchOK, TypeOK
<1>11. Conservation'
  <2>1. \A m \in 1 .. popped : Held(m)' <=> Held(m)
    BY <1>1, <1>8 DEF Held
  <2> QED
    BY <1>1, <2>1 DEF Conservation, RowsOf
<1> QED
  BY <1>4, <1>5, <1>6, <1>7, <1>9, <1>10, <1>11 DEF DataOK

\* Cleanup deletes rows, never their events.
LEMMA CleanupPreserves ==
    ASSUME Inv, CleanupProcessed \/ CleanupFailed
    PROVE  DataOK'
<1> USE DEF Inv
<1>1. /\ UNCHANGED <<arrived, popped, lastId, rowMsg, attempts, old, eventOf,
                     flagVars, processedEvents, pc, buf, batch, lost>>
      /\ cleaning' \in BOOLEAN
  BY DEF CleanupProcessed, CleanupFailed, DeleteOld, queueVars
<1>2. PICK S : status' = [i \in Ids |-> IF old[i] /\ status[i] \in S THEN "absent"
                                                                    ELSE status[i]]
  BY DEF CleanupProcessed, CleanupFailed, DeleteOld
<1>3. status' \in [Ids -> Status] /\ \A i \in Ids : status'[i] \in {status[i], "absent"}
  BY <1>2 DEF TypeOK, Status
<1>4. TypeOK'
  BY <1>1, <1>3 DEF TypeOK, flagVars
<1>5. AttemptsOK' /\ ProcessedHasEvent'
  BY <1>1, <1>3 DEF AttemptsOK, Processable, ProcessedHasEvent
<1>6. BatchOK'
  BY <1>1, <1>3 DEF BatchOK, TypeOK
<1> QED
  BY <1>1, <1>3, <1>4, <1>5, <1>6, RowStep

\* Crash: the one held batch is lost, the database is as it was.
LEMMA CrashPreserves ==
    ASSUME Inv, Crash
    PROVE  DataOK'
<1> USE UsageInboxAssumption DEF Inv
<1>1. /\ lost' = lost \cup UNION {buf[a].from .. buf[a].to : a \in Actors}
      /\ pullRunning' = FALSE /\ processRunning' = FALSE /\ manualRunning' = FALSE
      /\ processedEvents' = 0 /\ cleaning' = FALSE
      /\ pc' = [a \in Actors |-> "idle"]
      /\ buf' = [a \in Actors |-> NoBatch]
      /\ batch' = [a \in Actors |-> {}]
      /\ UNCHANGED <<arrived, popped, lastId, rowMsg, status, attempts, old, eventOf>>
  BY DEF Crash, inboxVars, queueVars
<1>2. \A m : m \in UNION {buf[a].from .. buf[a].to : a \in Actors} <=> Held(m)
  <2>1. \A a \in Actors : pc[a] # "insert" => buf[a].from .. buf[a].to = {}
    BY DEF BufOK, NoBatch
  <2> QED
    BY <2>1 DEF Held
<1>3. \A m : Held(m) => m \in 1 .. popped
  <2> SUFFICES ASSUME NEW m, NEW a \in Actors, pc[a] = "insert", m \in buf[a].from .. buf[a].to
               PROVE  m \in 1 .. popped
    BY DEF Held
  <2>1. buf[a].to = popped /\ lastId < buf[a].from /\ buf[a].from \in Nat
    BY DEF BufOK, TypeOK
  <2> QED
    BY <2>1 DEF TypeOK
<1>4. lost' \subseteq 1 .. popped /\ \A m \in 1 .. popped : m \in lost' <=> m \in lost \/ Held(m)
  BY <1>1, <1>2, <1>3 DEF Conservation
<1>5. TypeOK'
  <2>1. lost' \subseteq Messages
    BY <1>4 DEF TypeOK, Messages
  <2> QED
    BY <1>1, <2>1 DEF TypeOK, PC, NoBatch
<1>6. CountersOK' /\ RowsOK' /\ AttemptsOK' /\ EventIsItsOwn' /\ ProcessedHasEvent'
  BY <1>1 DEF CountersOK, RowsOK, AttemptsOK, Processable, EventIsItsOwn,
              ProcessedHasEvent
<1>7. BufOK' /\ BatchOK'
  BY <1>1 DEF BufOK, BatchOK
<1>8. Conservation'
  <2>1. \A m : ~ Held(m)'
    BY <1>1 DEF Held
  <2>2. \A m : RowsOf(m)' = RowsOf(m)
    BY <1>1 DEF RowsOf
  <2> QED
    BY <1>1, <1>4, <2>1, <2>2 DEF Conservation
<1> QED
  BY <1>5, <1>6, <1>7, <1>8 DEF DataOK

LEMMA InitInv == Init => Inv
<1> SUFFICES ASSUME Init PROVE Inv
  OBVIOUS
<1> USE UsageInboxAssumption DEF Init
<1>1. TypeOK
  <2>1. /\ arrived \in 0 .. MaxMessages /\ popped \in 0 .. MaxMessages
        /\ lastId \in 0 .. MaxMessages
        /\ attempts \in [Ids -> 0 .. MaxProcessAttempts]
        /\ processedEvents \in Nat
        /\ lost \subseteq Messages
    OBVIOUS
  <2>2. status \in [Ids -> Status] /\ old \in [Ids -> BOOLEAN]
    BY DEF Status
  <2>3. /\ rowMsg \in [Ids -> Messages \cup {None}]
        /\ eventOf \in [Ids -> Messages \cup {None}]
    OBVIOUS
  <2>4. /\ pc \in [Actors -> PC] /\ batch \in [Actors -> SUBSET Ids]
        /\ pullRunning \in BOOLEAN /\ processRunning \in BOOLEAN
        /\ manualRunning \in BOOLEAN /\ cleaning \in BOOLEAN
    BY DEF PC
  <2>5. buf \in [Actors -> [from : Nat, to : Nat]]
    BY DEF NoBatch
  <2> QED
    BY <2>1, <2>2, <2>3, <2>4, <2>5 DEF TypeOK
<1>2. StagesOK
  BY InitStages
<1>3. CountersOK /\ RowsOK /\ AttemptsOK /\ BufOK /\ BatchOK
  BY DEF CountersOK, RowsOK, AttemptsOK, BufOK, BatchOK, Processable, Ids
<1>4. EventIsItsOwn /\ ProcessedHasEvent
  BY DEF EventIsItsOwn, ProcessedHasEvent
<1>5. Conservation
  BY DEF Conservation
<1> QED
  BY <1>1, <1>2, <1>3, <1>4, <1>5 DEF Inv

LEMMA NextInv == Inv /\ [Next]_vars => Inv'
<1> SUFFICES ASSUME Inv, [Next]_vars PROVE Inv'
  OBVIOUS
<1>1. StagesOK'
  <2>1. StageTypeOK
    BY DEF Inv, TypeOK, StageTypeOK
  <2> QED
    BY <2>1, NextStageStep, StageStepPreserves DEF Inv
<1>2. DataOK'
  <2>1. CASE \/ Arrive \/ BeginPull \/ BeginProcess
             \/ \E r \in Requests : BeginManualSync(r)
             \/ \E i \in Ids : Expire(i)
             \/ CleanupAborts
             \/ UNCHANGED vars
    BY <2>1, QuietActions
  <2>2. CASE CleanupProcessed \/ CleanupFailed
    BY <2>2, CleanupPreserves
  <2>3. CASE Crash
    BY <2>3, CrashPreserves
  <2>4. ASSUME NEW a \in Actors, PullStep(a) PROVE DataOK'
    <3>1. CASE Pop(a)
      BY <3>1, PopPreserves
    <3>2. CASE PopEmpty(a)
      <4>1. CASE Finish(a)
        BY <3>2, <4>1, FinishQuiet DEF PopEmpty, queueVars
      <4>2. CASE ~ Finish(a)
        <5>1. /\ a \in Requests /\ pc[a] = "pop"
              /\ pc' = [pc EXCEPT ![a] = "list"]
              /\ buf' = [buf EXCEPT ![a] = NoBatch]
              /\ UNCHANGED <<arrived, popped, lastId, rowMsg, status, attempts,
                    old, eventOf, processedEvents, cleaning, lost, batch,
                    pullRunning, processRunning, manualRunning>>
          BY <3>2, <4>2 DEF PopEmpty, PullReturns, inboxVars, queueVars, flagVars
        <5>2. \A b \in Actors : buf'[b] = buf[b] /\ (pc[b] = "insert" <=> pc'[b] = "insert")
          BY <5>1 DEF Inv, BufOK, TypeOK
        <5>3. TypeOK'
          BY <5>1 DEF Inv, TypeOK, PC, NoBatch
        <5>4. BatchOK'
          BY <5>1 DEF Inv, BatchOK, TypeOK
        <5>5. arrived <= arrived'
          BY <5>1 DEF Inv, TypeOK
        <5> QED
          BY <5>1, <5>2, <5>3, <5>4, <5>5, QuietStep
      <4> QED
        BY <4>1, <4>2
    <3>3. CASE PopFails(a)
      BY <3>3, PopFailsPreserves
    <3>4. CASE InsertInbox(a)
      BY <3>4, InsertInboxPreserves
    <3>5. CASE InsertInboxFails(a)
      BY <3>5, InsertInboxFailsPreserves
    <3> QED
      BY <2>4, <3>1, <3>2, <3>3, <3>4, <3>5 DEF PullStep
  <2>5. ASSUME NEW a \in Actors, ProcessStep(a) PROVE DataOK'
    <3>1. CASE List(a) \/ InsertEventsFails(a)
      BY <3>1, QuietActions
    <3>2. CASE \/ ListEmptyOrFails(a) \/ MarkDecodeFailedFails(a) \/ NothingDecoded(a)
               \/ MarkProcessedFails(a) \/ MarkProcessFailedFails(a)
      <4>1. /\ pc[a] # "insert" /\ Finish(a)
            /\ UNCHANGED <<arrived, popped, inboxVars, eventOf, processedEvents,
                           cleaning, lost>>
        BY <3>2 DEF ListEmptyOrFails, MarkDecodeFailedFails, NothingDecoded,
                    MarkProcessedFails, MarkProcessFailedFails, queueVars
      <4> QED
        BY <4>1, FinishQuiet
    <3>3. CASE MarkDecodeFailed(a)
      BY <3>3, MarkDecodeFailedPreserves
    <3>4. CASE InsertEvents(a)
      BY <3>4, InsertEventsPreserves
    <3>5. CASE MarkProcessed(a) \/ MarkProcessFailed(a)
      BY <3>5, MarkBatchPreserves
    <3> QED
      BY <2>5, <3>1, <3>2, <3>3, <3>4, <3>5 DEF ProcessStep
  <2> QED
    BY <2>1, <2>2, <2>3, <2>4, <2>5 DEF Next
<1> QED
  BY <1>1, <1>2 DEF Inv, DataOK

\* The whole invariant, hence the type invariant, holds in every reachable
\* state of the pipeline.
THEOREM SpecInv == Spec => []Inv
  BY InitInv, NextInv, PTL DEF Spec

\* Type correctness; in particular attempt_count never exceeds the limit.
THEOREM SpecTypeOK == Spec => []TypeOK
<1>1. Inv => TypeOK
  BY DEF Inv
<1> QED
  BY <1>1, SpecInv, PTL

\* Every event is the event of its own row's message, whatever is replayed,
\* discarded or cleaned up, and however many messages there are.
THEOREM SpecEventIsItsOwn == Spec => []EventIsItsOwn
<1>1. Inv => EventIsItsOwn
  BY DEF Inv
<1> QED
  BY <1>1, SpecInv, PTL

\* No provider attempt yields two usage events.
THEOREM SpecOneEventPerMessage == Spec => []OneEventPerMessage
<1>1. Inv => OneEventPerMessage
  <2> SUFFICES ASSUME Inv, NEW i \in Ids, NEW j \in Ids, i # j, eventOf[i] # None,
                      eventOf[i] = eventOf[j]
               PROVE  FALSE
    BY DEF OneEventPerMessage
  <2>1. i <= lastId /\ j <= lastId /\ rowMsg[i] = rowMsg[j] /\ rowMsg[i] \in Nat
    BY DEF Inv, EventIsItsOwn, RowsOK
  <2>2. i < j \/ j < i
    BY DEF Ids
  <2> QED
    BY <2>1, <2>2 DEF Inv, RowsOK
<1> QED
  BY <1>1, SpecInv, PTL

\* A row is marked processed only once its event is stored.
THEOREM SpecProcessedHasEvent == Spec => []ProcessedHasEvent
<1>1. Inv => ProcessedHasEvent
  BY DEF Inv
<1> QED
  BY <1>1, SpecInv, PTL

\* Events and messages correspond one to one.
THEOREM SpecEventsMatchMessages == Spec => []EventsMatchMessages
<1>1. EventIsItsOwn /\ OneEventPerMessage /\ ProcessedHasEvent => EventsMatchMessages
  BY DEF EventsMatchMessages
<1> QED
  BY <1>1, SpecEventIsItsOwn, SpecOneEventPerMessage, SpecProcessedHasEvent, PTL

\* Every popped message is held, stored in one row, or lost, never two of
\* these and never none.
THEOREM SpecConservation == Spec => []Conservation
<1>1. Inv => Conservation
  BY DEF Inv
<1> QED
  BY <1>1, SpecInv, PTL

-----------------------------------------------------------------------------
(* Work is not given up silently. *)

\* A row that failed was charged for it.
ChargedOK == \A i \in Ids : status[i] = "process_failed" => attempts[i] > 0

\* What a step does to the rows: nothing, new pending rows, or one of the marks
\* and deletes on some of them.
RowsStep ==
    \/ UNCHANGED <<status, attempts>>
    \/ \E a \in Actors : InsertInbox(a) \/ MarkDecodeFailed(a) \/ MarkProcessed(a) \/ MarkProcessFailed(a)
    \/ CleanupProcessed \/ CleanupFailed

LEMMA NextRowsStep == [Next]_vars => RowsStep
<1> SUFFICES ASSUME [Next]_vars PROVE RowsStep
  OBVIOUS
<1>1. ASSUME \/ Arrive \/ BeginPull \/ BeginProcess
             \/ \E r \in Requests : BeginManualSync(r)
             \/ \E i \in Ids : Expire(i)
             \/ CleanupAborts \/ Crash
             \/ UNCHANGED vars
      PROVE  UNCHANGED <<status, attempts>>
  BY <1>1 DEF Arrive, BeginPull, BeginProcess, BeginManualSync, Expire, CleanupAborts, Crash,
              vars, inboxVars
<1>2. ASSUME NEW a \in Actors, PullStep(a) PROVE InsertInbox(a) \/ UNCHANGED <<status, attempts>>
  BY <1>2 DEF PullStep, Pop, PopEmpty, PopFails, InsertInboxFails, inboxVars
<1>3. ASSUME NEW a \in Actors, ProcessStep(a)
      PROVE  \/ MarkDecodeFailed(a) \/ MarkProcessed(a) \/ MarkProcessFailed(a)
             \/ UNCHANGED <<status, attempts>>
  BY <1>3 DEF ProcessStep, List, ListEmptyOrFails, MarkDecodeFailedFails, NothingDecoded,
              InsertEvents, InsertEventsFails, MarkProcessedFails, MarkProcessFailedFails, inboxVars
<1> QED
  BY <1>1, <1>2, <1>3 DEF Next, RowsStep

\* The first row of a set of rows is one of them.
LEMMA MinOfIds ==
    ASSUME NEW S \in SUBSET Ids, S # {}
    PROVE  Min(S) \in S
<1> DEFINE R == OpToRel(<, Nat)
<1>1. S \subseteq Nat
  BY UsageInboxAssumption DEF Ids
<1>2. PICK x \in S : \A y \in S : ~ (<<y, x>> \in R)
  <2>1. IsWellFoundedOn(R, Nat)
    BY NatLessThanWellFounded DEF R
  <2> HIDE DEF R
  <2> QED
    BY <1>1, <2>1, WFMin
<1>3. \A y \in S : x <= y
  <2> SUFFICES ASSUME NEW y \in S, y < x PROVE FALSE
    BY <1>1
  <2>1. <<y, x>> \in R
    BY <1>1 DEF OpToRel
  <2> QED
    BY <1>2, <2>1
<1> QED
  BY <1>3 DEF Min

LEMMA SpecChargedOK == Spec => []ChargedOK
<1>1. Init => ChargedOK
  BY DEF Init, ChargedOK
<1>2. Inv /\ ChargedOK /\ [Next]_vars => ChargedOK'
  <2> SUFFICES ASSUME Inv, ChargedOK, [Next]_vars, NEW i \in Ids, status'[i] = "process_failed"
               PROVE  attempts'[i] > 0
    BY DEF ChargedOK
  <2>1. attempts[i] \in Nat /\ status \in [Ids -> Status]
    BY DEF Inv, TypeOK
  <2>2. CASE UNCHANGED <<status, attempts>>
    BY <2>2 DEF ChargedOK
  <2>3. ASSUME NEW a \in Actors, InsertInbox(a) PROVE attempts'[i] > 0
    BY <2>3 DEF InsertInbox, ChargedOK
  <2>4. ASSUME NEW a \in Actors, MarkDecodeFailed(a) PROVE attempts'[i] > 0
    <3>1. PICK hit : /\ status' = [j \in Ids |-> IF j \in hit THEN "decode_failed" ELSE status[j]]
                     /\ attempts' = [j \in Ids |-> IF j \in hit THEN attempts[j] + 1 ELSE attempts[j]]
      BY <2>4 DEF MarkDecodeFailed
    <3> QED
      BY <2>1, <3>1 DEF ChargedOK
  <2>5. ASSUME NEW a \in Actors, MarkProcessed(a) PROVE attempts'[i] > 0
    BY <2>5 DEF MarkProcessed, ChargedOK
  <2>6. ASSUME NEW a \in Actors, MarkProcessFailed(a) PROVE attempts'[i] > 0
    BY <2>1, <2>6 DEF MarkProcessFailed, ChargedOK
  <2>7. CASE CleanupProcessed \/ CleanupFailed
    BY <2>1, <2>7 DEF CleanupProcessed, CleanupFailed, DeleteOld, ChargedOK
  <2> QED
    BY <2>2, <2>3, <2>4, <2>5, <2>6, <2>7, NextRowsStep DEF RowsStep
<1> QED
  BY <1>1, <1>2, SpecInv, PTL DEF Spec

\* A decodable row without an event leaves the retry set only with its attempts
\* used up, or deleted after it had failed.
THEOREM SpecNoSilentDrop == Spec => NoSilentDrop
<1>1. Inv /\ ChargedOK /\ [Next]_vars =>
        [\A i \in Processable :
            /\ eventOf'[i] = None /\ rowMsg[i] \notin Malformed
            /\ i \notin Processable'
            => \/ status'[i] = "discarded" /\ attempts'[i] = MaxProcessAttempts
               \/ status'[i] = "absent" /\ status[i] = "process_failed"
                  /\ attempts[i] > 0]_vars
  <2> DEFINE GivenUp(i) ==
        \/ status'[i] = "discarded" /\ attempts'[i] = MaxProcessAttempts
        \/ status'[i] = "absent" /\ status[i] = "process_failed" /\ attempts[i] > 0
  <2> SUFFICES ASSUME Inv, ChargedOK, [Next]_vars, NEW i \in Processable,
                      eventOf'[i] = None, rowMsg[i] \notin Malformed, i \notin Processable'
               PROVE  GivenUp(i)
    BY Zenon
  <2>1. /\ i \in Ids /\ status[i] \in {"pending", "process_failed"}
        /\ status'[i] \notin {"pending", "process_failed"}
        /\ attempts[i] \in Nat /\ attempts[i] < MaxProcessAttempts
        /\ status \in [Ids -> Status] /\ MaxProcessAttempts \in Nat
    BY UsageInboxAssumption DEF Inv, TypeOK, Processable, AttemptsOK
  <2>2. CASE UNCHANGED <<status, attempts>>
    BY <2>1, <2>2
  <2>3. ASSUME NEW a \in Actors, InsertInbox(a) PROVE GivenUp(i)
    BY <2>1, <2>3 DEF InsertInbox
  <2>4. ASSUME NEW a \in Actors, MarkDecodeFailed(a) PROVE GivenUp(i)
    <3>1. status'[i] # status[i] => i = Min(Undecodable(batch[a]))
      BY <2>1, <2>4 DEF MarkDecodeFailed
    <3>2. Min(Undecodable(batch[a])) \in Undecodable(batch[a])
      <4>1. Undecodable(batch[a]) \subseteq Ids /\ Undecodable(batch[a]) # {}
        BY <2>4 DEF MarkDecodeFailed, Undecodable, Inv, TypeOK
      <4> QED
        BY <4>1, MinOfIds
    <3> QED
      BY <2>1, <3>1, <3>2 DEF Undecodable
  <2>5. ASSUME NEW a \in Actors, MarkProcessed(a) PROVE GivenUp(i)
    <3>1. status'[i] # status[i] => i \in batch[a] /\ pc[a] = "mark" /\ UNCHANGED eventOf
      BY <2>1, <2>5 DEF MarkProcessed, Stored
    <3>2. i \in batch[a] /\ pc[a] = "mark" => eventOf[i] = rowMsg[i] /\ rowMsg[i] \in 1 .. popped
      BY <2>1 DEF Inv, BatchOK, RowsOK
    <3>3. popped \in Nat
      BY UsageInboxAssumption DEF Inv, TypeOK
    <3> QED
      BY <2>1, <3>1, <3>2, <3>3 DEF None
  <2>6. ASSUME NEW a \in Actors, MarkProcessFailed(a) PROVE GivenUp(i)
    <3>1. /\ status'[i] = IF i \in Stored(a) THEN FailedStatus(i) ELSE status[i]
          /\ attempts'[i] = IF i \in Stored(a) THEN attempts[i] + 1 ELSE attempts[i]
      BY <2>1, <2>6 DEF MarkProcessFailed
    <3>2. i \in Stored(a) /\ FailedStatus(i) = "discarded" /\ attempts[i] + 1 >= MaxProcessAttempts
      BY <2>1, <3>1 DEF FailedStatus
    <3> QED
      BY <2>1, <3>1, <3>2
  <2>7. CASE CleanupProcessed
    BY <2>1, <2>7 DEF CleanupProcessed, DeleteOld
  <2>8. CASE CleanupFailed
    BY <2>1, <2>8 DEF CleanupFailed, DeleteOld, ChargedOK
  <2> QED
    BY <2>2, <2>3, <2>4, <2>5, <2>6, <2>7, <2>8, NextRowsStep DEF RowsStep
<1> QED
  BY <1>1, SpecInv, SpecChargedOK, PTL DEF Spec, NoSilentDrop

-----------------------------------------------------------------------------
(* The refinement of UsageDelivery. *)

fateOf == [m \in Messages |-> Fate(m)]

\* The fate of a message, read off the place that Conservation gives it.
FateFacts ==
    \A m \in Messages :
        /\ m > arrived => Fate(m) = "unsent"
        /\ popped < m /\ m <= arrived => Fate(m) = "queued"
        /\ m \in lost => Fate(m) = "dropped"
        /\ Held(m) => Fate(m) = "held"
        /\ \A i \in Ids : i <= lastId /\ rowMsg[i] = m => Fate(m) = FateOfRow(i)
        /\ \/ popped < m \/ m \in lost \/ Held(m)
           \/ \E i \in Ids : i <= lastId /\ rowMsg[i] = m

LEMMA FateCases == Inv => FateFacts
<1> SUFFICES ASSUME Inv, NEW m \in Messages
             PROVE  /\ m > arrived => Fate(m) = "unsent"
                    /\ popped < m /\ m <= arrived => Fate(m) = "queued"
                    /\ m \in lost => Fate(m) = "dropped"
                    /\ Held(m) => Fate(m) = "held"
                    /\ \A i \in Ids : i <= lastId /\ rowMsg[i] = m => Fate(m) = FateOfRow(i)
                    /\ \/ popped < m \/ m \in lost \/ Held(m)
                       \/ \E i \in Ids : i <= lastId /\ rowMsg[i] = m
  BY DEF FateFacts
<1>1. /\ arrived \in Nat /\ popped \in Nat /\ lastId \in Nat /\ m \in Nat \ {0}
      /\ popped <= arrived /\ lost \subseteq 1 .. popped
  BY UsageInboxAssumption DEF Inv, TypeOK, CountersOK, Conservation, Messages
<1>2. m <= popped => \/ m \in lost /\ ~ Held(m) /\ RowsOf(m) = {}
                     \/ m \notin lost /\ Held(m) /\ RowsOf(m) = {}
                     \/ m \notin lost /\ ~ Held(m) /\ RowsOf(m) # {}
  BY <1>1 DEF Inv, Conservation
<1>3. m > arrived => Fate(m) = "unsent"
  BY DEF Fate
<1>4. popped < m /\ m <= arrived => Fate(m) = "queued"
  BY <1>1 DEF Fate
<1>5. m \in lost => Fate(m) = "dropped"
  BY <1>1 DEF Fate
<1>6. Held(m) => Fate(m) = "held"
  <2>1. Held(m) => m <= popped
    BY <1>1 DEF Held, Inv, BufOK, TypeOK
  <2> QED
    BY <1>1, <1>2, <2>1 DEF Fate
<1>7. ASSUME NEW i \in Ids, i <= lastId, rowMsg[i] = m PROVE Fate(m) = FateOfRow(i)
  <2>1. i \in RowsOf(m) /\ m <= popped
    BY <1>1, <1>7 DEF RowsOf, Inv, RowsOK
  <2>2. \A j \in RowsOf(m) : j = i
    <3> SUFFICES ASSUME NEW j \in Ids, j <= lastId, rowMsg[j] = m, j # i PROVE FALSE
      BY DEF RowsOf
    <3>1. i < j \/ j < i
      BY DEF Ids
    <3> QED
      BY <1>1, <1>7, <3>1 DEF Inv, RowsOK
  <2> DEFINE c == CHOOSE j \in RowsOf(m) : TRUE
  <2>3. c = i
    BY <2>1, <2>2
  <2>4. ~(m > arrived) /\ ~(m > popped) /\ m \notin lost /\ RowsOf(m) # {}
    BY <1>1, <1>2, <2>1
  <2>5. Fate(m) = FateOfRow(c)
    BY <2>4, Zenon DEF Fate
  <2> HIDE DEF c
  <2> QED
    BY <2>3, <2>5
<1>8. \/ popped < m \/ m \in lost \/ Held(m)
      \/ \E i \in Ids : i <= lastId /\ rowMsg[i] = m
  BY <1>1, <1>2 DEF RowsOf
<1> QED
  BY <1>3, <1>4, <1>5, <1>6, <1>7, <1>8

\* A step after which every message keeps its fate, or had one of From and has
\* the fate to.
Goes(From, to) ==
    \A m \in Messages : Fate(m)' = Fate(m) \/ (Fate(m) \in From /\ Fate(m)' = to)

LEMMA GoesMove ==
    ASSUME NEW From, NEW to, Goes(From, to)
    PROVE  Delivery!Move({m \in Messages : Fate(m)' # Fate(m)}, From, to)
  BY DEF Goes, Delivery!Move

RowGoes(i, From, to) ==
    FateOfRow(i)' = FateOfRow(i) \/ (FateOfRow(i) \in From /\ FateOfRow(i)' = to)

\* The messages of S move on, with those of some old rows; the others stay where
\* they are.
LEMMA MessagesGo ==
    ASSUME Inv, Inv', NEW From, NEW to, NEW S,
           \A m \in S : m \in Messages => Fate(m) \in From /\ Fate(m)' = to,
           lastId <= lastId',
           \A i \in Ids : i <= lastId => rowMsg'[i] = rowMsg[i] /\ RowGoes(i, From, to),
           \A m \in Messages \ S :
               /\ m > arrived => m > arrived'
               /\ popped < m /\ m <= arrived => popped' < m /\ m <= arrived'
               /\ m \in lost => m \in lost'
               /\ Held(m) => Held(m)'
    PROVE  Goes(From, to)
<1> SUFFICES ASSUME NEW m \in Messages
             PROVE  Fate(m)' = Fate(m) \/ (Fate(m) \in From /\ Fate(m)' = to)
  BY DEF Goes
<1>1. FateFacts /\ FateFacts'
  BY FateCases, PTL
<1>2. arrived \in Nat /\ popped \in Nat /\ m \in Nat /\ lastId \in Nat /\ lastId' \in Nat
  BY UsageInboxAssumption DEF Inv, TypeOK, Messages
<1>3. CASE m \in S
  BY <1>3
<1>4. CASE m \notin S /\ (popped < m \/ m \in lost \/ Held(m))
  BY <1>1, <1>2, <1>4 DEF FateFacts
<1>5. ASSUME NEW i \in Ids, i <= lastId, rowMsg[i] = m
      PROVE  Fate(m)' = Fate(m) \/ (Fate(m) \in From /\ Fate(m)' = to)
  <2>1. i <= lastId' /\ rowMsg'[i] = m
    BY <1>2, <1>5 DEF Ids
  <2>2. Fate(m) = FateOfRow(i) /\ Fate(m)' = FateOfRow(i)'
    BY <1>1, <1>5, <2>1 DEF FateFacts
  <2> QED
    BY <1>5, <2>2 DEF RowGoes
<1> QED
  BY <1>1, <1>3, <1>4, <1>5 DEF FateFacts

\* A row that keeps its event, or has none yet, and is not taken up again stays
\* or is dropped.
LEMMA RowFades ==
    ASSUME NEW i \in Ids, eventOf'[i] = eventOf[i],
           i \in Processable' \/ Inflight(i)' => i \in Processable \/ Inflight(i)
    PROVE  RowGoes(i, {"stored"}, "dropped")
  BY DEF RowGoes, FateOfRow

LEMMA RowStays ==
    ASSUME NEW i \in Ids, eventOf'[i] = eventOf[i], status'[i] = status[i],
           Inflight(i)' <=> Inflight(i), NEW From, NEW to
    PROVE  RowGoes(i, From, to)
<1>1. i \in Processable' <=> i \in Processable
  BY DEF Processable
<1> QED
  BY <1>1 DEF RowGoes, FateOfRow

\* The producer queues a message.
LEMMA ArriveGoes ==
    ASSUME Inv, Inv', Arrive
    PROVE  Goes({"unsent"}, "queued")
<1>1. /\ arrived' = arrived + 1
      /\ UNCHANGED <<popped, lastId, rowMsg, status, eventOf, pc, buf, batch, lost>>
  BY DEF Arrive, inboxVars
<1>2. arrived \in Nat /\ popped \in Nat /\ popped <= arrived /\ lastId \in Nat
  BY UsageInboxAssumption DEF Inv, TypeOK, CountersOK
<1>3. \A i \in Ids : RowGoes(i, {"unsent"}, "queued")
  BY <1>1, RowStays DEF Inflight
<1> DEFINE S == {arrived + 1}
<1>4. \A m \in S : m \in Messages => Fate(m) \in {"unsent"} /\ Fate(m)' = "queued"
  <2>1. FateFacts /\ FateFacts'
    BY FateCases, PTL
  <2> QED
    BY <1>1, <1>2, <2>1 DEF FateFacts
<1>5. \A m \in Messages \ S :
        /\ m > arrived => m > arrived'
        /\ popped < m /\ m <= arrived => popped' < m /\ m <= arrived'
        /\ m \in lost => m \in lost'
        /\ Held(m) => Held(m)'
  BY <1>1, <1>2 DEF Held, Messages
<1> HIDE DEF S
<1> QED
  BY <1>1, <1>2, <1>3, <1>4, <1>5, MessagesGo

\* A pull that works on no rows leaves those of the processors as they are.
LEMMA PullKeepsInflight ==
    ASSUME Inv, NEW a \in Actors, pc[a] \in {"pop", "insert"}, pc'[a] # "batch",
           \A b \in Actors \ {a} : pc'[b] = pc[b] /\ batch'[b] = batch[b]
    PROVE  \A i \in Ids : Inflight(i)' <=> Inflight(i)
  BY DEF Inflight

\* LPOP: the head of the queue is held.
LEMMA PopGoes ==
    ASSUME Inv, Inv', NEW a \in Actors, Pop(a)
    PROVE  Goes({"queued"}, "held")
<1>1. /\ pc[a] = "pop" /\ popped' = popped + PopCount
      /\ buf' = [buf EXCEPT ![a] = [from |-> popped + 1, to |-> popped']]
      /\ pc' = [pc EXCEPT ![a] = "insert"]
      /\ UNCHANGED <<arrived, lastId, rowMsg, status, eventOf, batch, lost>>
  BY DEF Pop, inboxVars
<1>2. arrived \in Nat /\ popped \in Nat /\ popped' \in Nat /\ popped' <= arrived /\ popped <= popped'
      /\ lastId \in Nat
  BY <1>1, UsageInboxAssumption DEF Inv, TypeOK, CountersOK, PopCount
<1>3. pc'[a] = "insert" /\ buf'[a] = [from |-> popped + 1, to |-> popped']
      /\ \A b \in Actors \ {a} : pc'[b] = pc[b] /\ buf'[b] = buf[b]
  BY <1>1 DEF Inv, TypeOK
<1>4. \A i \in Ids : RowGoes(i, {"queued"}, "held")
  BY <1>1, <1>3, RowStays, PullKeepsInflight
<1> DEFINE S == popped + 1 .. popped'
<1>5. \A m \in S : m \in Messages => Fate(m) \in {"queued"} /\ Fate(m)' = "held"
  <2>1. FateFacts /\ FateFacts'
    BY FateCases, PTL
  <2>2. \A m \in S : Held(m)'
    BY <1>3 DEF Held
  <2> QED
    BY <1>2, <2>1, <2>2 DEF FateFacts
<1>6. \A m \in Messages \ S :
        /\ m > arrived => m > arrived'
        /\ popped < m /\ m <= arrived => popped' < m /\ m <= arrived'
        /\ m \in lost => m \in lost'
        /\ Held(m) => Held(m)'
  <2>1. \A m \in Messages : Held(m) => Held(m)'
    BY <1>1, <1>3 DEF Held
  <2> QED
    BY <1>1, <1>2, <2>1 DEF Messages
<1> HIDE DEF S
<1> QED
  BY <1>1, <1>2, <1>4, <1>5, <1>6, MessagesGo

\* Finish of an actor that holds nothing leaves what the others hold.
LEMMA FinishKeepsHeld ==
    ASSUME Inv, NEW a \in Actors, Finish(a)
    PROVE  /\ pc'[a] = "idle" /\ batch'[a] = {}
           /\ \A b \in Actors \ {a} : pc'[b] = pc[b] /\ buf'[b] = buf[b] /\ batch'[b] = batch[b]
           /\ pc[a] # "insert" => \A m \in Messages : Held(m) => Held(m)'
<1>1. /\ pc'[a] = "idle" /\ batch'[a] = {}
      /\ \A b \in Actors \ {a} : pc'[b] = pc[b] /\ buf'[b] = buf[b] /\ batch'[b] = batch[b]
  BY DEF Finish, Inv, TypeOK
<1> QED
  BY <1>1 DEF Held

\* PopUsage fails after LPOP took effect: the head of the queue is dropped.
LEMMA PopFailsGoes ==
    ASSUME Inv, Inv', NEW a \in Actors, PopFails(a)
    PROVE  Goes({"queued"}, "dropped")
<1>1. PICK n \in {0, PopCount} :
         popped' = popped + n /\ lost' = lost \cup (popped + 1 .. popped + n)
  BY DEF PopFails
<1>2. /\ pc[a] = "pop" /\ Finish(a)
      /\ UNCHANGED <<arrived, lastId, rowMsg, status, eventOf>>
  BY DEF PopFails, inboxVars
<1>3. arrived \in Nat /\ popped \in Nat /\ popped' \in Nat /\ popped' <= arrived /\ popped <= popped'
      /\ lastId \in Nat
  BY <1>1, <1>2, UsageInboxAssumption DEF Inv, TypeOK, CountersOK, PopCount
<1>4. \A i \in Ids : RowGoes(i, {"queued"}, "dropped")
  BY <1>2, RowStays, PullKeepsInflight, FinishKeepsHeld
<1> DEFINE S == popped + 1 .. popped'
<1>5. \A m \in S : m \in Messages => Fate(m) \in {"queued"} /\ Fate(m)' = "dropped"
  <2>1. FateFacts /\ FateFacts'
    BY FateCases, PTL
  <2> QED
    BY <1>1, <1>3, <2>1 DEF FateFacts
<1>6. \A m \in Messages \ S :
        /\ m > arrived => m > arrived'
        /\ popped < m /\ m <= arrived => popped' < m /\ m <= arrived'
        /\ m \in lost => m \in lost'
        /\ Held(m) => Held(m)'
  BY <1>1, <1>2, <1>3, FinishKeepsHeld DEF Messages
<1> HIDE DEF S
<1> QED
  BY <1>2, <1>3, <1>4, <1>5, <1>6, MessagesGo

\* The popped messages get their rows.
LEMMA InsertInboxGoes ==
    ASSUME Inv, Inv', NEW a \in Actors, InsertInbox(a)
    PROVE  Goes({"held"}, "stored")
<1> DEFINE from == buf[a].from
           to == buf[a].to
           first == lastId + 1
           last == first + (to - from)
<1>1. /\ pc[a] = "insert" /\ lastId' = last
      /\ rowMsg' = [i \in Ids |-> IF i \in first .. last THEN from + (i - first) ELSE rowMsg[i]]
      /\ status' = [i \in Ids |-> IF i \in first .. last THEN "pending" ELSE status[i]]
      /\ PullReturns(a)
      /\ UNCHANGED <<arrived, popped, eventOf, lost>>
  BY DEF InsertInbox, FirstNewId, queueVars
<1>2. /\ from \in Nat /\ to \in Nat /\ from <= to /\ to = popped /\ lastId \in Nat /\ lastId < from
      /\ last \in Nat /\ last <= MaxMessages /\ MaxMessages \in Nat /\ arrived \in Nat /\ popped <= arrived
  BY <1>1, UsageInboxAssumption DEF Inv, BufOK, TypeOK, CountersOK
<1>3. /\ pc'[a] \in {"idle", "list"}
      /\ \A b \in Actors \ {a} : pc'[b] = pc[b] /\ buf'[b] = buf[b] /\ batch'[b] = batch[b]
  BY <1>1 DEF PullReturns, Finish, Inv, TypeOK
<1>4. \A i \in Ids : Inflight(i)' <=> Inflight(i)
  BY <1>1, <1>3, PullKeepsInflight
<1>5. \A i \in Ids : i <= lastId => rowMsg'[i] = rowMsg[i] /\ status'[i] = status[i]
  BY <1>1, <1>2 DEF Ids
<1>6. \A i \in Ids : i <= lastId => rowMsg'[i] = rowMsg[i] /\ RowGoes(i, {"held"}, "stored")
  BY <1>1, <1>4, <1>5, RowStays
<1> DEFINE S == from .. to
<1>7. \A m \in S : m \in Messages => Fate(m) \in {"held"} /\ Fate(m)' = "stored"
  <2> SUFFICES ASSUME NEW m \in S, m \in Messages PROVE Fate(m) = "held" /\ Fate(m)' = "stored"
    OBVIOUS
  <2>1. FateFacts /\ FateFacts'
    BY FateCases, PTL
  <2>2. Held(m)
    BY <1>1 DEF Held
  <2>3. PICK i \in Ids : i \in first .. last /\ from + (i - first) = m
    <3>1. first + (m - from) \in first .. last /\ first + (m - from) \in Ids
      BY <1>2 DEF Ids
    <3>2. from + ((first + (m - from)) - first) = m
      BY <1>2
    <3> QED
      BY <3>1, <3>2
  <2>4. rowMsg'[i] = m /\ status'[i] = "pending" /\ i <= lastId' /\ lastId < i
    BY <1>1, <1>2, <2>3 DEF Ids
  <2>5. eventOf'[i] = None
    BY <1>1, <2>3, <2>4 DEF Inv, RowsOK
  <2>6. i \in Processable'
    BY <2>3, <2>4 DEF Processable
  <2>7. FateOfRow(i)' = "stored"
    BY <2>5, <2>6 DEF FateOfRow
  <2> QED
    BY <2>1, <2>2, <2>3, <2>4, <2>7 DEF FateFacts
<1>8. \A m \in Messages \ S :
        /\ m > arrived => m > arrived'
        /\ popped < m /\ m <= arrived => popped' < m /\ m <= arrived'
        /\ m \in lost => m \in lost'
        /\ Held(m) => Held(m)'
  <2>1. \A m \in Messages \ S : Held(m) => Held(m)'
    BY <1>3 DEF Held
  <2> QED
    BY <1>1, <2>1
<1> HIDE DEF S
<1>9. lastId <= lastId'
  BY <1>1, <1>2
<1> QED
  BY <1>6, <1>7, <1>8, <1>9, MessagesGo

\* The insert fails: what was held is dropped.
LEMMA InsertInboxFailsGoes ==
    ASSUME Inv, Inv', NEW a \in Actors, InsertInboxFails(a)
    PROVE  Goes({"held"}, "dropped")
<1>1. /\ pc[a] = "insert" /\ Finish(a)
      /\ lost' = lost \cup (buf[a].from .. buf[a].to)
      /\ UNCHANGED <<arrived, popped, lastId, rowMsg, status, eventOf>>
  BY DEF InsertInboxFails, inboxVars, queueVars
<1>2. \A i \in Ids : RowGoes(i, {"held"}, "dropped")
  BY <1>1, RowStays, PullKeepsInflight, FinishKeepsHeld
<1> DEFINE S == buf[a].from .. buf[a].to
<1>3. \A m \in S : m \in Messages => Fate(m) \in {"held"} /\ Fate(m)' = "dropped"
  <2>1. FateFacts /\ FateFacts'
    BY FateCases, PTL
  <2>2. \A m \in S : Held(m)
    BY <1>1 DEF Held
  <2> QED
    BY <1>1, <2>1, <2>2 DEF FateFacts
<1>4. \A m \in Messages \ S : m \in lost => m \in lost'
  BY <1>1
<1>5. \A m \in Messages \ S : Held(m) => Held(m)'
  BY <1>1, FinishKeepsHeld DEF Held
<1> HIDE DEF S
<1>6. lastId <= lastId'
  BY <1>1, UsageInboxAssumption DEF Inv, TypeOK
<1> QED
  BY <1>1, <1>2, <1>3, <1>4, <1>5, <1>6, MessagesGo

\* Steps that pop, store and lose nothing: only rows may change.
LEMMA RowsFade ==
    ASSUME Inv, Inv', UNCHANGED <<arrived, popped, lastId, rowMsg, eventOf, lost>>,
           \A m \in Messages : Held(m) => Held(m)',
           \A i \in Ids : i <= lastId /\ (i \in Processable' \/ Inflight(i)') => i \in Processable \/ Inflight(i)
    PROVE  Goes({"stored"}, "dropped")
<1>1. \A i \in Ids : i <= lastId => rowMsg'[i] = rowMsg[i] /\ RowGoes(i, {"stored"}, "dropped")
  BY RowFades
<1>2. lastId <= lastId'
  BY UsageInboxAssumption DEF Inv, TypeOK
<1> DEFINE S == {}
<1>3. \A m \in S : m \in Messages => Fate(m) \in {"stored"} /\ Fate(m)' = "dropped"
  OBVIOUS
<1> HIDE DEF S
<1> QED
  BY <1>1, <1>2, <1>3, MessagesGo

\* The actions that only begin, list, mark, delete or end.
LEMMA RowActionsGo ==
    ASSUME Inv, Inv',
           \/ BeginPull \/ BeginProcess \/ CleanupProcessed \/ CleanupFailed \/ CleanupAborts
           \/ UNCHANGED vars
           \/ \E r \in Requests : BeginManualSync(r)
           \/ \E i \in Ids : Expire(i)
           \/ \E a \in Actors : \/ PopEmpty(a) \/ List(a) \/ ListEmptyOrFails(a)
                                \/ MarkDecodeFailed(a) \/ MarkDecodeFailedFails(a)
                                \/ NothingDecoded(a) \/ InsertEventsFails(a)
                                \/ MarkProcessed(a) \/ MarkProcessedFails(a)
                                \/ MarkProcessFailed(a) \/ MarkProcessFailedFails(a)
    PROVE  Goes({"stored"}, "dropped")
<1> DEFINE Fades == \A i \in Ids : i <= lastId /\ (i \in Processable' \/ Inflight(i)')
                                      => i \in Processable \/ Inflight(i)
           Kept == \A m \in Messages : Held(m) => Held(m)'
<1>1. UNCHANGED <<arrived, popped, lastId, rowMsg, eventOf, lost>>
  BY DEF BeginPull, BeginProcess, BeginManualSync, Expire, CleanupProcessed, CleanupFailed,
         CleanupAborts, DeleteOld, PopEmpty, List, ListEmptyOrFails, MarkDecodeFailed,
         MarkDecodeFailedFails, NothingDecoded, InsertEventsFails, MarkProcessed,
         MarkProcessedFails, MarkProcessFailed, MarkProcessFailedFails, vars, inboxVars, queueVars
<1>2. CASE \/ BeginPull \/ BeginProcess \/ CleanupAborts \/ UNCHANGED vars
           \/ \E r \in Requests : BeginManualSync(r)
           \/ \E i \in Ids : Expire(i)
  <2>1. /\ UNCHANGED <<status, buf, batch>>
        /\ \A b \in Actors : pc[b] \in {"insert", "batch"} \/ pc'[b] \in {"insert", "batch"} => pc'[b] = pc[b]
    BY <1>2 DEF BeginPull, BeginProcess, BeginManualSync, Expire, CleanupAborts, vars, inboxVars,
                Inv, TypeOK, Actors
  <2>2. Fades
    BY <2>1 DEF Processable, Inflight
  <2>3. Kept
    BY <2>1 DEF Held
  <2> QED
    BY <1>1, <2>2, <2>3, RowsFade
<1>3. CASE CleanupProcessed \/ CleanupFailed
  <2>1. UNCHANGED <<pc, buf, batch>> /\ \A i \in Ids : status'[i] \in {status[i], "absent"}
    BY <1>3 DEF CleanupProcessed, CleanupFailed, DeleteOld
  <2>2. Fades
    BY <2>1 DEF Processable, Inflight
  <2>3. Kept
    BY <2>1 DEF Held
  <2> QED
    BY <1>1, <2>2, <2>3, RowsFade
<1>4. ASSUME NEW a \in Actors, PopEmpty(a) PROVE Goes({"stored"}, "dropped")
  <2>1. /\ pc[a] = "pop" /\ pc'[a] \in {"idle", "list"} /\ UNCHANGED status
        /\ \A b \in Actors \ {a} : pc'[b] = pc[b] /\ buf'[b] = buf[b] /\ batch'[b] = batch[b]
    BY <1>4 DEF PopEmpty, PullReturns, Finish, inboxVars, Inv, TypeOK
  <2>2. Fades
    BY <2>1, PullKeepsInflight DEF Processable
  <2>3. Kept
    BY <2>1 DEF Held
  <2> QED
    BY <1>1, <2>2, <2>3, RowsFade
<1>5. ASSUME NEW a \in Actors,
             List(a) \/ MarkDecodeFailed(a) \/ InsertEventsFails(a)
      PROVE  Goes({"stored"}, "dropped")
  <2>1. /\ pc[a] \in {"list", "batch"} /\ pc'[a] \in {"batch", "fail"} /\ UNCHANGED buf
        /\ \A b \in Actors \ {a} : pc'[b] = pc[b] /\ batch'[b] = batch[b]
        /\ \A i \in Ids : status'[i] \in {status[i], "decode_failed"}
    BY <1>5 DEF List, MarkDecodeFailed, InsertEventsFails, inboxVars, Inv, TypeOK
  <2>2. batch'[a] \subseteq Processable \/ (batch'[a] \subseteq batch[a] /\ pc[a] = "batch")
    <3>1. CASE List(a)
      BY <3>1 DEF List, ListProcessable, Inv, TypeOK
    <3>2. CASE MarkDecodeFailed(a)
      <4>1. PICK k : batch' = [batch EXCEPT ![a] = @ \ {k}]
        BY <3>2 DEF MarkDecodeFailed
      <4> QED
        BY <3>2, <4>1 DEF MarkDecodeFailed, Inv, TypeOK
    <3>3. CASE InsertEventsFails(a)
      BY <3>3 DEF InsertEventsFails
    <3> QED
      BY <1>5, <3>1, <3>2, <3>3
  <2>3. Fades
    BY <2>1, <2>2 DEF Processable, Inflight
  <2>4. Kept
    BY <2>1 DEF Held
  <2> QED
    BY <1>1, <2>3, <2>4, RowsFade
<1>6. ASSUME NEW a \in Actors,
             \/ ListEmptyOrFails(a) \/ MarkDecodeFailedFails(a) \/ NothingDecoded(a)
             \/ MarkProcessed(a) \/ MarkProcessedFails(a)
             \/ MarkProcessFailed(a) \/ MarkProcessFailedFails(a)
      PROVE  Goes({"stored"}, "dropped")
  <2>1. Finish(a) /\ pc[a] # "insert"
    BY <1>6 DEF ListEmptyOrFails, MarkDecodeFailedFails, NothingDecoded, MarkProcessed,
                MarkProcessedFails, MarkProcessFailed, MarkProcessFailedFails
  <2>2. \A i \in Ids : status'[i] = status[i] \/ i \in Stored(a)
    BY <1>6 DEF ListEmptyOrFails, MarkDecodeFailedFails, NothingDecoded, MarkProcessed,
                MarkProcessedFails, MarkProcessFailed, MarkProcessFailedFails, inboxVars
  <2>3. Stored(a) \subseteq Processable
    BY DEF Stored, Processable, Inv, BatchOK, TypeOK
  <2>4. \A i \in Ids : i \in Processable' => i \in Processable
    BY <2>2, <2>3 DEF Processable
  <2>5. \A i \in Ids : Inflight(i)' => Inflight(i)
    BY <2>1, FinishKeepsHeld DEF Inflight
  <2>6. Kept
    BY <2>1, FinishKeepsHeld
  <2> QED
    BY <1>1, <2>4, <2>5, <2>6, RowsFade
<1> QED
  BY <1>2, <1>3, <1>4, <1>5, <1>6

\* The events of a batch are recorded.
LEMMA InsertEventsGoes ==
    ASSUME Inv, Inv', NEW a \in Actors, InsertEvents(a)
    PROVE  Goes({"stored"}, "recorded")
<1>1. /\ pc[a] = "batch" /\ pc' = [pc EXCEPT ![a] = "mark"]
      /\ eventOf' = [i \in Ids |-> IF i \in batch[a] /\ eventOf[i] = None THEN rowMsg[i] ELSE eventOf[i]]
      /\ UNCHANGED <<arrived, popped, lastId, rowMsg, status, buf, batch, lost>>
  BY DEF InsertEvents, inboxVars, queueVars
<1>2. pc'[a] = "mark" /\ \A b \in Actors \ {a} : pc'[b] = pc[b]
  BY <1>1 DEF Inv, TypeOK
<1>3. ASSUME NEW i \in Ids, i <= lastId, i \in batch[a] PROVE RowGoes(i, {"stored"}, "recorded")
  <2>1. rowMsg[i] # None
    BY <1>3, UsageInboxAssumption DEF Inv, RowsOK, TypeOK, None
  <2>2. eventOf'[i] # None /\ (eventOf[i] # None \/ Inflight(i))
    BY <1>1, <1>3, <2>1 DEF Inflight
  <2> QED
    BY <2>2 DEF RowGoes, FateOfRow
<1>4. ASSUME NEW i \in Ids, i \notin batch[a] PROVE RowGoes(i, {"stored"}, "recorded")
  <2>1. Inflight(i)' <=> Inflight(i)
    BY <1>1, <1>2, <1>4 DEF Inflight
  <2> QED
    BY <1>1, <1>4, <2>1, RowStays
<1>5. \A i \in Ids : i <= lastId => rowMsg'[i] = rowMsg[i] /\ RowGoes(i, {"stored"}, "recorded")
  BY <1>1, <1>3, <1>4
<1>6. \A m \in Messages : Held(m) => Held(m)'
  BY <1>1, <1>2 DEF Held
<1>7. lastId <= lastId'
  BY <1>1, UsageInboxAssumption DEF Inv, TypeOK
<1> DEFINE S == {}
<1>8. \A m \in S : m \in Messages => Fate(m) \in {"stored"} /\ Fate(m)' = "recorded"
  OBVIOUS
<1> HIDE DEF S
<1> QED
  BY <1>1, <1>5, <1>6, <1>7, <1>8, MessagesGo

\* Only decodable messages are recorded.
RecordedOK == \A m \in Messages : Fate(m) = "recorded" => m \notin Malformed

LEMMA RecordedDecodes == Inv => RecordedOK
<1> SUFFICES ASSUME Inv, NEW m \in Messages, Fate(m) = "recorded" PROVE m \notin Malformed
  BY DEF RecordedOK
<1>1. arrived \in Nat /\ popped \in Nat /\ m \in Nat /\ FateFacts
  BY FateCases, UsageInboxAssumption DEF Inv, TypeOK, Messages
<1>2. PICK i \in Ids : i <= lastId /\ rowMsg[i] = m
  BY <1>1 DEF FateFacts
<1>3. FateOfRow(i) = "recorded"
  BY <1>1, <1>2 DEF FateFacts
<1>4. eventOf[i] # None
  BY <1>3 DEF FateOfRow
<1> QED
  BY <1>2, <1>4 DEF Inv, EventIsItsOwn

\* The process dies: what only memory held is dropped, with the rows that were
\* deleted while a processor had them.
LEMMA CrashGoes ==
    ASSUME Inv, Inv', Crash
    PROVE  Goes({"queued", "held", "stored"}, "dropped")
<1>1. /\ lost' = lost \cup UNION {buf[a].from .. buf[a].to : a \in Actors}
      /\ pc' = [a \in Actors |-> "idle"]
      /\ UNCHANGED <<arrived, popped, lastId, rowMsg, status, eventOf>>
  BY DEF Crash, inboxVars, queueVars
<1>2. ASSUME NEW i \in Ids PROVE RowGoes(i, {"queued", "held", "stored"}, "dropped")
  <2>1. i \in Processable' => i \in Processable
    BY <1>1 DEF Processable
  <2>2. ~ Inflight(i)'
    BY <1>1 DEF Inflight
  <2>3. RowGoes(i, {"stored"}, "dropped")
    BY <1>1, <2>1, <2>2, RowFades
  <2> QED
    BY <2>3 DEF RowGoes
<1> DEFINE S == {m \in Messages : Held(m)}
<1>3. \A m \in S : m \in Messages => Fate(m) \in {"queued", "held", "stored"} /\ Fate(m)' = "dropped"
  <2>1. FateFacts /\ FateFacts'
    BY FateCases, PTL
  <2>2. \A m \in S : m \in lost'
    BY <1>1 DEF Held
  <2> QED
    BY <2>1, <2>2 DEF FateFacts
<1>4. \A m \in Messages \ S : (m \in lost => m \in lost') /\ (Held(m) => Held(m)')
  BY <1>1
<1> HIDE DEF S
<1>5. lastId <= lastId'
  BY <1>1, UsageInboxAssumption DEF Inv, TypeOK
<1> QED
  BY <1>1, <1>2, <1>3, <1>4, <1>5, MessagesGo

\* Every step of the pipeline is a step of UsageDelivery or leaves the fates as
\* they are: one event at most for every message, none without a stored row,
\* and a message that was recorded or dropped stays so, over every failure,
\* replay, cleanup and crash.
THEOREM SpecImplementsDelivery == Spec => ImplementsDelivery
<1>1. Init => Delivery!Init
  <2> SUFFICES ASSUME Init, NEW m \in Messages PROVE Fate(m) = "unsent"
    BY DEF Delivery!Init
  <2> QED
    BY UsageInboxAssumption DEF Init, Fate, Messages
<1>2. Inv /\ Inv' /\ [Next]_vars => [Delivery!Next]_fateOf
  <2> SUFFICES ASSUME Inv, Inv', [Next]_vars PROVE Delivery!Next
    BY DEF fateOf
  <2> DEFINE S == {m \in Messages : Fate(m)' # Fate(m)}
  <2>1. S \in SUBSET Messages
    OBVIOUS
  <2>2. ASSUME NEW From, From \subseteq {"queued", "held", "stored"}, Goes(From, "dropped")
        PROVE  Delivery!Next
    <3>1. Goes({"queued", "held", "stored"}, "dropped")
      BY <2>2 DEF Goes
    <3>2. Delivery!Move(S, {"queued", "held", "stored"}, "dropped")
      BY <3>1, GoesMove
    <3> HIDE DEF S
    <3> QED
      BY <2>1, <3>2 DEF Delivery!Next, Delivery!Drop
  <2>3. CASE Arrive
    <3>1. Delivery!Move(S, {"unsent"}, "queued")
      BY <2>3, ArriveGoes, GoesMove
    <3> HIDE DEF S
    <3> QED
      BY <2>1, <3>1 DEF Delivery!Next, Delivery!Send
  <2>4. ASSUME NEW a \in Actors, Pop(a) PROVE Delivery!Next
    <3>1. Delivery!Move(S, {"queued"}, "held")
      BY <2>4, PopGoes, GoesMove
    <3> HIDE DEF S
    <3> QED
      BY <2>1, <3>1 DEF Delivery!Next, Delivery!Take
  <2>5. ASSUME NEW a \in Actors, InsertInbox(a) PROVE Delivery!Next
    <3>1. Delivery!Move(S, {"held"}, "stored")
      BY <2>5, InsertInboxGoes, GoesMove
    <3> HIDE DEF S
    <3> QED
      BY <2>1, <3>1 DEF Delivery!Next, Delivery!Store
  <2>6. ASSUME NEW a \in Actors, InsertEvents(a) PROVE Delivery!Next
    <3>1. Goes({"stored"}, "recorded")
      BY <2>6, InsertEventsGoes
    <3>2. Delivery!Move(S, {"stored"}, "recorded")
      BY <3>1, GoesMove
    <3>3. RecordedOK'
      BY RecordedDecodes, PTL
    <3>4. S \cap Malformed = {}
      BY <3>1, <3>3 DEF Goes, RecordedOK
    <3> HIDE DEF S
    <3> QED
      BY <2>1, <3>2, <3>4 DEF Delivery!Next, Delivery!Record
  <2>7. ASSUME NEW a \in Actors, PopFails(a) \/ InsertInboxFails(a) PROVE Delivery!Next
    BY <2>2, <2>7, PopFailsGoes, InsertInboxFailsGoes
  <2>8. CASE Crash
    BY <2>2, <2>8, CrashGoes
  <2>9. ASSUME Goes({"stored"}, "dropped") PROVE Delivery!Next
    BY <2>2, <2>9
  <2>10. CASE \/ BeginPull \/ BeginProcess \/ CleanupProcessed \/ CleanupFailed \/ CleanupAborts
              \/ UNCHANGED vars
              \/ \E r \in Requests : BeginManualSync(r)
              \/ \E i \in Ids : Expire(i)
    BY <2>9, <2>10, RowActionsGo
  <2>11. ASSUME NEW a \in Actors, PullStep(a) PROVE Delivery!Next
    BY <2>4, <2>5, <2>7, <2>9, <2>11, RowActionsGo DEF PullStep
  <2>12. ASSUME NEW a \in Actors, ProcessStep(a) PROVE Delivery!Next
    BY <2>6, <2>9, <2>12, RowActionsGo DEF ProcessStep
  <2> QED
    BY <2>3, <2>8, <2>10, <2>11, <2>12 DEF Next
<1> QED
  BY <1>1, <1>2, SpecInv, PTL DEF Spec, ImplementsDelivery, Delivery!Spec, fateOf

=============================================================================
