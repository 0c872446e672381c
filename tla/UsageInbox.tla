----------------------------- MODULE UsageInbox -----------------------------
(***************************************************************************)
(* The usage ingestion pipeline: messages leave the CPA queue by a         *)
(* destructive pop, become rows of redis_usage_inboxes, and every row that *)
(* decodes becomes one row of usage_events (poller/redis_drain.go,         *)
(* service/redis_usage_{intake,processor}.go,                              *)
(* repository/redis_usage_inbox.go, repository/db.go).                     *)
(*                                                                         *)
(* One step is one database statement or transaction, one queue pop, or    *)
(* one critical section of RedisDrain.mu.  The database has a single       *)
(* connection, so statements and transactions never overlap.  Any of them  *)
(* may fail without effect, which also covers a cancelled context.         *)
(*                                                                         *)
(* Messages are numbered in the order in which the producer queues them,   *)
(* so the queue is the interval popped+1 .. arrived.  The content of a     *)
(* message is reduced to its identity and to whether it decodes.           *)
(***************************************************************************)
EXTENDS Naturals, FiniteSets, FiniteSetsExt

CONSTANTS
    MaxMessages,         \* bound: messages the producer ever queues
    Malformed,           \* messages that DecodeRedisUsageMessage rejects
    PopBatch,            \* the configured LPOP count
    ProcessLimit,        \* redisInboxProcessLimit
    MaxProcessAttempts,  \* redisUsageInboxMaxProcessAttempts
    Requests             \* concurrent manual sync requests

Puller    == "pull"      \* the goroutine of runPullLoop
Processor == "process"   \* the goroutine of runProcessLoop
Actors    == {Puller, Processor} \cup Requests

ASSUME UsageInboxAssumption ==
    /\ MaxMessages \in Nat
    /\ Malformed \subseteq Nat
    /\ PopBatch \in Nat \ {0}
    /\ ProcessLimit \in Nat \ {0}
    /\ MaxProcessAttempts \in Nat \ {0}
    /\ Puller \notin Requests
    /\ Processor \notin Requests

Messages == 1 .. MaxMessages
Ids      == 1 .. MaxMessages   \* at most one inbox row per popped message
None     == 0                  \* no message

Status == {"absent", "pending", "processed", "decode_failed",
           "process_failed", "discarded"}

NoBatch == [from |-> 1, to |-> 0]

VARIABLES
    (* the CPA queue *)
    arrived,    \* messages queued so far
    popped,     \* messages removed from the queue so far
    (* the database *)
    lastId,     \* AUTOINCREMENT counter of redis_usage_inboxes
    rowMsg,     \* raw_message of every id ever assigned, kept after deletion
                \* because a batch listed before the deletion still holds it
    status,     \* status column, "absent" when there is no such row
    attempts,   \* attempt_count column
    old,        \* the row has passed the retention cutoff of its status
    eventOf,    \* usage_events: the message stored under key redis-inbox:<id>
    (* RedisDrain *)
    pullRunning, processRunning, manualRunning,
    processedEvents,   \* processedEventsTotal
    (* the goroutines *)
    pc,         \* what each actor does next
    buf,        \* the messages an actor popped and has not stored yet
    batch,      \* the inbox rows an actor listed and still works on
    cleaning,   \* CleanupRedisUsageInbox is between its two deletes
    (* observation *)
    lost        \* messages that left the queue and never became a row

queueVars   == <<arrived, popped>>
inboxVars   == <<lastId, rowMsg, status, attempts, old>>
flagVars    == <<pullRunning, processRunning, manualRunning>>
vars        == <<arrived, popped, lastId, rowMsg, status, attempts, old,
                 eventOf, pullRunning, processRunning, manualRunning,
                 processedEvents, pc, buf, batch, cleaning, lost>>

PC == {"idle", "pop", "insert", "list", "batch", "mark", "fail"}

TypeOK ==
    /\ arrived \in 0 .. MaxMessages
    /\ popped \in 0 .. MaxMessages
    /\ lastId \in 0 .. MaxMessages
    /\ rowMsg \in [Ids -> Messages \cup {None}]
    /\ status \in [Ids -> Status]
    /\ attempts \in [Ids -> 0 .. MaxProcessAttempts]
    /\ old \in [Ids -> BOOLEAN]
    /\ eventOf \in [Ids -> Messages \cup {None}]
    /\ pullRunning \in BOOLEAN
    /\ processRunning \in BOOLEAN
    /\ manualRunning \in BOOLEAN
    /\ processedEvents \in Nat
    /\ pc \in [Actors -> PC]
    /\ buf \in [Actors -> [from : Nat, to : Nat]]
    /\ batch \in [Actors -> SUBSET Ids]
    /\ cleaning \in BOOLEAN
    /\ lost \subseteq Messages

Init ==
    /\ arrived = 0
    /\ popped = 0
    /\ lastId = 0
    /\ rowMsg = [i \in Ids |-> None]
    /\ status = [i \in Ids |-> "absent"]
    /\ attempts = [i \in Ids |-> 0]
    /\ old = [i \in Ids |-> FALSE]
    /\ eventOf = [i \in Ids |-> None]
    /\ pullRunning = FALSE
    /\ processRunning = FALSE
    /\ manualRunning = FALSE
    /\ processedEvents = 0
    /\ pc = [a \in Actors |-> "idle"]
    /\ buf = [a \in Actors |-> NoBatch]
    /\ batch = [a \in Actors |-> {}]
    /\ cleaning = FALSE
    /\ lost = {}

-----------------------------------------------------------------------------
(* The producer side of the queue, outside this repository. *)
Arrive ==
    /\ arrived < MaxMessages
    /\ arrived' = arrived + 1
    /\ UNCHANGED <<popped, inboxVars, eventOf, flagVars, processedEvents,
                   pc, buf, batch, cleaning, lost>>

-----------------------------------------------------------------------------
(* Admission to the two stages (RedisDrain.mu). *)

BeginPull ==
    /\ pc[Puller] = "idle"
    /\ ~ pullRunning
    /\ pullRunning' = TRUE
    /\ pc' = [pc EXCEPT ![Puller] = "pop"]
    /\ UNCHANGED <<queueVars, inboxVars, eventOf, processRunning,
                   manualRunning, processedEvents, buf, batch, cleaning, lost>>

BeginProcess ==
    /\ pc[Processor] = "idle"
    /\ ~ processRunning
    /\ processRunning' = TRUE
    /\ pc' = [pc EXCEPT ![Processor] = "list"]
    /\ UNCHANGED <<queueVars, inboxVars, eventOf, pullRunning,
                   manualRunning, processedEvents, buf, batch, cleaning, lost>>

\* SyncNow reserves both stages in one critical section.
BeginManualSync(r) ==
    /\ pc[r] = "idle"
    /\ ~ manualRunning
    /\ ~ pullRunning
    /\ ~ processRunning
    /\ manualRunning' = TRUE
    /\ pullRunning' = TRUE
    /\ processRunning' = TRUE
    /\ pc' = [pc EXCEPT ![r] = "pop"]
    /\ UNCHANGED <<queueVars, inboxVars, eventOf, processedEvents, buf,
                   batch, cleaning, lost>>

\* The deferred release: each background stage clears its own flag, a manual
\* sync clears all three.
Release(a) ==
    /\ pullRunning' = (pullRunning /\ a = Processor)
    /\ processRunning' = (processRunning /\ a = Puller)
    /\ manualRunning' = (manualRunning /\ a \notin Requests)

Finish(a) ==
    /\ Release(a)
    /\ pc' = [pc EXCEPT ![a] = "idle"]
    /\ buf' = [buf EXCEPT ![a] = NoBatch]
    /\ batch' = [batch EXCEPT ![a] = {}]

\* A pull that returns no error: the loop is done, a manual sync goes on to
\* its process stage.
PullReturns(a) ==
    \/ /\ a = Puller
       /\ Finish(a)
    \/ /\ a \in Requests
       /\ pc' = [pc EXCEPT ![a] = "list"]
       /\ buf' = [buf EXCEPT ![a] = NoBatch]
       /\ UNCHANGED <<flagVars, batch>>

-----------------------------------------------------------------------------
(* Pull stage: redisUsageIntake.pull. *)

\* LPOP with a count takes the head of the queue.
PopCount == IF arrived - popped < PopBatch THEN arrived - popped ELSE PopBatch

\* PopUsage returns at least one message.
Pop(a) ==
    /\ pc[a] = "pop"
    /\ popped < arrived
    /\ popped' = popped + PopCount
    /\ buf' = [buf EXCEPT ![a] = [from |-> popped + 1, to |-> popped']]
    /\ pc' = [pc EXCEPT ![a] = "insert"]
    /\ UNCHANGED <<arrived, inboxVars, eventOf, flagVars, processedEvents,
                   batch, cleaning, lost>>

PopEmpty(a) ==
    /\ pc[a] = "pop"
    /\ popped = arrived
    /\ PullReturns(a)
    /\ UNCHANGED <<queueVars, inboxVars, eventOf, processedEvents, cleaning,
                   lost>>

\* A plausible bug: the error path returns without releasing the stage.
PopFailsUnreleased(a) ==
    /\ pc[a] = "pop"
    /\ pc' = [pc EXCEPT ![a] = "idle"]
    /\ UNCHANGED <<queueVars, inboxVars, eventOf, flagVars, processedEvents,
                   buf, batch, cleaning, lost>>

\* PopUsage fails: before LPOP took effect (n = 0), or after it, in which
\* case the messages of the reply are gone.
PopFails(a) ==
    /\ pc[a] = "pop"
    /\ \E n \in {0, PopCount} :
        /\ popped' = popped + n
        /\ lost' = lost \cup (popped + 1 .. popped + n)
    /\ Finish(a)
    /\ UNCHANGED <<arrived, inboxVars, eventOf, processedEvents, cleaning>>

\* A plausible bug: without AUTOINCREMENT SQLite continues after the largest
\* id still in the table.
FirstNewIdReusing == 1 + Max({0} \cup {i \in Ids : status[i] # "absent"})

\* AUTOINCREMENT never hands out the id of a deleted row again.
FirstNewId == lastId + 1

\* A plausible bug: the insert is retried although it was committed.
InsertInboxRetrying(a) ==
    LET new == lastId + 1 .. lastId + (buf[a].to + 1 - buf[a].from) IN
    /\ pc[a] = "insert"
    /\ lastId' = lastId + (buf[a].to + 1 - buf[a].from)
    /\ rowMsg' = [i \in Ids |-> IF i \in new THEN buf[a].from + (i - lastId) - 1
                                             ELSE rowMsg[i]]
    /\ status' = [i \in Ids |-> IF i \in new THEN "pending" ELSE status[i]]
    /\ PullReturns(a) \/ UNCHANGED <<pc, buf, batch, flagVars>>
    /\ UNCHANGED <<queueVars, attempts, old, eventOf, processedEvents,
                   cleaning, lost>>

\* insertRedisInboxMessages: all popped messages in one transaction, with
\* consecutive ids in pop order.
InsertInbox(a) ==
    LET first == FirstNewId
        last  == first + (buf[a].to - buf[a].from)
        new   == first .. last
    IN
    /\ pc[a] = "insert"
    /\ lastId' = last
    /\ rowMsg' = [i \in Ids |-> IF i \in new THEN buf[a].from + (i - first)
                                             ELSE rowMsg[i]]
    /\ status' = [i \in Ids |-> IF i \in new THEN "pending" ELSE status[i]]
    /\ attempts' = [i \in Ids |-> IF i \in new THEN 0 ELSE attempts[i]]
    /\ old' = [i \in Ids |-> IF i \in new THEN FALSE ELSE old[i]]
    /\ PullReturns(a)
    /\ UNCHANGED <<queueVars, eventOf, processedEvents, cleaning, lost>>

\* The insert fails: "messages lost after destructive queue pop".
InsertInboxFails(a) ==
    /\ pc[a] = "insert"
    /\ lost' = lost \cup (buf[a].from .. buf[a].to)
    /\ Finish(a)
    /\ UNCHANGED <<queueVars, inboxVars, eventOf, processedEvents, cleaning>>

-----------------------------------------------------------------------------
(* Process stage: redisUsageProcessor.process. *)

Processable == {i \in Ids : status[i] \in {"pending", "process_failed"}}

\* Plausible bugs: failed rows are not listed again; discarded rows are.
ListPendingOnly == {i \in Ids : status[i] = "pending"}
ListDiscardedToo ==
    {i \in Ids : status[i] \in {"pending", "process_failed", "discarded"}}

\* ListProcessableRedisUsageInbox: oldest ids first, at most ProcessLimit.
ListProcessable ==
    {i \in Processable :
        Cardinality({j \in Processable : j < i}) < ProcessLimit}

List(a) ==
    /\ pc[a] = "list"
    /\ Processable # {}
    /\ batch' = [batch EXCEPT ![a] = ListProcessable]
    /\ pc' = [pc EXCEPT ![a] = "batch"]
    /\ UNCHANGED <<queueVars, inboxVars, eventOf, flagVars, processedEvents,
                   buf, cleaning, lost>>

\* Nothing to process, or the query fails.
ListEmptyOrFails(a) ==
    /\ pc[a] = "list"
    /\ Finish(a)
    /\ UNCHANGED <<queueVars, inboxVars, eventOf, processedEvents, cleaning,
                   lost>>

\* decodeRedisUsageInboxRow rejects the row.
Undecodable(S) == {i \in S : rowMsg[i] \in Malformed}

\* The rows of the actor's batch an UPDATE ... WHERE id IN (...) still finds.
Stored(a) == {i \in batch[a] : status[i] # "absent"}

\* The first undecodable row of the batch is marked on its own.
MarkDecodeFailed(a) ==
    /\ pc[a] = "batch"
    /\ Undecodable(batch[a]) # {}
    /\ LET i   == Min(Undecodable(batch[a]))
           hit == {i} \cap Stored(a)
       IN
        /\ status' = [j \in Ids |-> IF j \in hit THEN "decode_failed"
                                                 ELSE status[j]]
        /\ attempts' = [j \in Ids |-> IF j \in hit THEN attempts[j] + 1
                                                   ELSE attempts[j]]
        /\ old' = [j \in Ids |-> IF j \in hit THEN FALSE ELSE old[j]]
        /\ batch' = [batch EXCEPT ![a] = @ \ {i}]
    /\ UNCHANGED <<queueVars, lastId, rowMsg, eventOf, flagVars,
                   processedEvents, pc, buf, cleaning, lost>>

\* The mark fails: the whole batch is abandoned as it stands.
MarkDecodeFailedFails(a) ==
    /\ pc[a] = "batch"
    /\ Undecodable(batch[a]) # {}
    /\ Finish(a)
    /\ UNCHANGED <<queueVars, inboxVars, eventOf, processedEvents, cleaning,
                   lost>>

\* Every row of the batch was undecodable.
NothingDecoded(a) ==
    /\ pc[a] = "batch"
    /\ batch[a] = {}
    /\ Finish(a)
    /\ UNCHANGED <<queueVars, inboxVars, eventOf, processedEvents, cleaning,
                   lost>>

\* InsertUsageEvents: ON CONFLICT (event_key) DO NOTHING, in one transaction.
InsertEvents(a) ==
    /\ pc[a] = "batch"
    /\ batch[a] # {}
    /\ Undecodable(batch[a]) = {}
    /\ eventOf' = [i \in Ids |-> IF i \in batch[a] /\ eventOf[i] = None
                                   THEN rowMsg[i] ELSE eventOf[i]]
    /\ pc' = [pc EXCEPT ![a] = "mark"]
    /\ UNCHANGED <<queueVars, inboxVars, flagVars, processedEvents, buf,
                   batch, cleaning, lost>>

InsertEventsFails(a) ==
    /\ pc[a] = "batch"
    /\ batch[a] # {}
    /\ Undecodable(batch[a]) = {}
    /\ pc' = [pc EXCEPT ![a] = "fail"]
    /\ UNCHANGED <<queueVars, inboxVars, eventOf, flagVars, processedEvents,
                   buf, batch, cleaning, lost>>

\* MarkRedisUsageInboxProcessedBatch, then recordProcessMetrics.
MarkProcessed(a) ==
    /\ pc[a] = "mark"
    /\ status' = [i \in Ids |-> IF i \in Stored(a) THEN "processed"
                                                   ELSE status[i]]
    /\ old' = [i \in Ids |-> IF i \in Stored(a) THEN FALSE ELSE old[i]]
    /\ processedEvents' = processedEvents + Cardinality(batch[a])
    /\ Finish(a)
    /\ UNCHANGED <<queueVars, lastId, rowMsg, attempts, eventOf, cleaning,
                   lost>>

\* The mark fails: the events stay, the rows will be listed again.
MarkProcessedFails(a) ==
    /\ pc[a] = "mark"
    /\ Finish(a)
    /\ UNCHANGED <<queueVars, inboxVars, eventOf, processedEvents, cleaning,
                   lost>>

\* A plausible bug: a row is given up one attempt too early.
FailedStatusEarly(i) == IF attempts[i] + 2 >= MaxProcessAttempts
                          THEN "discarded" ELSE "process_failed"

\* The status of a row after one more failed insert.
FailedStatus(i) == IF attempts[i] + 1 >= MaxProcessAttempts
                     THEN "discarded" ELSE "process_failed"

\* markRedisInboxRowsProcessFailed charges one attempt to every valid row.
MarkProcessFailed(a) ==
    /\ pc[a] = "fail"
    /\ status' = [i \in Ids |-> IF i \in Stored(a) THEN FailedStatus(i)
                                                   ELSE status[i]]
    /\ attempts' = [i \in Ids |-> IF i \in Stored(a) THEN attempts[i] + 1
                                                     ELSE attempts[i]]
    /\ old' = [i \in Ids |-> IF i \in Stored(a) THEN FALSE ELSE old[i]]
    /\ Finish(a)
    /\ UNCHANGED <<queueVars, lastId, rowMsg, eventOf, processedEvents,
                   cleaning, lost>>

\* That mark failing too is only logged.
MarkProcessFailedFails(a) ==
    /\ pc[a] = "fail"
    /\ Finish(a)
    /\ UNCHANGED <<queueVars, inboxVars, eventOf, processedEvents, cleaning,
                   lost>>

-----------------------------------------------------------------------------
(* Daily maintenance: CleanupRedisUsageInbox. *)

\* Time passes: a row's last update falls behind the retention cutoff of its
\* status (the local day start for processed rows, seven days for the rest).
Expire(i) ==
    /\ status[i] # "absent"
    /\ ~ old[i]
    /\ old' = [old EXCEPT ![i] = TRUE]
    /\ UNCHANGED <<queueVars, lastId, rowMsg, status, attempts, eventOf,
                   flagVars, processedEvents, pc, buf, batch, cleaning, lost>>

DeleteOld(S) ==
    /\ status' = [i \in Ids |-> IF old[i] /\ status[i] \in S THEN "absent"
                                                             ELSE status[i]]
    /\ UNCHANGED <<queueVars, lastId, rowMsg, attempts, old, eventOf,
                   flagVars, processedEvents, pc, buf, batch, lost>>

CleanupProcessed ==
    /\ ~ cleaning
    /\ DeleteOld({"processed"})
    /\ cleaning' = TRUE

CleanupFailed ==
    /\ cleaning
    /\ DeleteOld({"decode_failed", "process_failed", "discarded"})
    /\ cleaning' = FALSE

\* The second delete fails after the first one was committed.
CleanupAborts ==
    /\ cleaning
    /\ cleaning' = FALSE
    /\ UNCHANGED <<queueVars, inboxVars, eventOf, flagVars, processedEvents,
                   pc, buf, batch, lost>>

-----------------------------------------------------------------------------
(* The process dies and restarts: what only memory held is gone. *)
Crash ==
    /\ lost' = lost \cup UNION {buf[a].from .. buf[a].to : a \in Actors}
    /\ pullRunning' = FALSE
    /\ processRunning' = FALSE
    /\ manualRunning' = FALSE
    /\ processedEvents' = 0
    /\ pc' = [a \in Actors |-> "idle"]
    /\ buf' = [a \in Actors |-> NoBatch]
    /\ batch' = [a \in Actors |-> {}]
    /\ cleaning' = FALSE
    /\ UNCHANGED <<queueVars, inboxVars, eventOf>>

PullStep(a) ==
    \/ Pop(a)
    \/ PopEmpty(a)
    \/ PopFails(a)
    \/ InsertInbox(a)
    \/ InsertInboxFails(a)

ProcessStep(a) ==
    \/ List(a)
    \/ ListEmptyOrFails(a)
    \/ MarkDecodeFailed(a)
    \/ MarkDecodeFailedFails(a)
    \/ NothingDecoded(a)
    \/ InsertEvents(a)
    \/ InsertEventsFails(a)
    \/ MarkProcessed(a)
    \/ MarkProcessedFails(a)
    \/ MarkProcessFailed(a)
    \/ MarkProcessFailedFails(a)

Next ==
    \/ Arrive
    \/ BeginPull
    \/ BeginProcess
    \/ \E r \in Requests : BeginManualSync(r)
    \/ \E a \in Actors : PullStep(a) \/ ProcessStep(a)
    \/ \E i \in Ids : Expire(i)
    \/ CleanupProcessed
    \/ CleanupFailed
    \/ CleanupAborts
    \/ Crash

Spec == Init /\ [][Next]_vars

\* The loops run for as long as the server does, a manual request's handler
\* goes on until it returns, no pop, query or mark of a background loop
\* fails for ever, and an event insert that is tried again and again ends
\* some time, with success or not.  Crashes, failures and manual syncs may interrupt
\* any of them infinitely often, hence strong fairness.
FairSpec ==
    /\ Spec
    /\ \A r \in Requests : WF_vars(PullStep(r) \/ ProcessStep(r))
    /\ WF_vars(PullStep(Puller))
    /\ WF_vars(ProcessStep(Processor))
    /\ SF_vars(BeginPull)
    /\ SF_vars(Pop(Puller))
    /\ SF_vars(BeginProcess)
    /\ SF_vars(List(Processor))
    /\ SF_vars(MarkDecodeFailed(Processor))
    /\ SF_vars(InsertEvents(Processor) \/ InsertEventsFails(Processor))
    /\ SF_vars(MarkProcessed(Processor))
    /\ SF_vars(MarkProcessFailed(Processor))

-----------------------------------------------------------------------------
(* Safety *)

\* Every stored usage event is the event of the message its own inbox row
\* was created for, and only decodable messages have one
\* (redisUsageAttemptEventKey with ON CONFLICT DO NOTHING: a key that was
\* ever used for another message would silently swallow an event).
EventIsItsOwn ==
    \A i \in Ids : eventOf[i] # None =>
        /\ i <= lastId
        /\ eventOf[i] = rowMsg[i]
        /\ eventOf[i] \notin Malformed

\* No provider attempt is counted twice: two events never come from one
\* message, whatever is replayed after failures, crashes and cleanups.
OneEventPerMessage ==
    \A i, j \in Ids : i # j /\ eventOf[i] # None => eventOf[i] # eventOf[j]

\* A row is marked processed only when its event is in usage_events, so
\* cleanup of processed rows cannot lose usage.
ProcessedHasEvent ==
    \A i \in Ids : status[i] = "processed" => eventOf[i] = rowMsg[i] /\ i <= lastId

\* The three together: events and messages correspond one to one, whatever is
\* retried after a failure between the event transaction and the marking.
EventsMatchMessages == EventIsItsOwn /\ OneEventPerMessage /\ ProcessedHasEvent

Held(m)   == \E a \in Actors : pc[a] = "insert" /\ m \in buf[a].from .. buf[a].to
RowsOf(m) == {i \in Ids : i <= lastId /\ rowMsg[i] = m}

\* Every message taken off the queue is in exactly one place: in the memory
\* of the puller that popped it, in one inbox row, or lost.  Only the window
\* between the pop and the commit of the insert can lose it.  Rows keep the
\* order of the queue.
Conservation ==
    /\ lost \subseteq 1 .. popped
    /\ \A m \in 1 .. popped :
        \/ m \in lost /\ ~ Held(m) /\ RowsOf(m) = {}
        \/ m \notin lost /\ Held(m) /\ RowsOf(m) = {}
        \/ m \notin lost /\ ~ Held(m) /\ RowsOf(m) # {}
    /\ \A i, j \in 1 .. lastId : i < j => rowMsg[i] < rowMsg[j]

InPull(a)    == pc[a] \in {"pop", "insert"}
InProcess(a) == pc[a] \in {"list", "batch", "mark", "fail"}
Busy(a)      == pc[a] # "idle"

\* The three flags of RedisDrain keep each stage to one actor, and a manual
\* sync to itself: the background loops cannot enter between its stages.
StageExclusion ==
    \A a, b \in Actors : a # b =>
        /\ ~ (InPull(a) /\ InPull(b))
        /\ ~ (InProcess(a) /\ InProcess(b))
        /\ ~ (a \in Requests /\ Busy(a) /\ Busy(b))

\* Retryable work is given up only as the code says: a decodable row without
\* an event leaves the retry set when its attempts are used up or when it
\* already failed and expired; a pending row is never deleted.
NoSilentDrop ==
    [][\A i \in Processable :
        /\ eventOf'[i] = None /\ rowMsg[i] \notin Malformed
        /\ i \notin Processable'
        => \/ status'[i] = "discarded" /\ attempts'[i] = MaxProcessAttempts
           \/ status'[i] = "absent" /\ status[i] = "process_failed"
              /\ attempts[i] > 0]_vars

-----------------------------------------------------------------------------
(* The inductive invariant behind the safety properties. *)

CountersOK == lastId <= popped /\ popped <= arrived

\* Ids beyond lastId were never used; the others hold messages that were
\* popped, in queue order.
RowsOK ==
    \A i \in Ids :
        /\ i <= lastId => rowMsg[i] \in 1 .. popped
        /\ lastId < i => status[i] = "absent" /\ eventOf[i] = None
        /\ \A j \in Ids : i < j /\ j <= lastId => rowMsg[i] < rowMsg[j]

\* A row that will be retried has attempts left.
AttemptsOK ==
    \A i \in Processable : attempts[i] < MaxProcessAttempts

\* The flags tell which stages are taken.
StagesOK ==
    /\ pc[Puller] \in {"idle", "pop", "insert"}
    /\ pc[Processor] \in {"idle", "list", "batch", "mark", "fail"}
    /\ \A a \in Actors :
        /\ InPull(a) => pullRunning
        /\ InProcess(a) => processRunning
        /\ a \in Requests /\ Busy(a) => pullRunning /\ processRunning
    /\ StageExclusion

\* What a puller holds is the newest part of what was ever popped.
BufOK ==
    \A a \in Actors :
        IF pc[a] = "insert"
          THEN /\ buf[a].to = popped
               /\ buf[a].from <= buf[a].to
               /\ lastId < buf[a].from
               /\ \A i \in Ids : i <= lastId => rowMsg[i] < buf[a].from
               /\ \A m \in lost : m < buf[a].from
          ELSE buf[a] = NoBatch

\* The rows a processor works on are unsettled or were deleted meanwhile, and
\* after the insert they have their events.
BatchOK ==
    \A a \in Actors : \A i \in batch[a] :
        /\ pc[a] \in {"batch", "mark", "fail"}
        /\ i <= lastId
        /\ status[i] \in {"absent", "pending", "process_failed"}
        /\ pc[a] = "mark" => eventOf[i] = rowMsg[i]

Inv ==
    /\ TypeOK
    /\ StagesOK
    /\ CountersOK
    /\ RowsOK
    /\ AttemptsOK
    /\ BufOK
    /\ BatchOK
    /\ EventIsItsOwn
    /\ ProcessedHasEvent
    /\ Conservation

-----------------------------------------------------------------------------
(* The pipeline implements the abstract delivery service. *)

Inflight(i) == \E a \in Actors : pc[a] = "batch" /\ i \in batch[a]

FateOfRow(i) ==
    IF eventOf[i] # None THEN "recorded"
    ELSE IF i \in Processable \/ Inflight(i) THEN "stored" ELSE "dropped"

Fate(m) ==
    IF m > arrived THEN "unsent"
    ELSE IF m > popped THEN "queued"
    ELSE IF m \in lost THEN "dropped"
    ELSE IF RowsOf(m) # {} THEN FateOfRow(CHOOSE i \in RowsOf(m) : TRUE)
    ELSE "held"

Delivery == INSTANCE UsageDelivery WITH fate <- [m \in Messages |-> Fate(m)]

\* Every message follows the life cycle of UsageDelivery: recorded and
\* dropped are final, and nothing is recorded that was not stored first.
ImplementsDelivery == Delivery!Spec

-----------------------------------------------------------------------------
(* Liveness *)

\* Every stored row is eventually settled: no row is retried for ever.
RowsSettle == \A i \in Ids : (i \in Processable) ~> (i \notin Processable)

\* Every queued message is eventually popped.
QueueDrains == \A m \in Messages : (m <= arrived) ~> (m <= popped)

=============================================================================
