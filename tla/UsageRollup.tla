----------------------------- MODULE UsageRollup ----------------------------
(***************************************************************************)
(* The hourly usage rollups: ingestion adds the events it inserts to the   *)
(* rollup of their hour in the inserting transaction, while the backfill   *)
(* runner rebuilds the hours before its target from the raw events, batch  *)
(* by batch, with a persisted checkpoint.  Analytics reads the rollups     *)
(* once the backfill is complete (repository/db.go,                        *)
(* repository/usage_rollups_hourly.go,                                     *)
(* repository/usage_rollup_backfill{,_runner}.go,                          *)
(* service/rollup_backfill_service.go, repository/analytics_core.go).      *)
(*                                                                         *)
(* Every aggregate of a rollup row is a sum (or maximum) over the events   *)
(* counted in it, so a rollup is represented by how often each event is    *)
(* counted: once is right.  One step is one statement or transaction; the  *)
(* single database connection serialises them.                             *)
(***************************************************************************)
EXTENDS Integers

CONSTANTS
    Events,        \* usage events that may ever be stored
    MaxHour,       \* bound: the last hour of the model
    UpgradeHour,   \* the hour in which the rollup tables are created
    LegacyHours,   \* hours of the events stored before that
    BatchHours     \* hours rebuilt per batch

Hours  == 0 .. MaxHour
NoHour == -1            \* a NULL bucket

ASSUME UsageRollupAssumption ==
    /\ MaxHour \in Nat
    /\ UpgradeHour \in Hours \ {0}
    /\ LegacyHours \subseteq Hours
    /\ BatchHours \in Nat \ {0}

Status == {"pending", "running", "completed", "failed"}
State  == [status : Status, target : Hours \cup {NoHour},
           covered : Hours \cup {NoHour}]

VARIABLES
    hourOf,    \* the hour of each event's timestamp
    raw,       \* usage_events
    counted,   \* usage_rollups_hourly: how often its hour counts each event
    state,     \* the row of usage_rollup_backfill_states
    now,       \* the current hour
    pc,        \* what the backfill runner does next
    read,      \* the state row the current batch has read
    clock, next, target, batchEnd   \* locals of BackfillUsageRollupsBatch

locals == <<read, clock, next, target, batchEnd>>
vars   == <<hourOf, raw, counted, state, now, pc, read, clock, next, target,
            batchEnd>>

PC == {"status", "earliest", "running", "rebuild", "failed", "done"}

TypeOK ==
    /\ hourOf \in [Events -> Hours]
    /\ raw \subseteq Events
    /\ counted \in [Events -> Nat]
    /\ state \in State
    /\ now \in Hours
    /\ pc \in PC
    /\ read \in State
    /\ clock \in Hours
    /\ next \in Hours \cup {NoHour}
    /\ target \in Hours \cup {NoHour}
    /\ batchEnd \in Hours \cup {NoHour}

Pending == [status |-> "pending", target |-> NoHour, covered |-> NoHour]

\* Right after the migrations of an upgrade: the legacy events are in no
\* rollup and the backfill has not started.  A new database is the case of
\* no legacy events.
Init ==
    /\ hourOf \in [Events -> Hours]
    /\ raw \in SUBSET {e \in Events : hourOf[e] \in LegacyHours}
    /\ counted = [e \in Events |-> 0]
    /\ state = Pending
    /\ now = UpgradeHour
    /\ pc = "status"
    /\ read = Pending
    /\ clock = UpgradeHour
    /\ next = NoHour
    /\ target = NoHour
    /\ batchEnd = NoHour

-----------------------------------------------------------------------------
Tick ==
    /\ now < MaxHour
    /\ now' = now + 1
    /\ UNCHANGED <<hourOf, raw, counted, state, pc, locals>>

\* The events of a batch whose key was not stored before.
Affected(S) == S \ raw

\* InsertUsageEvents: the insert ignores known keys, and the rollups of the
\* affected events are incremented in the same transaction.  Timestamps come
\* from the producer: events may be late or ahead of this clock.
InsertUsageEvents(S) ==
    /\ S # {}
    /\ raw' = raw \cup S
    /\ counted' = [e \in Events |-> IF e \in Affected(S) THEN counted[e] + 1
                                                         ELSE counted[e]]
    /\ UNCHANGED <<hourOf, state, now, pc, locals>>

-----------------------------------------------------------------------------
(* BackfillUsageRollupsBatch, called in a loop by the runner. *)

\* A plausible bug: the last hour is never taken as covered.
Complete_Strict(s) ==
    /\ s.status = "completed"
    /\ s.covered > s.target

\* rollupBackfillTargetCovered of a completed state.
Complete(s) ==
    /\ s.status = "completed"
    /\ s.target # NoHour
    /\ s.covered # NoHour
    /\ s.covered >= s.target

\* Load the state row; the runner returns when there is nothing left to do.
ReadStatus ==
    /\ pc = "status"
    /\ read' = state
    /\ clock' = now
    /\ pc' = IF Complete(state) THEN "done" ELSE "earliest"
    /\ UNCHANGED <<hourOf, raw, counted, state, now, next, target, batchEnd>>

\* The target of the first batch is the last full hour; it is kept from then.
Target == IF read.target # NoHour THEN read.target ELSE clock - 1

\* A plausible bug: the latest event is loaded.
IsEarliest_Latest(h) ==
    /\ \E e \in raw : hourOf[e] = h
    /\ \A e \in raw : hourOf[e] <= h

\* earliestUsageEventBucket.
IsEarliest(h) ==
    /\ \E e \in raw : hourOf[e] = h
    /\ \A e \in raw : h <= hourOf[e]

\* Where the next batch starts.
NextHour(first) == IF read.covered # NoHour THEN read.covered + 1 ELSE first

\* Load the earliest event and choose the batch.
PlanBatch ==
    /\ pc = "earliest"
    /\ \E first \in Hours :
        /\ IsEarliest(first)
        /\ first <= Target
        /\ NextHour(first) <= Target
        /\ next' = NextHour(first)
        /\ batchEnd' = IF NextHour(first) + BatchHours - 1 > Target
                         THEN Target ELSE NextHour(first) + BatchHours - 1
    /\ target' = Target
    /\ pc' = "running"
    /\ UNCHANGED <<hourOf, raw, counted, state, now, read, clock>>

\* There is no event, or no uncovered hour up to the target.  The state is
\* saved by a statement of its own: events may arrive in between.
PlanNothing ==
    /\ pc = "earliest"
    /\ \/ raw = {}
       \/ \E first \in Hours :
            /\ IsEarliest(first)
            /\ Target < first \/ Target < NextHour(first)
    /\ target' = Target
    /\ next' = NoHour
    /\ pc' = "running"
    /\ UNCHANGED <<hourOf, raw, counted, state, now, read, clock, batchEnd>>

SaveCompleted ==
    /\ pc = "running"
    /\ next = NoHour
    /\ state' = [status |-> "completed", target |-> target, covered |-> target]
    /\ pc' = "done"
    /\ UNCHANGED <<hourOf, raw, counted, now, locals>>

SaveRunning ==
    /\ pc = "running"
    /\ next # NoHour
    /\ state' = [status |-> "running", target |-> target, covered |-> read.covered]
    /\ pc' = "rebuild"
    /\ UNCHANGED <<hourOf, raw, counted, now, locals>>

InBatch(e) == hourOf[e] \in next .. batchEnd

\* rebuildUsageRollupsForBucketRange: delete the hours' rollups and aggregate
\* the raw events again.
Rebuilt == [e \in Events |-> IF ~ InBatch(e) THEN counted[e]
                             ELSE IF e \in raw THEN 1 ELSE 0]

\* The transaction: rebuild and checkpoint together.
Rebuild ==
    /\ pc = "rebuild"
    /\ counted' = Rebuilt
    /\ state' = [status |-> IF batchEnd >= target THEN "completed" ELSE "running",
                 target |-> target, covered |-> batchEnd]
    /\ pc' = IF batchEnd >= target THEN "done" ELSE "status"
    /\ UNCHANGED <<hourOf, raw, now, locals>>

RebuildFails ==
    /\ pc = "rebuild"
    /\ pc' = "failed"
    /\ UNCHANGED <<hourOf, raw, counted, state, now, locals>>

\* The failure is recorded with the checkpoint the batch started from.
SaveFailed ==
    /\ pc = "failed"
    /\ state' = [status |-> "failed", target |-> target, covered |-> read.covered]
    /\ pc' = "status"
    /\ UNCHANGED <<hourOf, raw, counted, now, locals>>

\* Any other statement of the batch fails, or recording the failure does: the
\* runner waits and starts the batch again.
Retry ==
    /\ pc \in {"status", "earliest", "running", "failed"}
    /\ pc' = "status"
    /\ UNCHANGED <<hourOf, raw, counted, state, now, locals>>

\* The process ends at any point and is started again.
Restart ==
    /\ pc' = "status"
    /\ UNCHANGED <<hourOf, raw, counted, state, now, locals>>

Batch ==
    \/ ReadStatus \/ PlanBatch \/ PlanNothing \/ SaveCompleted \/ SaveRunning
    \/ Rebuild \/ RebuildFails \/ SaveFailed \/ Retry

Next ==
    \/ Tick
    \/ \E S \in SUBSET Events : InsertUsageEvents(S)
    \/ Batch
    \/ Restart

Spec == Init /\ [][Next]_vars

\* The runner keeps going, and neither failures nor restarts hit every try
\* of a statement.
FairSpec ==
    /\ Spec
    /\ WF_vars(Batch)
    /\ SF_vars(ReadStatus)
    /\ SF_vars(PlanBatch \/ PlanNothing)
    /\ SF_vars(SaveCompleted \/ SaveRunning)
    /\ SF_vars(Rebuild)

-----------------------------------------------------------------------------
\* analyticsRollupReadAllowed: the whole condition; it does not look at the
\* requested window.
ReadAllowed == Complete(state)

\* At every checkpoint, in every status, the rollups of the covered hours
\* count every stored event exactly once, although ingestion keeps adding to
\* the same hours between the statements of a batch and across restarts.
CoveredHoursExact ==
    state.covered # NoHour =>
        \A e \in raw : hourOf[e] <= state.covered => counted[e] = 1

\* Nothing is ever counted twice, and nothing that is not stored.
NeverOvercounted ==
    \A e \in Events : counted[e] <= (IF e \in raw THEN 1 ELSE 0)

\* docs/adr/0005: rollup reads are allowed only when the window is covered by
\* completed backfill plus ingestion-maintained later buckets, so whenever
\* they are allowed every stored event of every hour is counted once.
RollupExactWhenReadable ==
    ReadAllowed => \A e \in raw : counted[e] = 1

\* The same for the hours that are over, which is all a window that ends by
\* now reads from the rollups.
PastHoursExactWhenReadable ==
    ReadAllowed => \A e \in raw : hourOf[e] < now => counted[e] = 1

\* The checkpoint never moves back, the target never changes once chosen, and
\* a reader that was told it may use the rollups is never told otherwise.
CheckpointMonotone ==
    [][/\ state'.covered >= state.covered
       /\ state.target # NoHour => state'.target = state.target
       /\ Complete(state) => Complete(state')]_vars

\* The backfill completes.
BackfillCompletes == <>[]ReadAllowed

-----------------------------------------------------------------------------
(* The inductive invariant behind the safety properties. *)

\* The checkpoint stays between the start and the target, which is at least
\* the last hour before the upgrade.
StateOK(s) ==
    /\ s.target # NoHour => UpgradeHour - 1 <= s.target
    /\ s.covered # NoHour => s.target # NoHour /\ s.covered <= s.target

ClockOK == UpgradeHour <= now /\ UpgradeHour <= clock

\* In the middle of a batch the persisted state is the one the batch has read
\* (or has just written), and it is not complete.
BatchOwnsState ==
    pc \in {"earliest", "running", "rebuild", "failed"} =>
        /\ ~ Complete(state)
        /\ state.covered = read.covered
        /\ pc \in {"earliest", "running"} => state = read
        /\ pc \in {"rebuild", "failed"} => state.target = target /\ next # NoHour

\* The hours before the chosen batch are exact, and a batch that found
\* nothing to do would not have found anything since either.
PlanOK ==
    pc \in {"running", "rebuild", "failed"} =>
        /\ target # NoHour /\ UpgradeHour - 1 <= target
        /\ read.target # NoHour => target = read.target
        /\ IF next = NoHour
             THEN \A e \in raw : hourOf[e] <= target => counted[e] = 1
             ELSE /\ read.covered < next
                  /\ next <= batchEnd
                  /\ batchEnd <= target
                  /\ \A e \in raw : hourOf[e] < next => counted[e] = 1

\* Only a legacy event can be missing from its rollup.
OnlyLegacyMissing ==
    \A e \in raw : counted[e] = 0 => hourOf[e] \in LegacyHours

Inv ==
    /\ TypeOK
    /\ StateOK(state)
    /\ StateOK(read)
    /\ ClockOK
    /\ BatchOwnsState
    /\ PlanOK
    /\ NeverOvercounted
    /\ CoveredHoursExact
    /\ OnlyLegacyMissing

=============================================================================
