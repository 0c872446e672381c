-------------------------- MODULE UsageRollupProofs -------------------------
(***************************************************************************)
(* Proofs about UsageRollup for every set of events, every assignment of   *)
(* events to hours, every batch size and any number of restarts.           *)
(*                                                                         *)
(* The invariant says what a batch knows while ingestion goes on: the      *)
(* hours before the batch are exact (an event inserted since then was      *)
(* counted by its own transaction), the persisted state is the one the     *)
(* batch has read, and only legacy events can be missing from a rollup.    *)
(***************************************************************************)
EXTENDS UsageRollup, TLAPS

LEMMA InitInv == Init => Inv
<1> SUFFICES ASSUME Init PROVE Inv
  OBVIOUS
<1> USE UsageRollupAssumption DEF Init, Pending, Hours, NoHour
<1>1. TypeOK
  BY DEF TypeOK, State, Status, PC
<1>2. StateOK(state) /\ StateOK(read) /\ ClockOK
  BY DEF StateOK, ClockOK
<1>3. BatchOwnsState /\ PlanOK
  BY DEF BatchOwnsState, PlanOK
<1>4. NeverOvercounted /\ CoveredHoursExact /\ OnlyLegacyMissing
  BY DEF NeverOvercounted, CoveredHoursExact, OnlyLegacyMissing
<1> QED
  BY <1>1, <1>2, <1>3, <1>4 DEF Inv

\* Ingestion: a new event is counted once, a replayed one is left alone.
LEMMA InsertPreserves ==
    ASSUME Inv, NEW S \in SUBSET Events, InsertUsageEvents(S)
    PROVE  Inv'
<1> USE UsageRollupAssumption DEF Inv
<1>1. /\ raw' = raw \cup S
      /\ counted' = [e \in Events |-> IF e \in S \ raw THEN counted[e] + 1
                                                       ELSE counted[e]]
      /\ UNCHANGED <<hourOf, state, now, pc, read, clock, next, target, batchEnd>>
  BY DEF InsertUsageEvents, Affected, locals
<1>2. \A e \in raw' : IF e \in raw THEN counted'[e] = counted[e] ELSE counted'[e] = 1
  BY <1>1 DEF NeverOvercounted, TypeOK
<1>3. TypeOK'
  BY <1>1 DEF TypeOK
<1>4. StateOK(state)' /\ StateOK(read)' /\ ClockOK' /\ BatchOwnsState'
  BY <1>1 DEF StateOK, ClockOK, BatchOwnsState, Complete
<1>5. PlanOK'
  BY <1>1, <1>2 DEF PlanOK
<1>6. NeverOvercounted'
  BY <1>1, <1>2 DEF NeverOvercounted, TypeOK
<1>7. CoveredHoursExact' /\ OnlyLegacyMissing'
  BY <1>1, <1>2 DEF CoveredHoursExact, OnlyLegacyMissing
<1> QED
  BY <1>3, <1>4, <1>5, <1>6, <1>7

\* Steps that change no table.
LEMMA QuietPreserves ==
    ASSUME Inv, Tick \/ ReadStatus \/ RebuildFails \/ Retry \/ Restart \/ UNCHANGED vars
    PROVE  Inv'
<1> USE UsageRollupAssumption DEF Inv, locals, vars
<1>1. UNCHANGED <<hourOf, raw, counted, state>>
  BY DEF Tick, ReadStatus, RebuildFails, Retry, Restart
<1>2. TypeOK'
  BY DEF Tick, ReadStatus, RebuildFails, Retry, Restart, TypeOK, PC, Hours
<1>3. StateOK(state)' /\ StateOK(read)'
  BY DEF Tick, ReadStatus, RebuildFails, Retry, Restart, StateOK
<1>4. ClockOK'
  BY DEF Tick, ReadStatus, RebuildFails, Retry, Restart, ClockOK, TypeOK, Hours
<1>5. BatchOwnsState'
  BY DEF Tick, ReadStatus, RebuildFails, Retry, Restart, BatchOwnsState, Complete
<1>6. PlanOK'
  BY DEF Tick, ReadStatus, RebuildFails, Retry, Restart, PlanOK
<1>7. NeverOvercounted' /\ CoveredHoursExact' /\ OnlyLegacyMissing'
  BY <1>1 DEF NeverOvercounted, CoveredHoursExact, OnlyLegacyMissing
<1> QED
  BY <1>2, <1>3, <1>4, <1>5, <1>6, <1>7

\* Choosing a batch, or finding that there is none.
LEMMA PlanPreserves ==
    ASSUME Inv, PlanBatch \/ PlanNothing
    PROVE  Inv'
<1> USE UsageRollupAssumption DEF Inv
<1>1. /\ pc = "earliest" /\ pc' = "running" /\ target' = Target
      /\ UNCHANGED <<hourOf, raw, counted, state, now, read, clock>>
  BY DEF PlanBatch, PlanNothing
<1>2. /\ Target \in Hours /\ UpgradeHour - 1 <= Target
      /\ read.target # NoHour => Target = read.target
      /\ read.covered # NoHour => read.covered <= Target
  BY DEF Target, StateOK, ClockOK, TypeOK, State, Hours, NoHour
<1>3. /\ read.covered \in Hours \cup {NoHour} /\ state = read /\ ~ Complete(state)
  BY <1>1 DEF BatchOwnsState, TypeOK, State
<1>4. StateOK(state)' /\ StateOK(read)' /\ ClockOK' /\ BatchOwnsState'
  BY <1>1, <1>3 DEF StateOK, ClockOK, BatchOwnsState, Complete
<1>5. NeverOvercounted' /\ CoveredHoursExact' /\ OnlyLegacyMissing'
  BY <1>1 DEF NeverOvercounted, CoveredHoursExact, OnlyLegacyMissing
<1>6. CASE PlanBatch
  <2>1. PICK first \in Hours :
          /\ IsEarliest(first)
          /\ NextHour(first) <= Target
          /\ next' = NextHour(first)
          /\ batchEnd' = IF NextHour(first) + BatchHours - 1 > Target
                           THEN Target ELSE NextHour(first) + BatchHours - 1
    BY <1>6 DEF PlanBatch
  <2>2. /\ NextHour(first) \in Nat /\ read.covered < NextHour(first)
        /\ read.covered = NoHour => NextHour(first) = first
        /\ read.covered # NoHour => NextHour(first) = read.covered + 1
    BY <1>3 DEF NextHour, Hours, NoHour
  <2>3. next' \in Hours /\ batchEnd' \in Hours /\ next' <= batchEnd' /\ batchEnd' <= Target
    BY <1>2, <2>1, <2>2 DEF Hours
  <2>4. TypeOK'
    BY <1>1, <1>2, <2>3 DEF TypeOK, PC
  <2>5. \A e \in raw : hourOf[e] < next' => counted[e] = 1
    <3>1. CASE read.covered = NoHour
      BY <2>1, <2>2, <3>1 DEF IsEarliest, TypeOK, Hours
    <3>2. CASE read.covered # NoHour
      BY <1>3, <2>1, <2>2, <3>2 DEF CoveredHoursExact, TypeOK, Hours
    <3> QED
      BY <3>1, <3>2
  <2>6. next' # NoHour
    BY <2>3 DEF Hours, NoHour
  <2>7. target' # NoHour
    BY <1>1, <1>2 DEF Hours, NoHour
  <2>8. PlanOK'
    BY <1>1, <1>2, <2>1, <2>2, <2>3, <2>5, <2>6, <2>7 DEF PlanOK
  <2> QED
    BY <1>4, <1>5, <2>4, <2>8
<1>7. CASE PlanNothing
  <2>1. next' = NoHour /\ batchEnd' = batchEnd
    BY <1>7 DEF PlanNothing
  <2>2. \A e \in raw : hourOf[e] <= Target => counted[e] = 1
    <3>1. CASE raw = {}
      BY <3>1
    <3>2. ASSUME NEW first \in Hours, IsEarliest(first), Target < first
          PROVE  \A e \in raw : ~ (hourOf[e] <= Target)
      BY <1>2, <3>2 DEF IsEarliest, TypeOK, Hours
    <3>3. ASSUME NEW first \in Hours, IsEarliest(first), Target < NextHour(first),
                 ~ (Target < first)
          PROVE  \A e \in raw : hourOf[e] <= Target => counted[e] = 1
      <4>1. read.covered # NoHour /\ Target <= read.covered
        BY <1>2, <1>3, <3>3 DEF NextHour, Hours, NoHour
      <4> QED
        BY <1>2, <1>3, <4>1 DEF CoveredHoursExact, TypeOK, Hours
    <3> QED
      BY <1>7, <3>1, <3>2, <3>3 DEF PlanNothing
  <2>3. target' # NoHour
    BY <1>1, <1>2 DEF Hours, NoHour
  <2>4. TypeOK'
    BY <1>1, <1>2, <2>1 DEF TypeOK, PC
  <2>5. PlanOK'
    BY <1>1, <1>2, <2>1, <2>2, <2>3 DEF PlanOK
  <2> QED
    BY <1>4, <1>5, <2>4, <2>5
<1> QED
  BY <1>6, <1>7

\* Saving the state before the rebuild, or without one, or after its failure.
LEMMA SavePreserves ==
    ASSUME Inv, SaveCompleted \/ SaveRunning \/ SaveFailed
    PROVE  Inv'
<1> USE UsageRollupAssumption DEF Inv
<1>1. /\ pc \in {"running", "failed"}
      /\ UNCHANGED <<hourOf, raw, counted, now, read, clock, next, target, batchEnd>>
  BY DEF SaveCompleted, SaveRunning, SaveFailed, locals
<1>2. /\ target \in Hours /\ UpgradeHour - 1 <= target
      /\ read.target # NoHour => target = read.target
      /\ read.covered \in Hours \cup {NoHour}
  BY <1>1 DEF PlanOK, TypeOK, State
<1>3. StateOK(read)' /\ ClockOK' /\ NeverOvercounted' /\ OnlyLegacyMissing'
  BY <1>1 DEF StateOK, ClockOK, NeverOvercounted, OnlyLegacyMissing
<1>4. target # NoHour /\ state.covered = read.covered
  BY <1>1, <1>2 DEF Hours, NoHour, BatchOwnsState
<1>5. CASE SaveCompleted
  <2>1. /\ state' = [status |-> "completed", target |-> target, covered |-> target]
        /\ pc = "running" /\ pc' = "done" /\ next = NoHour
    BY <1>5 DEF SaveCompleted
  <2>2. TypeOK'
    BY <1>1, <1>2, <2>1 DEF TypeOK, State, Status, PC
  <2>3. StateOK(state)' /\ BatchOwnsState' /\ PlanOK'
    BY <1>1, <1>2, <2>1 DEF StateOK, BatchOwnsState, PlanOK, Hours
  <2>4. CoveredHoursExact'
    BY <1>1, <2>1 DEF PlanOK, CoveredHoursExact
  <2> QED
    BY <1>3, <2>2, <2>3, <2>4
<1>6. CASE SaveRunning \/ SaveFailed
  <2>1. PICK s \in {"running", "failed"} :
          state' = [status |-> s, target |-> target, covered |-> read.covered]
    BY <1>6 DEF SaveRunning, SaveFailed
  <2>2. pc' \in {"rebuild", "status"} /\ (pc' = "rebuild" => next # NoHour)
    BY <1>6 DEF SaveRunning, SaveFailed
  <2>3. TypeOK'
    BY <1>1, <1>2, <2>1, <2>2 DEF TypeOK, State, Status, PC
  <2>4. StateOK(state)'
    BY <1>1, <1>2, <1>4, <2>1 DEF StateOK
  <2>5. BatchOwnsState'
    BY <1>1, <2>1, <2>2 DEF BatchOwnsState, Complete
  <2>6. PlanOK'
    BY <1>1, <2>2 DEF PlanOK
  <2>7. CoveredHoursExact'
    BY <1>1, <1>4, <2>1 DEF CoveredHoursExact
  <2> QED
    BY <1>3, <2>3, <2>4, <2>5, <2>6, <2>7
<1> QED
  BY <1>5, <1>6

\* The rebuild: the hours of the batch become exact whatever ingestion has
\* added to them, and with the hours before the batch that is every hour up
\* to the new checkpoint.
LEMMA RebuildPreserves ==
    ASSUME Inv, Rebuild
    PROVE  Inv'
<1> USE UsageRollupAssumption DEF Inv
<1>1. /\ pc = "rebuild" /\ pc' \in {"done", "status"}
      /\ counted' = [e \in Events |-> IF ~ InBatch(e) THEN counted[e]
                                      ELSE IF e \in raw THEN 1 ELSE 0]
      /\ state' = [status |-> IF batchEnd >= target THEN "completed" ELSE "running",
                   target |-> target, covered |-> batchEnd]
      /\ UNCHANGED <<hourOf, raw, now, read, clock, next, target, batchEnd>>
  BY DEF Rebuild, Rebuilt, locals
<1>2. /\ target \in Hours /\ UpgradeHour - 1 <= target /\ next \in Hours
      /\ batchEnd \in Hours /\ batchEnd <= target
      /\ \A e \in raw : hourOf[e] < next => counted[e] = 1
  BY <1>1 DEF PlanOK, BatchOwnsState, TypeOK, Hours, NoHour
<1>3. TypeOK'
  BY <1>1, <1>2 DEF TypeOK, State, Status, PC
<1>4. target # NoHour
  BY <1>2 DEF Hours, NoHour
<1>5. StateOK(state)' /\ StateOK(read)' /\ ClockOK' /\ BatchOwnsState' /\ PlanOK'
  BY <1>1, <1>2, <1>4 DEF StateOK, ClockOK, BatchOwnsState, PlanOK
<1>6. NeverOvercounted'
  BY <1>1 DEF NeverOvercounted, TypeOK
<1>7. \A e \in raw : counted'[e] = counted[e] \/ counted'[e] = 1
  BY <1>1 DEF TypeOK
<1>8. OnlyLegacyMissing'
  BY <1>1, <1>7 DEF OnlyLegacyMissing
<1>9. CoveredHoursExact'
  <2>1. ASSUME NEW e \in raw, hourOf[e] <= batchEnd
        PROVE  counted'[e] = 1
    <3>1. hourOf[e] \in Hours /\ e \in Events
      BY DEF TypeOK
    <3>2. InBatch(e) \/ hourOf[e] < next
      BY <1>2, <2>1, <3>1 DEF InBatch, Hours
    <3> QED
      BY <1>1, <1>2, <1>7, <3>1, <3>2
  <2> QED
    BY <1>1, <2>1 DEF CoveredHoursExact
<1> QED
  BY <1>3, <1>5, <1>6, <1>8, <1>9

LEMMA NextPreserves == Inv /\ [Next]_vars => Inv'
<1> SUFFICES ASSUME Inv, [Next]_vars PROVE Inv'
  OBVIOUS
<1>1. CASE \E S \in SUBSET Events : InsertUsageEvents(S)
  BY <1>1, InsertPreserves
<1>2. CASE Tick \/ ReadStatus \/ RebuildFails \/ Retry \/ Restart \/ UNCHANGED vars
  BY <1>2, QuietPreserves
<1>3. CASE PlanBatch \/ PlanNothing
  BY <1>3, PlanPreserves
<1>4. CASE SaveCompleted \/ SaveRunning \/ SaveFailed
  BY <1>4, SavePreserves
<1>5. CASE Rebuild
  BY <1>5, RebuildPreserves
<1> QED
  BY <1>1, <1>2, <1>3, <1>4, <1>5 DEF Next, Batch

\* The invariant holds in every reachable state.
THEOREM SpecInv == Spec => []Inv
  BY InitInv, NextPreserves, PTL DEF Spec

\* The tables, the state row and the locals keep their types.
THEOREM SpecTypeOK == Spec => []TypeOK
<1>1. Inv => TypeOK
  BY DEF Inv
<1> QED
  BY SpecInv, <1>1, PTL

\* BackfillUsageRollupsBatch: every hour up to the checkpoint is exact.
THEOREM SpecCoveredHoursExact == Spec => []CoveredHoursExact
<1>1. Inv => CoveredHoursExact
  BY DEF Inv
<1> QED
  BY SpecInv, <1>1, PTL

\* Increment and rebuild together never count an event twice.
THEOREM SpecNeverOvercounted == Spec => []NeverOvercounted
<1>1. Inv => NeverOvercounted
  BY DEF Inv
<1> QED
  BY SpecInv, <1>1, PTL

\* When no event of the upgrade's own hour, or of a later one, was stored
\* before the upgrade, a completed backfill means that every stored event of
\* every hour is counted exactly once.
THEOREM SpecRollupExactWhenReadable ==
    ASSUME LegacyHours \subseteq 0 .. UpgradeHour - 1
    PROVE  Spec => []RollupExactWhenReadable
<1>1. Inv => RollupExactWhenReadable
  <2> SUFFICES ASSUME Inv, ReadAllowed, NEW e \in raw PROVE counted[e] = 1
    BY DEF RollupExactWhenReadable
  <2> USE UsageRollupAssumption DEF Inv
  <2>1. /\ state.covered \in Hours /\ state.target \in Hours
        /\ state.target <= state.covered /\ UpgradeHour - 1 <= state.target
    BY DEF ReadAllowed, Complete, StateOK, TypeOK, State
  <2>2. e \in Events /\ hourOf[e] \in Hours /\ counted[e] \in Nat /\ counted[e] <= 1
    BY DEF TypeOK, NeverOvercounted
  <2>3. CASE hourOf[e] <= state.covered
    BY <2>1, <2>3 DEF CoveredHoursExact, Hours, NoHour
  <2>4. CASE ~ (hourOf[e] <= state.covered)
    <3>1. hourOf[e] \notin LegacyHours
      BY <2>1, <2>2, <2>4 DEF Hours
    <3> QED
      BY <2>2, <3>1 DEF OnlyLegacyMissing
  <2> QED
    BY <2>3, <2>4
<1> QED
  BY SpecInv, <1>1, PTL

\* The checkpoint never moves back and completion is never withdrawn, through
\* failures, retries and restarts.
THEOREM SpecCheckpointMonotone == Spec => CheckpointMonotone
<1> DEFINE Forward ==
      /\ state'.covered >= state.covered
      /\ state.target # NoHour => state'.target = state.target
      /\ Complete(state) => Complete(state')
<1>1. Inv /\ [Next]_vars => [Forward]_vars
  <2> SUFFICES ASSUME Inv, Next PROVE Forward
    OBVIOUS
  <2> USE UsageRollupAssumption DEF Inv
  <2>1. state.covered \in Hours \cup {NoHour} /\ state.target \in Hours \cup {NoHour}
    BY DEF TypeOK, State
  <2>2. CASE state' = state
    BY <2>1, <2>2 DEF Hours, NoHour
  <2>3. CASE SaveCompleted \/ SaveRunning \/ SaveFailed \/ Rebuild
    <3>1. pc \in {"running", "rebuild", "failed"}
      BY <2>3 DEF SaveCompleted, SaveRunning, SaveFailed, Rebuild
    <3>2. /\ ~ Complete(state) /\ state.covered = read.covered
          /\ target \in Hours /\ batchEnd \in Hours \cup {NoHour}
          /\ state.target # NoHour => target = state.target
      BY <3>1 DEF BatchOwnsState, PlanOK, TypeOK
    <3>3. state.covered # NoHour => state.covered <= target
      BY <3>2 DEF StateOK
    <3>4. /\ state'.target = target
          /\ state'.covered \in {target, read.covered, batchEnd}
          /\ \/ Rebuild /\ state'.covered = batchEnd
             \/ state'.covered \in {target, read.covered}
      BY <2>3 DEF SaveCompleted, SaveRunning, SaveFailed, Rebuild
    <3>5. Rebuild => next \in Hours /\ read.covered < next /\ next <= batchEnd
      BY DEF Rebuild, BatchOwnsState, PlanOK, TypeOK
    <3>6. state'.covered >= state.covered
      BY <2>1, <3>2, <3>3, <3>4, <3>5 DEF Hours, NoHour
    <3> QED
      BY <3>2, <3>4, <3>6
  <2> QED
    BY <2>2, <2>3 DEF Next, Batch, Tick, InsertUsageEvents, ReadStatus, PlanBatch,
       PlanNothing, RebuildFails, Retry, Restart
<1>2. CheckpointMonotone <=> [][Forward]_vars
  BY DEF CheckpointMonotone
<1> QED
  BY SpecInv, <1>1, <1>2, PTL DEF Spec

=============================================================================
