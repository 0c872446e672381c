------------------------- MODULE IdentitySyncProofs -------------------------
(***************************************************************************)
(* Proofs about IdentitySync for any sets of identities, syncs and account *)
(* requests and any number of events and changes.                          *)
(*                                                                         *)
(* AggregateUsageIdentityStats overwrites totals and cursor from a row     *)
(* read outside its transaction.  It is right because the row was exact    *)
(* when it was read, ids only grow, and the events behind the old cursor   *)
(* include every event that another sync has aggregated since.             *)
(***************************************************************************)
EXTENDS IdentitySync, TLAPS, FiniteSetTheorems, WellFoundedInduction

\* A nonempty set of naturals with an upper bound has its Max as an element
\* that no other exceeds.
LEMMA MaxOfBounded ==
    ASSUME NEW n \in Nat, NEW S \in SUBSET (1 .. n), S # {}
    PROVE  Max(S) \in S /\ \A y \in S : y <= Max(S)
<1> DEFINE T == {m \in Nat : n - m \in S}
           R == OpToRel(<, Nat)
<1>1. T # {}
  <2>1. PICK y \in S : TRUE
    OBVIOUS
  <2>2. n - y \in Nat /\ n - (n - y) = y
    OBVIOUS
  <2> QED
    BY <2>1, <2>2
<1>2. PICK x \in T : \A y \in T : ~ (<<y, x>> \in R)
  <2> HIDE DEF T, R
  <2>1. IsWellFoundedOn(R, Nat)
    BY NatLessThanWellFounded DEF R
  <2>2. T \subseteq Nat
    BY DEF T
  <2> QED
    BY <1>1, <2>1, <2>2, WFMin
<1>3. \A y \in T : ~ (y < x)
  <2> SUFFICES ASSUME NEW y \in T, y < x PROVE FALSE
    OBVIOUS
  <2>1. <<y, x>> \in R
    BY DEF OpToRel
  <2> QED
    BY <1>2, <2>1
<1>4. n - x \in S /\ \A y \in S : n - x >= y
  <2>1. \A y \in S : n - y \in T
    OBVIOUS
  <2> QED
    BY <1>3, <2>1
<1>5. \E z \in S : \A y \in S : z >= y
  BY <1>4
<1>6. Max(S) \in S /\ \A y \in S : Max(S) >= y
  BY <1>5 DEF Max
<1> QED
  BY <1>6

\* The events up to c and those behind it make up the events up to d, when d
\* is the last one.
LEMMA SplitAt ==
    ASSUME NEW n \in Nat, NEW S \in SUBSET (1 .. n), NEW c \in Nat, NEW d \in Nat,
           c <= d, \A e \in S : e > c => e <= d
    PROVE  /\ CountUpTo(S, d) \in Nat
           /\ CountUpTo(S, d) = CountUpTo(S, c) + Cardinality({e \in S : e > c})
<1> DEFINE L == {e \in S : e <= c}
           H == {e \in S : e > c}
           A == {e \in S : e <= d}
<1>1. IsFiniteSet(1 .. n)
  BY FS_Interval
<1>2. IsFiniteSet(L) /\ IsFiniteSet(H) /\ IsFiniteSet(A)
  BY <1>1, FS_Subset
<1>3. L \cup H = A /\ L \cap H = {}
  <2>1. \A e \in S : e \in Nat
    OBVIOUS
  <2>2. \A e \in S : (e <= c \/ e > c) <=> e <= d
    BY <2>1
  <2>3. \A e \in S : ~ (e <= c /\ e > c)
    BY <2>1
  <2>4. \A e : e \in L \cup H <=> e \in A
    BY <2>2
  <2>5. \A e : e \notin L \cap H
    BY <2>3
  <2> QED
    BY <2>4, <2>5
<1>4. Cardinality(L) \in Nat /\ Cardinality(H) \in Nat /\ Cardinality(A) \in Nat
  BY <1>2, FS_CardinalityType
<1>5. Cardinality(L \cup H) = Cardinality(L) + Cardinality(H) - Cardinality(L \cap H)
  BY <1>2, FS_Union
<1>6. Cardinality(L \cap H) = 0
  BY <1>3, FS_EmptySet
<1> HIDE DEF L, H, A
<1>7. Cardinality(L \cup H) = Cardinality(A)
  BY <1>3
<1>8. Cardinality(A) = Cardinality(L) + Cardinality(H)
  BY <1>4, <1>5, <1>6, <1>7
<1> QED
  BY <1>4, <1>8 DEF L, H, A, CountUpTo

-----------------------------------------------------------------------------

LEMMA InitInv == Init => Inv
<1> SUFFICES ASSUME Init PROVE Inv
  OBVIOUS
<1> USE IdentitySyncAssumption DEF Init
<1>1. EventsOK /\ CursorOK
  BY DEF EventsOK, CursorOK
<1>2. SnapOK
  BY DEF SnapOK, PC, NoSnap
<1>3. ListingOK
  BY DEF ListingOK, Listing, NoListing, Seen, NoTime
<1>4. StatsExact
  <2> SUFFICES ASSUME NEW i \in Ids PROVE CountUpTo({}, cursor[i]) = 0
    BY DEF StatsExact
  <2>1. {e \in {} : e <= cursor[i]} = {}
    OBVIOUS
  <2> QED
    BY <2>1, FS_EmptySet DEF CountUpTo
<1> QED
  BY <1>1, <1>2, <1>3, <1>4 DEF Inv

\* Nobody begins to aggregate and no statistics change.
NoStatistics ==
    /\ UNCHANGED <<total, cursor, eventsOf, stored>>
    /\ pc' \in [Syncers -> PC]
    /\ snap' \in [Syncers -> [Ids -> [total : Nat, cursor : Nat]]]
    /\ \A s \in Syncers : pc'[s] = "aggregate" => pc[s] = "aggregate" /\ snap'[s] = snap[s]

LEMMA StatisticsFrame ==
    ASSUME Inv, NoStatistics
    PROVE  EventsOK' /\ CursorOK' /\ SnapOK' /\ StatsExact'
<1> USE DEF Inv, NoStatistics
<1>1. EventsOK' /\ CursorOK' /\ StatsExact'
  BY DEF EventsOK, CursorOK, StatsExact
<1>2. SnapOK'
  BY DEF SnapOK
<1> QED
  BY <1>1, <1>2

\* What a sync holds of CPA and of the database is the only thing that moves.
LEMMA ReturnQuiet ==
    ASSUME Inv, NEW s \in Syncers, Return(s), UNCHANGED <<total, cursor, eventsOf, stored>>
    PROVE  NoStatistics
<1> USE DEF Inv, SnapOK, Return, Goto, NoSnap, PC
<1>1. pc' \in [Syncers -> PC] /\ \A r \in Syncers : pc'[r] = IF r = s THEN "idle" ELSE pc[r]
  OBVIOUS
<1>2. /\ snap' \in [Syncers -> [Ids -> [total : Nat, cursor : Nat]]]
      /\ \A r \in Syncers : r # s => snap'[r] = snap[r]
  OBVIOUS
<1> QED
  BY <1>1, <1>2 DEF NoStatistics

LEMMA GotoQuiet ==
    ASSUME Inv, NEW s \in Syncers, NEW label \in PC \ {"aggregate"}, Goto(s, label),
           UNCHANGED <<snap, total, cursor, eventsOf, stored>>
    PROVE  NoStatistics
  BY DEF Inv, SnapOK, Goto, NoStatistics

-----------------------------------------------------------------------------
(* One lemma per group of actions. *)

\* Account requests and changes at CPA.
LEMMA OutsidePreserves ==
    ASSUME Inv,
           \/ \E a \in AuthFiles : ChangeFile(a) \/ ChangeQuota(a)
           \/ \E t \in Types : ChangeKeys(t)
           \/ \E t \in Togglers : ToggleStep(t)
                                  \/ \E a \in AuthFiles : SetIdentityDisabled(t, a)
           \/ UNCHANGED vars
    PROVE  Inv' /\ passive' = passive /\ total' = total /\ cursor' = cursor
<1> USE DEF localVars, statVars, eventVars, mirrorVars, vars, cpaVars, toggleVars
<1>1. UNCHANGED <<pc, snap, listing, passive, total, cursor, eventsOf, stored>>
  BY DEF ChangeFile, ChangeQuota, ChangeKeys, ToggleStep, SetIdentityDisabled, ResolveName,
         SetAuthFileDisabled, PersistDisabled, ReadBack, UpdateState, ToggleFails, Toggle
<1>2. NoStatistics
  BY <1>1 DEF NoStatistics, Inv, SnapOK
<1>3. cpa' \in Listing
  <2> USE DEF Inv, ListingOK, Listing
  <2>1. CASE \E a \in AuthFiles : ChangeFile(a)
    BY <2>1, IdentitySyncAssumption DEF ChangeFile, Seen, NoTime
  <2>2. CASE \E a \in AuthFiles : ChangeQuota(a)
    BY <2>2 DEF ChangeQuota
  <2>3. CASE \E t \in Togglers : SetAuthFileDisabled(t)
    BY <2>3 DEF SetAuthFileDisabled, Flag
  <2>4. CASE cpa' = cpa
    BY <2>4
  <2> QED
    BY <2>1, <2>2, <2>3, <2>4
       DEF ChangeKeys, ToggleStep, SetIdentityDisabled, ResolveName, PersistDisabled,
           ReadBack, UpdateState, ToggleFails
<1> QED
  BY <1>1, <1>2, <1>3, StatisticsFrame DEF Inv, ListingOK

\* A new event has the largest id, so every count up to a cursor stays.
LEMMA InsertPreserves ==
    ASSUME Inv, NEW i \in Ids, InsertUsageEvents(i)
    PROVE  Inv' /\ passive' = passive /\ total' = total /\ cursor' = cursor
<1> USE DEF Inv
<1>1. /\ stored' = stored + 1
      /\ eventsOf' = [eventsOf EXCEPT ![i] = @ \cup {stored + 1}]
      /\ UNCHANGED <<pc, snap, listing, cpa, passive, total, cursor>>
  BY DEF InsertUsageEvents, localVars, statVars, mirrorVars, cpaVars
<1>2. EventsOK' /\ CursorOK'
  BY <1>1 DEF EventsOK, CursorOK
<1>3. \A j \in Ids : cursor[j] <= stored
  BY DEF EventsOK, CursorOK
<1>4. ASSUME NEW j \in Ids, NEW c \in Nat, c <= stored
      PROVE  CountUpTo(eventsOf'[j], c) = CountUpTo(eventsOf[j], c)
  <2>1. {e \in eventsOf'[j] : e <= c} = {e \in eventsOf[j] : e <= c}
    BY <1>1, <1>4 DEF EventsOK
  <2> QED
    BY <2>1 DEF CountUpTo
<1>5. StatsExact'
  BY <1>1, <1>3, <1>4 DEF StatsExact, CursorOK
<1>6. SnapOK'
  <2> SUFFICES ASSUME NEW s \in Syncers, pc[s] = "aggregate", NEW j \in Ids
               PROVE  snap[s][j].total = CountUpTo(eventsOf'[j], snap[s][j].cursor)
    BY <1>1 DEF SnapOK
  <2>1. snap[s][j].cursor \in Nat /\ snap[s][j].cursor <= stored
    BY <1>3 DEF SnapOK, CursorOK, EventsOK
  <2> QED
    BY <2>1, <1>4 DEF SnapOK
<1> QED
  BY <1>1, <1>2, <1>5, <1>6 DEF ListingOK

\* Fetching, replacing, returning and failing.
LEMMA SyncPreserves ==
    ASSUME Inv, NEW s \in Syncers,
           \/ \E S \in SUBSET Syncers : SyncMetadata(s, S)
           \/ FetchAuthFiles(s) \/ FetchProvider(s)
           \/ AuthFilesNotReplaced(s) \/ ReplaceProviders(s) \/ ReplaceProvidersFails(s)
           \/ AggregateFails(s)
    PROVE  Inv' /\ passive' = passive /\ total' = total /\ cursor' = cursor
<1> USE DEF localVars, statVars, eventVars, mirrorVars, cpaVars, toggleVars
<1>1. UNCHANGED <<cpa, passive, total, cursor, eventsOf, stored>>
  BY DEF SyncMetadata, FetchAuthFiles, FetchProvider, AuthFilesNotReplaced, ReplaceProviders,
         ReplaceProvidersFails, AggregateFails
<1>2. NoStatistics
  <2>1. CASE \E S \in SUBSET Syncers : SyncMetadata(s, S)
    BY <2>1, GotoQuiet DEF SyncMetadata, PC
  <2>2. CASE FetchAuthFiles(s)
    BY <2>2, GotoQuiet DEF FetchAuthFiles, PC
  <2>3. CASE FetchProvider(s)
    <3>1. CASE pc' = pc
      BY <3>1, <2>3 DEF FetchProvider, NoStatistics, Inv, SnapOK
    <3>2. CASE Goto(s, "replaceAuth")
      BY <3>2, <2>3, GotoQuiet DEF FetchProvider, PC
    <3> QED
      BY <3>1, <3>2, <2>3 DEF FetchProvider
  <2>4. CASE AuthFilesNotReplaced(s)
    BY <2>4, GotoQuiet DEF AuthFilesNotReplaced, PC
  <2>5. CASE ReplaceProviders(s)
    <3>1. CASE Return(s)
      BY <3>1, <1>1, ReturnQuiet
    <3>2. CASE ~ Return(s)
      BY <3>2, <2>5, <1>1, GotoQuiet DEF ReplaceProviders, AfterReplace, PC
    <3> QED
      BY <3>1, <3>2
  <2>6. CASE ReplaceProvidersFails(s) \/ AggregateFails(s)
    BY <2>6, <1>1, ReturnQuiet DEF ReplaceProvidersFails, AggregateFails
  <2> QED
    BY <2>1, <2>2, <2>3, <2>4, <2>5, <2>6
<1>3. listing' \in [Syncers -> Listing]
  <2> USE DEF Inv, ListingOK
  <2>1. NoListing \in Listing
    BY IdentitySyncAssumption DEF NoListing, Listing, Seen, NoTime
  <2>2. \/ listing' = listing
        \/ listing' = [listing EXCEPT ![s] = cpa]
        \/ listing' = [listing EXCEPT ![s] = NoListing]
    BY DEF SyncMetadata, FetchAuthFiles, FetchProvider, AuthFilesNotReplaced,
           ReplaceProviders, ReplaceProvidersFails, AggregateFails, ForgetListing
  <2> QED
    BY <2>1, <2>2
<1> QED
  BY <1>1, <1>2, <1>3, StatisticsFrame DEF Inv, ListingOK

\* The transaction that replaces the auth files keeps the newer observation.
LEMMA ReplacePreserves ==
    ASSUME Inv, NEW s \in Syncers, ReplaceAuthFiles(s)
    PROVE  /\ Inv' /\ total' = total /\ cursor' = cursor
           /\ \A a \in AuthFiles : passive[a] <= passive'[a]
<1> USE DEF Inv
<1>1. UNCHANGED <<cpa, snap, total, cursor, eventsOf, stored>>
  BY DEF ReplaceAuthFiles, localVars, statVars, eventVars, cpaVars
<1>2. NoStatistics
  BY <1>1, GotoQuiet DEF ReplaceAuthFiles, PC
<1>3. listing' \in [Syncers -> Listing]
  <2>1. NoListing \in Listing
    BY IdentitySyncAssumption DEF NoListing, Listing, Seen, NoTime
  <2> QED
    BY <2>1 DEF ReplaceAuthFiles, ForgetListing, ListingOK
<1>4. \A a \in AuthFiles : listing[s].seen[a] \in Nat
  BY DEF ListingOK, Listing, Seen
<1>5. /\ passive' \in [AuthFiles -> Nat]
      /\ \A a \in AuthFiles : passive[a] <= passive'[a]
  BY <1>4 DEF ReplaceAuthFiles, Merge, ListingOK, NoTime
<1> QED
  BY <1>1, <1>2, <1>3, <1>5, StatisticsFrame DEF ListingOK

\* The read before the transaction.
LEMMA ListPreserves ==
    ASSUME Inv, NEW s \in Syncers, ListIdentities(s)
    PROVE  Inv' /\ passive' = passive /\ total' = total /\ cursor' = cursor
<1> USE DEF Inv
<1>1. UNCHANGED <<cpa, listing, passive, total, cursor, eventsOf, stored>>
  BY DEF ListIdentities, statVars, eventVars, cpaVars, mirrorVars
<1>2. EventsOK' /\ CursorOK' /\ StatsExact' /\ ListingOK'
  BY <1>1 DEF EventsOK, CursorOK, StatsExact, ListingOK
<1>3. /\ pc' \in [Syncers -> PC]
      /\ snap' \in [Syncers -> [Ids -> [total : Nat, cursor : Nat]]]
      /\ \A r \in Syncers : r # s => pc'[r] = pc[r] /\ snap'[r] = snap[r]
      /\ \A i \in Ids : snap'[s][i].total = total[i] /\ snap'[s][i].cursor = cursor[i]
  BY DEF ListIdentities, Goto, SnapOK, PC, CursorOK
<1>4. SnapOK'
  <2> SUFFICES ASSUME NEW r \in Syncers, pc'[r] = "aggregate", NEW i \in Ids
               PROVE  /\ snap'[r][i].total = CountUpTo(eventsOf[i], snap'[r][i].cursor)
                      /\ snap'[r][i].cursor <= cursor[i]
    BY <1>1, <1>3 DEF SnapOK
  <2>1. CASE r = s
    BY <2>1, <1>3 DEF StatsExact, CursorOK
  <2>2. CASE r # s
    BY <2>2, <1>3 DEF SnapOK
  <2> QED
    BY <2>1, <2>2
<1> QED
  BY <1>2, <1>4, <1>1

\* The transaction: what is added to the total read before are the events
\* behind the cursor read before, and the last of these is no smaller than
\* any cursor written since.
LEMMA AggregatePreserves ==
    ASSUME Inv, NEW s \in Syncers, Aggregate(s)
    PROVE  /\ Inv' /\ passive' = passive
           /\ \A i \in Ids : total[i] <= total'[i] /\ cursor[i] <= cursor'[i]
<1> USE DEF Inv
<1>1. UNCHANGED <<cpa, listing, passive, eventsOf, stored>>
  BY DEF Aggregate, eventVars, cpaVars, mirrorVars
<1>2. /\ pc' \in [Syncers -> PC]
      /\ snap' \in [Syncers -> [Ids -> [total : Nat, cursor : Nat]]]
      /\ pc'[s] # "aggregate"
      /\ \A r \in Syncers : r # s => pc'[r] = pc[r] /\ snap'[r] = snap[r]
  BY DEF Aggregate, Return, Goto, SnapOK, PC, NoSnap
<1>3. ASSUME NEW i \in Ids
      PROVE  /\ total'[i] \in Nat /\ cursor'[i] \in Nat
             /\ cursor'[i] = 0 \/ cursor'[i] \in eventsOf[i]
             /\ total'[i] = CountUpTo(eventsOf[i], cursor'[i])
             /\ total[i] <= total'[i] /\ cursor[i] <= cursor'[i]
  <2>1. CASE i \notin Counted(s)
    <3>1. total'[i] = total[i] /\ cursor'[i] = cursor[i]
      BY <2>1 DEF Aggregate
    <3> QED
      BY <3>1 DEF CursorOK, StatsExact
  <2>2. CASE i \in Counted(s)
    <3> DEFINE c == snap[s][i].cursor
               d == Max(Delta(s, i))
    <3>1. /\ total'[i] = snap[s][i].total + Cardinality(Delta(s, i))
          /\ cursor'[i] = d
      BY <2>2 DEF Aggregate, NewTotal
    <3>2. /\ stored \in Nat /\ eventsOf[i] \in SUBSET (1 .. stored)
          /\ c \in Nat /\ c <= cursor[i] /\ cursor[i] \in Nat /\ total[i] \in Nat
          /\ snap[s][i].total = CountUpTo(eventsOf[i], c)
      BY DEF EventsOK, SnapOK, CursorOK, Aggregate
    <3>3. Delta(s, i) = {e \in eventsOf[i] : e > c} /\ Delta(s, i) # {}
      BY <2>2 DEF Delta, Counted
    <3> HIDE DEF c
    <3>4. d \in Delta(s, i) /\ \A y \in Delta(s, i) : y <= d
      <4>1. Delta(s, i) \in SUBSET (1 .. stored)
        BY <3>2, <3>3
      <4> QED
        BY <4>1, <3>2, <3>3, MaxOfBounded
    <3> HIDE DEF d
    <3>5. d \in eventsOf[i] /\ d \in Nat /\ c <= d /\ \A e \in eventsOf[i] : e > c => e <= d
      BY <3>2, <3>3, <3>4
    <3>6. /\ CountUpTo(eventsOf[i], d) \in Nat
          /\ CountUpTo(eventsOf[i], d) =
               CountUpTo(eventsOf[i], c) + Cardinality({e \in eventsOf[i] : e > c})
      BY <3>2, <3>5, SplitAt
    <3>7. total'[i] = CountUpTo(eventsOf[i], d) /\ total'[i] \in Nat
      BY <3>1, <3>2, <3>3, <3>6
    <3>8. cursor[i] <= d
      <4>1. cursor[i] = 0 \/ cursor[i] \in eventsOf[i]
        BY DEF CursorOK
      <4> QED
        BY <4>1, <3>2, <3>5
    <3>9. total[i] <= total'[i]
      <4>1. total[i] = CountUpTo(eventsOf[i], cursor[i])
        BY DEF StatsExact
      <4>2. {e \in eventsOf[i] : e <= cursor[i]} \in SUBSET {e \in eventsOf[i] : e <= d}
        BY <3>2, <3>5, <3>8
      <4>3. IsFiniteSet({e \in eventsOf[i] : e <= d})
        <5>1. IsFiniteSet(1 .. stored)
          BY <3>2, FS_Interval
        <5> QED
          BY <5>1, <3>2, FS_Subset
      <4>4. Cardinality({e \in eventsOf[i] : e <= cursor[i]})
              <= Cardinality({e \in eventsOf[i] : e <= d})
        BY <4>2, <4>3, FS_Subset
      <4> QED
        BY <4>1, <4>4, <3>7 DEF CountUpTo
    <3> QED
      BY <3>1, <3>5, <3>7, <3>8, <3>9
  <2> QED
    BY <2>1, <2>2
<1>4. EventsOK' /\ ListingOK'
  BY <1>1 DEF EventsOK, ListingOK
<1>5. CursorOK'
  <2>1. total' = [i \in Ids |-> total'[i]] /\ cursor' = [i \in Ids |-> cursor'[i]]
    BY DEF Aggregate
  <2> QED
    BY <1>1, <1>3, <2>1 DEF CursorOK
<1>6. StatsExact'
  BY <1>1, <1>3 DEF StatsExact
<1>7. SnapOK'
  <2> SUFFICES ASSUME NEW r \in Syncers, pc'[r] = "aggregate", NEW i \in Ids
               PROVE  /\ snap'[r][i].total = CountUpTo(eventsOf'[i], snap'[r][i].cursor)
                      /\ snap'[r][i].cursor <= cursor'[i]
    BY <1>2 DEF SnapOK
  <2>1. r # s /\ pc[r] = "aggregate" /\ snap'[r] = snap[r]
    BY <1>2
  <2>2. /\ snap[r][i].total = CountUpTo(eventsOf[i], snap[r][i].cursor)
        /\ snap[r][i].cursor <= cursor[i]
        /\ snap[r][i].cursor \in Nat /\ cursor[i] \in Nat
    BY <2>1 DEF SnapOK, CursorOK
  <2> QED
    BY <2>1, <2>2, <1>1, <1>3
<1> QED
  BY <1>1, <1>3, <1>4, <1>5, <1>6, <1>7

\* A restart forgets what the syncs have read.
LEMMA CrashPreserves ==
    ASSUME Inv, Crash
    PROVE  Inv' /\ passive' = passive /\ total' = total /\ cursor' = cursor
<1> USE DEF Inv
<1>1. UNCHANGED <<cpa, passive, total, cursor, eventsOf, stored>>
  BY DEF Crash, statVars, eventVars, cpaVars, mirrorVars
<1>2. NoStatistics
  BY <1>1 DEF NoStatistics, Crash, NoSnap, PC
<1>3. listing' \in [Syncers -> Listing]
  BY IdentitySyncAssumption DEF Crash, NoListing, Listing, Seen, NoTime
<1> QED
  BY <1>1, <1>2, <1>3, StatisticsFrame DEF ListingOK

-----------------------------------------------------------------------------

Advances ==
    /\ \A i \in Ids : total[i] <= total'[i] /\ cursor[i] <= cursor'[i]
    /\ \A a \in AuthFiles : passive[a] <= passive'[a]

LEMMA Step ==
    ASSUME Inv, [Next]_vars
    PROVE  Inv' /\ Advances
<1>0. /\ \A i \in Ids : total[i] \in Nat /\ cursor[i] \in Nat
      /\ \A a \in AuthFiles : passive[a] \in Nat
  BY DEF Inv, CursorOK, ListingOK
<1>1. CASE \/ \E a \in AuthFiles : ChangeFile(a) \/ ChangeQuota(a)
           \/ \E t \in Types : ChangeKeys(t)
           \/ \E t \in Togglers : ToggleStep(t)
                                  \/ \E a \in AuthFiles : SetIdentityDisabled(t, a)
           \/ UNCHANGED vars
  BY <1>0, <1>1, OutsidePreserves DEF Advances
<1>2. CASE \E i \in Ids : InsertUsageEvents(i)
  BY <1>0, <1>2, InsertPreserves DEF Advances
<1>3. ASSUME NEW s \in Syncers, SyncStep(s) \/ \E S \in SUBSET Syncers : SyncMetadata(s, S)
      PROVE  Inv' /\ Advances
  <2>1. CASE ReplaceAuthFiles(s)
    BY <1>0, <2>1, ReplacePreserves DEF Advances
  <2>2. CASE ListIdentities(s)
    BY <1>0, <2>2, ListPreserves DEF Advances
  <2>3. CASE Aggregate(s)
    BY <1>0, <2>3, AggregatePreserves DEF Advances
  <2>4. CASE \/ \E S \in SUBSET Syncers : SyncMetadata(s, S)
             \/ FetchAuthFiles(s) \/ FetchProvider(s)
             \/ AuthFilesNotReplaced(s) \/ ReplaceProviders(s) \/ ReplaceProvidersFails(s)
             \/ AggregateFails(s)
    <3>1. Inv' /\ passive' = passive /\ total' = total /\ cursor' = cursor
      BY <2>4, SyncPreserves
    <3> QED
      BY <1>0, <3>1 DEF Advances
  <2> QED
    BY <1>3, <2>1, <2>2, <2>3, <2>4 DEF SyncStep
<1>4. CASE Crash
  BY <1>0, <1>4, CrashPreserves DEF Advances
<1>5. {} \in SUBSET Syncers /\ {Runner} \in SUBSET Syncers /\ Runner \in Syncers
  BY DEF Syncers
<1> QED
  BY <1>1, <1>2, <1>3, <1>4, <1>5 DEF Next

\* The inductive invariant.
THEOREM SpecInv == Spec => []Inv
<1>1. Inv /\ [Next]_vars => Inv'
  BY Step
<1> QED
  BY InitInv, <1>1, PTL DEF Spec

\* The total of every identity counts exactly its events up to its cursor,
\* although AggregateUsageIdentityStats overwrites it from a row read before
\* its transaction.
THEOREM SpecStatsExact == Spec => []StatsExact
<1>1. Inv => StatsExact
  BY DEF Inv
<1> QED
  BY SpecInv, <1>1, PTL

\* No overlapping sync takes back totals, cursors or the newest passive
\* quota (AggregateUsageIdentityStats, mergePassiveAccountObservation).
THEOREM SpecHistoryAdvances == Spec => HistoryAdvances
<1>1. Inv /\ [Next]_vars =>
        [/\ \A i \in Ids : total[i] <= total'[i] /\ cursor[i] <= cursor'[i]
         /\ \A a \in AuthFiles : passive[a] <= passive'[a]]_vars
  BY Step DEF Advances
<1> QED
  BY SpecInv, <1>1, PTL DEF Spec, HistoryAdvances

=============================================================================
