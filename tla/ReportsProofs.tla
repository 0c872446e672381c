---------------------------- MODULE ReportsProofs ----------------------------
(***************************************************************************)
(* Proofs about the reports, for every window, selection, page size,       *)
(* limit, length of an hour and number of events stored while a report is  *)
(* built.                                                                  *)
(*                                                                         *)
(* Lists: LIMIT and OFFSET are about positions in the order of the rows.   *)
(* The facts they need are that positions respect the order, that a        *)
(* position only grows when rows are stored, and that a slice from the     *)
(* start that is not full is everything.                                   *)
(*                                                                         *)
(* Diagnostics: an open transaction keeps what was read equal to what      *)
(* would be read now, so a finished report has one population.             *)
(*                                                                         *)
(* Analytics: the segments of a window's plan split it, so the statements  *)
(* of a figure, whenever they run, read each event once.                   *)
(*                                                                         *)
(* Health grids: on a grid of whole seconds the index computed in SQL and  *)
(* the block found event by event are the same.                            *)
(***************************************************************************)
EXTENDS AnalyticsReport, UsageOverview, UsageListing, UsageDiagnostics, FiniteSetTheorems,
        SequenceTheorems, WellFoundedInduction, TLAPS

-----------------------------------------------------------------------------
(* The stored events. *)

\* Rows with a time and an id of their own.
Listed(E) ==
    /\ IsFiniteSet(E)
    /\ \A e \in E : e.t \in Int /\ e.id \in Int
    /\ \A e, f \in E : e.id = f.id => e = f

\* Ids are given in the order of the inserts.
EventsInv ==
    /\ arrivals \in Workloads
    /\ Listed(events)
    /\ \A e \in events : e.id <= Cardinality(events)

LEMMA ListedSubset ==
    ASSUME NEW E, NEW F, Listed(F), E \subseteq F
    PROVE  Listed(E)
  BY FS_Subset DEF Listed

LEMMA InitEvents == DataInit => EventsInv
<1> SUFFICES ASSUME DataInit PROVE EventsInv
  OBVIOUS
<1>1. CASE events = {}
  <2>1. IsFiniteSet(events)
    BY <1>1, FS_EmptySet
  <2> QED
    BY <1>1, <2>1 DEF DataInit, EventsInv, Listed
<1>2. ASSUME NEW a \in arrivals, events = {[id |-> 1, t |-> a.t, k |-> a.k]} PROVE EventsInv
  <2>1. IsFiniteSet(events) /\ Cardinality(events) = 1
    BY <1>2, FS_Singleton
  <2>2. a.t \in Int
    BY ReportDataAssumption DEF DataInit, Ticks
  <2> QED
    BY <1>2, <2>1, <2>2 DEF DataInit, EventsInv, Listed
<1> QED
  BY <1>1, <1>2 DEF DataInit

\* A stored event takes the next id; the others stay.
LEMMA IntakeEvents ==
    ASSUME EventsInv, IntakeNext
    PROVE  EventsInv' /\ events \subseteq events'
<1>1. PICK a \in arrivals : InsertEvent(a)
  BY DEF IntakeNext
<1> DEFINE e == [id |-> Cardinality(events) + 1, t |-> a.t, k |-> a.k]
<1>2. events' = events \cup {e} /\ UNCHANGED arrivals
  BY <1>1 DEF InsertEvent
<1>3. Cardinality(events) \in Nat /\ a.t \in Int
  BY FS_CardinalityType, ReportDataAssumption DEF EventsInv, Listed, Ticks
<1>4. e.id = Cardinality(events) + 1 /\ e.t = a.t
  OBVIOUS
<1>5. e \notin events
  BY <1>3, <1>4 DEF EventsInv
<1> HIDE DEF e
<1>6. IsFiniteSet(events') /\ Cardinality(events') = Cardinality(events) + 1
  BY <1>2, <1>5, FS_AddElement DEF EventsInv, Listed
<1>7. \A f \in events : f.id # e.id
  BY <1>3, <1>4 DEF EventsInv, Listed
<1>8. Listed(events')
  BY <1>2, <1>3, <1>4, <1>6, <1>7 DEF EventsInv, Listed
<1>9. \A f \in events' : f.id <= Cardinality(events')
  BY <1>2, <1>3, <1>4, <1>6 DEF EventsInv, Listed
<1> QED
  BY <1>2, <1>8, <1>9 DEF EventsInv, Listed

-----------------------------------------------------------------------------
(* Positions and slices. *)

\* The rows before another one are before it by position, and the other way
\* round.
LEMMA PositionOrders ==
    ASSUME NEW E, Listed(E), NEW x \in E, NEW y \in E
    PROVE  /\ Position(E, x) \in Nat \ {0}
           /\ Precedes(x, y) <=> Position(E, x) < Position(E, y)
<1> DEFINE before(e) == {z \in E : Precedes(z, e)}
<1>1. \A e \in E : IsFiniteSet(before(e)) /\ Cardinality(before(e)) \in Nat
  BY FS_Subset, FS_CardinalityType DEF Listed
<1>2. ASSUME NEW u \in E, NEW v \in E, Precedes(u, v)
      PROVE  Cardinality(before(u)) < Cardinality(before(v))
  <2>1. before(u) \subseteq before(v)
    BY <1>2 DEF Precedes, Listed
  <2>2. u \in before(v) /\ u \notin before(u)
    BY <1>2 DEF Precedes, Listed
  <2> HIDE DEF before
  <2>3. Cardinality(before(u)) <= Cardinality(before(v)) /\ Cardinality(before(v)) # Cardinality(before(u))
    BY <1>1, <2>1, <2>2, FS_Subset
  <2> QED
    BY <1>1, <2>3
<1>3. x = y \/ Precedes(x, y) \/ Precedes(y, x)
  BY DEF Precedes, Listed
<1>4. Precedes(x, y) <=> Cardinality(before(x)) < Cardinality(before(y))
  BY <1>1, <1>2, <1>3
<1>5. \A e \in E : Position(E, e) = Cardinality(before(e)) + 1
  BY DEF Position
<1> HIDE DEF before
<1> QED
  BY <1>1, <1>4, <1>5

\* Rows stored later only push a row back.
LEMMA PositionGrows ==
    ASSUME NEW E, NEW F, Listed(F), E \subseteq F, NEW e \in E
    PROVE  Position(E, e) <= Position(F, e)
<1>1. {x \in E : Precedes(x, e)} \subseteq {x \in F : Precedes(x, e)}
  OBVIOUS
<1>2. IsFiniteSet({x \in F : Precedes(x, e)})
  BY FS_Subset DEF Listed
<1>3. /\ Cardinality({x \in E : Precedes(x, e)}) \in Nat
      /\ Cardinality({x \in F : Precedes(x, e)}) \in Nat
      /\ Cardinality({x \in E : Precedes(x, e)}) <= Cardinality({x \in F : Precedes(x, e)})
  BY <1>1, <1>2, FS_Subset, FS_CardinalityType
<1> QED
  BY <1>3 DEF Position

\* A slice from the start with room for one row more than it has is everything.
LEMMA SliceAll ==
    ASSUME NEW E, Listed(E), NEW n \in Nat, Cardinality(Slice(E, n + 1, 0)) <= n
    PROVE  Slice(E, n + 1, 0) = E
<1> DEFINE S == Slice(E, n + 1, 0)
           T == {Position(E, e) : e \in E \ S}
           R == OpToRel(<, Nat)
<1>1. S \subseteq E /\ IsFiniteSet(S)
  BY FS_Subset DEF Slice, Listed
<1> SUFFICES ASSUME E \ S # {} PROVE FALSE
  BY <1>1
<1>2. T # {} /\ T \subseteq Nat
  BY PositionOrders
<1>3. PICK p \in T : \A q \in T : ~ (<<q, p>> \in R)
  <2>1. IsWellFoundedOn(R, Nat)
    BY NatLessThanWellFounded DEF R
  <2> HIDE DEF R, T
  <2> QED
    BY <1>2, <2>1, WFMin
<1>4. \A q \in T : ~ (q < p)
  <2> SUFFICES ASSUME NEW q \in T, q < p PROVE FALSE
    OBVIOUS
  <2>1. <<q, p>> \in R
    BY <1>2 DEF OpToRel
  <2> QED
    BY <1>3, <2>1
<1>5. PICK e \in E \ S : p = Position(E, e)
  OBVIOUS
<1>6. p > n + 1
  BY <1>5, PositionOrders DEF Slice
<1> DEFINE before == {x \in E : Precedes(x, e)}
<1>7. before \subseteq S
  <2> SUFFICES ASSUME NEW x \in E, Precedes(x, e), x \notin S PROVE FALSE
    OBVIOUS
  <2>1. Position(E, x) \in T /\ Position(E, x) < p
    BY <1>5, PositionOrders
  <2> QED
    BY <1>4, <2>1
<1> HIDE DEF S
<1>8. Cardinality(before) <= Cardinality(S) /\ Cardinality(before) \in Nat /\ Cardinality(S) \in Nat
  BY <1>1, <1>7, FS_Subset, FS_CardinalityType
<1>9. Cardinality(before) = p - 1
  BY <1>5, <1>8 DEF Position
<1>10. Cardinality(S) <= n
  BY DEF S
<1>11. p \in Nat
  BY <1>2, <1>3
<1> HIDE DEF before, T, R
<1> QED
  BY <1>6, <1>8, <1>9, <1>10, <1>11

-----------------------------------------------------------------------------
(* The request event log (UsageListing). *)

Stages == {"idle", "count", "options", "rows", "shown", "refused", "exported"}

ListShape ==
    /\ list = [selection |-> list.selection, kind |-> list.kind, page |-> list.page,
               stage |-> list.stage]
    /\ list.page \in Nat \ {0}
    /\ list.stage \in Stages

\* What was stored at the first count is still selected, and what of it no page
\* has shown lies behind the first n rows.
UnseenBehind(n) ==
    /\ stored \subseteq Selected
    /\ \A e \in stored \ shown : Position(Selected, e) > n

Unseen ==
    /\ list.stage \in {"count", "options", "rows"} => UnseenBehind(OffsetOf(list.page))
    /\ list.stage = "shown" => UnseenBehind(list.page * PageSize)

ListInv ==
    /\ EventsInv
    /\ ListShape
    /\ list.stage = "idle" => stored = {}
    /\ Unseen
    /\ PagesSkipNothing
    /\ ExportComplete

LEMMA SelectedListed == EventsInv => Listed(Selected)
<1>1. Selected \subseteq events
  BY DEF Selected
<1> QED
  BY <1>1, ListedSubset DEF EventsInv

LEMMA InitListInv == DataInit /\ ListInit => ListInv
<1> SUFFICES ASSUME DataInit, ListInit PROVE ListInv
  OBVIOUS
<1>1. EventsInv
  BY InitEvents
<1>2. list.stage = "idle" /\ ListShape
  BY DEF ListInit, Idle, ListShape, Stages
<1> QED
  BY <1>1, <1>2 DEF ListInv, Unseen, PagesSkipNothing, ExportComplete, ListInit

\* Requests begin with nothing stored or shown to account for.
LEMMA BeginListStep ==
    ASSUME ListInv, UNCHANGED dataVars,
           \E s \in Selections : ListUsageEvents(s) \/ ExportUsageEvents(s)
    PROVE  ListInv'
<1>1. /\ list.stage = "idle" /\ list'.stage = "count" /\ list'.page = 1
      /\ list' = [selection |-> list'.selection, kind |-> list'.kind, page |-> list'.page,
                  stage |-> list'.stage]
      /\ UNCHANGED <<shown, last, stored, atRead>>
  BY DEF ListUsageEvents, ExportUsageEvents
<1>2. EventsInv' /\ ListShape'
  BY <1>1 DEF ListInv, EventsInv, dataVars, ListShape, Stages
<1>3. Unseen'
  BY <1>1 DEF ListInv, Unseen, UnseenBehind
<1> QED
  BY <1>1, <1>2, <1>3 DEF ListInv, PagesSkipNothing, ExportComplete

\* The first count fixes what has to be shown.
LEMMA CountStep ==
    ASSUME ListInv, UNCHANGED dataVars, Count
    PROVE  ListInv'
<1>1. /\ list.stage = "count" /\ list'.stage = "options" /\ list'.page = list.page
      /\ list'.selection = list.selection
      /\ stored' = IF list.page = 1 THEN Selected ELSE stored
      /\ UNCHANGED <<shown, last, atRead>>
  BY DEF Count, ListInv, ListShape
<1>2. EventsInv' /\ ListShape'
  BY <1>1 DEF ListInv, EventsInv, dataVars, ListShape, Stages, Count
<1>3. Selected' = Selected
  BY <1>1 DEF Selected, dataVars
<1>4. Unseen'
  <2>1. CASE list.page = 1
    <3>1. OffsetOf(list.page) = 0
      BY <2>1, UsageListingAssumption DEF OffsetOf
    <3>2. \A e \in Selected : Position(Selected, e) > 0
      BY SelectedListed, PositionOrders DEF ListInv
    <3>3. \A e \in stored' \ shown' : Position(Selected', e) > OffsetOf(list'.page)
      BY <1>1, <1>3, <2>1, <3>1, <3>2
    <3> QED
      BY <1>1, <1>3, <2>1, <3>3 DEF Unseen, UnseenBehind
  <2>2. CASE list.page # 1
    BY <1>1, <1>3, <2>2 DEF ListInv, Unseen, UnseenBehind
  <2> QED
    BY <2>1, <2>2
<1> QED
  BY <1>1, <1>2, <1>4 DEF ListInv, PagesSkipNothing, ExportComplete

LEMMA OptionsStep ==
    ASSUME ListInv, UNCHANGED dataVars, listUsageEventModelFilterOptions
    PROVE  ListInv'
<1>1. /\ list.stage = "options" /\ list'.stage = "rows" /\ list'.page = list.page
      /\ list'.selection = list.selection
      /\ UNCHANGED <<shown, last, stored, atRead>>
  BY DEF listUsageEventModelFilterOptions, ListInv, ListShape
<1>2. EventsInv' /\ ListShape'
  BY <1>1 DEF ListInv, EventsInv, dataVars, ListShape, Stages, listUsageEventModelFilterOptions
<1>3. Selected' = Selected
  BY <1>1 DEF Selected, dataVars
<1>4. Unseen'
  BY <1>1, <1>3 DEF ListInv, Unseen, UnseenBehind
<1> QED
  BY <1>1, <1>2, <1>4 DEF ListInv, PagesSkipNothing, ExportComplete

\* What the page did not show lies behind its last row.
LEMMA LoadPageStep ==
    ASSUME ListInv, UNCHANGED dataVars, LoadPage
    PROVE  ListInv'
<1> DEFINE rows == Slice(Selected, PageSize, OffsetOf(list.page))
<1>1. /\ list.stage = "rows" /\ list'.stage = "shown" /\ list'.page = list.page
      /\ list'.selection = list.selection
      /\ last' = rows /\ shown' = shown \cup rows
      /\ UNCHANGED stored
  BY DEF LoadPage, ListInv, ListShape
<1>2. EventsInv' /\ ListShape'
  BY <1>1 DEF ListInv, EventsInv, dataVars, ListShape, Stages, LoadPage
<1>3. Selected' = Selected /\ Listed(Selected)
  BY <1>1, SelectedListed DEF Selected, dataVars, ListInv
<1>4. /\ OffsetOf(list.page) \in Nat /\ PageSize \in Nat /\ list.page * PageSize \in Nat
      /\ OffsetOf(list.page) + PageSize = list.page * PageSize
  <2>1. list.page \in Nat /\ list.page - 1 \in Nat /\ PageSize \in Nat
    BY UsageListingAssumption DEF ListInv, ListShape
  <2>2. (list.page - 1) * PageSize = list.page * PageSize - PageSize
    BY <2>1
  <2>3. list.page * PageSize \in Nat /\ (list.page - 1) * PageSize \in Nat
    BY <2>1
  <2> QED
    BY <2>1, <2>2, <2>3 DEF OffsetOf
<1>5. UnseenBehind(OffsetOf(list.page))
  BY <1>1 DEF ListInv, Unseen
<1>6. \A e \in stored \ (shown \cup rows) : e \in Selected /\ Position(Selected, e) > list.page * PageSize
  <2> SUFFICES ASSUME NEW e \in stored, e \notin shown, e \notin rows
               PROVE  e \in Selected /\ Position(Selected, e) > list.page * PageSize
    OBVIOUS
  <2>1. e \in Selected /\ Position(Selected, e) > OffsetOf(list.page)
    BY <1>5 DEF UnseenBehind
  <2>2. Position(Selected, e) \in Nat
    BY <1>3, <2>1, PositionOrders
  <2>3. ~(Position(Selected, e) <= OffsetOf(list.page) + PageSize)
    BY <2>1 DEF Slice
  <2> QED
    BY <1>4, <2>1, <2>2, <2>3
<1>7. \A r \in rows : r \in Selected /\ Position(Selected, r) <= list.page * PageSize
  BY <1>4 DEF Slice
<1>8. Unseen'
  BY <1>1, <1>3, <1>5, <1>6 DEF Unseen, UnseenBehind
<1>9. PagesSkipNothing'
  <2> SUFFICES ASSUME NEW e \in stored \ (shown \cup rows), NEW r \in rows PROVE Precedes(r, e)
    BY <1>1 DEF PagesSkipNothing
  <2>1. /\ e \in Selected /\ r \in Selected
        /\ Position(Selected, e) \in Nat /\ Position(Selected, r) \in Nat
        /\ Position(Selected, r) < Position(Selected, e)
    BY <1>3, <1>4, <1>6, <1>7, PositionOrders
  <2> QED
    BY <1>3, <2>1, PositionOrders
<1> QED
  BY <1>1, <1>2, <1>8, <1>9 DEF ListInv, ExportComplete

LEMMA NextPageStep ==
    ASSUME ListInv, UNCHANGED dataVars, NextPage
    PROVE  ListInv'
<1>1. /\ list.stage = "shown" /\ list'.stage = "count" /\ list'.page = list.page + 1
      /\ list'.selection = list.selection
      /\ UNCHANGED <<shown, last, stored, atRead>>
  BY DEF NextPage, ListInv, ListShape
<1>2. EventsInv' /\ ListShape'
  <2>1. list.page + 1 \in Nat \ {0}
    BY DEF ListInv, ListShape
  <2>2. list' = [selection |-> list'.selection, kind |-> list'.kind, page |-> list'.page,
                 stage |-> list'.stage]
    BY DEF ListInv, ListShape, NextPage
  <2> QED
    BY <1>1, <2>1, <2>2 DEF ListInv, EventsInv, Listed, dataVars, ListShape, Stages
<1>3. Selected' = Selected
  BY <1>1 DEF Selected, dataVars
<1>4. OffsetOf(list'.page) = list.page * PageSize
  <2>1. (list.page + 1) - 1 = list.page
    BY DEF ListInv, ListShape
  <2> QED
    BY <1>1, <2>1 DEF OffsetOf
<1>5. Unseen'
  BY <1>1, <1>3, <1>4 DEF ListInv, Unseen, UnseenBehind
<1> QED
  BY <1>1, <1>2, <1>5 DEF ListInv, PagesSkipNothing, ExportComplete

\* An export whose rows are within the limit has all of them.
LEMMA LoadExportStep ==
    ASSUME ListInv, UNCHANGED dataVars, LoadExport
    PROVE  ListInv'
<1> DEFINE rows == Slice(Selected, exportPageSize, 0)
           refused == count > ExportLimit \/ Cardinality(rows) > ExportLimit
<1>1. /\ list.stage = "rows" /\ list'.stage = IF refused THEN "refused" ELSE "exported"
      /\ list'.page = list.page
      /\ last' = IF refused THEN {} ELSE rows
      /\ atRead' = Selected /\ UNCHANGED stored
  BY DEF LoadExport, ListInv, ListShape
<1>2. EventsInv' /\ ListShape'
  BY <1>1 DEF ListInv, EventsInv, dataVars, ListShape, Stages, LoadExport
<1>3. ExportComplete'
  <2> SUFFICES ASSUME ~ refused
               PROVE  /\ rows = Selected /\ Cardinality(rows) <= ExportLimit
                      /\ stored \subseteq rows
    BY <1>1 DEF ExportComplete
  <2>1. IsFiniteSet(rows) /\ Listed(Selected)
    BY SelectedListed, FS_Subset DEF Listed, ListInv, Slice
  <2>2. Cardinality(rows) \in Nat /\ ExportLimit \in Nat
    BY <2>1, FS_CardinalityType, UsageListingAssumption
  <2>3. Cardinality(rows) <= ExportLimit
    BY <2>2
  <2>4. rows = Selected
    BY <2>1, <2>2, <2>3, SliceAll DEF exportPageSize
  <2>5. stored \subseteq Selected
    BY <1>1 DEF ListInv, Unseen, UnseenBehind
  <2> QED
    BY <2>3, <2>4, <2>5
<1> QED
  BY <1>1, <1>2, <1>3 DEF ListInv, Unseen, PagesSkipNothing

LEMMA EndSessionStep ==
    ASSUME ListInv, UNCHANGED dataVars, EndSession
    PROVE  ListInv'
<1>1. list'.stage = "idle" /\ stored' = {}
  BY DEF EndSession, Idle
<1>2. EventsInv' /\ ListShape'
  BY DEF ListInv, EventsInv, dataVars, ListShape, Stages, EndSession, Idle
<1> QED
  BY <1>1, <1>2 DEF ListInv, Unseen, PagesSkipNothing, ExportComplete

\* Events stored while a client pages push back what it has not seen.
LEMMA IntakeListStep ==
    ASSUME ListInv, IntakeNext, UNCHANGED <<list, count, options, shown, last, stored, atRead>>
    PROVE  ListInv'
<1>1. EventsInv' /\ events \subseteq events'
  BY IntakeEvents DEF ListInv
<1>2. Selected \subseteq Selected'
  BY <1>1 DEF Selected
<1>3. Listed(Selected) /\ Listed(Selected')
  <2>1. Selected' \subseteq events'
    BY DEF Selected
  <2> QED
    BY <1>1, <2>1, SelectedListed, ListedSubset DEF ListInv, EventsInv
<1>4. ASSUME NEW n \in Int, UnseenBehind(n) PROVE UnseenBehind(n)'
  <2>1. stored' \subseteq Selected'
    BY <1>2, <1>4 DEF UnseenBehind
  <2>2. ASSUME NEW e \in stored \ shown PROVE Position(Selected', e) > n
    <3>1. e \in Selected /\ Position(Selected, e) > n
      BY <1>4, <2>2 DEF UnseenBehind
    <3>2. Position(Selected, e) <= Position(Selected', e)
      BY <1>2, <1>3, <3>1, PositionGrows
    <3>3. Position(Selected, e) \in Nat /\ Position(Selected', e) \in Nat
      BY <1>2, <1>3, <3>1, PositionOrders
    <3> QED
      BY <3>1, <3>2, <3>3
  <2> QED
    BY <2>1, <2>2 DEF UnseenBehind
<1>5. OffsetOf(list.page) \in Int /\ list.page * PageSize \in Int
  BY UsageListingAssumption DEF ListInv, ListShape, OffsetOf
<1>6. Unseen'
  BY <1>4, <1>5 DEF ListInv, Unseen
<1> QED
  BY <1>1, <1>6 DEF ListInv, ListShape, PagesSkipNothing, ExportComplete

LEMMA NextListInv == ListInv /\ [ListNext]_<<dataVars, listVars>> => ListInv'
<1> SUFFICES ASSUME ListInv, [ListNext]_<<dataVars, listVars>> PROVE ListInv'
  OBVIOUS
<1>1. CASE UNCHANGED <<dataVars, listVars>>
  BY <1>1 DEF dataVars, listVars, ListInv, EventsInv, ListShape, Unseen, UnseenBehind,
              Selected, PagesSkipNothing, ExportComplete
<1> QED
  BY <1>1, BeginListStep, CountStep, OptionsStep, LoadPageStep, NextPageStep, LoadExportStep,
     EndSessionStep, IntakeListStep DEF ListNext

LEMMA SpecListInv == ListSpec => []ListInv
  BY InitListInv, NextListInv, PTL DEF ListSpec

\* A client that pages through a selection misses none of the events that were
\* stored when it began, whatever is stored between its requests.
THEOREM SpecPagesSkipNothing == ListSpec => []PagesSkipNothing
<1>1. ListInv => PagesSkipNothing
  BY DEF ListInv
<1> QED
  BY <1>1, SpecListInv, PTL

\* An export is complete or refused.
THEOREM SpecExportComplete == ListSpec => []ExportComplete
<1>1. ListInv => ExportComplete
  BY DEF ListInv
<1> QED
  BY <1>1, SpecListInv, PTL

-----------------------------------------------------------------------------
(* Populations of attempts. *)

\* What the statements of a report select: stored attempts.
Attempts(E) ==
    /\ IsFiniteSet(E)
    /\ \A e \in E : e.id \in Int /\ e.k \in Kind
    /\ \A e, f \in E : e.id = f.id => e = f

LEMMA AttemptsSubset ==
    ASSUME NEW E, NEW F, Attempts(F), E \subseteq F
    PROVE  Attempts(E)
  BY FS_Subset DEF Attempts

LEMMA AttemptColumns ==
    ASSUME NEW E, Attempts(E), NEW e \in E
    PROVE  /\ e.k.latency \in Nat /\ e.k.ttft \in Nat
           /\ e.k.generate \in {"yes", "no", "null"}
           /\ e.k.stream \in {"yes", "no", "null"}
  BY DEF Attempts, Kind, Tristate

\* One sample is not after another in the order of a distribution.
NotAfter(x, y) ==
    x.k.latency < y.k.latency \/ (x.k.latency = y.k.latency /\ x.id <= y.id)

\* The ranks of n samples follow their order and are the numbers 1 to n.
LEMMA RankOrders ==
    ASSUME NEW S, Attempts(S), NEW x \in S, NEW y \in S
    PROVE  /\ Rank(S, x) \in 1 .. Cardinality(S)
           /\ NotAfter(x, y) <=> Rank(S, x) <= Rank(S, y)
<1> DEFINE upTo(e) == {z \in S : NotAfter(z, e)}
<1>1. \A e \in S : e.k.latency \in Nat /\ e.id \in Int
  BY AttemptColumns DEF Attempts
<1>2. \A e \in S : upTo(e) \in SUBSET S /\ e \in upTo(e)
  BY <1>1 DEF NotAfter
<1>3. \A u, v \in S : u # v => (NotAfter(u, v) <=> ~ NotAfter(v, u))
  BY <1>1 DEF NotAfter, Attempts
<1>4. \A u, v \in S : NotAfter(u, v) => upTo(u) \subseteq upTo(v)
  BY <1>1 DEF NotAfter
<1>5. \A e \in S : Rank(S, e) = Cardinality(upTo(e))
  BY DEF Rank, NotAfter
<1>6. \A u, v \in S : v \in upTo(u) <=> NotAfter(v, u)
  OBVIOUS
<1> HIDE DEF upTo
<1>7. \A e \in S : /\ IsFiniteSet(upTo(e)) /\ Cardinality(upTo(e)) \in Nat
                   /\ Cardinality(upTo(e)) <= Cardinality(S)
  BY <1>2, FS_Subset, FS_CardinalityType DEF Attempts
<1>8. Cardinality(S) \in Nat
  BY FS_CardinalityType DEF Attempts
<1>9. \A e \in S : Cardinality(upTo(e)) # 0
  BY <1>2, <1>7, FS_EmptySet
<1>10. \A u, v \in S : NotAfter(u, v) => Cardinality(upTo(u)) <= Cardinality(upTo(v))
  BY <1>4, <1>7, FS_Subset
<1>11. ASSUME NEW u \in S, NEW v \in S, ~ NotAfter(u, v)
       PROVE  Cardinality(upTo(v)) < Cardinality(upTo(u))
  <2>1. NotAfter(v, u)
    BY <1>1, <1>11 DEF NotAfter
  <2>2. upTo(v) \subseteq upTo(u) /\ u \in upTo(u) /\ u \notin upTo(v)
    BY <1>2, <1>4, <1>6, <1>11, <2>1
  <2>3. Cardinality(upTo(v)) <= Cardinality(upTo(u)) /\ Cardinality(upTo(v)) # Cardinality(upTo(u))
    BY <1>7, <2>2, FS_Subset
  <2> QED
    BY <1>7, <2>3
<1>12. Rank(S, x) \in 1 .. Cardinality(S)
  BY <1>5, <1>7, <1>8, <1>9
<1>13. NotAfter(x, y) <=> Rank(S, x) <= Rank(S, y)
  BY <1>5, <1>7, <1>10, <1>11
<1> QED
  BY <1>12, <1>13

\* Every rank is taken.
LEMMA RankTaken ==
    ASSUME NEW S, Attempts(S), NEW r \in 1 .. Cardinality(S)
    PROVE  \E e \in S : Rank(S, e) = r
<1> DEFINE n == Cardinality(S)
           f == [e \in S |-> Rank(S, e)]
<1>1. n \in Nat
  BY FS_CardinalityType DEF Attempts
<1>2. \A e \in S : Rank(S, e) \in 1 .. n
  BY RankOrders
<1>3. \A u, v \in S : Rank(S, u) = Rank(S, v) => u = v
  <2> SUFFICES ASSUME NEW u \in S, NEW v \in S, Rank(S, u) = Rank(S, v) PROVE u = v
    OBVIOUS
  <2>1. NotAfter(u, v) /\ NotAfter(v, u)
    BY <1>1, <1>2, RankOrders
  <2> QED
    BY <2>1, AttemptColumns DEF NotAfter, Attempts
<1>4. f \in Injection(S, 1 .. n)
  BY <1>2, <1>3 DEF Injection, IsInjective
<1>5. IsFiniteSet(1 .. n) /\ Cardinality(1 .. n) = n
  BY <1>1, FS_Interval
<1> HIDE DEF f
<1>6. f \in Surjection(S, 1 .. n)
  BY <1>4, <1>5, FS_Injection
<1> QED
  BY <1>6 DEF Surjection, f

\* The bound of the histograms is at least every sample.
LEMMA UpperBoundBounds ==
    ASSUME NEW E, Attempts(E)
    PROVE  /\ UpperBound(E) \in Nat
           /\ \A e \in E : e.k.latency <= UpperBound(E)
<1> DEFINE L == {0} \cup {e.k.latency : e \in E}
<1>1. \A e \in E : e.k.latency \in Nat
  BY AttemptColumns
<1>2. \E m \in L : \A l \in L : m >= l
  <2>1. CASE E = {}
    BY <2>1
  <2>2. CASE E # {}
    <3>1. Cardinality(E) \in Nat /\ Cardinality(E) # 0
      BY <2>2, FS_CardinalityType, FS_EmptySet DEF Attempts
    <3>2. PICK largest \in E : Rank(E, largest) = Cardinality(E)
      BY <3>1, RankTaken
    <3>3. \A e \in E : e.k.latency <= largest.k.latency
      <4> SUFFICES ASSUME NEW e \in E PROVE e.k.latency <= largest.k.latency
        OBVIOUS
      <4>1. NotAfter(e, largest)
        BY <3>1, <3>2, RankOrders
      <4> QED
        BY <1>1, <4>1 DEF NotAfter
    <3> QED
      BY <1>1, <3>3
  <2> QED
    BY <2>1, <2>2
<1>3. Max(L) \in L /\ \A l \in L : Max(L) >= l
  BY <1>2 DEF Max
<1>4. UpperBound(E) = Max(L)
  BY DEF UpperBound
<1> HIDE DEF L
<1>5. 0 \in L /\ \A e \in E : e.k.latency \in L
  BY DEF L
<1>6. L \subseteq Nat
  BY <1>1 DEF L
<1> QED
  BY <1>3, <1>4, <1>5, <1>6

\* The nearest-rank percentile is the smallest sample with at least that part
\* of the samples at or below it.
LEMMA NearestRank ==
    ASSUME NEW S, Attempts(S), S # {}, NEW percent \in 1 .. 100
    PROVE  LET value == nearestRankPercentile(S, percent)
               AtMost(v) == Cardinality({e \in S : e.k.latency <= v})
           IN  /\ 100 * AtMost(value) >= percent * Cardinality(S)
               /\ \A e \in S : e.k.latency < value =>
                     100 * AtMost(e.k.latency) < percent * Cardinality(S)
<1> DEFINE n == Cardinality(S)
           w == percent * n
           index == Max({1, CeilOf(w, 100)})
           q == CHOOSE e \in S : Rank(S, e) = index
           AtMost(v) == {e \in S : e.k.latency <= v}
<1>1. n \in Nat /\ n # 0
  BY FS_CardinalityType, FS_EmptySet DEF Attempts
<1>2. w \in Nat /\ 1 <= w /\ w <= 100 * n
  BY <1>1
<1> HIDE DEF w
<1>3. /\ CeilOf(w, 100) \in 1 .. n
      /\ 100 * CeilOf(w, 100) >= w /\ 100 * (CeilOf(w, 100) - 1) < w
  <2> HIDE DEF n
  <2> QED
    BY <1>1, <1>2 DEF CeilOf
<1>4. index = CeilOf(w, 100)
  <2> DEFINE c == CeilOf(w, 100)
  <2> HIDE DEF c
  <2>1. c \in Nat /\ c >= 1
    BY <1>1, <1>3 DEF c
  <2>2. Max({1, c}) = c
    BY <2>1 DEF Max
  <2> QED
    BY <2>2 DEF c
<1>5. q \in S /\ Rank(S, q) = index
  BY <1>3, <1>4, RankTaken
<1> HIDE DEF index, q
<1>6. \A e \in S : e.k.latency \in Nat /\ e.id \in Int
  BY AttemptColumns DEF Attempts
<1>7. \A v : AtMost(v) \in SUBSET S /\ IsFiniteSet(AtMost(v)) /\ Cardinality(AtMost(v)) \in Nat
  BY FS_Subset, FS_CardinalityType DEF Attempts
<1> DEFINE U == {x \in S : NotAfter(x, q)}
<1>8. Cardinality(U) = index /\ IsFiniteSet(U)
  BY <1>5, FS_Subset DEF Attempts, Rank, NotAfter
<1>9. Cardinality(AtMost(q.k.latency)) >= index
  <2>1. U \in SUBSET AtMost(q.k.latency)
    BY <1>5, <1>6 DEF NotAfter
  <2> HIDE DEF AtMost, U
  <2> QED
    BY <1>7, <1>8, <2>1, FS_Subset
<1>10. ASSUME NEW e \in S, e.k.latency < q.k.latency
       PROVE  Cardinality(AtMost(e.k.latency)) <= index - 1
  <2>1. AtMost(e.k.latency) \in SUBSET (U \ {q}) /\ q \in U
    BY <1>5, <1>6, <1>10 DEF NotAfter
  <2> HIDE DEF AtMost, U
  <2>2. IsFiniteSet(U \ {q}) /\ Cardinality(U \ {q}) = index - 1
    BY <1>8, <2>1, FS_RemoveElement
  <2> QED
    BY <1>7, <2>1, <2>2, FS_Subset
<1>11. nearestRankPercentile(S, percent) = q.k.latency
  BY DEF nearestRankPercentile, q, index, w
<1>12. 100 * Cardinality(AtMost(q.k.latency)) >= w
  <2>1. Cardinality(AtMost(q.k.latency)) \in Nat
    BY <1>7
  <2> HIDE DEF AtMost
  <2> QED
    BY <1>2, <1>3, <1>4, <1>9, <2>1
<1>13. \A e \in S : e.k.latency < q.k.latency => 100 * Cardinality(AtMost(e.k.latency)) < w
  <2> SUFFICES ASSUME NEW e \in S, e.k.latency < q.k.latency
               PROVE  100 * Cardinality(AtMost(e.k.latency)) < w
    OBVIOUS
  <2>1. Cardinality(AtMost(e.k.latency)) \in Nat /\ Cardinality(AtMost(e.k.latency)) <= index - 1
    BY <1>7, <1>10
  <2> HIDE DEF AtMost
  <2> QED
    BY <1>2, <1>3, <1>4, <2>1
<1> QED
  BY <1>11, <1>12, <1>13 DEF w

-----------------------------------------------------------------------------
(* The parts of a report over one population. *)

\* A breakdown's remainder, computed by subtraction, counts the attempts of
\* the groups that are not shown.
LEMMA RemainderExact ==
    ASSUME NEW E, Attempts(E), NEW top, NEW ranked, NEW attempts,
           \A e \in E : Dimension(attempts, e) = Dimension(ranked, e)
    PROVE  OtherCount(E, top, attempts, E)
             = Cardinality({e \in E : Dimension(ranked, e) \notin top})
<1> DEFINE T == {e \in E : Dimension(attempts, e) \in top}
<1>1. {e \in E : Dimension(ranked, e) \notin top} = E \ T /\ E \cap T = T
  OBVIOUS
<1> QED
  <2> HIDE DEF T
  <2>1. Cardinality(E \ T) = Cardinality(E) - Cardinality(E \cap T)
    BY FS_Difference DEF Attempts
  <2> QED
    BY <1>1, <2>1 DEF OtherCount, T

\* The three execution populations SQL counts are those of the Go
\* classification, and what is left of the successful attempts is the fourth.
LEMMA ExecutionExact ==
    ASSUME NEW E, Attempts(E)
    PROVE  /\ UnknownExecution(E, E) = Cardinality(Cohort(E, "unknown"))
           /\ SQLNonStreaming(E) = Cohort(E, "non_streaming")
           /\ SQLUnknown(E) = Cohort(E, "unknown")
<1> DEFINE S == Successful(E)
           A == SQLGeneratingStreaming(E)
           B == SQLNonGenerating(E)
           C == SQLNonStreaming(E)
           D == Cohort(E, "unknown")
<1>1. \A e \in E : /\ e.k.generate \in {"yes", "no", "null"}
                   /\ e.k.stream \in {"yes", "no", "null"}
  BY AttemptColumns
<1>2. C = Cohort(E, "non_streaming")
  BY <1>1 DEF SQLNonStreaming, Cohort, Successful, usageExecutionCohort
<1>3. SQLUnknown(E) = D
  BY <1>1 DEF SQLUnknown, Cohort, Successful, usageExecutionCohort
<1>4. S \in SUBSET E /\ A \in SUBSET S /\ B \in SUBSET S /\ C \in SUBSET S
  BY DEF Successful, SQLGeneratingStreaming, SQLNonGenerating, SQLNonStreaming
<1>5. A \cap B = {} /\ (A \cup B) \cap C = {}
  BY DEF SQLGeneratingStreaming, SQLNonGenerating, SQLNonStreaming
<1>6. D = S \ ((A \cup B) \cup C)
  BY <1>1 DEF Cohort, Successful, usageExecutionCohort, SQLGeneratingStreaming,
              SQLNonGenerating, SQLNonStreaming
<1>7. UnknownExecution(E, E) = Cardinality(S) - Cardinality(A) - Cardinality(B) - Cardinality(C)
  BY DEF UnknownExecution
<1> HIDE DEF S, A, B, C, D
<1>8. IsFiniteSet(S) /\ IsFiniteSet(A) /\ IsFiniteSet(B) /\ IsFiniteSet(C)
  BY <1>4, FS_Subset DEF Attempts
<1>9. /\ Cardinality(S) \in Nat /\ Cardinality(A) \in Nat
      /\ Cardinality(B) \in Nat /\ Cardinality(C) \in Nat
  BY <1>8, FS_CardinalityType
<1>10. IsFiniteSet(A \cup B) /\ Cardinality(A \cup B) = Cardinality(A) + Cardinality(B)
  <2>1. /\ IsFiniteSet(A \cup B)
        /\ Cardinality(A \cup B) = Cardinality(A) + Cardinality(B) - Cardinality(A \cap B)
    BY <1>8, FS_Union
  <2>2. Cardinality(A \cap B) = 0
    BY <1>5, FS_EmptySet
  <2> QED
    BY <1>9, <2>1, <2>2
<1>11. /\ IsFiniteSet((A \cup B) \cup C)
       /\ Cardinality((A \cup B) \cup C) = Cardinality(A) + Cardinality(B) + Cardinality(C)
  <2>1. /\ IsFiniteSet((A \cup B) \cup C)
        /\ Cardinality((A \cup B) \cup C)
              = Cardinality(A \cup B) + Cardinality(C) - Cardinality((A \cup B) \cap C)
    BY <1>8, <1>10, FS_Union
  <2>2. Cardinality((A \cup B) \cap C) = 0
    BY <1>5, FS_EmptySet
  <2> QED
    BY <1>9, <1>10, <2>1, <2>2
<1>12. S \cap ((A \cup B) \cup C) = (A \cup B) \cup C
  BY <1>4
<1>13. Cardinality(D) = Cardinality(S) - Cardinality((A \cup B) \cup C)
  <2>1. Cardinality(S \ ((A \cup B) \cup C))
          = Cardinality(S) - Cardinality(S \cap ((A \cup B) \cup C))
    BY <1>8, FS_Difference
  <2> QED
    BY <1>6, <1>12, <2>1
<1>14. Cardinality(D) = Cardinality(S) - Cardinality(A) - Cardinality(B) - Cardinality(C)
  BY <1>9, <1>11, <1>13
<1> QED
  BY <1>2, <1>3, <1>7, <1>14 DEF C, D

\* A positive sample has a bin of the histogram.
LEMMA BinInRange ==
    ASSUME NEW e, NEW upper \in Nat, e.k.latency \in Nat, 0 < e.k.latency, e.k.latency <= upper
    PROVE  Bin(e, upper) \in 0 .. Bins - 1
<1> DEFINE b == (e.k.latency * Bins) \div upper
<1>1. Bins \in Nat /\ Bins >= 1
  BY UsageDiagnosticsAssumption
<1>2. b \in Nat
  <2>1. e.k.latency * Bins \in Nat /\ upper \in Nat /\ upper > 0
    BY <1>1
  <2> QED
    BY <2>1
<1>3. Bin(e, upper) = Min({b, Bins - 1})
  BY DEF Bin
<1> HIDE DEF b
<1>4. Min({b, Bins - 1}) \in {b, Bins - 1} /\ Min({b, Bins - 1}) <= Bins - 1
  <2>1. \E x \in {b, Bins - 1} : \A y \in {b, Bins - 1} : x <= y
    BY <1>1, <1>2
  <2> QED
    BY <2>1 DEF Min
<1> QED
  BY <1>1, <1>2, <1>3, <1>4

\* The same for the reports, whose statements all read E.
LEMMA GroupsOfOneRead ==
    ASSUME NEW E, Attempts(E), NEW ranked, NEW attempts,
           read["totals"] = E, read[ranked] = E, read[attempts] = E,
           \A e \in E : Dimension(attempts, e) = Dimension(ranked, e)
    PROVE  GroupsConsistent(ranked, attempts)
  BY RemainderExact DEF GroupsConsistent

LEMMA PopulationsOfOneRead ==
    ASSUME NEW E, Attempts(E),
           read["totals"] = E, read["execution"] = E, read["samples"] = E
    PROVE  PopulationsConsistent
<1>1. UpperBound(E) \in Nat /\ \A e \in E : e.k.latency <= UpperBound(E)
  BY UpperBoundBounds
<1>2. \A e \in SQLUnknown(E) : validTTFT(e) => e.k.ttft <= UpperBound(E)
  <2> SUFFICES ASSUME NEW e \in SQLUnknown(E), validTTFT(e) PROVE e.k.ttft <= UpperBound(E)
    OBVIOUS
  <2>1. e \in E
    BY DEF SQLUnknown, Successful
  <2>2. e.k.latency \in Nat /\ e.k.ttft \in Nat
    BY <2>1, AttemptColumns
  <2> QED
    BY <1>1, <2>1, <2>2 DEF validTTFT
<1> QED
  BY <1>2, ExecutionExact DEF PopulationsConsistent

LEMMA HistogramsOfOneRead ==
    ASSUME NEW E, Attempts(E), NEW attempts, read["samples"] = E, read[attempts] = E
    PROVE  HistogramsConsistent(attempts)
<1>1. Attempts(Successful(E))
  BY AttemptsSubset DEF Successful
<1>2. /\ UpperBound(Successful(E)) \in Nat
      /\ \A e \in Successful(E) : e.k.latency <= UpperBound(Successful(E))
  BY <1>1, UpperBoundBounds
<1>3. \A e \in Successful(E) : e.k.latency > 0 =>
          Bin(e, UpperBound(Successful(E))) \in 0 .. Bins - 1
  BY <1>1, <1>2, AttemptColumns, BinInRange
<1> QED
  BY <1>2, <1>3 DEF HistogramsConsistent

LEMMA PercentilesOfOneRead ==
    ASSUME NEW E, Attempts(E), NEW percent \in 1 .. 100, read["samples"] = E
    PROVE  PercentilesConsistent(percent)
<1> DEFINE S == Samples(Successful(E))
<1>1. Attempts(S)
  BY AttemptsSubset DEF Samples, Successful
<1> HIDE DEF S
<1>2. CASE S = {}
  BY <1>2 DEF PercentilesConsistent, S
<1>3. CASE S # {}
  BY <1>1, <1>3, NearestRank DEF PercentilesConsistent, S
<1> QED
  BY <1>2, <1>3

\* Grouping by key and model loses no attempt, and attempts shown by one name are
\* listed with it whatever their keys are.
LEMMA AnalysisOfOneRead ==
    ASSUME NEW E, read["apis"] = E, read["apiModels"] = E
    PROVE  AnalysisConsistent
<1> SUFFICES ASSUME NEW api
             PROVE  UNION {Group("apiModels", read["apiModels"], v) :
                              v \in modelsByAPI(api, read["apiModels"])}
                      = {e \in read["apis"] : normalize(e.k.apiKey) = normalize(api)}
  BY Zenon DEF AnalysisConsistent
<1> DEFINE pairs == modelsByAPI(api, E)
           mine  == {e \in E : normalize(e.k.apiKey) = normalize(api)}
<1>1. \A e : Dimension("apiModels", e) = <<e.k.apiKey, e.k.model>>
  BY DEF Dimension
<1>2. \A e \in E : Dimension("apiModels", e) \in Values("apiModels", E)
  BY DEF Values
<1>3. \A e, v : e \in Group("apiModels", E, v) <=> e \in E /\ <<e.k.apiKey, e.k.model>> = v
  BY <1>1 DEF Group
<1>4. ASSUME NEW e \in mine
      PROVE  \E v \in pairs : e \in Group("apiModels", E, v)
  <2>1. <<e.k.apiKey, e.k.model>> \in pairs
    BY <1>1, <1>2 DEF modelsByAPI
  <2> QED
    BY <1>3, <2>1
<1>5. ASSUME NEW v \in pairs, NEW e \in Group("apiModels", E, v)
      PROVE  e \in mine
  BY <1>3 DEF modelsByAPI
<1>6. UNION {Group("apiModels", E, v) : v \in pairs} = mine
  <2> HIDE DEF pairs, mine
  <2> QED
    BY <1>4, <1>5
<1> QED
  BY <1>6 DEF pairs, mine

-----------------------------------------------------------------------------
(* The statements of one report read one population. *)

\* The reports that run in a transaction.
InTransaction == {"performance", "failures", "mappings"}

DiagShape ==
    /\ diag \in [report : InTransaction \cup {"analysis", "none"},
                 filter : DiagnosticFilters \cup {NoFilter}, done : Nat]
    /\ tx \in BOOLEAN /\ changes \in Nat
    /\ diag.report = "none" => read = <<>>
    /\ diag.report # "none" =>
          /\ diag.done <= Len(Statements[diag.report])
          /\ \A i \in 1 .. diag.done : Statements[diag.report][i] \in DOMAIN read
    /\ \A s \in DOMAIN read : Attempts(read[s])

\* What has been read is what the same statements would read now.
Fresh == \A s \in DOMAIN read : read[s] = Population(diag.report, diag.filter)

\* A transaction stays open, and what it read stays fresh, up to its last
\* statement; afterwards what its statements read is still the same set.  The
\* analysis tab is fresh as long as nothing is committed.
Snapshot ==
    /\ diag.report \in InTransaction =>
          /\ \A s, u \in DOMAIN read : read[s] = read[u]
          /\ diag.done < Len(Statements[diag.report]) => tx
          /\ tx => Fresh
    /\ diag.report = "analysis" /\ changes = 0 => Fresh

DiagInv == EventsInv /\ Attempts(events) /\ DiagShape /\ Snapshot

LEMMA StatementsOf ==
    /\ Reports = InTransaction \cup {"analysis"}
    /\ Statements["performance"] = PerformanceStatements
    /\ Statements["failures"] = FailureStatements
    /\ Statements["mappings"] = MappingStatements
    /\ Statements["analysis"] = AnalysisStatements
    /\ \A r \in Reports : Len(Statements[r]) \in Nat \ {0}
<1>1. /\ Reports = InTransaction \cup {"analysis"}
      /\ Statements["performance"] = PerformanceStatements
      /\ Statements["failures"] = FailureStatements
      /\ Statements["mappings"] = MappingStatements
      /\ Statements["analysis"] = AnalysisStatements
  BY DEF Reports, Statements, InTransaction
<1>2. Len(PerformanceStatements) = 9
  BY DEF PerformanceStatements
<1>3. Len(FailureStatements) = 4
  BY DEF FailureStatements
<1>4. Len(MappingStatements) = 2
  BY DEF MappingStatements
<1>5. Len(AnalysisStatements) = 3
  BY DEF AnalysisStatements
<1>6. \A r \in Reports : Len(Statements[r]) \in Nat \ {0}
  <2>1. /\ Len(Statements["performance"]) \in Nat \ {0}
        /\ Len(Statements["failures"]) \in Nat \ {0}
        /\ Len(Statements["mappings"]) \in Nat \ {0}
        /\ Len(Statements["analysis"]) \in Nat \ {0}
    BY <1>1, <1>2, <1>3, <1>4, <1>5
  <2>2. Reports = {"performance", "failures", "mappings", "analysis"}
    BY <1>1 DEF InTransaction
  <2> QED
    BY <2>1, <2>2, Zenon
<1> QED
  BY <1>1, <1>6

LEMMA PopulationAttempts ==
    ASSUME Attempts(events), NEW report, NEW f
    PROVE  Attempts(Population(report, f))
<1>1. Population(report, f) \subseteq events
  BY DEF Population
<1> QED
  BY <1>1, AttemptsSubset

LEMMA InitAttempts == DataInit => Attempts(events)
<1> SUFFICES ASSUME DataInit PROVE Attempts(events)
  OBVIOUS
<1>1. EventsInv
  BY InitEvents
<1>2. \A a \in arrivals : a.k \in Kind
  BY ReportDataAssumption DEF DataInit
<1>3. \A e \in events : e.k \in Kind
  BY <1>2 DEF DataInit
<1> QED
  BY <1>1, <1>3 DEF EventsInv, Listed, Attempts

LEMMA IntakeAttempts ==
    ASSUME EventsInv, Attempts(events), IntakeNext
    PROVE  Attempts(events')
<1>1. EventsInv'
  BY IntakeEvents
<1>2. PICK a \in arrivals : InsertEvent(a)
  BY DEF IntakeNext
<1>3. a.k \in Kind
  BY ReportDataAssumption DEF EventsInv
<1>4. \A e \in events' : e.k \in Kind
  BY <1>2, <1>3 DEF InsertEvent, Attempts
<1> QED
  BY <1>1, <1>4 DEF EventsInv, Listed, Attempts

LEMMA InitDiagInv == DataInit /\ DiagInit => DiagInv
<1> SUFFICES ASSUME DataInit, DiagInit PROVE DiagInv
  OBVIOUS
<1>1. DOMAIN read = {}
  BY DEF DiagInit
<1>2. DiagShape
  BY <1>1 DEF DiagInit, DiagShape
<1>3. Snapshot
  BY <1>1 DEF DiagInit, Snapshot, InTransaction
<1> QED
  BY <1>2, <1>3, InitEvents, InitAttempts DEF DiagInv

LEMMA BeginDiagnosticStep ==
    ASSUME DiagInv, NEW r \in Reports, NEW f \in DiagnosticFilters,
           BeginDiagnostic(r, f), UNCHANGED dataVars
    PROVE  DiagInv'
<1>1. read' = <<>> /\ DOMAIN read' = {}
  BY DEF DiagInv, DiagShape, BeginDiagnostic
<1>2. r \in InTransaction \cup {"analysis"} /\ Len(Statements[r]) \in Nat \ {0}
  BY StatementsOf
<1>3. diag' = [report |-> r, filter |-> f, done |-> 0] /\ tx' = (r # "analysis") /\ changes' = 0
  BY DEF BeginDiagnostic
<1>4. DiagShape'
  BY <1>1, <1>2, <1>3 DEF DiagShape, InTransaction
<1>5. Snapshot'
  BY <1>1, <1>2, <1>3 DEF Snapshot, Fresh, InTransaction
<1>6. EventsInv' /\ Attempts(events)'
  BY DEF DiagInv, EventsInv, dataVars
<1> QED
  BY <1>4, <1>5, <1>6 DEF DiagInv

LEMMA RunStatementStep ==
    ASSUME DiagInv, RunStatement, UNCHANGED dataVars
    PROVE  DiagInv'
<1> DEFINE n == Len(Statements[diag.report])
           s == Statements[diag.report][diag.done + 1]
           P == Population(diag.report, diag.filter)
<1>1. /\ diag.report \in Reports /\ diag.done \in Nat /\ n \in Nat /\ diag.done < n
      /\ diag.report # "none"
  BY StatementsOf DEF DiagInv, DiagShape, RunStatement
<1>2. /\ diag'.report = diag.report /\ diag'.filter = diag.filter
      /\ diag'.done = diag.done + 1
      /\ diag' \in [report : InTransaction \cup {"analysis", "none"},
                    filter : DiagnosticFilters \cup {NoFilter}, done : Nat]
  BY DEF DiagInv, DiagShape, RunStatement
<1>3. DOMAIN read' = DOMAIN read \cup {s}
  BY DEF RunStatement
<1>4. \A x \in DOMAIN read' : read'[x] = IF x = s THEN P ELSE read[x]
  BY DEF RunStatement
<1>5. Population(diag.report, diag.filter)' = P
  BY <1>2 DEF Population, dataVars
<1>6. tx' = (tx /\ diag.done + 1 < n) /\ changes' = changes
  BY DEF RunStatement
<1>7. Attempts(P)
  BY PopulationAttempts DEF DiagInv
<1>8. \A i \in 1 .. diag.done + 1 : Statements[diag.report][i] \in DOMAIN read'
  BY <1>1, <1>3 DEF DiagInv, DiagShape
<1> HIDE DEF s, P, n
<1>9. DiagShape'
  <2>1. \A x \in DOMAIN read' : Attempts(read'[x])
    BY <1>3, <1>4, <1>7 DEF DiagInv, DiagShape
  <2> QED
    BY <1>1, <1>2, <1>6, <1>8, <2>1 DEF DiagInv, DiagShape, n
<1>10. Fresh => Fresh'
  BY <1>2, <1>3, <1>4, <1>5 DEF Fresh, P
<1>11. ASSUME diag.report \in InTransaction PROVE Snapshot'
  <2>1. Fresh
    BY <1>1, <1>11 DEF DiagInv, Snapshot, n
  <2>2. Fresh'
    BY <1>10, <2>1
  <2>3. (\A x, y \in DOMAIN read : read[x] = read[y])'
    BY <2>2 DEF Fresh
  <2>4. tx
    BY <1>1, <1>11 DEF DiagInv, Snapshot, n
  <2> QED
    BY <1>2, <1>6, <1>11, <2>2, <2>3, <2>4 DEF Snapshot, InTransaction, n
<1>12. ASSUME diag.report = "analysis" PROVE Snapshot'
  BY <1>2, <1>6, <1>10, <1>12 DEF DiagInv, Snapshot, InTransaction
<1>13. Snapshot'
  BY <1>1, <1>11, <1>12, StatementsOf
<1>14. EventsInv' /\ Attempts(events)'
  BY DEF DiagInv, EventsInv, dataVars
<1> QED
  BY <1>9, <1>13, <1>14 DEF DiagInv

LEMMA EndDiagnosticStep ==
    ASSUME DiagInv, EndDiagnostic, UNCHANGED dataVars
    PROVE  DiagInv'
<1>1. diag' = [report |-> "none", filter |-> NoFilter, done |-> 0] /\ tx' = FALSE
      /\ read' = <<>> /\ changes' = 0
  BY DEF EndDiagnostic
<1>2. DOMAIN read' = {}
  BY <1>1
<1>3. DiagShape'
  BY <1>1, <1>2 DEF DiagShape
<1>4. Snapshot'
  BY <1>1 DEF Snapshot, InTransaction
<1>5. EventsInv' /\ Attempts(events)'
  BY DEF DiagInv, EventsInv, dataVars
<1> QED
  BY <1>3, <1>4, <1>5 DEF DiagInv

\* A writer commits only when no transaction is open.
LEMMA IntakeDiagStep ==
    ASSUME DiagInv, IntakeNext, ~ tx, UNCHANGED <<diag, tx, read>>,
           changes' = IF diag.report = "none" THEN 0 ELSE changes + 1
    PROVE  DiagInv'
<1>1. EventsInv' /\ Attempts(events)'
  BY IntakeEvents, IntakeAttempts DEF DiagInv
<1>2. changes' \in Nat /\ (diag.report # "none" => changes' # 0)
  BY DEF DiagInv, DiagShape
<1>3. DiagShape'
  BY <1>2 DEF DiagInv, DiagShape
<1>4. Snapshot'
  BY <1>2 DEF DiagInv, Snapshot, InTransaction
<1> QED
  BY <1>1, <1>3, <1>4 DEF DiagInv

LEMMA NextDiagInv == DiagInv /\ [DiagNext]_<<dataVars, diagVars>> => DiagInv'
<1> SUFFICES ASSUME DiagInv, [DiagNext]_<<dataVars, diagVars>> PROVE DiagInv'
  OBVIOUS
<1>1. CASE UNCHANGED <<dataVars, diagVars>>
  BY <1>1 DEF dataVars, diagVars, DiagInv, EventsInv, DiagShape, Snapshot, Fresh, Population
<1> QED
  BY <1>1, BeginDiagnosticStep, RunStatementStep, EndDiagnosticStep, IntakeDiagStep DEF DiagNext

LEMMA SpecDiagInv == DiagSpec => []DiagInv
  BY InitDiagInv, NextDiagInv, PTL DEF DiagSpec

\* A finished report has run all its statements on one population.
LEMMA CompleteReads ==
    ASSUME DiagInv, NEW r \in Reports, Complete(r),
           r \in InTransaction \/ changes = 0
    PROVE  \E E : Attempts(E) /\ \A i \in 1 .. Len(Statements[r]) : read[Statements[r][i]] = E
<1>1. diag.report = r /\ diag.done = Len(Statements[r]) /\ r # "none"
  BY StatementsOf DEF Complete, InTransaction
<1>2. \A i \in 1 .. Len(Statements[r]) : Statements[r][i] \in DOMAIN read
  BY <1>1 DEF DiagInv, DiagShape
<1>3. \A s, u \in DOMAIN read : read[s] = read[u]
  BY <1>1, StatementsOf DEF DiagInv, Snapshot, Fresh
<1>4. \A s \in DOMAIN read : Attempts(read[s])
  BY DEF DiagInv, DiagShape
<1>5. 1 \in 1 .. Len(Statements[r])
  BY StatementsOf
<1> WITNESS read[Statements[r][1]]
<1> QED
  BY <1>2, <1>3, <1>4, <1>5

\* However writers and the statements of a diagnostic report interleave, the
\* totals, populations, groups, remainders, histograms and percentiles of a
\* finished report describe one population.
THEOREM SpecDiagnosticsConsistent == DiagSpec => []DiagnosticsConsistent
<1>1. ASSUME DiagInv PROVE DiagnosticsConsistent
  <2>1. ASSUME Complete("performance")
        PROVE  /\ PopulationsConsistent
               /\ GroupsConsistent("providers", "providerAttempts")
               /\ GroupsConsistent("models", "modelAttempts")
               /\ GroupsConsistent("accounts", "accountAttempts")
               /\ HistogramsConsistent("modelAttempts")
               /\ \A percent \in {50, 95} : PercentilesConsistent(percent)
    <3>1. PICK E : /\ Attempts(E)
                   /\ \A i \in 1 .. Len(Statements["performance"]) :
                         read[Statements["performance"][i]] = E
      BY <1>1, <2>1, CompleteReads, StatementsOf DEF InTransaction
    <3>2. /\ read["totals"] = E /\ read["execution"] = E /\ read["samples"] = E
          /\ read["providers"] = E /\ read["providerAttempts"] = E
          /\ read["models"] = E /\ read["modelAttempts"] = E
          /\ read["accounts"] = E /\ read["accountAttempts"] = E
      <4>1. /\ Len(PerformanceStatements) = 9
            /\ PerformanceStatements[1] = "totals" /\ PerformanceStatements[2] = "execution"
            /\ PerformanceStatements[3] = "samples" /\ PerformanceStatements[4] = "providers"
            /\ PerformanceStatements[5] = "providerAttempts"
            /\ PerformanceStatements[6] = "models" /\ PerformanceStatements[7] = "modelAttempts"
            /\ PerformanceStatements[8] = "accounts"
            /\ PerformanceStatements[9] = "accountAttempts"
        BY DEF PerformanceStatements
      <4>2. \A i \in 1 .. 9 : read[PerformanceStatements[i]] = E
        BY <3>1, <4>1, StatementsOf
      <4> QED
        BY <4>1, <4>2
    <3>3. \A e : /\ Dimension("providerAttempts", e) = Dimension("providers", e)
                 /\ Dimension("modelAttempts", e) = Dimension("models", e)
                 /\ Dimension("accountAttempts", e) = Dimension("accounts", e)
      BY DEF Dimension
    <3>4. PopulationsConsistent
      BY <3>1, <3>2, PopulationsOfOneRead
    <3>5. /\ GroupsConsistent("providers", "providerAttempts")
          /\ GroupsConsistent("models", "modelAttempts")
          /\ GroupsConsistent("accounts", "accountAttempts")
      BY <3>1, <3>2, <3>3, GroupsOfOneRead
    <3>6. HistogramsConsistent("modelAttempts")
      BY <3>1, <3>2, HistogramsOfOneRead
    <3>7. \A percent \in {50, 95} : PercentilesConsistent(percent)
      <4>1. \A percent \in {50, 95} : percent \in 1 .. 100
        OBVIOUS
      <4> QED
        BY <3>1, <3>2, <4>1, PercentilesOfOneRead
    <3> QED
      BY <3>4, <3>5, <3>6, <3>7
  <2>2. ASSUME Complete("failures")
        PROVE  \A s \in {"providers", "accounts", "models"} : GroupsConsistent(s, s)
    <3>1. PICK E : /\ Attempts(E)
                   /\ \A i \in 1 .. Len(Statements["failures"]) :
                         read[Statements["failures"][i]] = E
      BY <1>1, <2>2, CompleteReads, StatementsOf DEF InTransaction
    <3>2. /\ read["totals"] = E /\ read["providers"] = E
          /\ read["accounts"] = E /\ read["models"] = E
      BY <3>1, StatementsOf DEF FailureStatements
    <3> QED
      BY <3>1, <3>2, GroupsOfOneRead
  <2>3. ASSUME Complete("mappings") PROVE GroupsConsistent("mappings", "mappings")
    <3>1. PICK E : /\ Attempts(E)
                   /\ \A i \in 1 .. Len(Statements["mappings"]) :
                         read[Statements["mappings"][i]] = E
      BY <1>1, <2>3, CompleteReads, StatementsOf DEF InTransaction
    <3>2. read["totals"] = E /\ read["mappings"] = E
      BY <3>1, StatementsOf DEF MappingStatements
    <3> QED
      BY <3>1, <3>2, GroupsOfOneRead
  <2>4. ASSUME Complete("analysis"), changes = 0 PROVE AnalysisConsistent
    <3>1. PICK E : /\ Attempts(E)
                   /\ \A i \in 1 .. Len(Statements["analysis"]) :
                         read[Statements["analysis"][i]] = E
      BY <1>1, <2>4, CompleteReads, StatementsOf
    <3>2. read["apis"] = E /\ read["apiModels"] = E
      BY <3>1, StatementsOf DEF AnalysisStatements
    <3> QED
      BY <3>2, AnalysisOfOneRead
  <2> QED
    BY <2>1, <2>2, <2>3, <2>4 DEF DiagnosticsConsistent
<1> QED
  BY <1>1, SpecDiagInv, PTL

-----------------------------------------------------------------------------
(* The analytics summary: what its statements read, whatever is stored     *)
(* between them.                                                           *)

\* A moment of time, as an event has one.
Moments == [t : Ticks]

Segment == [source : {"events", "rollups"}, start : Int, end : Int]
Job     == [figure : Figures, segment : Segment]

\* The window of a figure, in one segment.
WindowSegment(figure) == analyticsCoreRawWindowPlan(WindowOf(figure))[1]

\* The figures of a stage, and those whose statements are known by then.
StageFigures(s) ==
    CASE s = "core"     -> {CoreFigures[i] : i \in 1 .. 8}
      [] s = "previous" -> {"previous"}
      [] s = "heatmap"  -> {"heatmap"}
      [] OTHER          -> {}

Started(figure) ==
    CASE figure = "previous" -> stage \in {"previous", "heatmap", "done"}
      [] figure = "heatmap"  -> stage \in {"heatmap", "done"}
      [] OTHER               -> stage # "idle"

\* A statement that is still to run reads moment x for the figure.
StillRead(figure, x) ==
    \E i \in DOMAIN todo : todo[i].figure = figure /\ InSegment(x, todo[i].segment)

\* Nothing was read for the figure yet.
Untouched(figure) ==
    /\ got[figure] = EmptyBag
    /\ \A x \in Moments : InSegment(x, WindowSegment(figure)) => StillRead(figure, x)

\* The second figure selects the identities the first one shows.
Dependent == {<<"keys", "keyTrends">>, <<"apiKeys", "apiKeyTrends">>}

\* A figure's rows: no row twice, and no event in two rows.
RowsOnce(bag) ==
    /\ \A r \in DOMAIN bag : bag[r] = 1
    /\ \A r, s \in DOMAIN bag : r.e = s.e => r = s

StoreInv ==
    /\ arrivals \in Workloads
    /\ \A e \in events : e.t \in Ticks
    /\ base \subseteq events
    /\ backfilled => rolled = events

ShapeInv ==
    /\ stage # "idle" => filter \in Filters
    /\ todo \in Seq(Job)
    /\ stage \in {"idle", "core", "previous", "heatmap", "done"}
    /\ got = [figure \in Figures |-> got[figure]]
    /\ stage \in {"idle", "done"} => todo = <<>>

\* The statements to run: each inside its figure's window, no two of a figure
\* on the same moment, rollups only when they are complete.
JobsInv ==
    /\ \A i \in DOMAIN todo :
          /\ todo[i].figure \in StageFigures(stage) /\ Expected(todo[i].figure)
          /\ todo[i].segment.source = "rollups" => backfilled
          /\ \A x \in Moments : InSegment(x, todo[i].segment)
                                   => InSegment(x, WindowSegment(todo[i].figure))
    /\ \A i, j \in DOMAIN todo : todo[i].figure = todo[j].figure /\ i # j =>
          \A x \in Moments : ~(InSegment(x, todo[i].segment) /\ InSegment(x, todo[j].segment))
    /\ \A p \in Dependent :
          /\ \A i, j \in DOMAIN todo : todo[i].figure = p[1] /\ todo[j].figure = p[2] => i < j
          /\ (\E i \in DOMAIN todo : todo[i].figure = p[1]) => Untouched(p[2])

\* The rows read: of events of the window, which no statement reads again; and
\* every event that was there at the start is read or still to be read.
RowsInv ==
    \A figure \in Figures :
        /\ RowsOnce(got[figure])
        /\ \A r \in DOMAIN got[figure] :
              /\ r.e \in events /\ Started(figure) /\ Expected(figure) /\ InWindow(figure, r.e)
              /\ ~ StillRead(figure, r.e)
        /\ \A e \in base :
              Started(figure) /\ Expected(figure) /\ InWindow(figure, e) =>
                  \/ StillRead(figure, e)
                  \/ \E r \in DOMAIN got[figure] : r.e = e

ReportInv == StoreInv /\ ShapeInv /\ JobsInv /\ RowsInv

\* The start of an hour.
LEMMA HourFacts ==
    ASSUME NEW t \in Int
    PROVE  /\ HourStart(t) \in Int /\ HourStart(t) <= t /\ t < HourStart(t) + TicksPerHour
           /\ \E q \in Int : HourStart(t) = q * TicksPerHour
<1>1. TicksPerHour \in Nat /\ TicksPerHour > 0
  BY ReportDataAssumption
<1> DEFINE q == t \div TicksPerHour
<1>2. q \in Int /\ q * TicksPerHour <= t /\ t < q * TicksPerHour + TicksPerHour
  BY <1>1
<1>3. q * TicksPerHour \in Int
  BY <1>1, <1>2
<1> QED
  BY <1>2, <1>3 DEF HourStart

\* Two hours overlap only when they are the same.
LEMMA HoursApart ==
    ASSUME NEW p \in Int, NEW q \in Int, p * TicksPerHour < q * TicksPerHour
    PROVE  p * TicksPerHour + TicksPerHour <= q * TicksPerHour
<1>1. TicksPerHour \in Nat /\ TicksPerHour > 0
  BY ReportDataAssumption
<1>2. p < q
  BY <1>1
<1>3. (p + 1) * TicksPerHour <= q * TicksPerHour
  BY <1>1, <1>2
<1>4. (p + 1) * TicksPerHour = p * TicksPerHour + TicksPerHour
  BY <1>1
<1> QED
  BY <1>3, <1>4

IsHour(h) == \E q \in Int : h = q * TicksPerHour

LEMMA HourArithmetic ==
    ASSUME NEW h, IsHour(h)
    PROVE  h \in Int /\ IsHour(h + TicksPerHour) /\ IsHour(h - TicksPerHour)
<1>1. TicksPerHour \in Nat /\ TicksPerHour > 0
  BY ReportDataAssumption
<1>2. PICK q \in Int : h = q * TicksPerHour
  BY DEF IsHour
<1>3. q * TicksPerHour \in Int
  BY <1>1
<1>4. (q + 1) * TicksPerHour = h + TicksPerHour /\ (q - 1) * TicksPerHour = h - TicksPerHour
  BY <1>1, <1>2
<1> QED
  BY <1>2, <1>3, <1>4 DEF IsHour

\* Before a full hour or not, a moment and its hour agree.
LEMMA HourOrder ==
    ASSUME NEW h, IsHour(h), NEW t \in Int
    PROVE  /\ h <= HourStart(t) <=> h <= t
           /\ HourStart(t) <= h <=> t < h + TicksPerHour
<1>1. PICK q \in Int : h = q * TicksPerHour
  BY DEF IsHour
<1>2. PICK p \in Int : HourStart(t) = p * TicksPerHour
  BY HourFacts
<1>3. /\ h \in Int /\ HourStart(t) \in Int /\ HourStart(t) <= t
      /\ t < HourStart(t) + TicksPerHour /\ TicksPerHour \in Nat
  BY HourArithmetic, HourFacts, ReportDataAssumption
<1>4. HourStart(t) < h => HourStart(t) + TicksPerHour <= h
  BY <1>1, <1>2, HoursApart
<1>5. h < HourStart(t) => h + TicksPerHour <= HourStart(t)
  BY <1>1, <1>2, HoursApart
<1> QED
  BY <1>3, <1>4, <1>5

\* The first and the last full hour of a window.
LEMMA FullBuckets ==
    ASSUME NEW a \in Int, NEW b \in Int
    PROVE  /\ IsHour(FirstFullBucket(a)) /\ a <= FirstFullBucket(a)
           /\ IsHour(LastFullBucket(b)) /\ LastFullBucket(b) + TicksPerHour <= b + 1
<1>1. /\ IsHour(HourStart(a)) /\ IsHour(HourStart(b)) /\ TicksPerHour \in Nat
      /\ HourStart(a) \in Int /\ HourStart(a) <= a /\ a < HourStart(a) + TicksPerHour
      /\ HourStart(b) \in Int /\ HourStart(b) <= b
  BY HourFacts, ReportDataAssumption DEF IsHour
<1>2. IsHour(HourStart(a) + TicksPerHour) /\ IsHour(HourStart(b) - TicksPerHour)
  BY <1>1, HourArithmetic
<1> QED
  BY <1>1, <1>2 DEF FirstFullBucket, LastFullBucket

-----------------------------------------------------------------------------
(* The plan of a window. *)

\* A filter's window and those derived from it.
IsWindow(w) == w.bounded \in BOOLEAN /\ w.start \in Int /\ w.end \in Int

WindowRaw(w) == analyticsCoreRawWindowPlan(w)[1]

\* A plan splits its window: every moment of it is in one segment and in no
\* other, and no other moment is.
Splits(plan, w) ==
    /\ plan \in Seq(Segment) /\ Len(plan) \in 1 .. 3
    /\ \A q \in 1 .. Len(plan), x \in Moments :
          InSegment(x, plan[q]) => InSegment(x, WindowRaw(w))
    /\ \A q, r \in 1 .. Len(plan), x \in Moments :
          InSegment(x, plan[q]) /\ InSegment(x, plan[r]) => q = r
    /\ \A x \in Moments : InSegment(x, WindowRaw(w)) =>
          \E q \in 1 .. Len(plan) : InSegment(x, plan[q])

LEMMA WindowRawIs ==
    ASSUME NEW w, IsWindow(w)
    PROVE  /\ WindowRaw(w) = (IF w.bounded THEN Raw(w.start, w.end) ELSE Raw(0, LastTick))
           /\ WindowRaw(w) \in Segment
           /\ analyticsCoreRawWindowPlan(w) = <<WindowRaw(w)>>
BY ReportDataAssumption DEF WindowRaw, analyticsCoreRawWindowPlan, IsWindow, Raw, Segment

LEMMA RawPlanSplits ==
    ASSUME NEW w, IsWindow(w)
    PROVE  Splits(analyticsCoreRawWindowPlan(w), w)
<1> DEFINE P == analyticsCoreRawWindowPlan(w)
<1>1. P = <<WindowRaw(w)>> /\ WindowRaw(w) \in Segment
  BY WindowRawIs
<1> HIDE DEF P
<1>2. P \in Seq(Segment) /\ Len(P) = 1 /\ P[1] = WindowRaw(w)
  BY <1>1
<1>3. Splits(P, w)
  BY <1>2 DEF Splits
<1> QED
  BY <1>3 DEF P

LEMMA Appended ==
    ASSUME NEW S, NEW A \in Seq(S), Len(A) = 2, NEW B \in Seq(S), Len(B) = 1
    PROVE  /\ A \o B \in Seq(S) /\ Len(A \o B) = 3
           /\ (A \o B)[1] = A[1] /\ (A \o B)[2] = A[2] /\ (A \o B)[3] = B[1]
<1>1. /\ A \o B \in Seq(S) /\ Len(A \o B) = Len(A) + Len(B)
      /\ \A i \in 1 .. Len(A) + Len(B) : (A \o B)[i] = IF i <= Len(A) THEN A[i] ELSE B[i - Len(A)]
  BY ConcatProperties
<1> QED
  BY <1>1

\* The raw events before the first full hour and after the last, and the full
\* hours between them.
LEMMA RollupPlanSplits ==
    ASSUME NEW w, IsWindow(w), HasRollupPlan(w)
    PROVE  Splits(analyticsCoreRollupWindowPlan(w), w)
<1> DEFINE first == FirstFullBucket(w.start)
           final == LastFullBucket(w.end)
           head == Raw(w.start, first - 1)
           tail == Raw(final + TicksPerHour, w.end)
           hours == Rollup(first, final)
           P == analyticsCoreRollupWindowPlan(w)
<1>0. w.start \in Int /\ w.end \in Int /\ w.bounded /\ w.start <= w.end
  BY DEF IsWindow, HasRollupPlan
<1>1. /\ IsHour(first) /\ IsHour(final) /\ first \in Int /\ final \in Int
      /\ first <= final /\ w.start <= first /\ final + TicksPerHour <= w.end + 1
      /\ TicksPerHour \in Nat \ {0}
  BY <1>0, FullBuckets, HourArithmetic, ReportDataAssumption DEF HasRollupPlan
<1>2. WindowRaw(w) = Raw(w.start, w.end)
  BY <1>0, WindowRawIs
<1> HIDE DEF first, final
<1>3. head \in Segment /\ tail \in Segment /\ hours \in Segment
  BY <1>0, <1>1 DEF Raw, Rollup, Segment
<1>4. ASSUME NEW x \in Moments
      PROVE  /\ InSegment(x, WindowRaw(w)) <=> w.start <= x.t /\ x.t <= w.end
             /\ InSegment(x, head) <=> w.start <= x.t /\ x.t < first
             /\ InSegment(x, tail) <=> final + TicksPerHour <= x.t /\ x.t <= w.end
             /\ InSegment(x, hours) <=> first <= x.t /\ x.t < final + TicksPerHour
  <2>1. x.t \in Int
    BY ReportDataAssumption DEF Moments, Ticks
  <2>2. /\ InSegment(x, WindowRaw(w)) <=> w.start <= x.t /\ x.t <= w.end
        /\ InSegment(x, head) <=> w.start <= x.t /\ x.t < first
        /\ InSegment(x, tail) <=> final + TicksPerHour <= x.t /\ x.t <= w.end
    BY <1>0, <1>1, <1>2, <2>1 DEF InSegment, Raw
  <2>3. InSegment(x, hours) <=> first <= HourStart(x.t) /\ HourStart(x.t) <= final
    BY DEF InSegment, Rollup
  <2> QED
    BY <1>1, <2>1, <2>2, <2>3, HourOrder
<1>5. \A x \in Moments : x.t \in Int
  BY ReportDataAssumption DEF Moments, Ticks
<1>6. HeadSegment(w) = IF w.start < first THEN <<head>> ELSE <<>>
  BY DEF HeadSegment, first
<1>7. TailSegment(w) = IF final + TicksPerHour <= w.end THEN <<tail>> ELSE <<>>
  BY DEF TailSegment, final
<1>8. P = (HeadSegment(w) \o TailSegment(w)) \o <<hours>>
  BY DEF analyticsCoreRollupWindowPlan, first, final
<1> HIDE DEF head, tail, hours, P
<1>9. CASE w.start < first /\ final + TicksPerHour <= w.end
  <2>1. P \in Seq(Segment) /\ Len(P) = 3 /\ P[1] = head /\ P[2] = tail /\ P[3] = hours
    <3>1. P = (<<head>> \o <<tail>>) \o <<hours>>
      BY <1>6, <1>7, <1>8, <1>9
    <3> DEFINE A == <<head>> \o <<tail>>
               B == <<hours>>
    <3>2. A \in Seq(Segment) /\ Len(A) = 2 /\ A[1] = head /\ A[2] = tail
      BY <1>3
    <3>3. B \in Seq(Segment) /\ Len(B) = 1 /\ B[1] = hours
      BY <1>3
    <3>4. P = A \o B
      BY <3>1
    <3> HIDE DEF A, B
    <3> QED
      BY <3>2, <3>3, <3>4, Appended
  <2>2. Splits(P, w)
    <3>1. \A q \in 1 .. Len(P) : q = 1 \/ q = 2 \/ q = 3
      BY <2>1
    <3>2. ASSUME NEW q \in 1 .. Len(P), NEW x \in Moments, InSegment(x, P[q])
          PROVE  InSegment(x, WindowRaw(w))
      <4>1. x.t \in Int /\ (InSegment(x, head) \/ InSegment(x, tail) \/ InSegment(x, hours))
        BY <1>5, <2>1, <3>1, <3>2
      <4> QED
        BY <1>0, <1>1, <1>4, <4>1
    <3>3. \A q, r \in 1 .. Len(P), x \in Moments :
             InSegment(x, P[q]) /\ InSegment(x, P[r]) => q = r
      BY <1>0, <1>1, <1>4, <1>5, <2>1, <3>1
    <3>4. ASSUME NEW x \in Moments, InSegment(x, WindowRaw(w))
          PROVE  \E q \in 1 .. Len(P) : InSegment(x, P[q])
      <4>1. InSegment(x, head) \/ InSegment(x, tail) \/ InSegment(x, hours)
        BY <1>0, <1>1, <1>4, <1>5, <3>4
      <4> QED
        BY <2>1, <4>1
    <3> QED
      BY <2>1, <3>2, <3>3, <3>4 DEF Splits
  <2> QED
    BY <2>2 DEF P
<1>10. CASE w.start < first /\ ~(final + TicksPerHour <= w.end)
  <2>1. P \in Seq(Segment) /\ Len(P) = 2 /\ P[1] = head /\ P[2] = hours
    BY <1>3, <1>6, <1>7, <1>8, <1>10
  <2>2. Splits(P, w)
    BY <1>0, <1>1, <1>4, <1>5, <1>10, <2>1 DEF Splits
  <2> QED
    BY <2>2 DEF P
<1>11. CASE ~(w.start < first) /\ final + TicksPerHour <= w.end
  <2>1. P \in Seq(Segment) /\ Len(P) = 2 /\ P[1] = tail /\ P[2] = hours
    BY <1>3, <1>6, <1>7, <1>8, <1>11
  <2>2. Splits(P, w)
    BY <1>0, <1>1, <1>4, <1>5, <1>11, <2>1 DEF Splits
  <2> QED
    BY <2>2 DEF P
<1>12. CASE ~(w.start < first) /\ ~(final + TicksPerHour <= w.end)
  <2>1. P \in Seq(Segment) /\ Len(P) = 1 /\ P[1] = hours
    BY <1>3, <1>6, <1>7, <1>8, <1>12
  <2>2. Splits(P, w)
    BY <1>0, <1>1, <1>4, <1>5, <1>12, <2>1 DEF Splits
  <2> QED
    BY <2>2 DEF P
<1> QED
  BY <1>9, <1>10, <1>11, <1>12

\* The plan of a report, with its fallback.
LEMMA PlanSplits ==
    ASSUME NEW w, IsWindow(w)
    PROVE  /\ Splits(Plan(w), w)
           /\ \A q \in 1 .. Len(Plan(w)) : Plan(w)[q].source = "rollups" => backfilled
<1>1. CASE HasRollupPlan(w) /\ backfilled
  BY <1>1, RollupPlanSplits DEF Plan
<1>2. CASE ~(HasRollupPlan(w) /\ backfilled)
  <2>1. Plan(w) = analyticsCoreRawWindowPlan(w)
    BY <1>2 DEF Plan
  <2>2. Plan(w) = <<WindowRaw(w)>> /\ WindowRaw(w).source = "events"
    BY <2>1, WindowRawIs DEF Raw
  <2>3. \A q \in 1 .. Len(Plan(w)) : Plan(w)[q].source = "events"
    BY <2>2
  <2> QED
    BY <2>1, <2>3, RawPlanSplits
<1> QED
  BY <1>1, <1>2

\* The statements of a stage: every figure with every segment, figure by figure.
AreJobs(J, fs, ss) ==
    /\ J \in Seq(Job)
    /\ \A i \in DOMAIN J : \E p \in 1 .. Len(fs), q \in 1 .. Len(ss) :
          i = (p - 1) * Len(ss) + q /\ J[i].figure = fs[p] /\ J[i].segment = ss[q]
    /\ \A p \in 1 .. Len(fs), q \in 1 .. Len(ss) :
          /\ (p - 1) * Len(ss) + q \in DOMAIN J
          /\ J[(p - 1) * Len(ss) + q].figure = fs[p]
          /\ J[(p - 1) * Len(ss) + q].segment = ss[q]

LEMMA JobsOf ==
    ASSUME NEW fs \in Seq(Figures), Len(fs) \in {1, 8}, NEW ss \in Seq(Segment),
           Len(ss) \in 1 .. 3
    PROVE  AreJobs(Jobs(fs, ss), fs, ss)
<1> DEFINE n == Len(ss)
           m == Len(fs)
           J == Jobs(fs, ss)
           Fig(i) == ((i - 1) \div n) + 1
           Sg(i) == ((i - 1) % n) + 1
<1>0. n \in {1, 2, 3} /\ m \in {1, 8}
  OBVIOUS
<1>1. J = [i \in 1 .. m * n |-> [figure |-> fs[Fig(i)], segment |-> ss[Sg(i)]]]
  BY DEF Jobs
<1>2. ASSUME NEW i \in 1 .. m * n
      PROVE  Fig(i) \in 1 .. m /\ Sg(i) \in 1 .. n /\ i = (Fig(i) - 1) * n + Sg(i)
  <2> HIDE DEF n, m
  <2>1. CASE n = 1
    BY <1>0, <2>1
  <2>2. CASE n = 2
    BY <1>0, <2>2
  <2>3. CASE n = 3
    BY <1>0, <2>3
  <2> QED
    BY <1>0, <2>1, <2>2, <2>3
<1>3. ASSUME NEW p \in 1 .. m, NEW q \in 1 .. n
      PROVE  /\ (p - 1) * n + q \in 1 .. m * n
             /\ Fig((p - 1) * n + q) = p /\ Sg((p - 1) * n + q) = q
  <2> HIDE DEF n, m
  <2>1. CASE n = 1
    BY <1>0, <2>1
  <2>2. CASE n = 2
    BY <1>0, <2>2
  <2>3. CASE n = 3
    BY <1>0, <2>3
  <2> QED
    BY <1>0, <2>1, <2>2, <2>3
<1>4. \A p \in 1 .. m, q \in 1 .. n : fs[p] \in Figures /\ ss[q] \in Segment
  OBVIOUS
<1>5. m * n \in Nat
  BY <1>0
<1> HIDE DEF n, m, Fig, Sg, J
<1>6. DOMAIN J = 1 .. m * n
  BY <1>1
<1>7. J \in Seq(Job)
  <2>1. \A i \in 1 .. m * n : [figure |-> fs[Fig(i)], segment |-> ss[Sg(i)]] \in Job
    BY <1>2, <1>4 DEF Job
  <2>2. J \in [1 .. m * n -> Job]
    BY <1>1, <2>1
  <2> QED
    BY <1>5, <2>2
<1>8. \A i \in DOMAIN J : \E p \in 1 .. m, q \in 1 .. n :
          i = (p - 1) * n + q /\ J[i].figure = fs[p] /\ J[i].segment = ss[q]
  BY <1>1, <1>2, <1>6
<1>9. ASSUME NEW p \in 1 .. m, NEW q \in 1 .. n
      PROVE  LET i == (p - 1) * n + q IN
             i \in DOMAIN J /\ J[i].figure = fs[p] /\ J[i].segment = ss[q]
  BY <1>1, <1>3, <1>6
<1> QED
  BY <1>7, <1>8, <1>9 DEF J, n, m, AreJobs

\* The statements of one stage, over the plan of its window.
LEMMA StageJobs ==
    ASSUME NEW fs \in Seq(Figures), Len(fs) \in {1, 8},
           \A p, r \in 1 .. Len(fs) : fs[p] = fs[r] => p = r,
           NEW w, IsWindow(w), NEW J, J = Jobs(fs, Plan(w))
    PROVE  /\ J \in Seq(Job)
           /\ \A i \in DOMAIN J :
                 /\ \E p \in 1 .. Len(fs) : J[i].figure = fs[p]
                 /\ J[i].segment.source = "rollups" => backfilled
                 /\ \A x \in Moments : InSegment(x, J[i].segment) => InSegment(x, WindowRaw(w))
           /\ \A i, j \in DOMAIN J : J[i].figure = J[j].figure /\ i # j =>
                 \A x \in Moments : ~(InSegment(x, J[i].segment) /\ InSegment(x, J[j].segment))
           /\ \A p \in 1 .. Len(fs), x \in Moments : InSegment(x, WindowRaw(w)) =>
                 \E i \in DOMAIN J : J[i].figure = fs[p] /\ InSegment(x, J[i].segment)
           /\ \A p, r \in 1 .. Len(fs), i, j \in DOMAIN J :
                 p < r /\ J[i].figure = fs[p] /\ J[j].figure = fs[r] => i < j
<1> DEFINE P == Plan(w)
           n == Len(P)
<1>1. /\ P \in Seq(Segment) /\ n \in 1 .. 3
      /\ \A q \in 1 .. n, x \in Moments : InSegment(x, P[q]) => InSegment(x, WindowRaw(w))
      /\ \A q, r \in 1 .. n, x \in Moments : InSegment(x, P[q]) /\ InSegment(x, P[r]) => q = r
      /\ \A x \in Moments : InSegment(x, WindowRaw(w)) => \E q \in 1 .. n : InSegment(x, P[q])
      /\ \A q \in 1 .. n : P[q].source = "rollups" => backfilled
  BY PlanSplits DEF Splits
<1> HIDE DEF P
<1>2. /\ J \in Seq(Job)
      /\ \A i \in DOMAIN J : \E p \in 1 .. Len(fs), q \in 1 .. n :
            i = (p - 1) * n + q /\ J[i].figure = fs[p] /\ J[i].segment = P[q]
      /\ \A p \in 1 .. Len(fs), q \in 1 .. n :
            /\ (p - 1) * n + q \in DOMAIN J
            /\ J[(p - 1) * n + q].figure = fs[p] /\ J[(p - 1) * n + q].segment = P[q]
  <2>1. J = Jobs(fs, P)
    BY DEF P
  <2>2. AreJobs(J, fs, P)
    BY <1>1, <2>1, JobsOf
  <2> QED
    BY <2>2 DEF AreJobs
<1> HIDE DEF n
<1>3. ASSUME NEW i \in DOMAIN J
      PROVE  /\ \E p \in 1 .. Len(fs) : J[i].figure = fs[p]
             /\ J[i].segment.source = "rollups" => backfilled
             /\ \A x \in Moments : InSegment(x, J[i].segment) => InSegment(x, WindowRaw(w))
  <2>1. PICK p \in 1 .. Len(fs), q \in 1 .. n : J[i].figure = fs[p] /\ J[i].segment = P[q]
    BY <1>2
  <2>2. /\ P[q].source = "rollups" => backfilled
        /\ \A x \in Moments : InSegment(x, P[q]) => InSegment(x, WindowRaw(w))
    BY <1>1
  <2> QED
    BY <2>1, <2>2
<1>4. ASSUME NEW i \in DOMAIN J, NEW j \in DOMAIN J, J[i].figure = J[j].figure, i # j,
             NEW x \in Moments, InSegment(x, J[i].segment), InSegment(x, J[j].segment)
      PROVE  FALSE
  <2>1. PICK p \in 1 .. Len(fs), q \in 1 .. n :
            i = (p - 1) * n + q /\ J[i].figure = fs[p] /\ J[i].segment = P[q]
    BY <1>2
  <2>2. PICK r \in 1 .. Len(fs), s \in 1 .. n :
            j = (r - 1) * n + s /\ J[j].figure = fs[r] /\ J[j].segment = P[s]
    BY <1>2
  <2>3. p = r
    BY <1>4, <2>1, <2>2
  <2>4. q = s
    BY <1>1, <1>4, <2>1, <2>2
  <2> QED
    BY <1>4, <2>1, <2>2, <2>3, <2>4
<1>5. ASSUME NEW p \in 1 .. Len(fs), NEW x \in Moments, InSegment(x, WindowRaw(w))
      PROVE  \E i \in DOMAIN J : J[i].figure = fs[p] /\ InSegment(x, J[i].segment)
  <2>1. PICK q \in 1 .. n : InSegment(x, P[q])
    BY <1>1, <1>5
  <2>2. /\ (p - 1) * n + q \in DOMAIN J
        /\ J[(p - 1) * n + q].figure = fs[p] /\ J[(p - 1) * n + q].segment = P[q]
    BY <1>2
  <2> QED
    BY <2>1, <2>2
<1>6. ASSUME NEW p \in 1 .. Len(fs), NEW r \in 1 .. Len(fs), NEW i \in DOMAIN J,
             NEW j \in DOMAIN J, p < r, J[i].figure = fs[p], J[j].figure = fs[r]
      PROVE  i < j
  <2>1. PICK p1 \in 1 .. Len(fs), q \in 1 .. n : i = (p1 - 1) * n + q /\ J[i].figure = fs[p1]
    BY <1>2
  <2>2. PICK r1 \in 1 .. Len(fs), s \in 1 .. n : j = (r1 - 1) * n + s /\ J[j].figure = fs[r1]
    BY <1>2
  <2>3. p1 = p /\ r1 = r
    BY <1>6, <2>1, <2>2
  <2>4. i = (p - 1) * n + q /\ j = (r - 1) * n + s /\ p \in Int /\ r \in Int
    BY <2>1, <2>2, <2>3
  <2>5. CASE n = 1
    BY <1>6, <2>4, <2>5
  <2>6. CASE n = 2
    BY <1>6, <2>4, <2>6
  <2>7. CASE n = 3
    BY <1>6, <2>4, <2>7
  <2> QED
    BY <1>1, <2>5, <2>6, <2>7
<1> QED
  BY <1>2, <1>3, <1>4, <1>5, <1>6

LEMMA FiguresAre ==
    /\ CoreFigures \in Seq(Figures) /\ Len(CoreFigures) = 8
    /\ CoreFigures[1] = "summary" /\ CoreFigures[2] = "trend" /\ CoreFigures[3] = "keys"
    /\ CoreFigures[4] = "keyTrends" /\ CoreFigures[5] = "apiKeys"
    /\ CoreFigures[6] = "apiKeyTrends" /\ CoreFigures[7] = "models"
    /\ CoreFigures[8] = "providers"
    /\ \A p, r \in 1 .. 8 : CoreFigures[p] = CoreFigures[r] => p = r
    /\ \A p \in 1 .. 8 : CoreFigures[p] # "previous" /\ CoreFigures[p] # "heatmap"
    /\ Figures = {CoreFigures[p] : p \in 1 .. 8} \cup {"previous", "heatmap"}
<1>1. /\ Len(CoreFigures) = 8 /\ DOMAIN CoreFigures = 1 .. 8
      /\ CoreFigures[1] = "summary" /\ CoreFigures[2] = "trend" /\ CoreFigures[3] = "keys"
      /\ CoreFigures[4] = "keyTrends" /\ CoreFigures[5] = "apiKeys"
      /\ CoreFigures[6] = "apiKeyTrends" /\ CoreFigures[7] = "models"
      /\ CoreFigures[8] = "providers"
  BY DEF CoreFigures
<1>2. \A p \in 1 .. 8 : p = 1 \/ p = 2 \/ p = 3 \/ p = 4 \/ p = 5 \/ p = 6 \/ p = 7 \/ p = 8
  OBVIOUS
<1>3. Figures = {CoreFigures[p] : p \in 1 .. 8} \cup {"previous", "heatmap"}
  BY <1>1 DEF Figures
<1>4. CoreFigures \in Seq(Figures)
  <2>1. CoreFigures = [p \in 1 .. 8 |-> CoreFigures[p]]
    BY DEF CoreFigures
  <2>2. CoreFigures \in [1 .. 8 -> Figures] /\ 8 \in Nat
    BY <1>3, <2>1
  <2> QED
    BY <2>2, SeqDef
<1>5. \A p, r \in 1 .. 8 : CoreFigures[p] = CoreFigures[r] => p = r
  BY <1>1, <1>2
<1> QED
  BY <1>1, <1>2, <1>3, <1>4, <1>5

\* The windows of a report.
LEMMA WindowsAre ==
    ASSUME NEW f \in Filters
    PROVE  IsWindow(f) /\ IsWindow(PreviousPeriod(f)) /\ IsWindow(HeatmapWindow(f))
<1>1. f \in Filter /\ HeatmapTicks \in Int
  BY AnalyticsReportAssumption
<1>2. f.start \in Int /\ f.end \in Int /\ f.anchor \in Int /\ f.bounded \in BOOLEAN
  BY <1>1, ReportDataAssumption DEF Filter, Ticks
<1>3. IsWindow(PreviousPeriod(f))
  BY <1>1, <1>2 DEF IsWindow, PreviousPeriod, Filter
<1>4. IsWindow(HeatmapWindow(f))
  BY <1>1, <1>2 DEF IsWindow, HeatmapWindow, Filter
<1> QED
  BY <1>2, <1>3, <1>4 DEF IsWindow

LEMMA WindowSegmentIs ==
    /\ \A p \in 1 .. 8 : WindowSegment(CoreFigures[p]) = WindowRaw(filter)
    /\ WindowSegment("previous") = WindowRaw(PreviousPeriod(filter))
    /\ WindowSegment("heatmap") = WindowRaw(HeatmapWindow(filter))
BY FiguresAre DEF WindowSegment, WindowOf, WindowRaw

\* Only the time of an event matters to a segment.
LEMMA MomentOf ==
    ASSUME NEW e, e.t \in Ticks
    PROVE  /\ [t |-> e.t] \in Moments
           /\ \A s : InSegment([t |-> e.t], s) <=> InSegment(e, s)
BY DEF Moments, InSegment

LEMMA EmptyRows == DOMAIN EmptyBag = {} /\ RowsOnce(EmptyBag)
BY DEF EmptyBag, SetToBag, RowsOnce

LEMMA InitReportInv == DataInit /\ ReportInit => ReportInv
<1> SUFFICES ASSUME DataInit, ReportInit PROVE ReportInv
  OBVIOUS
<1>1. StoreInv
  <2>1. arrivals \in Workloads /\ base = {} /\ rolled = {}
    BY DEF DataInit, ReportInit
  <2>2. \A a \in arrivals : a.t \in Ticks
    BY <2>1, ReportDataAssumption
  <2>3. PICK E \in {{}} \cup {{[id |-> 1, t |-> a.t, k |-> a.k]} : a \in arrivals} :
            events = E /\ backfilled = (E = {})
    BY DEF DataInit
  <2>4. \A e \in events : e.t \in Ticks
    BY <2>2, <2>3
  <2>5. backfilled => rolled = events
    BY <2>1, <2>3
  <2> QED
    BY <2>1, <2>4, <2>5 DEF StoreInv
<1>2. stage = "idle" /\ todo = <<>> /\ got = [figure \in Figures |-> EmptyBag]
  BY DEF ReportInit, NoReport
<1>3. ShapeInv
  BY <1>2 DEF ShapeInv
<1>4. DOMAIN todo = {}
  BY <1>2
<1>5. JobsInv
  BY <1>4 DEF JobsInv
<1>6. \A figure \in Figures : got[figure] = EmptyBag
  BY <1>2
<1>7. RowsInv
  BY <1>6, EmptyRows DEF RowsInv, ReportInit
<1> QED
  BY <1>1, <1>3, <1>5, <1>7 DEF ReportInv

\* A stage adds the statements of its figures over the plan of its window.
StageAdds(fs, w) ==
    /\ Len(fs) \in {1, 8}
    /\ \A p, r \in 1 .. Len(fs) : fs[p] = fs[r] => p = r
    /\ IsWindow(w) /\ todo' = Jobs(fs, Plan(w)) /\ backfilled' = backfilled
    /\ \A p \in 1 .. Len(fs) :
          /\ fs[p] \in StageFigures(stage)' /\ Expected(fs[p])'
          /\ WindowSegment(fs[p])' = WindowRaw(w)
    /\ \A d \in Dependent : \A p, r \in 1 .. Len(fs) :
          fs[p] = d[1] /\ fs[r] = d[2] => p < r
    /\ \A d \in Dependent : (\E p \in 1 .. Len(fs) : fs[p] = d[1]) =>
          got'[d[2]] = EmptyBag /\ \E p \in 1 .. Len(fs) : fs[p] = d[2]

StageReads(fs, w) ==
    /\ JobsInv' /\ todo' \in Seq(Job)
    /\ \A p \in 1 .. Len(fs), x \in Moments :
          InSegment(x, WindowRaw(w)) => StillRead(fs[p], x)'
    /\ \A figure \in Figures : \A x : StillRead(figure, x)' =>
          \E p \in 1 .. Len(fs) : figure = fs[p]

LEMMA StageJobsInv ==
    ASSUME NEW fs \in Seq(Figures), NEW w, StageAdds(fs, w)
    PROVE  StageReads(fs, w)
<1> USE DEF StageAdds
<1> DEFINE J == Jobs(fs, Plan(w))
<1>1. /\ J \in Seq(Job)
      /\ \A i \in DOMAIN J :
            /\ \E p \in 1 .. Len(fs) : J[i].figure = fs[p]
            /\ J[i].segment.source = "rollups" => backfilled
            /\ \A x \in Moments : InSegment(x, J[i].segment) => InSegment(x, WindowRaw(w))
      /\ \A i, j \in DOMAIN J : J[i].figure = J[j].figure /\ i # j =>
            \A x \in Moments : ~(InSegment(x, J[i].segment) /\ InSegment(x, J[j].segment))
      /\ \A p \in 1 .. Len(fs), x \in Moments : InSegment(x, WindowRaw(w)) =>
            \E i \in DOMAIN J : J[i].figure = fs[p] /\ InSegment(x, J[i].segment)
      /\ \A p, r \in 1 .. Len(fs), i, j \in DOMAIN J :
            p < r /\ J[i].figure = fs[p] /\ J[j].figure = fs[r] => i < j
  BY StageJobs
<1>2. todo' = J
  OBVIOUS
<1> HIDE DEF J
<1>3. \A p \in 1 .. Len(fs), x \in Moments : InSegment(x, WindowRaw(w)) => StillRead(fs[p], x)'
  BY <1>1, <1>2 DEF StillRead
<1>4. \A figure \in Figures : \A x : StillRead(figure, x)' => \E p \in 1 .. Len(fs) : figure = fs[p]
  BY <1>1, <1>2 DEF StillRead
<1>5. ASSUME NEW i \in DOMAIN todo'
      PROVE  /\ todo'[i].figure \in StageFigures(stage)' /\ Expected(todo[i].figure)'
             /\ todo'[i].segment.source = "rollups" => backfilled'
             /\ \A x \in Moments : InSegment(x, todo'[i].segment)
                                      => InSegment(x, WindowSegment(todo[i].figure)')
  <2>1. PICK p \in 1 .. Len(fs) : J[i].figure = fs[p]
    BY <1>1, <1>2
  <2>2. todo'[i].figure = fs[p]
    BY <1>2, <2>1
  <2>3. /\ fs[p] \in StageFigures(stage)' /\ Expected(fs[p])'
        /\ WindowSegment(fs[p])' = WindowRaw(w)
    OBVIOUS
  <2>4. Expected(todo[i].figure)'
    BY <2>2, <2>3 DEF Expected
  <2>5. WindowSegment(todo[i].figure)' = WindowRaw(w)
    BY <2>2, <2>3 DEF WindowSegment, WindowOf
  <2> QED
    BY <1>1, <1>2, <2>2, <2>3, <2>4, <2>5
<1>6. ASSUME NEW i \in DOMAIN todo', NEW j \in DOMAIN todo', todo'[i].figure = todo'[j].figure,
             i # j, NEW x \in Moments
      PROVE  ~(InSegment(x, todo'[i].segment) /\ InSegment(x, todo'[j].segment))
  BY <1>1, <1>2, <1>6
<1>7. ASSUME NEW d \in Dependent
      PROVE  /\ \A i, j \in DOMAIN todo' : todo'[i].figure = d[1] /\ todo'[j].figure = d[2] => i < j
             /\ (\E i \in DOMAIN todo' : todo'[i].figure = d[1]) => Untouched(d[2])'
  <2>1. ASSUME NEW i \in DOMAIN todo', NEW j \in DOMAIN todo', todo'[i].figure = d[1],
               todo'[j].figure = d[2]
        PROVE  i < j
    <3>1. PICK p \in 1 .. Len(fs) : J[i].figure = fs[p]
      BY <1>1, <1>2
    <3>2. PICK r \in 1 .. Len(fs) : J[j].figure = fs[r]
      BY <1>1, <1>2
    <3>3. p < r
      BY <1>2, <1>7, <2>1, <3>1, <3>2
    <3> QED
      BY <1>1, <1>2, <3>1, <3>2, <3>3
  <2>2. ASSUME NEW i \in DOMAIN todo', todo'[i].figure = d[1] PROVE Untouched(d[2])'
    <3>1. PICK p \in 1 .. Len(fs) : J[i].figure = fs[p]
      BY <1>1, <1>2
    <3>2. PICK r \in 1 .. Len(fs) : fs[r] = d[2]
      BY <1>2, <1>7, <2>2, <3>1
    <3>3. got'[d[2]] = EmptyBag
      BY <1>2, <1>7, <2>2, <3>1
    <3>4. WindowSegment(fs[r])' = WindowRaw(w)
      OBVIOUS
    <3>5. WindowSegment(d[2])' = WindowRaw(w)
      BY <3>2, <3>4 DEF WindowSegment, WindowOf
    <3>6. ASSUME NEW x \in Moments, InSegment(x, WindowRaw(w)) PROVE StillRead(d[2], x)'
      BY <1>3, <3>2, <3>6 DEF StillRead
    <3> QED
      BY <3>3, <3>5, <3>6 DEF Untouched
  <2> QED
    BY <2>1, <2>2
<1>8. JobsInv'
  BY <1>5, <1>6, <1>7 DEF JobsInv
<1> QED
  BY <1>1, <1>2, <1>3, <1>4, <1>8 DEF StageReads

\* What the writers do to the tables.
LEMMA WriterTables ==
    ASSUME StoreInv, DataNext, base' = base
    PROVE  StoreInv' /\ events \subseteq events' /\ (backfilled => backfilled')
<1>0. \A a \in arrivals : a.t \in Ticks
  BY ReportDataAssumption DEF StoreInv
<1>1. ASSUME NEW a \in arrivals, InsertEvent(a)
      PROVE  StoreInv' /\ events \subseteq events' /\ (backfilled => backfilled')
  <2> DEFINE e == [id |-> Cardinality(events) + 1, t |-> a.t, k |-> a.k]
  <2>1. /\ events' = events \cup {e} /\ rolled' = rolled \cup {e}
        /\ backfilled' = backfilled /\ arrivals' = arrivals
    BY <1>1 DEF InsertEvent
  <2>2. e.t \in Ticks
    BY <1>0
  <2> HIDE DEF e
  <2> QED
    BY <2>1, <2>2 DEF StoreInv
<1>2. CASE CompleteBackfill
  BY <1>2 DEF CompleteBackfill, StoreInv
<1>3. ASSUME NEW m \in Models, UpdatePricing(m)
      PROVE  StoreInv' /\ events \subseteq events' /\ (backfilled => backfilled')
  BY <1>3 DEF UpdatePricing, StoreInv
<1>4. ASSUME NEW m \in Models, DeletePricing(m)
      PROVE  StoreInv' /\ events \subseteq events' /\ (backfilled => backfilled')
  BY <1>4 DEF DeletePricing, StoreInv
<1> QED
  BY <1>1, <1>2, <1>3, <1>4 DEF DataNext, IntakeNext

LEMMA WriterReportStep ==
    ASSUME ReportInv, WriterNext
    PROVE  ReportInv'
<1>1. /\ filter' = filter /\ stage' = stage /\ todo' = todo /\ got' = got /\ base' = base
      /\ DataNext
  BY DEF WriterNext
<1>2. StoreInv' /\ events \subseteq events' /\ (backfilled => backfilled')
  BY <1>1, WriterTables DEF ReportInv
<1>3. ShapeInv'
  BY <1>1 DEF ReportInv, ShapeInv
<1>4. \A figure \in Figures :
          /\ Expected(figure)' = Expected(figure) /\ Started(figure)' = Started(figure)
          /\ \A x : /\ StillRead(figure, x)' = StillRead(figure, x)
                    /\ InWindow(figure, x)' = InWindow(figure, x)
  BY <1>1 DEF Expected, Started, StillRead, InWindow, Selects, WindowOf
<1>5. JobsInv'
  BY <1>1, <1>2 DEF ReportInv, JobsInv, Expected, WindowSegment, WindowOf, Untouched, StillRead
<1>6. RowsInv'
  BY <1>1, <1>2, <1>4 DEF ReportInv, RowsInv
<1> QED
  BY <1>2, <1>3, <1>5, <1>6 DEF ReportInv

\* A report begins.
LEMMA BeginReportStep ==
    ASSUME ReportInv, NEW f \in Filters, BuildAnalyticsCoreWithFilter(f), UNCHANGED dataVars
    PROVE  ReportInv'
<1>1. /\ filter' = f /\ stage' = "core" /\ todo' = Jobs(CoreFigures, Plan(f))
      /\ got' = [figure \in Figures |-> EmptyBag] /\ base' = events
      /\ events' = events /\ rolled' = rolled /\ backfilled' = backfilled
      /\ arrivals' = arrivals
  BY DEF BuildAnalyticsCoreWithFilter, NoReport, dataVars
<1>2. StoreInv'
  BY <1>1 DEF ReportInv, StoreInv
<1>3. IsWindow(f)
  BY WindowsAre
<1>4. \A p \in 1 .. 8 : /\ CoreFigures[p] \in StageFigures(stage)' /\ Expected(CoreFigures[p])'
                        /\ WindowSegment(CoreFigures[p])' = WindowRaw(f)
  BY <1>1, FiguresAre DEF StageFigures, Expected, WindowSegment, WindowOf, WindowRaw
<1>5. \A d \in Dependent : \A p, r \in 1 .. 8 :
          CoreFigures[p] = d[1] /\ CoreFigures[r] = d[2] => p < r
  <2>1. \A p, r \in 1 .. 8 : CoreFigures[p] = "keys" /\ CoreFigures[r] = "keyTrends" => p < r
    BY FiguresAre
  <2>2. \A p, r \in 1 .. 8 : CoreFigures[p] = "apiKeys" /\ CoreFigures[r] = "apiKeyTrends" => p < r
    BY FiguresAre
  <2> QED
    BY <2>1, <2>2 DEF Dependent
<1>6. \A d \in Dependent :
          got'[d[2]] = EmptyBag /\ \E p \in 1 .. 8 : CoreFigures[p] = d[2]
  <2>1. \A d \in Dependent : d[2] = CoreFigures[4] \/ d[2] = CoreFigures[6]
    BY FiguresAre DEF Dependent
  <2>2. CoreFigures[4] \in Figures /\ CoreFigures[6] \in Figures
    BY FiguresAre
  <2> QED
    BY <1>1, <2>1, <2>2
<1>7. /\ JobsInv' /\ todo' \in Seq(Job)
      /\ \A p \in 1 .. 8, x \in Moments :
            InSegment(x, WindowRaw(f)) => StillRead(CoreFigures[p], x)'
  <2>1. StageAdds(CoreFigures, f)
    BY <1>1, <1>3, <1>4, <1>5, <1>6, FiguresAre DEF StageAdds
  <2>2. StageReads(CoreFigures, f)
    BY <2>1, FiguresAre, StageJobsInv
  <2> QED
    BY <2>2, FiguresAre DEF StageReads
<1>8. ShapeInv'
  BY <1>1, <1>7 DEF ShapeInv
<1>9. ASSUME NEW figure \in Figures, NEW e \in base', Started(figure)', InWindow(figure, e)'
      PROVE  StillRead(figure, e)'
  <2>1. PICK p \in 1 .. 8 : figure = CoreFigures[p]
    <3>1. figure # "previous" /\ figure # "heatmap"
      BY <1>1, <1>9 DEF Started
    <3> QED
      BY <3>1, FiguresAre
  <2>2. e.t \in Ticks
    BY <1>1 DEF ReportInv, StoreInv
  <2>3. InSegment(e, WindowSegment(figure)')
    BY <1>9 DEF InWindow, WindowSegment
  <2>4. InSegment([t |-> e.t], WindowRaw(f)) /\ [t |-> e.t] \in Moments
    BY <1>4, <2>1, <2>2, <2>3, MomentOf
  <2>5. StillRead(CoreFigures[p], [t |-> e.t])'
    BY <1>7, <2>4
  <2> QED
    BY <2>1, <2>2, <2>5, MomentOf DEF StillRead
<1>10. RowsInv'
  BY <1>1, <1>9, EmptyRows DEF RowsInv
<1> QED
  BY <1>2, <1>7, <1>8, <1>10 DEF ReportInv

\* The rows when a stage begins: the figure it adds has none, the others have
\* all of theirs.
StageRows(g) ==
    /\ todo = <<>> /\ filter' = filter /\ got' = got /\ base' = base
    /\ events' = events /\ rolled' = rolled /\ prices' = prices
    /\ ~ Started(g)
    /\ \A figure \in Figures :
          /\ Started(figure)' <=> (Started(figure) \/ figure = g)
          /\ \A x : StillRead(figure, x)' => figure = g
    /\ Expected(g)' => \A x \in Moments :
          InSegment(x, WindowSegment(g)') => StillRead(g, x)'

LEMMA StageRowsStep ==
    ASSUME ReportInv, NEW g \in Figures, StageRows(g)
    PROVE  RowsInv'
<1> USE DEF StageRows
<1>1. \A figure \in Figures :
          /\ Expected(figure)' = Expected(figure)
          /\ \A x : InWindow(figure, x)' = InWindow(figure, x)
  BY DEF Expected, InWindow, Selects, WindowOf
<1>2. DOMAIN todo = {}
  OBVIOUS
<1>3. \A figure \in Figures : \A x : ~ StillRead(figure, x)
  BY <1>2 DEF StillRead
<1>4. RowsInv
  BY DEF ReportInv
<1> SUFFICES ASSUME NEW figure \in Figures
             PROVE  /\ RowsOnce(got'[figure])
                    /\ \A r \in DOMAIN got'[figure] :
                          /\ r.e \in events' /\ Started(figure)' /\ Expected(figure)'
                          /\ InWindow(figure, r.e)' /\ ~ StillRead(figure, r.e)'
                    /\ \A e \in base' :
                          Started(figure)' /\ Expected(figure)' /\ InWindow(figure, e)' =>
                              \/ StillRead(figure, e)'
                              \/ \E r \in DOMAIN got'[figure] : r.e = e
  BY DEF RowsInv
<1>5. RowsOnce(got'[figure])
  BY <1>4 DEF RowsInv
<1>6. ASSUME NEW r \in DOMAIN got'[figure]
      PROVE  /\ r.e \in events' /\ Started(figure)' /\ Expected(figure)'
             /\ InWindow(figure, r.e)' /\ ~ StillRead(figure, r.e)'
  <2>1. r.e \in events /\ Started(figure) /\ Expected(figure) /\ InWindow(figure, r.e)
    BY <1>4 DEF RowsInv
  <2>2. figure # g
    BY <2>1
  <2> QED
    BY <1>1, <2>1, <2>2
<1>7. ASSUME NEW e \in base', Started(figure)', Expected(figure)', InWindow(figure, e)'
      PROVE  StillRead(figure, e)' \/ \E r \in DOMAIN got'[figure] : r.e = e
  <2>1. CASE figure # g
    <3>1. Started(figure) /\ Expected(figure) /\ InWindow(figure, e) /\ e \in base
      BY <1>1, <1>7, <2>1
    <3> QED
      BY <1>3, <1>4, <3>1 DEF RowsInv
  <2>2. CASE figure = g
    <3>1. e.t \in Ticks
      BY DEF ReportInv, StoreInv
    <3>2. InSegment(e, WindowSegment(figure)')
      BY <1>7 DEF InWindow, WindowSegment
    <3>3. [t |-> e.t] \in Moments /\ InSegment([t |-> e.t], WindowSegment(g)')
      BY <2>2, <3>1, <3>2, MomentOf
    <3>4. StillRead(g, [t |-> e.t])'
      BY <1>7, <2>2, <3>3
    <3> QED
      BY <2>2, <3>1, <3>4, MomentOf DEF StillRead
  <2> QED
    BY <2>1, <2>2
<1> QED
  BY <1>5, <1>6, <1>7

LEMMA OneFigure ==
    ASSUME NEW g \in Figures
    PROVE  /\ <<g>> \in Seq(Figures) /\ Len(<<g>>) = 1 /\ <<g>>[1] = g
           /\ \A p \in 1 .. Len(<<g>>) : p = 1
OBVIOUS

\* The comparison begins.
LEMMA ComparisonStep ==
    ASSUME ReportInv, buildAnalyticsSummaryComparison, UNCHANGED dataVars
    PROVE  ReportInv'
<1> DEFINE g == "previous"
<1>0. g \in Figures
  BY FiguresAre
<1>1. /\ stage = "core" /\ stage' = "previous" /\ todo = <<>>
      /\ filter' = filter /\ got' = got /\ base' = base
      /\ events' = events /\ rolled' = rolled /\ backfilled' = backfilled
      /\ arrivals' = arrivals /\ prices' = prices
      /\ todo' = IF HasPreviousPeriod(filter) THEN Jobs(<<g>>, Plan(PreviousPeriod(filter)))
                                              ELSE <<>>
  BY DEF buildAnalyticsSummaryComparison, dataVars
<1>2. StoreInv'
  BY <1>1 DEF ReportInv, StoreInv
<1>3. filter \in Filters
  BY <1>1 DEF ReportInv, ShapeInv
<1>4. \A figure \in Figures : Started(figure)' <=> (Started(figure) \/ figure = g)
  BY <1>1 DEF Started
<1>5. ~ Started(g)
  BY <1>1 DEF Started
<1>6. /\ JobsInv' /\ todo' \in Seq(Job)
      /\ Expected(g)' => \A x \in Moments : InSegment(x, WindowSegment(g)') => StillRead(g, x)'
      /\ \A figure \in Figures : \A x : StillRead(figure, x)' => figure = g
  <2>1. CASE HasPreviousPeriod(filter)
    <3>1. PICK w : w = PreviousPeriod(filter)
      OBVIOUS
    <3>2. IsWindow(w) /\ todo' = Jobs(<<g>>, Plan(w))
      BY <1>1, <1>3, <2>1, <3>1, WindowsAre
    <3>3. WindowSegment(g)' = WindowRaw(w)
      BY <1>1, <3>1 DEF WindowSegment, WindowOf, WindowRaw
    <3>4. g \in StageFigures(stage)' /\ Expected(g)'
      BY <1>1, <2>1 DEF StageFigures, Expected
    <3>5. \A d \in Dependent : d[1] # g
      BY DEF Dependent
    <3>6. StageAdds(<<g>>, w)
      <4>1. \A p \in 1 .. Len(<<g>>) : /\ <<g>>[p] \in StageFigures(stage)' /\ Expected(<<g>>[p])'
                                       /\ WindowSegment(<<g>>[p])' = WindowRaw(w)
        BY <1>0, <3>3, <3>4, OneFigure
      <4> HIDE DEF g
      <4> QED
        BY <1>0, <1>1, <3>2, <3>5, <4>1, OneFigure DEF StageAdds
    <3>7. StageReads(<<g>>, w)
      BY <1>0, <3>6, OneFigure, StageJobsInv
    <3> HIDE DEF g
    <3> QED
      BY <1>0, <3>3, <3>7, OneFigure DEF StageReads
  <2>2. CASE ~ HasPreviousPeriod(filter)
    <3>1. todo' = <<>> /\ DOMAIN todo' = {}
      BY <1>1, <2>2
    <3>2. ~ Expected(g)'
      BY <1>1, <2>2 DEF Expected
    <3> QED
      BY <3>1, <3>2 DEF JobsInv, StillRead
  <2> QED
    BY <2>1, <2>2
<1>7. ShapeInv'
  BY <1>1, <1>3, <1>6 DEF ReportInv, ShapeInv
<1>8. RowsInv'
  <2>1. StageRows(g)
    BY <1>1, <1>4, <1>5, <1>6 DEF StageRows
  <2> QED
    BY <1>0, <2>1, StageRowsStep
<1> QED
  BY <1>2, <1>6, <1>7, <1>8 DEF ReportInv

\* The heatmap begins.
LEMMA HeatmapStep ==
    ASSUME ReportInv, BuildAnalyticsHeatmapWithFilter, UNCHANGED dataVars
    PROVE  ReportInv'
<1> DEFINE g == "heatmap"
<1>0. g \in Figures
  BY FiguresAre
<1>1. /\ stage = "previous" /\ stage' = "heatmap" /\ todo = <<>>
      /\ filter' = filter /\ got' = got /\ base' = base
      /\ events' = events /\ rolled' = rolled /\ backfilled' = backfilled
      /\ arrivals' = arrivals /\ prices' = prices
      /\ todo' = Jobs(<<g>>, Plan(HeatmapWindow(filter)))
  BY DEF BuildAnalyticsHeatmapWithFilter, dataVars
<1>2. StoreInv'
  BY <1>1 DEF ReportInv, StoreInv
<1>3. filter \in Filters
  BY <1>1 DEF ReportInv, ShapeInv
<1>4. \A figure \in Figures : Started(figure)' <=> (Started(figure) \/ figure = g)
  BY <1>1 DEF Started
<1>5. ~ Started(g)
  BY <1>1 DEF Started
<1>6. PICK w : w = HeatmapWindow(filter)
  OBVIOUS
<1>7. IsWindow(w) /\ todo' = Jobs(<<g>>, Plan(w))
  BY <1>1, <1>3, <1>6, WindowsAre
<1>8. WindowSegment(g)' = WindowRaw(w)
  BY <1>1, <1>6 DEF WindowSegment, WindowOf, WindowRaw
<1>9. g \in StageFigures(stage)' /\ Expected(g)'
  BY <1>1 DEF StageFigures, Expected
<1>10. \A d \in Dependent : d[1] # g
  BY DEF Dependent
<1>11. \A p \in 1 .. Len(<<g>>) : /\ <<g>>[p] \in StageFigures(stage)' /\ Expected(<<g>>[p])'
                                  /\ WindowSegment(<<g>>[p])' = WindowRaw(w)
  BY <1>0, <1>8, <1>9, OneFigure
<1> HIDE DEF g
<1>12. StageAdds(<<g>>, w)
  BY <1>0, <1>1, <1>7, <1>10, <1>11, OneFigure DEF StageAdds
<1>13. StageReads(<<g>>, w)
  BY <1>0, <1>12, OneFigure, StageJobsInv
<1>14. /\ JobsInv' /\ todo' \in Seq(Job)
       /\ \A x \in Moments : InSegment(x, WindowSegment(g)') => StillRead(g, x)'
       /\ \A figure \in Figures : \A x : StillRead(figure, x)' => figure = g
  BY <1>0, <1>8, <1>13, OneFigure DEF StageReads
<1>15. ShapeInv'
  BY <1>1, <1>3, <1>14 DEF ReportInv, ShapeInv
<1>16. RowsInv'
  <2>1. StageRows(g)
    BY <1>1, <1>4, <1>5, <1>14 DEF StageRows
  <2> QED
    BY <1>0, <2>1, StageRowsStep
<1> QED
  BY <1>2, <1>14, <1>15, <1>16 DEF ReportInv

\* The report is finished.
LEMMA RespondStep ==
    ASSUME ReportInv, Respond, UNCHANGED dataVars
    PROVE  ReportInv'
<1>1. /\ stage = "heatmap" /\ stage' = "done" /\ todo = <<>> /\ todo' = todo
      /\ filter' = filter /\ got' = got /\ base' = base
      /\ events' = events /\ rolled' = rolled /\ backfilled' = backfilled
      /\ arrivals' = arrivals
  BY DEF Respond, dataVars
<1>2. StoreInv' /\ ShapeInv'
  BY <1>1 DEF ReportInv, StoreInv, ShapeInv
<1>3. DOMAIN todo' = {}
  BY <1>1
<1>4. JobsInv'
  BY <1>3 DEF JobsInv
<1>5. \A figure \in Figures :
          /\ Expected(figure)' = Expected(figure) /\ Started(figure)' = Started(figure)
          /\ \A x : /\ StillRead(figure, x)' = StillRead(figure, x)
                    /\ InWindow(figure, x)' = InWindow(figure, x)
  BY <1>1 DEF Expected, Started, StillRead, InWindow, Selects, WindowOf
<1>6. RowsInv'
  BY <1>1, <1>5 DEF ReportInv, RowsInv
<1> QED
  BY <1>2, <1>4, <1>6 DEF ReportInv

\* The request ends.
LEMMA EndReportStep ==
    ASSUME ReportInv, EndReport, UNCHANGED dataVars
    PROVE  ReportInv'
<1>1. /\ stage' = "idle" /\ todo' = <<>> /\ got' = [figure \in Figures |-> EmptyBag]
      /\ base' = {} /\ events' = events /\ rolled' = rolled /\ backfilled' = backfilled
      /\ arrivals' = arrivals
  BY DEF EndReport, NoReport, dataVars
<1>2. StoreInv' /\ ShapeInv'
  BY <1>1 DEF ReportInv, StoreInv, ShapeInv
<1>3. DOMAIN todo' = {}
  BY <1>1
<1>4. JobsInv'
  BY <1>3 DEF JobsInv
<1>5. RowsInv'
  BY <1>1, EmptyRows DEF RowsInv
<1> QED
  BY <1>2, <1>4, <1>5 DEF ReportInv

\* Rows of other events, added to a figure's rows.
LEMMA RowsAdded ==
    ASSUME NEW B, RowsOnce(B), NEW X, \A r \in DOMAIN B, s \in X : r.e # s.e,
           \A r, s \in X : r.e = s.e => r = s
    PROVE  DOMAIN (B (+) SetToBag(X)) = DOMAIN B \cup X /\ RowsOnce(B (+) SetToBag(X))
<1> DEFINE C == B (+) SetToBag(X)
<1>1. DOMAIN C = DOMAIN B \cup X
  BY DEF (+), SetToBag
<1>2. \A r \in DOMAIN B : r \notin X
  OBVIOUS
<1>3. \A r \in DOMAIN C : C[r] = 1
  BY <1>1, <1>2 DEF (+), SetToBag, RowsOnce
<1> HIDE DEF C
<1>4. RowsOnce(C)
  BY <1>1, <1>3 DEF RowsOnce
<1> QED
  BY <1>1, <1>4 DEF C

\* A statement runs: what it takes from the statements to run.
LEMMA OneStatement ==
    ASSUME todo \in Seq(Job), todo # <<>>, todo' = Tail(todo)
    PROVE  /\ 1 \in DOMAIN todo /\ todo[1] = Head(todo) /\ todo[1].figure \in Figures
           /\ todo' \in Seq(Job)
           /\ \A i \in DOMAIN todo' : i + 1 \in DOMAIN todo /\ i + 1 # 1 /\ todo'[i] = todo[i + 1]
           /\ \A i, j \in DOMAIN todo' : i + 1 < j + 1 <=> i < j
           /\ \A i \in DOMAIN todo : i # 1 => \E j \in DOMAIN todo' : j + 1 = i
<1>1. Len(todo) \in Nat /\ DOMAIN todo = 1 .. Len(todo) /\ Len(todo) # 0
  OBVIOUS
<1>2. /\ todo' \in Seq(Job) /\ Len(todo') = Len(todo) - 1
      /\ \A i \in 1 .. Len(todo') : todo'[i] = todo[i + 1]
  BY HeadTailProperties
<1>3. DOMAIN todo' = 1 .. Len(todo) - 1
  BY <1>1, <1>2
<1>4. 1 \in DOMAIN todo /\ todo[1] = Head(todo)
  BY <1>1
<1>5. todo[1] \in Job
  BY <1>4
<1>6. \A i \in DOMAIN todo : i # 1 => \E j \in DOMAIN todo' : j + 1 = i
  <2> SUFFICES ASSUME NEW i \in DOMAIN todo, i # 1 PROVE \E j \in DOMAIN todo' : j + 1 = i
    OBVIOUS
  <2>1. i - 1 \in DOMAIN todo' /\ (i - 1) + 1 = i
    BY <1>1, <1>3
  <2> QED
    BY <2>1
<1> QED
  BY <1>1, <1>2, <1>3, <1>4, <1>5, <1>6 DEF Job

\* The statements after one has run: those of another figure are all there,
\* those of its own figure read none of the moments it reads.
LEMMA StillReadAfter ==
    ASSUME ReportInv, todo # <<>>, todo' = Tail(todo)
    PROVE  /\ \A figure, x : StillRead(figure, x)' => StillRead(figure, x)
           /\ \A figure, x : StillRead(figure, x) =>
                 \/ StillRead(figure, x)'
                 \/ figure = todo[1].figure /\ InSegment(x, todo[1].segment)
           /\ \A figure : \A x \in Moments :
                 figure = todo[1].figure /\ InSegment(x, todo[1].segment) => ~ StillRead(figure, x)'
<1>1. todo \in Seq(Job) /\ JobsInv
  BY DEF ReportInv, ShapeInv
<1>2. /\ 1 \in DOMAIN todo
      /\ \A i \in DOMAIN todo' : i + 1 \in DOMAIN todo /\ i + 1 # 1 /\ todo'[i] = todo[i + 1]
      /\ \A i \in DOMAIN todo : i # 1 => \E j \in DOMAIN todo' : j + 1 = i
  BY <1>1, OneStatement
<1>3. ASSUME NEW figure, NEW x, StillRead(figure, x)' PROVE StillRead(figure, x)
  BY <1>2, <1>3 DEF StillRead
<1>4. ASSUME NEW figure, NEW x, StillRead(figure, x)
      PROVE  \/ StillRead(figure, x)'
             \/ figure = todo[1].figure /\ InSegment(x, todo[1].segment)
  <2>1. PICK i \in DOMAIN todo : todo[i].figure = figure /\ InSegment(x, todo[i].segment)
    BY <1>4 DEF StillRead
  <2>2. CASE i = 1
    BY <2>1, <2>2
  <2>3. CASE i # 1
    <3>1. PICK j \in DOMAIN todo' : j + 1 = i
      BY <1>2, <2>3
    <3>2. todo'[j] = todo[i]
      BY <1>2, <3>1
    <3> QED
      BY <2>1, <3>2 DEF StillRead
  <2> QED
    BY <2>2, <2>3
<1>5. ASSUME NEW figure, NEW x \in Moments, figure = todo[1].figure,
             InSegment(x, todo[1].segment), StillRead(figure, x)'
      PROVE  FALSE
  <2>1. PICK i \in DOMAIN todo' : todo'[i].figure = figure /\ InSegment(x, todo'[i].segment)
    BY <1>5 DEF StillRead
  <2>2. /\ i + 1 \in DOMAIN todo /\ i + 1 # 1 /\ todo[i + 1].figure = todo[1].figure
        /\ InSegment(x, todo[i + 1].segment)
    BY <1>2, <1>5, <2>1
  <2> QED
    BY <1>1, <1>2, <1>5, <2>2 DEF JobsInv
<1> QED
  BY <1>3, <1>4, <1>5

LEMMA ReadSegmentJobs ==
    ASSUME ReportInv, ReadSegment, UNCHANGED dataVars
    PROVE  ShapeInv' /\ JobsInv'
<1>1. /\ todo # <<>> /\ todo' = Tail(todo) /\ filter' = filter /\ stage' = stage
      /\ backfilled' = backfilled
  BY DEF ReadSegment, dataVars
<1>2. got' = [got EXCEPT ![todo[1].figure] =
                 got[todo[1].figure] (+) Statement(todo[1].figure, todo[1].segment)]
  <2>1. todo[1] = Head(todo)
    BY <1>1, OneStatement DEF ReportInv, ShapeInv
  <2> QED
    BY <2>1 DEF ReadSegment
<1>3. /\ 1 \in DOMAIN todo /\ todo[1].figure \in Figures /\ todo' \in Seq(Job)
      /\ \A i \in DOMAIN todo' : i + 1 \in DOMAIN todo /\ i + 1 # 1 /\ todo'[i] = todo[i + 1]
      /\ \A i, j \in DOMAIN todo' : i + 1 < j + 1 <=> i < j
  BY <1>1, OneStatement DEF ReportInv, ShapeInv
<1>4. DOMAIN got = Figures /\ got' = [figure \in Figures |-> got'[figure]]
  BY <1>2 DEF ReportInv, ShapeInv
<1>5. ShapeInv'
  BY <1>1, <1>3, <1>4 DEF ReportInv, ShapeInv
<1>6. JobsInv
  BY DEF ReportInv
<1>7. \A figure : /\ Expected(figure)' = Expected(figure)
                  /\ WindowSegment(figure)' = WindowSegment(figure)
  BY <1>1 DEF Expected, WindowSegment, WindowOf
<1>8. ASSUME NEW i \in DOMAIN todo'
      PROVE  /\ todo'[i].figure \in StageFigures(stage)' /\ Expected(todo[i].figure)'
             /\ todo'[i].segment.source = "rollups" => backfilled'
             /\ \A x \in Moments : InSegment(x, todo'[i].segment)
                                      => InSegment(x, WindowSegment(todo[i].figure)')
  <2>1. PICK f : f = todo'[i].figure
    OBVIOUS
  <2>2. i + 1 \in DOMAIN todo /\ todo'[i] = todo[i + 1]
    BY <1>3
  <2>3. /\ f \in StageFigures(stage) /\ Expected(f)
        /\ todo[i + 1].segment.source = "rollups" => backfilled
        /\ \A x \in Moments : InSegment(x, todo[i + 1].segment) => InSegment(x, WindowSegment(f))
    BY <1>6, <2>1, <2>2 DEF JobsInv
  <2>4. f \in StageFigures(stage)'
    BY <1>1, <2>3
  <2>5. Expected(f)' /\ WindowSegment(f)' = WindowSegment(f)
    BY <1>7, <2>3
  <2>6. Expected(todo[i].figure)'
    BY <2>1, <2>5 DEF Expected
  <2>7. WindowSegment(todo[i].figure)' = WindowSegment(f)
    BY <2>1, <2>5 DEF WindowSegment, WindowOf
  <2> QED
    BY <1>1, <2>1, <2>2, <2>3, <2>4, <2>6, <2>7
<1>9. ASSUME NEW i \in DOMAIN todo', NEW j \in DOMAIN todo', todo'[i].figure = todo'[j].figure,
             i # j, NEW x \in Moments
      PROVE  ~(InSegment(x, todo'[i].segment) /\ InSegment(x, todo'[j].segment))
  <2>1. /\ i + 1 \in DOMAIN todo /\ todo'[i] = todo[i + 1]
        /\ j + 1 \in DOMAIN todo /\ todo'[j] = todo[j + 1]
    BY <1>3
  <2>2. i + 1 # j + 1
    <3>1. i \in Int /\ j \in Int
      BY <1>3
    <3> QED
      BY <1>9, <3>1
  <2> QED
    BY <1>6, <1>9, <2>1, <2>2 DEF JobsInv
<1>10. ASSUME NEW d \in Dependent
       PROVE  /\ \A i, j \in DOMAIN todo' : todo'[i].figure = d[1] /\ todo'[j].figure = d[2] => i < j
              /\ (\E i \in DOMAIN todo' : todo'[i].figure = d[1]) => Untouched(d[2])'
  <2>1. /\ \A i, j \in DOMAIN todo : todo[i].figure = d[1] /\ todo[j].figure = d[2] => i < j
        /\ (\E i \in DOMAIN todo : todo[i].figure = d[1]) => Untouched(d[2])
    BY <1>6 DEF JobsInv
  <2>2. \A i, j \in DOMAIN todo' : todo'[i].figure = d[1] /\ todo'[j].figure = d[2] => i < j
    BY <1>3, <2>1
  <2>3. ASSUME NEW i \in DOMAIN todo', todo'[i].figure = d[1] PROVE Untouched(d[2])'
    <3>1. i + 1 \in DOMAIN todo /\ todo[i + 1].figure = d[1]
      BY <1>3, <2>3
    <3>2. Untouched(d[2])
      BY <2>1, <3>1
    <3>3. todo[1].figure # d[2]
      <4>1. i \in Int /\ i >= 1
        BY <1>3
      <4>2. ~(i + 1 < 1)
        BY <4>1
      <4> QED
        BY <1>3, <2>1, <3>1, <4>2
    <3>4. d[2] \in Figures
      <4>1. d[2] = CoreFigures[4] \/ d[2] = CoreFigures[6]
        BY FiguresAre DEF Dependent
      <4> QED
        BY <4>1, FiguresAre
    <3>5. got'[d[2]] = EmptyBag
      BY <1>2, <1>4, <3>2, <3>3, <3>4 DEF Untouched
    <3>6. \A x \in Moments : InSegment(x, WindowSegment(d[2])) => StillRead(d[2], x)'
      BY <1>1, <3>2, <3>3, StillReadAfter DEF Untouched
    <3> QED
      BY <1>7, <3>5, <3>6 DEF Untouched
  <2> QED
    BY <2>2, <2>3
<1>11. JobsInv'
  BY <1>8, <1>9, <1>10 DEF JobsInv
<1> QED
  BY <1>5, <1>11

\* The rows one statement adds.
NewRows(figure, seg) ==
    {Row(e, seg) : e \in {x \in events : InSegment(x, seg) /\ Selects(figure, x, filter)}}

LEMMA StatementIs ==
    ASSUME ReportInv, todo # <<>>
    PROVE  Statement(todo[1].figure, todo[1].segment)
               = SetToBag(NewRows(todo[1].figure, todo[1].segment))
<1>1. 1 \in DOMAIN todo
  BY DEF ReportInv, ShapeInv
<1>2. todo[1].segment.source = "rollups" => backfilled
  BY <1>1 DEF ReportInv, JobsInv
<1>3. Table(todo[1].segment) = events
  BY <1>2 DEF ReportInv, StoreInv, Table
<1> QED
  BY <1>3 DEF Statement, NewRows

LEMMA NewRowsAre ==
    ASSUME ReportInv, todo # <<>>, NEW X, X = NewRows(todo[1].figure, todo[1].segment)
    PROVE  /\ \A r, s \in X : r.e = s.e => r = s
           /\ \A r \in X : /\ r.e \in events /\ InSegment(r.e, todo[1].segment)
                           /\ Selects(todo[1].figure, r.e, filter)
           /\ \A e \in events :
                 InSegment(e, todo[1].segment) /\ Selects(todo[1].figure, e, filter) =>
                     \E r \in X : r.e = e
<1> DEFINE R(e) == Row(e, todo[1].segment)
           T == {x \in events : InSegment(x, todo[1].segment)
                                   /\ Selects(todo[1].figure, x, filter)}
<1>1. \A e : R(e).e = e
  BY DEF Row
<1>2. X = {R(e) : e \in T}
  BY DEF NewRows
<1> HIDE DEF R
<1> QED
  BY <1>1, <1>2

LEMMA ReadSegmentRows ==
    ASSUME ReportInv, ReadSegment, UNCHANGED dataVars
    PROVE  RowsInv'
<1>1. /\ todo # <<>> /\ todo' = Tail(todo) /\ filter' = filter /\ stage' = stage
      /\ base' = base /\ events' = events
  BY DEF ReadSegment, dataVars
<1>2. 1 \in DOMAIN todo /\ todo[1] = Head(todo) /\ todo[1].figure \in Figures
  BY <1>1, OneStatement DEF ReportInv, ShapeInv
<1>3. PICK f, seg, X : f = todo[1].figure /\ seg = todo[1].segment /\ X = NewRows(f, seg)
  OBVIOUS
<1>4. got' = [got EXCEPT ![f] = got[f] (+) SetToBag(X)]
  <2>1. got' = [got EXCEPT ![f] = got[f] (+) Statement(f, seg)]
    BY <1>2, <1>3 DEF ReadSegment
  <2>2. Statement(f, seg) = SetToBag(X)
    BY <1>1, <1>3, StatementIs
  <2> QED
    BY <2>1, <2>2
<1>5. f \in Figures /\ DOMAIN got = Figures
  BY <1>2, <1>3 DEF ReportInv, ShapeInv
<1>6. got'[f] = got[f] (+) SetToBag(X) /\ \A g \in Figures : g # f => got'[g] = got[g]
  BY <1>4, <1>5
<1>7. /\ f \in StageFigures(stage) /\ Expected(f)
      /\ \A x \in Moments : InSegment(x, seg) => InSegment(x, WindowSegment(f))
      /\ \A d \in Dependent : f = d[1] => Untouched(d[2])
  BY <1>2, <1>3 DEF ReportInv, JobsInv
<1>8. RowsInv /\ \A e \in events : e.t \in Ticks
  BY DEF ReportInv, StoreInv
<1>9. base \subseteq events
  BY DEF ReportInv, StoreInv
<1>10. /\ \A r, s \in X : r.e = s.e => r = s
       /\ \A r \in X : r.e \in events /\ InSegment(r.e, seg) /\ Selects(f, r.e, filter)
       /\ \A e \in events : InSegment(e, seg) /\ Selects(f, e, filter) => \E r \in X : r.e = e
  BY <1>1, <1>3, NewRowsAre
<1>11. /\ \A figure, x : StillRead(figure, x)' => StillRead(figure, x)
       /\ \A figure, x : StillRead(figure, x) =>
             StillRead(figure, x)' \/ (figure = f /\ InSegment(x, seg))
       /\ \A x \in Moments : InSegment(x, seg) => ~ StillRead(f, x)'
  <2>1. /\ \A figure, x : StillRead(figure, x) =>
              \/ StillRead(figure, x)'
              \/ figure = todo[1].figure /\ InSegment(x, todo[1].segment)
        /\ \A figure : \A x \in Moments :
              figure = todo[1].figure /\ InSegment(x, todo[1].segment) => ~ StillRead(figure, x)'
    BY <1>1, StillReadAfter
  <2>2. \A figure, x : StillRead(figure, x)' => StillRead(figure, x)
    BY <1>1, StillReadAfter
  <2>3. ASSUME NEW x \in Moments, InSegment(x, seg) PROVE ~ StillRead(f, x)'
    BY <1>3, <2>1, <2>3
  <2>4. \A figure, x : StillRead(figure, x) =>
            StillRead(figure, x)' \/ (figure = f /\ InSegment(x, seg))
    BY <1>3, <2>1
  <2> QED
    BY <2>2, <2>3, <2>4
<1>12. \A figure : /\ Expected(figure)' = Expected(figure) /\ Started(figure)' = Started(figure)
                   /\ WindowSegment(figure)' = WindowSegment(figure)
  BY <1>1 DEF Expected, Started, WindowSegment, WindowOf
<1>13. \A figure, x : InWindow(figure, x) <=>
                          InSegment(x, WindowSegment(figure)) /\ Selects(figure, x, filter)
  BY DEF InWindow, WindowSegment
<1>14. \A figure \in Figures : <<f, figure>> \notin Dependent =>
          \A x : InWindow(figure, x)' = InWindow(figure, x)
  <2> SUFFICES ASSUME NEW figure \in Figures, <<f, figure>> \notin Dependent, NEW x
               PROVE  InWindow(figure, x)' = InWindow(figure, x)
    OBVIOUS
  <2>1. "keys" \in Figures /\ "apiKeys" \in Figures
    <3>1. CoreFigures[3] \in Figures /\ CoreFigures[5] \in Figures
      BY FiguresAre
    <3> QED
      BY <3>1, FiguresAre
  <2>2. figure = "keyTrends" => got'["keys"] = got["keys"]
    BY <1>6, <2>1 DEF Dependent
  <2>3. figure = "apiKeyTrends" => got'["apiKeys"] = got["apiKeys"]
    BY <1>6, <2>1 DEF Dependent
  <2>4. Selects(figure, x, filter)' = Selects(figure, x, filter)
    BY <1>1, <2>2, <2>3 DEF Selects
  <2> QED
    BY <1>1, <2>4 DEF InWindow, WindowOf
<1>15. Started(f)
  <2>1. f # "previous" /\ f # "heatmap" => stage # "idle"
    BY <1>7 DEF StageFigures
  <2>2. f = "previous" => stage = "previous"
    BY <1>7, FiguresAre DEF StageFigures
  <2>3. f = "heatmap" => stage = "heatmap"
    BY <1>7, FiguresAre DEF StageFigures
  <2> QED
    BY <2>1, <2>2, <2>3 DEF Started
<1>16. \A d \in Dependent : d[1] # d[2]
  BY DEF Dependent
<1> DEFINE Good(figure) ==
              /\ RowsOnce(got[figure])
              /\ \A r \in DOMAIN got[figure] :
                    /\ r.e \in events /\ Started(figure) /\ Expected(figure)
                    /\ InWindow(figure, r.e) /\ ~ StillRead(figure, r.e)
              /\ \A e \in base :
                    Started(figure) /\ Expected(figure) /\ InWindow(figure, e) =>
                        \/ StillRead(figure, e)
                        \/ \E r \in DOMAIN got[figure] : r.e = e
<1>17. \A figure \in Figures : Good(figure)
  BY <1>8 DEF RowsInv
<1> SUFFICES ASSUME NEW figure \in Figures PROVE Good(figure)'
  BY DEF RowsInv
<1>18. CASE <<f, figure>> \in Dependent
  <2>1. f # figure /\ Untouched(figure)
    BY <1>7, <1>16, <1>18
  <2>2. got'[figure] = EmptyBag
    BY <1>6, <2>1 DEF Untouched
  <2>3. ASSUME NEW e \in base', InWindow(figure, e)' PROVE StillRead(figure, e)'
    <3>1. InSegment(e, WindowSegment(figure)) /\ e.t \in Ticks
      <4>1. InSegment(e, WindowSegment(figure)')
        BY <2>3 DEF InWindow, WindowSegment
      <4> QED
        BY <1>1, <1>8, <1>9, <1>12, <4>1
    <3>2. InSegment([t |-> e.t], WindowSegment(figure)) /\ [t |-> e.t] \in Moments
      BY <3>1, MomentOf
    <3>3. StillRead(figure, [t |-> e.t])
      BY <2>1, <3>2 DEF Untouched
    <3>4. StillRead(figure, [t |-> e.t])'
      BY <1>11, <2>1, <3>3
    <3> QED
      BY <3>1, <3>4, MomentOf DEF StillRead
  <2> QED
    BY <2>2, <2>3, EmptyRows
<1>19. CASE figure # f /\ <<f, figure>> \notin Dependent
  <2>1. got'[figure] = got[figure]
    BY <1>6, <1>19
  <2>2. \A x : /\ InWindow(figure, x)' = InWindow(figure, x)
               /\ StillRead(figure, x)' <=> StillRead(figure, x)
    BY <1>11, <1>14, <1>19
  <2> QED
    BY <1>1, <1>12, <1>17, <2>1, <2>2
<1>20. CASE figure = f
  <2>1. \A x : InWindow(f, x)' = InWindow(f, x)
    BY <1>5, <1>14, <1>16
  <2>2. \A r \in DOMAIN got[f], s \in X : r.e # s.e
    <3> SUFFICES ASSUME NEW r \in DOMAIN got[f], NEW s \in X, r.e = s.e PROVE FALSE
      OBVIOUS
    <3>1. ~ StillRead(f, r.e)
      BY <1>5, <1>17
    <3>2. InSegment(r.e, seg)
      BY <1>10
    <3> QED
      BY <1>2, <1>3, <3>1, <3>2 DEF StillRead
  <2>3. DOMAIN got'[f] = DOMAIN got[f] \cup X /\ RowsOnce(got'[f])
    <3>1. RowsOnce(got[f])
      BY <1>5, <1>17
    <3>2. PICK B : B = got[f]
      OBVIOUS
    <3>3. /\ RowsOnce(B) /\ \A r \in DOMAIN B, s \in X : r.e # s.e
          /\ \A r, s \in X : r.e = s.e => r = s
      BY <1>10, <2>2, <3>1, <3>2
    <3>4. DOMAIN (B (+) SetToBag(X)) = DOMAIN B \cup X /\ RowsOnce(B (+) SetToBag(X))
      BY <3>3, RowsAdded
    <3>5. got'[f] = B (+) SetToBag(X)
      BY <1>6, <3>2
    <3> QED
      BY <3>2, <3>4, <3>5
  <2>4. ASSUME NEW r \in X
        PROVE  r.e \in events /\ InWindow(f, r.e) /\ ~ StillRead(f, r.e)'
    <3>1. r.e \in events /\ InSegment(r.e, seg) /\ Selects(f, r.e, filter) /\ r.e.t \in Ticks
      BY <1>8, <1>10
    <3>2. PICK x : x = [t |-> r.e.t]
      OBVIOUS
    <3>3. x \in Moments /\ InSegment(x, seg) /\ \A s : InSegment(x, s) <=> InSegment(r.e, s)
      BY <3>1, <3>2, MomentOf
    <3>4. InSegment(r.e, WindowSegment(f))
      BY <1>7, <3>3
    <3>5. ~ StillRead(f, x)'
      BY <1>11, <3>3
    <3>6. ~ StillRead(f, r.e)'
      BY <3>3, <3>5 DEF StillRead
    <3> QED
      BY <1>13, <3>1, <3>4, <3>6
  <2>5. ASSUME NEW r \in DOMAIN got'[f]
        PROVE  r.e \in events' /\ Started(f)' /\ Expected(f)' /\ InWindow(f, r.e)'
                  /\ ~ StillRead(f, r.e)'
    <3>1. CASE r \in X
      BY <1>1, <1>7, <1>12, <1>15, <2>1, <2>4, <3>1
    <3>2. CASE r \in DOMAIN got[f]
      <4>1. r.e \in events /\ InWindow(f, r.e) /\ ~ StillRead(f, r.e)
        BY <1>5, <1>17, <3>2
      <4> QED
        BY <1>1, <1>7, <1>11, <1>12, <1>15, <2>1, <4>1
    <3> QED
      BY <2>3, <3>1, <3>2
  <2>6. ASSUME NEW e \in base', InWindow(f, e)'
        PROVE  StillRead(f, e)' \/ \E r \in DOMAIN got'[f] : r.e = e
    <3>1. e \in base /\ e \in events /\ InWindow(f, e) /\ Selects(f, e, filter)
      BY <1>1, <1>9, <1>13, <2>1, <2>6
    <3>2. StillRead(f, e) \/ \E r \in DOMAIN got[f] : r.e = e
      BY <1>5, <1>7, <1>15, <1>17, <3>1
    <3>3. CASE \E r \in DOMAIN got[f] : r.e = e
      BY <2>3, <3>3
    <3>4. CASE StillRead(f, e)
      <4>1. StillRead(f, e)' \/ InSegment(e, seg)
        BY <1>11, <3>4
      <4>2. CASE InSegment(e, seg)
        BY <1>10, <2>3, <3>1, <4>2
      <4> QED
        BY <4>1, <4>2
    <3> QED
      BY <3>2, <3>3, <3>4
  <2>7. Good(f)'
    BY <2>3, <2>5, <2>6
  <2> QED
    BY <1>20, <2>7
<1> QED
  BY <1>18, <1>19, <1>20

LEMMA ReadSegmentStep ==
    ASSUME ReportInv, ReadSegment, UNCHANGED dataVars
    PROVE  ReportInv'
<1>1. StoreInv'
  BY DEF ReportInv, StoreInv, ReadSegment, dataVars
<1> QED
  BY <1>1, ReadSegmentJobs, ReadSegmentRows DEF ReportInv

LEMMA NextReportInv == ReportInv /\ [AnalyticsNext]_<<dataVars, reportVars>> => ReportInv'
<1> SUFFICES ASSUME ReportInv, [AnalyticsNext]_<<dataVars, reportVars>> PROVE ReportInv'
  OBVIOUS
<1>1. CASE UNCHANGED <<dataVars, reportVars>>
  <2>1. /\ filter' = filter /\ stage' = stage /\ todo' = todo /\ got' = got /\ base' = base
        /\ events' = events /\ rolled' = rolled /\ backfilled' = backfilled
        /\ arrivals' = arrivals
    BY <1>1 DEF dataVars, reportVars
  <2>2. \A figure \in Figures :
            /\ Expected(figure)' = Expected(figure) /\ Started(figure)' = Started(figure)
            /\ \A x : /\ StillRead(figure, x)' = StillRead(figure, x)
                      /\ InWindow(figure, x)' = InWindow(figure, x)
    BY <2>1 DEF Expected, Started, StillRead, InWindow, Selects, WindowOf
  <2>3. StoreInv' /\ ShapeInv'
    BY <2>1 DEF ReportInv, StoreInv, ShapeInv
  <2>4. JobsInv'
    BY <2>1 DEF ReportInv, JobsInv, Expected, WindowSegment, WindowOf, Untouched, StillRead
  <2>5. RowsInv'
    BY <2>1, <2>2 DEF ReportInv, RowsInv
  <2> QED
    BY <2>3, <2>4, <2>5 DEF ReportInv
<1>2. CASE ReportNext
  BY <1>2, BeginReportStep, ReadSegmentStep, ComparisonStep, HeatmapStep, RespondStep,
     EndReportStep DEF ReportNext
<1>3. CASE WriterNext
  BY <1>3, WriterReportStep
<1> QED
  BY <1>1, <1>2, <1>3 DEF AnalyticsNext

LEMMA SpecReportInv == AnalyticsSpec => []ReportInv
<1>1. AnalyticsInit => ReportInv
  BY InitReportInv DEF AnalyticsInit
<1> QED
  BY <1>1, NextReportInv, PTL DEF AnalyticsSpec

LEMMA FinishedReport == ReportInv => ReportExactlyOnce
<1> SUFFICES ASSUME ReportInv, stage = "done", NEW figure \in Figures, NEW e \in events
             PROVE  IF Expected(figure) /\ InWindow(figure, e)
                    THEN CountedOnce(figure, e) \/ (e \notin base /\ NotCounted(figure, e))
                    ELSE NotCounted(figure, e)
  BY DEF ReportExactlyOnce
<1>1. todo = <<>> /\ DOMAIN todo = {}
  BY DEF ReportInv, ShapeInv
<1>2. ~ StillRead(figure, e) /\ Started(figure)
  BY <1>1 DEF StillRead, Started
<1>3. /\ RowsOnce(got[figure])
      /\ \A r \in DOMAIN got[figure] : Expected(figure) /\ InWindow(figure, r.e)
      /\ e \in base /\ Expected(figure) /\ InWindow(figure, e) =>
            \E r \in DOMAIN got[figure] : r.e = e
  BY <1>2 DEF ReportInv, RowsInv
<1>4. RowsWith(figure, e) = {r \in DOMAIN got[figure] : r.e = e}
  BY DEF RowsWith, Rows, BagToSet
<1>5. CASE \E r \in DOMAIN got[figure] : r.e = e
  <2>1. PICK r \in DOMAIN got[figure] : r.e = e
    BY <1>5
  <2>2. RowsWith(figure, e) = {r} /\ got[figure][r] = 1
    BY <1>3, <1>4, <2>1 DEF RowsOnce
  <2>3. CountedOnce(figure, e)
    BY <2>1, <2>2 DEF CountedOnce, Rows, BagToSet
  <2> QED
    BY <1>3, <2>1, <2>3
<1>6. CASE ~ \E r \in DOMAIN got[figure] : r.e = e
  <2>1. NotCounted(figure, e)
    BY <1>4, <1>6 DEF NotCounted
  <2> QED
    BY <1>3, <1>6, <2>1
<1> QED
  BY <1>5, <1>6

\* Every figure of a finished analytics report counts each event of its window
\* that was stored at the start exactly once, a later one at most once and no
\* other, for every window, hour length and offset, whatever is stored, priced or
\* backfilled between two statements (BuildAnalyticsSummaryWithFilter).
THEOREM SpecReportExactlyOnce == AnalyticsSpec => []ReportExactlyOnce
BY SpecReportInv, FinishedReport, PTL

-----------------------------------------------------------------------------
(* The analytics summary when nothing was stored while it was built.       *)

\* What a row shows of its event, apart from the time within the hour.
Shown(r) == [e |-> r.e, hour |-> HourStart(r.at), priced |-> r.priced]

\* A finished report that no commit disturbed has, for every figure, one row for
\* each event the raw events alone would show it, in the same hour and with the
\* same price: what the sums and the hourly buckets are made of.
SameRows ==
    stage = "done" /\ writes = 0 =>
        \A figure \in Figures : Expected(figure) =>
            {Shown(r) : r \in Rows(got[figure])}
                = {Shown(r) : r \in Rows(RawStatement(figure, WindowOf(figure)))}

\* Every row has its event's time or the start of its hour; without commits the
\* events and the prices are those of the start.
FlagsInv ==
    /\ writes \in Nat
    /\ \A figure \in Figures : \A r \in DOMAIN got[figure] :
          r.at = r.e.t \/ r.at = HourStart(r.e.t)
    /\ writes = 0 /\ stage # "idle" =>
          /\ base = events
          /\ \A figure \in Figures : \A r \in DOMAIN got[figure] :
                r.priced = (r.e.k.model \in prices)

LEMMA InitFlagsInv == AnalyticsInit => FlagsInv
<1> SUFFICES ASSUME AnalyticsInit PROVE FlagsInv
  OBVIOUS
<1>1. /\ writes = 0 /\ stage = "idle"
      /\ \A figure \in Figures : got[figure] = EmptyBag
  BY DEF AnalyticsInit, ReportInit, NoReport
<1> QED
  BY <1>1, EmptyRows DEF FlagsInv

LEMMA ReadSegmentFlags ==
    ASSUME ReportInv, FlagsInv, ReadSegment, UNCHANGED dataVars
    PROVE  FlagsInv'
<1>1. /\ todo # <<>> /\ todo' = Tail(todo) /\ stage' = stage /\ writes' = writes
      /\ base' = base /\ events' = events /\ prices' = prices
  BY DEF ReadSegment, dataVars
<1>2. todo[1] = Head(todo) /\ todo[1].figure \in Figures
  BY <1>1, OneStatement DEF ReportInv, ShapeInv
<1>3. PICK f, seg, X : f = todo[1].figure /\ seg = todo[1].segment /\ X = NewRows(f, seg)
  OBVIOUS
<1>4. got' = [got EXCEPT ![f] = got[f] (+) SetToBag(X)]
  <2>1. got' = [got EXCEPT ![f] = got[f] (+) Statement(f, seg)]
    BY <1>2, <1>3 DEF ReadSegment
  <2>2. Statement(f, seg) = SetToBag(X)
    BY <1>1, <1>3, StatementIs
  <2> QED
    BY <2>1, <2>2
<1>5. f \in Figures /\ DOMAIN got = Figures
  BY <1>2, <1>3 DEF ReportInv, ShapeInv
<1>6. DOMAIN got'[f] = DOMAIN got[f] \cup X /\ \A g \in Figures : g # f => got'[g] = got[g]
  BY <1>4, <1>5 DEF (+), SetToBag
<1>7. \A r \in X : /\ r.at = r.e.t \/ r.at = HourStart(r.e.t)
                   /\ r.priced = (r.e.k.model \in prices)
  BY <1>3 DEF NewRows, Row
<1>8. \A figure \in Figures : \A r \in DOMAIN got'[figure] :
          r \in DOMAIN got[figure] \/ r \in X
  BY <1>5, <1>6
<1> QED
  BY <1>1, <1>7, <1>8 DEF FlagsInv

LEMMA NextFlagsInv ==
    ReportInv /\ FlagsInv /\ [AnalyticsNext]_<<dataVars, reportVars>> => FlagsInv'
<1> SUFFICES ASSUME ReportInv, FlagsInv, [AnalyticsNext]_<<dataVars, reportVars>>
             PROVE  FlagsInv'
  OBVIOUS
<1>1. CASE UNCHANGED <<dataVars, reportVars>>
  BY <1>1 DEF dataVars, reportVars, FlagsInv
<1>2. ASSUME NEW f \in Filters, BuildAnalyticsCoreWithFilter(f), UNCHANGED dataVars
      PROVE  FlagsInv'
  <2>1. \A figure \in Figures : got'[figure] = EmptyBag
    BY <1>2 DEF BuildAnalyticsCoreWithFilter, NoReport
  <2>2. writes' = 0 /\ base' = events'
    BY <1>2 DEF BuildAnalyticsCoreWithFilter, dataVars
  <2> QED
    BY <2>1, <2>2, EmptyRows DEF FlagsInv
<1>3. CASE ReadSegment /\ UNCHANGED dataVars
  BY <1>3, ReadSegmentFlags
<1>4. CASE /\ UNCHANGED dataVars
           /\ \/ buildAnalyticsSummaryComparison \/ BuildAnalyticsHeatmapWithFilter \/ Respond
  <2>1. /\ stage # "idle" /\ got' = got /\ base' = base /\ writes' = writes
        /\ events' = events /\ prices' = prices
    BY <1>4 DEF buildAnalyticsSummaryComparison, BuildAnalyticsHeatmapWithFilter, Respond,
                dataVars
  <2> QED
    BY <2>1 DEF FlagsInv
<1>5. CASE EndReport /\ UNCHANGED dataVars
  <2>1. \A figure \in Figures : got'[figure] = EmptyBag
    BY <1>5 DEF EndReport, NoReport
  <2>2. writes' = 0 /\ stage' = "idle"
    BY <1>5 DEF EndReport
  <2> QED
    BY <2>1, <2>2, EmptyRows DEF FlagsInv
<1>6. CASE WriterNext
  <2>1. /\ got' = got /\ stage' = stage
        /\ writes' = IF stage = "idle" THEN 0 ELSE writes + 1
    BY <1>6 DEF WriterNext
  <2>2. writes' \in Nat /\ (stage' # "idle" => writes' # 0)
    BY <2>1 DEF FlagsInv
  <2> QED
    BY <2>1, <2>2 DEF FlagsInv
<1> QED
  BY <1>1, <1>2, <1>3, <1>4, <1>5, <1>6 DEF AnalyticsNext, ReportNext

LEMMA SpecFlagsInv == AnalyticsSpec => [](ReportInv /\ FlagsInv)
<1>1. AnalyticsInit => ReportInv
  BY InitReportInv DEF AnalyticsInit
<1> QED
  BY <1>1, InitFlagsInv, NextReportInv, NextFlagsInv, PTL DEF AnalyticsSpec

LEMMA HourOfHour ==
    ASSUME NEW t \in Int
    PROVE  HourStart(HourStart(t)) = HourStart(t)
<1>1. PICK h : h = HourStart(t)
  OBVIOUS
<1>2. h \in Int /\ IsHour(h)
  BY <1>1, HourFacts DEF IsHour
<1>3. h <= HourStart(h)
  BY <1>2, HourOrder
<1>4. HourStart(h) \in Int /\ HourStart(h) <= h
  BY <1>2, HourFacts
<1> QED
  BY <1>1, <1>2, <1>3, <1>4

LEMMA RawRows ==
    ASSUME NEW figure
    PROVE  Rows(RawStatement(figure, WindowOf(figure)))
               = {[e |-> e, at |-> e.t, priced |-> e.k.model \in prices] :
                     e \in {x \in events : InWindow(figure, x)}}
<1>1. \A e : Row(e, Raw(0, 0)) = [e |-> e, at |-> e.t, priced |-> e.k.model \in prices]
  BY DEF Row, Raw
<1>2. \A x : InWindow(figure, x) <=>
                 /\ InSegment(x, analyticsCoreRawWindowPlan(WindowOf(figure))[1])
                 /\ Selects(figure, x, filter)
  BY DEF InWindow
<1> QED
  BY <1>1, <1>2 DEF RawStatement, Rows, BagToSet, SetToBag

LEMMA UndisturbedRows == ReportInv /\ FlagsInv => SameRows
<1> SUFFICES ASSUME ReportInv, FlagsInv, stage = "done", writes = 0,
                    NEW figure \in Figures, Expected(figure)
             PROVE  {Shown(r) : r \in Rows(got[figure])}
                        = {Shown(r) : r \in Rows(RawStatement(figure, WindowOf(figure)))}
  BY DEF SameRows
<1> DEFINE RowOf(e) == [e |-> e, at |-> e.t, priced |-> e.k.model \in prices]
           W == {x \in events : InWindow(figure, x)}
           Seen(e) == [e |-> e, hour |-> HourStart(e.t), priced |-> e.k.model \in prices]
<1>1. Rows(RawStatement(figure, WindowOf(figure))) = {RowOf(e) : e \in W}
  BY RawRows
<1>2. \A e : Shown(RowOf(e)) = Seen(e)
  BY DEF Shown
<1>3. todo = <<>> /\ DOMAIN todo = {}
  BY DEF ReportInv, ShapeInv
<1>4. Started(figure) /\ \A x : ~ StillRead(figure, x)
  BY <1>3 DEF StillRead, Started
<1>5. base = events /\ \A e \in events : e.t \in Int
  BY ReportDataAssumption DEF FlagsInv, ReportInv, StoreInv, Ticks
<1>6. \A r \in DOMAIN got[figure] : r.e \in W
  BY DEF ReportInv, RowsInv
<1>7. \A e \in W : \E r \in DOMAIN got[figure] : r.e = e
  BY <1>4, <1>5 DEF ReportInv, RowsInv
<1>8. \A r \in DOMAIN got[figure] : Shown(r) = Seen(r.e)
  <2> SUFFICES ASSUME NEW r \in DOMAIN got[figure] PROVE Shown(r) = Seen(r.e)
    OBVIOUS
  <2>1. r.e.t \in Int
    BY <1>5, <1>6
  <2>2. r.at = r.e.t \/ r.at = HourStart(r.e.t)
    BY DEF FlagsInv
  <2>3. HourStart(r.at) = HourStart(r.e.t)
    BY <2>1, <2>2, HourOfHour
  <2>4. r.priced = (r.e.k.model \in prices)
    BY DEF FlagsInv
  <2> QED
    BY <2>3, <2>4 DEF Shown
<1>9. Rows(got[figure]) = DOMAIN got[figure]
  BY DEF Rows, BagToSet
<1> HIDE DEF RowOf, W, Seen
<1>10. {Shown(r) : r \in Rows(got[figure])} = {Seen(e) : e \in W}
  BY <1>6, <1>7, <1>8, <1>9
<1>11. {Shown(r) : r \in {RowOf(e) : e \in W}} = {Seen(e) : e \in W}
  BY <1>2
<1> QED
  BY <1>1, <1>10, <1>11

\* An undisturbed report shows, figure by figure, the rows of the raw events:
\* mixing rollups and raw events changes no event, hour or price
\* (buildAnalyticsCoreSnapshot, BuildAnalyticsHeatmapWithFilter).
THEOREM SpecSameRows == AnalyticsSpec => []SameRows
BY SpecFlagsInv, UndisturbedRows, PTL

-----------------------------------------------------------------------------
(* The two health grids.                                                   *)

\* Division, by what it bounds.
LEMMA DivIs ==
    ASSUME NEW n \in Nat \ {0}, NEW x \in Int, NEW i \in Int
    PROVE  x \div n = i <=> i * n <= x /\ x < i * n + n
<1>1. PICK d \in Int : d = x \div n
  OBVIOUS
<1>2. d * n <= x /\ x < d * n + n
  BY <1>1
<1>3. d * n \in Int /\ i * n \in Int
  OBVIOUS
<1>4. (d + 1) * n = d * n + n /\ (i + 1) * n = i * n + n
  OBVIOUS
<1>5. ASSUME i * n <= x, x < i * n + n PROVE d = i
  <2>1. CASE d < i
    <3>1. (d + 1) * n <= i * n
      BY <2>1
    <3> QED
      BY <1>2, <1>3, <1>4, <1>5, <3>1
  <2>2. CASE i < d
    <3>1. (i + 1) * n <= d * n
      BY <2>2
    <3> QED
      BY <1>2, <1>3, <1>4, <1>5, <3>1
  <2> QED
    BY <2>1, <2>2
<1> QED
  BY <1>1, <1>2, <1>5

LEMMA AtLeast ==
    ASSUME NEW n \in Nat \ {0}, NEW x \in Int, NEW a \in Int
    PROVE  a * n <= x <=> a <= x \div n
<1>1. PICK d \in Int : d = x \div n
  OBVIOUS
<1>2. d * n <= x /\ x < d * n + n
  BY <1>1
<1>3. d * n \in Int /\ a * n \in Int /\ (d + 1) * n = d * n + n
  OBVIOUS
<1>4. CASE a <= d
  <2>1. a * n <= d * n
    BY <1>4
  <2> QED
    BY <1>1, <1>2, <1>3, <1>4, <2>1
<1>5. CASE d < a
  <2>1. (d + 1) * n <= a * n
    BY <1>5
  <2> QED
    BY <1>1, <1>2, <1>3, <1>5, <2>1
<1> QED
  BY <1>4, <1>5

\* On a grid of whole seconds the index that SQL computes from whole seconds is
\* that of the cell the moment lies in.
LEMMA SecondsIndex ==
    ASSUME NEW T \in Nat \ {0}, NEW k \in Nat \ {0}, NEW a \in Int, NEW i \in Int, NEW x \in Int
    PROVE  (x \div T - a) \div k = i <=>
               a * T + i * (k * T) <= x /\ x < a * T + i * (k * T) + k * T
<1>1. PICK s \in Int : s = x \div T
  OBVIOUS
<1>2. PICK b \in Int : b = i * k
  OBVIOUS
<1>3. (s - a) \div k = i <=> b <= s - a /\ s - a < b + k
  BY <1>2, DivIs
<1>4. (a + b) * T <= x <=> a + b <= s
  BY <1>1, AtLeast
<1>5. (a + b + k) * T <= x <=> a + b + k <= s
  BY <1>1, AtLeast
<1>6. b * T = i * (k * T)
  BY <1>2
<1>7. /\ (a + b) * T = a * T + b * T /\ (a + b + k) * T = a * T + b * T + k * T
      /\ a * T \in Int /\ b * T \in Int /\ k * T \in Int
  OBVIOUS
<1>8. b <= s - a <=> a + b <= s
  OBVIOUS
<1>9. s - a < b + k <=> ~(a + b + k <= s)
  OBVIOUS
<1> QED
  BY <1>1, <1>3, <1>4, <1>5, <1>6, <1>7, <1>8, <1>9

LEMMA WholeMultiple ==
    ASSUME NEW T \in Nat \ {0}, NEW x \in Int, x % T = 0
    PROVE  x = (x \div T) * T /\ x \div T \in Int
<1>1. x = (x \div T) * T + (x % T)
  OBVIOUS
<1>2. (x \div T) * T \in Int
  OBVIOUS
<1> QED
  BY <1>1, <1>2

\* The ranges whose grid begins and steps at whole seconds: the long ones, and
\* "24h" when its window ends at a whole second.
WholeSeconds(f) ==
    \/ f.range \notin ShortRanges
    \/ f.range = "24h" /\ DayGrid.span % TicksPerSecond = 0 /\ f.end % TicksPerSecond = 0

\* Their grid when it is built at the time now: n blocks of k seconds from second a.
IsGrid(f, now, k, a, n) ==
    /\ usageOverviewHealthGrid(f).blocks = n
    /\ usageOverviewHealthGrid(f).span = k * TicksPerSecond
    /\ usageOverviewHealthWindow(f, now).start = a * TicksPerSecond
    /\ usageOverviewHealthWindow(f, now).end = a * TicksPerSecond + n * (k * TicksPerSecond)
    /\ BucketSeconds(f) = k
    /\ usageOverviewHealthWindow(f, now).start \div TicksPerSecond = a

LEMMA WholeGrid ==
    ASSUME NEW f \in OverviewFilters, NEW now \in Int, WholeSeconds(f)
    PROVE  \E k \in Nat \ {0}, a \in Int, n \in Nat \ {0} : IsGrid(f, now, k, a, n)
<1>1. PICK T \in Nat \ {0}, G \in Grid :
          T = TicksPerSecond /\ G = usageOverviewHealthGrid(f) /\ G.span % T = 0
  BY UsageOverviewAssumption DEF usageOverviewHealthGrid, ShortRanges, WholeSeconds
<1>2. PICK g \in Nat \ {0}, n \in Nat \ {0} : g = G.span /\ n = G.blocks
  BY DEF Grid
<1>3. PICK k \in Int : k = g \div T
  OBVIOUS
<1>4. g = k * T
  <2>1. g % T = 0 /\ g \in Int
    BY <1>1, <1>2
  <2>2. g = (g \div T) * T
    BY <2>1, WholeMultiple
  <2> QED
    BY <1>3, <2>2
<1>5. k \in Nat \ {0}
  BY <1>3, <1>4
<1>6. PICK end \in Int : end = IF Bounded(f) THEN f.end ELSE now
  BY UsageOverviewAssumption
<1>7. \E a \in Int : /\ usageOverviewHealthWindow(f, now).start = a * T
                     /\ usageOverviewHealthWindow(f, now).end = a * T + n * g
  <2>1. CASE f.range \notin ShortRanges
    <3>1. PICK q \in Int : q = end \div g
      OBVIOUS
    <3>2. /\ usageOverviewHealthWindow(f, now).start = q * g + g - n * g
          /\ usageOverviewHealthWindow(f, now).end = q * g + g
      BY <1>1, <1>2, <1>6, <2>1, <3>1 DEF usageOverviewHealthWindow
    <3>3. PICK m \in Int : m = q + 1 - n
      OBVIOUS
    <3>4. m * g = q * g + g - n * g /\ m * g + n * g = q * g + g
      BY <3>3
    <3>5. PICK a \in Int : a = m * k
      OBVIOUS
    <3>6. a * T = m * g
      BY <1>4, <3>5
    <3> QED
      BY <3>2, <3>4, <3>6
  <2>2. CASE f.range \in ShortRanges
    <3>1. /\ f.range = "24h" /\ end % T = 0 /\ G = DayGrid
          /\ DayGrid.blocks * DayGrid.span = PresetWindow
      BY <1>1, <1>6, <2>2, UsageOverviewAssumption
         DEF WholeSeconds, usageOverviewHealthGrid, ShortRanges, Bounded
    <3>2. /\ usageOverviewHealthWindow(f, now).start = end - n * g
          /\ usageOverviewHealthWindow(f, now).end = end
      BY <1>2, <1>6, <2>2, <3>1 DEF usageOverviewHealthWindow
    <3>3. PICK c \in Int : end = c * T
      BY <3>1, WholeMultiple
    <3>4. PICK a \in Int : a = c - n * k
      OBVIOUS
    <3>5. a * T = c * T - n * g /\ n * g \in Int /\ c * T \in Int
      BY <1>4, <3>4
    <3> QED
      BY <3>2, <3>3, <3>5
  <2> QED
    BY <2>1, <2>2
<1>8. PICK a \in Int : /\ usageOverviewHealthWindow(f, now).start = a * T
                       /\ usageOverviewHealthWindow(f, now).end = a * T + n * g
  BY <1>7
<1>9. BucketSeconds(f) = k
  <2>1. BucketSeconds(f) = (k * T + T - 1) \div T
    BY <1>1, <1>2, <1>4 DEF BucketSeconds, CeilDiv
  <2>2. k * T \in Int
    OBVIOUS
  <2>3. k * T <= k * T + T - 1 /\ k * T + T - 1 < k * T + T /\ k * T + T - 1 \in Int
    BY <2>2
  <2> QED
    BY <2>1, <2>3, DivIs
<1>10. (a * T) \div T = a
  <2>1. PICK x \in Int : x = a * T
    OBVIOUS
  <2>2. a * T <= x /\ x < a * T + T
    BY <2>1
  <2>3. x \div T = a
    BY <2>2, DivIs
  <2> QED
    BY <2>1, <2>3
<1> QED
  BY <1>1, <1>2, <1>4, <1>5, <1>8, <1>9, <1>10 DEF IsGrid

\* A block of the overview's grid and the block SQL counts hold the same events.
LEMMA WholeBlocks ==
    ASSUME NEW f \in OverviewFilters, NEW now \in Int, WholeSeconds(f),
           NEW i \in BlockIndexes(f),
           \A e \in events : e.t \in Int,
           ToSet(loaded) = {e \in events : InScope(f, e)}
    PROVE  SQLBlock(f, now, i) = OverviewBlock(f, now, i)
<1>1. PICK k \in Nat \ {0}, a \in Int, n \in Nat \ {0} : IsGrid(f, now, k, a, n)
  BY WholeGrid
<1>2. TicksPerSecond \in Nat \ {0}
  BY UsageOverviewAssumption
<1>3. PICK g \in Nat \ {0} : g = k * TicksPerSecond
  BY <1>2
<1>4. i \in Int /\ 0 <= i /\ i + 1 <= n
  BY <1>1 DEF BlockIndexes, IsGrid
<1>5. PICK s \in Int, b \in Int, w \in Int : s = a * TicksPerSecond /\ b = i * g /\ w = n * g
  BY <1>2, <1>4
<1>6. 0 <= b /\ b + g <= w
  <2>1. (i + 1) * g <= n * g /\ (i + 1) * g = i * g + g /\ 0 <= i * g
    BY <1>4
  <2> QED
    BY <1>5, <2>1
<1>7. \A e \in events : SQLBucketIndex(f, now, e) = i <=> s + b <= e.t /\ e.t < s + b + g
  <2> SUFFICES ASSUME NEW e \in events
               PROVE  SQLBucketIndex(f, now, e) = i <=> s + b <= e.t /\ e.t < s + b + g
    OBVIOUS
  <2>1. PICK x \in Int : x = e.t
    OBVIOUS
  <2>2. SQLBucketIndex(f, now, e) = (x \div TicksPerSecond - a) \div k
    BY <1>1, <2>1 DEF SQLBucketIndex, IsGrid
  <2>3. (x \div TicksPerSecond - a) \div k = i <=>
            /\ a * TicksPerSecond + i * (k * TicksPerSecond) <= x
            /\ x < a * TicksPerSecond + i * (k * TicksPerSecond) + k * TicksPerSecond
    BY <1>2, <1>4, SecondsIndex
  <2> QED
    BY <1>3, <1>5, <2>1, <2>2, <2>3
<1>8. /\ usageOverviewHealthWindow(f, now).start = s /\ usageOverviewHealthWindow(f, now).end = s + w
      /\ usageOverviewHealthGrid(f).span = g
  BY <1>1, <1>3, <1>5 DEF IsGrid
<1>9. OverviewBlock(f, now, i) = {e \in ToSet(loaded) : s + b <= e.t /\ e.t < s + b + g}
  BY <1>5, <1>8 DEF OverviewBlock, BlockStart
<1>10. \A e \in events : s + b <= e.t /\ e.t < s + b + g => s <= e.t /\ e.t < s + w
  BY <1>6
<1> QED
  BY <1>7, <1>8, <1>9, <1>10 DEF SQLBlock

\* An ordering of a finite set has all its elements.
LEMMA OrderedAll ==
    ASSUME NEW S, IsFiniteSet(S), NEW order \in SetToSeqs(S)
    PROVE  ToSet(order) = S
<1> DEFINE D == 1 .. Cardinality(S)
<1>1. Cardinality(S) \in Nat
  BY FS_CardinalityType
<1>2. order \in [D -> S] /\ \A i, j \in D : i # j => order[i] # order[j]
  BY DEF SetToSeqs
<1>3. order \in Injection(D, S)
  BY <1>2 DEF Injection, IsInjective
<1>4. Cardinality(D) = Cardinality(S)
  BY <1>1, FS_Interval
<1>5. order \in Surjection(D, S)
  BY <1>3, <1>4, FS_Injection
<1> HIDE DEF D
<1> QED
  BY <1>2, <1>5 DEF Surjection, ToSet

\* What a dashboard load has read, when no commit disturbed it.
Asked == {e \in events : InScope(ask.filter, e)}

LoadInv ==
    /\ EventsInv /\ commits \in Nat
    /\ ask.stage \in {"idle", "events", "prices", "totals", "blocks", "done"}
    /\ ask = [filter |-> ask.filter, stage |-> ask.stage]
    /\ ask.stage # "idle" => ask.filter \in OverviewFilters
    /\ clock \in [overview : Int, health : Int]
    /\ commits = 0 =>
          /\ ask.stage \in {"prices", "totals", "blocks", "done"} => ToSet(loaded) = Asked
          /\ ask.stage \in {"blocks", "done"} => totals = Asked
          /\ ask.stage = "done" =>
                blocks = [i \in BlockIndexes(ask.filter) |->
                             SQLBlock(ask.filter, clock.health, i)]

LEMMA InitLoadInv == DataInit /\ OverviewInit => LoadInv
<1> SUFFICES ASSUME DataInit, OverviewInit PROVE LoadInv
  OBVIOUS
<1>1. EventsInv
  BY InitEvents
<1>2. /\ ask.stage = "idle" /\ commits = 0 /\ ask = [filter |-> ask.filter, stage |-> ask.stage]
      /\ clock \in [overview : Int, health : Int]
  BY DEF OverviewInit, NoClock
<1> QED
  BY <1>1, <1>2 DEF LoadInv

LEMMA WriterEvents ==
    ASSUME EventsInv, DataNext
    PROVE  EventsInv'
<1>1. CASE IntakeNext
  BY <1>1, IntakeEvents
<1>2. CASE ~ IntakeNext
  <2>1. events' = events /\ arrivals' = arrivals
    BY <1>2 DEF DataNext, CompleteBackfill, UpdatePricing, DeletePricing
  <2> QED
    BY <2>1 DEF EventsInv
<1> QED
  BY <1>1, <1>2

LEMMA ReadingsAre == Readings \subseteq Int
BY UsageOverviewAssumption DEF Readings

LEMMA NextLoadInv == LoadInv /\ [OverviewNext]_<<dataVars, overviewVars>> => LoadInv'
<1> SUFFICES ASSUME LoadInv, [OverviewNext]_<<dataVars, overviewVars>> PROVE LoadInv'
  OBVIOUS
<1> USE DEF LoadInv
<1>1. CASE UNCHANGED <<dataVars, overviewVars>>
  BY <1>1 DEF dataVars, overviewVars, EventsInv, Asked, SQLBlock
<1>2. ASSUME UNCHANGED dataVars PROVE EventsInv' /\ events' = events
  BY <1>2 DEF dataVars, EventsInv
<1>3. ASSUME NEW f \in OverviewFilters, GetUsageOverview(f), UNCHANGED dataVars PROVE LoadInv'
  <2>1. ask' = [filter |-> f, stage |-> "events"] /\ commits' = 0 /\ clock' = clock
    BY <1>3 DEF GetUsageOverview
  <2>2. ask'.stage = "events" /\ ask'.filter = f /\ ask' = [filter |-> ask'.filter, stage |-> ask'.stage]
    BY <2>1
  <2> QED
    BY <1>2, <1>3, <2>1, <2>2
<1>4. CASE loadUsageOverviewEventsWithFilter /\ UNCHANGED dataVars
  <2>1. /\ ask.stage = "events" /\ ask' = [ask EXCEPT !.stage = "prices"] /\ commits' = commits
        /\ clock' = clock
    BY <1>4 DEF loadUsageOverviewEventsWithFilter, Stage
  <2>2. ask' = [filter |-> ask.filter, stage |-> "prices"]
    BY <2>1
  <2>3. ask'.stage = "prices" /\ ask'.filter = ask.filter
    BY <2>2
  <2>4. PICK order \in SetToSeqs(Asked) : loaded' = order
    BY <1>4 DEF loadUsageOverviewEventsWithFilter, Asked
  <2>5. IsFiniteSet(Asked)
    BY FS_Subset DEF EventsInv, Listed, Asked
  <2>6. ToSet(loaded') = Asked
    BY <2>4, <2>5, OrderedAll
  <2>7. Asked' = Asked
    BY <1>2, <1>4, <2>3 DEF Asked
  <2> QED
    BY <1>2, <1>4, <2>1, <2>2, <2>3, <2>6, <2>7
<1>5. CASE loadPriceSettingsByModel /\ UNCHANGED dataVars
  <2>1. /\ ask.stage = "prices" /\ ask' = [ask EXCEPT !.stage = "totals"] /\ commits' = commits
        /\ loaded' = loaded
    BY <1>5 DEF loadPriceSettingsByModel, Stage
  <2>2. ask' = [filter |-> ask.filter, stage |-> "totals"]
    BY <2>1
  <2>3. ask'.stage = "totals" /\ ask'.filter = ask.filter
    BY <2>2
  <2>4. Asked' = Asked
    BY <1>2, <1>5, <2>3 DEF Asked
  <2>5. PICK now \in Readings : clock' = [clock EXCEPT !.overview = now]
    BY <1>5 DEF loadPriceSettingsByModel
  <2>6. clock' \in [overview : Int, health : Int]
    BY <2>5, ReadingsAre
  <2> QED
    BY <1>2, <1>5, <2>1, <2>2, <2>3, <2>4, <2>6
<1>6. CASE RequestHealthTotals /\ UNCHANGED dataVars
  <2>1. /\ ask.stage = "totals" /\ ask' = [ask EXCEPT !.stage = "blocks"] /\ commits' = commits
        /\ loaded' = loaded /\ totals' = Asked
    BY <1>6 DEF RequestHealthTotals, Stage, Asked
  <2>2. ask' = [filter |-> ask.filter, stage |-> "blocks"]
    BY <2>1
  <2>3. ask'.stage = "blocks" /\ ask'.filter = ask.filter
    BY <2>2
  <2>4. Asked' = Asked
    BY <1>2, <1>6, <2>3 DEF Asked
  <2>5. PICK now \in Readings : clock' = [clock EXCEPT !.health = now]
    BY <1>6 DEF RequestHealthTotals
  <2>6. clock' \in [overview : Int, health : Int]
    BY <2>5, ReadingsAre
  <2> QED
    BY <1>2, <1>6, <2>1, <2>2, <2>3, <2>4, <2>6
<1>7. CASE RequestHealthBlocks /\ UNCHANGED dataVars
  <2>1. /\ ask.stage = "blocks" /\ ask' = [ask EXCEPT !.stage = "done"] /\ commits' = commits
        /\ loaded' = loaded /\ totals' = totals /\ clock' = clock
        /\ blocks' = [i \in BlockIndexes(ask.filter) |->
                         SQLBlock(ask.filter, clock.health, i)]
    BY <1>7 DEF RequestHealthBlocks, Stage
  <2>2. ask' = [filter |-> ask.filter, stage |-> "done"]
    BY <2>1
  <2>3. ask'.stage = "done" /\ ask'.filter = ask.filter
    BY <2>2
  <2>4. Asked' = Asked
    BY <1>2, <1>7, <2>3 DEF Asked
  <2>5. blocks' = [i \in BlockIndexes(ask.filter) |->
                      SQLBlock(ask.filter, clock.health, i)]'
    BY <1>2, <1>7, <2>1, <2>3 DEF SQLBlock
  <2> QED
    BY <1>2, <1>7, <2>1, <2>2, <2>3, <2>4, <2>5
<1>8. CASE EndLoad /\ UNCHANGED dataVars
  <2>1. ask' = [ask EXCEPT !.stage = "idle"] /\ commits' = 0 /\ clock' = NoClock
    BY <1>8 DEF EndLoad, Stage
  <2>2. ask' = [filter |-> ask.filter, stage |-> "idle"]
    BY <2>1
  <2>3. ask'.stage = "idle" /\ ask'.filter = ask.filter
    BY <2>2
  <2>4. clock' \in [overview : Int, health : Int]
    BY <2>1 DEF NoClock
  <2> QED
    BY <1>2, <1>8, <2>1, <2>2, <2>3, <2>4
<1>9. CASE /\ DataNext /\ commits' = IF ask.stage = "idle" THEN 0 ELSE commits + 1
           /\ UNCHANGED <<ask, loaded, priced, clock, totals, blocks>>
  <2>1. EventsInv'
    BY <1>9, WriterEvents
  <2>2. ask' = ask /\ clock' = clock /\ commits' \in Nat /\ (ask.stage # "idle" => commits' # 0)
    BY <1>9
  <2> QED
    BY <2>1, <2>2
<1> QED
  BY <1>1, <1>3, <1>4, <1>5, <1>6, <1>7, <1>8, <1>9 DEF OverviewNext

\* How many blocks later a grid ends that is built at the time b instead of a: a
\* range that ends fixes its grid, the grid of range "all" follows the clock.
BlocksLater(f, a, b) ==
    LET span == usageOverviewHealthGrid(f).span
    IN  IF Bounded(f) THEN 0 ELSE b \div span - a \div span

LEMMA ShiftedGrid ==
    ASSUME NEW f \in OverviewFilters, NEW a \in Int, NEW b \in Int,
           NEW j \in Int
    PROVE  BlockStart(f, a, j + BlocksLater(f, a, b)) = BlockStart(f, b, j)
<1>1. CASE Bounded(f)
  <2>1. BlocksLater(f, a, b) = 0 /\ usageOverviewHealthWindow(f, a) = usageOverviewHealthWindow(f, b)
    BY <1>1 DEF BlocksLater, usageOverviewHealthWindow
  <2> QED
    BY <2>1 DEF BlockStart
<1>2. CASE ~Bounded(f)
  <2>1. f.range \notin ShortRanges
    BY <1>2 DEF Bounded, ShortRanges
  <2>2. PICK g \in Nat \ {0}, n \in Nat \ {0} :
            usageOverviewHealthGrid(f).span = g /\ usageOverviewHealthGrid(f).blocks = n
    BY <2>1, UsageOverviewAssumption DEF usageOverviewHealthGrid, Grid
  <2>3. PICK p \in Int, q \in Int : p = a \div g /\ q = b \div g
    OBVIOUS
  <2>4. /\ usageOverviewHealthWindow(f, a).start = p * g + g - n * g
        /\ usageOverviewHealthWindow(f, b).start = q * g + g - n * g
    BY <1>2, <2>1, <2>2, <2>3 DEF usageOverviewHealthWindow
  <2>5. BlocksLater(f, a, b) = q - p
    BY <1>2, <2>2, <2>3 DEF BlocksLater
  <2>6. (j + (q - p)) * g = j * g + q * g - p * g
    OBVIOUS
  <2>7. p * g \in Int /\ q * g \in Int /\ n * g \in Int /\ j * g \in Int
    OBVIOUS
  <2> QED
    BY <2>2, <2>4, <2>5, <2>6, <2>7 DEF BlockStart
<1> QED
  BY <1>1, <1>2

\* For a range whose grid is of whole seconds, a dashboard load that no commit
\* disturbed shows the same totals in both health projections, and block for block
\* the same attempts, counted from the same moment.
WholeGridsAgree ==
    WholeSeconds(ask.filter) =>
        /\ HealthGridsAgree
        /\ ask.stage = "done" /\ commits = 0 =>
              \A i, j \in BlockIndexes(ask.filter) :
                  i = j + BlocksLater(ask.filter, clock.overview, clock.health)
                    => blocks[j] = OverviewBlock(ask.filter, clock.overview, i)

LEMMA LoadedHealth == LoadInv /\ WholeSeconds(ask.filter) => HealthGridsAgree
<1> SUFFICES ASSUME LoadInv, WholeSeconds(ask.filter), ask.stage = "done", commits = 0
             PROVE  /\ totals = ToSet(loaded)
                    /\ \A i, j \in BlockIndexes(ask.filter) :
                          BlockStart(ask.filter, clock.overview, i)
                                = BlockStart(ask.filter, clock.health, j)
                            => blocks[j] = OverviewBlock(ask.filter, clock.overview, i)
  BY DEF HealthGridsAgree
<1>1. /\ ToSet(loaded) = Asked /\ totals = Asked /\ ask.filter \in OverviewFilters
      /\ blocks = [i \in BlockIndexes(ask.filter) |-> SQLBlock(ask.filter, clock.health, i)]
      /\ \A e \in events : e.t \in Int
      /\ clock.health \in Int
  BY DEF LoadInv, EventsInv, Listed
<1>2. ASSUME NEW i \in BlockIndexes(ask.filter), NEW j \in BlockIndexes(ask.filter),
             BlockStart(ask.filter, clock.overview, i) = BlockStart(ask.filter, clock.health, j)
      PROVE  blocks[j] = OverviewBlock(ask.filter, clock.overview, i)
  <2>1. PICK f \in OverviewFilters : f = ask.filter
    BY <1>1
  <2>2. PICK now \in Int : now = clock.health
    BY <1>1
  <2>3. /\ WholeSeconds(f) /\ j \in BlockIndexes(f)
        /\ ToSet(loaded) = {e \in events : InScope(f, e)}
    BY <1>1, <2>1 DEF Asked
  <2>4. SQLBlock(f, now, j) = OverviewBlock(f, now, j)
    BY <1>1, <2>3, WholeBlocks
  <2>5. OverviewBlock(f, clock.overview, i) = OverviewBlock(f, now, j)
    BY <1>2, <2>1, <2>2 DEF OverviewBlock
  <2> QED
    BY <1>1, <2>1, <2>2, <2>4, <2>5
<1> QED
  BY <1>1, <1>2

LEMMA LoadedGrids == LoadInv => WholeGridsAgree
<1> SUFFICES ASSUME LoadInv, WholeSeconds(ask.filter), ask.stage = "done", commits = 0,
                    NEW i \in BlockIndexes(ask.filter), NEW j \in BlockIndexes(ask.filter),
                    i = j + BlocksLater(ask.filter, clock.overview, clock.health)
             PROVE  blocks[j] = OverviewBlock(ask.filter, clock.overview, i)
  BY LoadedHealth DEF WholeGridsAgree
<1>1. /\ ask.filter \in OverviewFilters /\ clock.overview \in Int /\ clock.health \in Int
  BY DEF LoadInv
<1>2. j \in Int
  BY DEF BlockIndexes
<1>3. BlockStart(ask.filter, clock.overview, i) = BlockStart(ask.filter, clock.health, j)
  BY <1>1, <1>2, ShiftedGrid
<1> QED
  BY <1>3, LoadedHealth DEF HealthGridsAgree

\* The two health grids of the dashboard, one folded event by event and one
\* counted in SQL by whole seconds, agree for any events and block counts
\* wherever blocks begin and step at whole seconds: for the long ranges, and for
\* "24h" ending at a whole second.  A range that ends has the same grid twice.
\* Range "all" has no end: each grid ends with the clock when it is asked for, and
\* they agree on the blocks they share, the second being some blocks later
\* (buildUsageOverviewHealth, BuildUsageRequestHealthWithFilter).
THEOREM SpecWholeGridsAgree == OverviewSpec => []WholeGridsAgree
<1>1. OverviewSpec => []LoadInv
  BY InitLoadInv, NextLoadInv, PTL DEF OverviewSpec
<1> QED
  BY <1>1, LoadedGrids, PTL

-----------------------------------------------------------------------------
(* The local days and hours of an analytics summary.                       *)

\* In a time zone of whole hours an hour lies in one local hour and one day.
LEMMA LocalOfHour ==
    ASSUME Offset % TicksPerHour = 0, NEW t \in Int
    PROVE  LocalHour(HourStart(t)) = LocalHour(t) /\ LocalDay(HourStart(t)) = LocalDay(t)
<1>1. PICK H \in Nat \ {0}, D \in Nat \ {0}, z \in Nat :
          H = TicksPerHour /\ D = HoursPerDay /\ z = Offset
  BY ReportDataAssumption
<1>2. PICK o \in Int : o = z \div H
  OBVIOUS
<1>3. z = o * H
  <2>1. z % H = 0 /\ z \in Int
    BY <1>1
  <2>2. z = (z \div H) * H
    BY <2>1, WholeMultiple
  <2> QED
    BY <1>2, <2>2
<1>4. PICK q \in Int : q = t \div H
  OBVIOUS
<1>5. HourStart(t) = q * H /\ q * H \in Int /\ q * H <= t /\ t < q * H + H
  BY <1>1, <1>4 DEF HourStart
<1>6. PICK p \in Int : p = q + o
  OBVIOUS
<1>7. p * H = q * H + o * H /\ p * H \in Int
  BY <1>6
<1>8. PICK x \in Int, y \in Int : x = t + z /\ y = q * H + z
  BY <1>5
<1>9. y = p * H /\ y <= x /\ x < y + H
  BY <1>3, <1>5, <1>7, <1>8
<1>10. x \div H = p /\ y \div H = p
  <2>1. p * H <= x /\ x < p * H + H /\ p * H <= y /\ y < p * H + H
    BY <1>7, <1>9
  <2> QED
    BY <2>1, DivIs
<1>11. x \div (H * D) = y \div (H * D)
  <2>1. PICK n \in Nat \ {0} : n = H * D
    OBVIOUS
  <2>2. PICK d \in Int : d = y \div n
    OBVIOUS
  <2>3. d * n <= y /\ y < d * n + n
    BY <2>2, DivIs
  <2>4. PICK c \in Int : c = (d + 1) * D
    OBVIOUS
  <2>5. c * H = d * n + n /\ d * n \in Int
    BY <2>1, <2>4
  <2>6. p < c
    <3>1. c * H \in Int /\ p * H < c * H
      BY <1>9, <2>3, <2>5
    <3>2. c <= p => c * H <= p * H
      OBVIOUS
    <3> QED
      BY <1>7, <3>1, <3>2
  <2>7. (p + 1) * H <= c * H /\ (p + 1) * H = p * H + H
    BY <2>6
  <2>8. d * n <= x /\ x < d * n + n
    BY <1>7, <1>9, <2>3, <2>5, <2>7
  <2>9. x \div n = d
    BY <2>8, DivIs
  <2> QED
    BY <2>1, <2>2, <2>9
<1>12. LocalHour(t) = x \div H /\ LocalHour(HourStart(t)) = y \div H
  BY <1>1, <1>5, <1>8 DEF LocalHour
<1>13. LocalDay(t) = x \div (H * D) /\ LocalDay(HourStart(t)) = y \div (H * D)
  BY <1>1, <1>5, <1>8 DEF LocalDay
<1> QED
  BY <1>10, <1>11, <1>12, <1>13

\* Where the time zone is a whole number of hours, every row of a report, from
\* raw events or rollups, is in the local hour and on the local day of its event.
LocalTimesKept ==
    Offset % TicksPerHour = 0 =>
        \A figure \in Figures : \A r \in Rows(got[figure]) :
            LocalHour(r.at) = LocalHour(r.e.t) /\ LocalDay(r.at) = LocalDay(r.e.t)

LEMMA RowsInLocalTime == ReportInv /\ FlagsInv => LocalTimesKept
<1> SUFFICES ASSUME ReportInv, FlagsInv, Offset % TicksPerHour = 0,
                    NEW figure \in Figures, NEW r \in Rows(got[figure])
             PROVE  LocalHour(r.at) = LocalHour(r.e.t) /\ LocalDay(r.at) = LocalDay(r.e.t)
  BY DEF LocalTimesKept
<1>1. r \in DOMAIN got[figure]
  BY DEF Rows, BagToSet
<1>2. r.e.t \in Int
  BY <1>1, ReportDataAssumption DEF ReportInv, RowsInv, StoreInv, Ticks
<1>3. r.at = r.e.t \/ r.at = HourStart(r.e.t)
  BY <1>1 DEF FlagsInv
<1> QED
  BY <1>2, <1>3, LocalOfHour

\* The day buckets of the trend and the cells of the heatmap are the local days
\* and hours of the events whenever the time zone is a whole number of hours: the
\* disagreement of day buckets needs a zone such as UTC+5:30
\* (analyticsRollupBucketSQLExpression, buildAnalyticsRollupHeatmapAggregates).
THEOREM SpecLocalTimesKept == AnalyticsSpec => []LocalTimesKept
BY SpecFlagsInv, RowsInLocalTime, PTL

=============================================================================
