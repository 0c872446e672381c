--------------------------- MODULE AnalyticsReport ---------------------------
(***************************************************************************)
(* One analytics summary report (repository/analytics*.go): the current    *)
(* period's figures, the previous period for comparison and the heatmap.   *)
(* Each figure is read by its own statements, one per segment of the       *)
(* report's window: the raw events before the first full hour, the raw     *)
(* events after the last one, and the hourly rollups between them; or the  *)
(* raw events alone when there is no full hour or the backfill is not      *)
(* complete.  Usage events, prices and the backfill may change between any *)
(* two statements.                                                         *)
(*                                                                         *)
(* Every column of an aggregate row is a sum over the events the row       *)
(* counts, so a figure is represented by the bag of the events counted in  *)
(* it, each with the time the segment attributes to it and whether its     *)
(* model was priced when the statement ran.                                *)
(***************************************************************************)
EXTENDS ReportData, Sequences, Bags, TLC

CONSTANTS
    Filters,         \* the windows, providers and granularities asked for
    HeatmapTicks,    \* analyticsHeatmapWindow
    BreakdownLimit,  \* analyticsKeyAliasBreakdownLimit
    MaxWrites        \* bound: commits while one report is built

Filter == [bounded : BOOLEAN, start : Ticks, end : Ticks,
           provider : STRING, byDay : BOOLEAN, anchor : Ticks]

ASSUME AnalyticsReportAssumption ==
    /\ HeatmapTicks \in Nat \ {0} /\ BreakdownLimit \in Nat \ {0}
    /\ MaxWrites \in Nat
    /\ Filters \subseteq Filter
    /\ \A f \in Filters : f.start <= f.end

CoreFigures == <<"summary", "trend", "keys", "keyTrends", "apiKeys",
                 "apiKeyTrends", "models", "providers">>
Figures     == {CoreFigures[i] : i \in DOMAIN CoreFigures}
                    \cup {"previous", "heatmap"}

VARIABLES
    filter,    \* the report's filter
    stage,     \* which part of the report is being built
    todo,      \* the statements still to run: figure and segment
    got,       \* the rows each figure has read
    base,      \* history: the events stored when the report started
    writes     \* history: the commits to the tables since then

reportVars == <<filter, stage, todo, got, base, writes>>

-----------------------------------------------------------------------------
(* The window plan.                                                        *)

Raw(start, end) == [source |-> "events", start |-> start, end |-> end]
Rollup(first, last) == [source |-> "rollups", start |-> first, end |-> last]

\* Without bounds the query has no condition on the timestamp.
analyticsCoreRawWindowPlan(w) ==
    IF w.bounded THEN <<Raw(w.start, w.end)>> ELSE <<Raw(0, LastTick)>>

FirstFullBucket(start) ==
    IF HourStart(start) < start THEN HourStart(start) + TicksPerHour
                                ELSE HourStart(start)

LastFullBucket(end) ==
    IF HourStart(end) + TicksPerHour > end + 1
    THEN HourStart(end) - TicksPerHour
    ELSE HourStart(end)

HasRollupPlan(w) ==
    /\ w.bounded
    /\ w.start <= w.end
    /\ FirstFullBucket(w.start) <= LastFullBucket(w.end)

HeadSegmentInclusive(w) ==
    LET first == FirstFullBucket(w.start)
    IN  IF w.start < first THEN <<Raw(w.start, first)>> ELSE <<>>

HeadSegment(w) ==
    LET first == FirstFullBucket(w.start)
    IN  IF w.start < first THEN <<Raw(w.start, first - 1)>> ELSE <<>>

TailSegment(w) ==
    LET tail == LastFullBucket(w.end) + TicksPerHour
    IN  IF tail <= w.end THEN <<Raw(tail, w.end)>> ELSE <<>>

analyticsCoreRollupWindowPlan(w) ==
    HeadSegment(w) \o TailSegment(w)
        \o <<Rollup(FirstFullBucket(w.start), LastFullBucket(w.end))>>

\* BuildAnalyticsCoreWithFilter: the plan, and the fallback when the
\* rollups may not be read.
Plan(w) ==
    IF HasRollupPlan(w) /\ backfilled THEN analyticsCoreRollupWindowPlan(w)
                                      ELSE analyticsCoreRawWindowPlan(w)

-----------------------------------------------------------------------------
(* One statement: the rows a segment selects for a figure.                 *)

InSegment(e, seg) ==
    LET t == IF seg.source = "rollups" THEN HourStart(e.t) ELSE e.t
    IN  seg.start <= t /\ t <= seg.end

ProviderMatches(e, f) == f.provider = NoValue \/ e.k.provider = f.provider

RowAtHourEnd(e, seg) ==
    [e |-> e,
     at |-> IF seg.source = "rollups" THEN HourStart(e.t) + TicksPerHour ELSE e.t,
     priced |-> e.k.model \in prices]

\* A rollup row is attributed to the start of its hour.
Row(e, seg) ==
    [e |-> e,
     at |-> IF seg.source = "rollups" THEN HourStart(e.t) ELSE e.t,
     priced |-> e.k.model \in prices]

Rows(bag) == BagToSet(bag)

\* The identity of an event in a breakdown: its account, or its API key.
Identity(figure, e) ==
    IF figure \in {"apiKeys", "apiKeyTrends"} THEN e.k.apiKey ELSE e.k.key

Total(bag, weight(_)) ==
    MapThenSumSet(LAMBDA r : bag[r] * weight(r), Rows(bag))

Only(bag, P(_)) == [r \in {x \in Rows(bag) : P(x)} |-> bag[r]]

RequestCount(bag) == Total(bag, LAMBDA r : 1)
FailureCount(bag) == Total(bag, LAMBDA r : IF r.e.k.failed THEN 1 ELSE 0)
TotalTokens(bag)  == Total(bag, LAMBDA r : Tokens(r.e))
TotalCost(bag)    == Total(bag, LAMBDA r : CostOf(r.e, r.priced))
PricedBillable(bag) ==
    Total(bag, LAMBDA r : IF KnownCost(r.e, r.priced) THEN 1 ELSE 0)
MissingPricing(bag) == RequestCount(bag) - PricedBillable(bag)

CostStatus(bag) ==
    assessCostCompleteness(MissingPricing(bag), PricedBillable(bag))

\* buildAnalyticsAggregateRow and the columns the reports share.
Aggregate(bag) ==
    [requests |-> RequestCount(bag), failures |-> FailureCount(bag),
     tokens |-> TotalTokens(bag), cost |-> TotalCost(bag),
     status |-> CostStatus(bag)]

-----------------------------------------------------------------------------
(* The figures.                                                            *)

\* mapAnalyticsSummary: a period without requests has no cost.
mapAnalyticsSummary(bag) ==
    IF RequestCount(bag) = 0
    THEN [Aggregate(bag) EXCEPT !.status = "unavailable"]
    ELSE Aggregate(bag)

Bucket(r, f) == IF f.byDay THEN LocalDay(r.at) ELSE HourStart(r.at)

GroupedBy(bag, key(_)) ==
    [b \in {key(r) : r \in Rows(bag)} |->
        Aggregate(Only(bag, LAMBDA r : key(r) = b))]

buildAnalyticsCoreTrend(bag, f) == GroupedBy(bag, LAMBDA r : Bucket(r, f))

\* The heatmap's cells are local hours.
buildAnalyticsHeatmapFromAggregates(bag) ==
    GroupedBy(bag, LAMBDA r : LocalHour(r.at))

LastUsedAt(bag) == Max({r.e.t : r \in Rows(bag)})

\* total_cost DESC, total_tokens DESC, last_used_at DESC; what is equal in
\* all three is ordered by identity in the merged breakdown and by nothing
\* in the SQL one.
RanksBefore(a, b) ==
    \/ TotalCost(a) > TotalCost(b)
    \/ /\ TotalCost(a) = TotalCost(b)
       /\ \/ TotalTokens(a) > TotalTokens(b)
          \/ /\ TotalTokens(a) = TotalTokens(b)
             /\ LastUsedAt(a) > LastUsedAt(b)

Identities(figure, bag) == {Identity(figure, r.e) : r \in Rows(bag)}

RowsOf(figure, bag, id) == Only(bag, LAMBDA r : Identity(figure, r.e) = id)

\* The identities a breakdown may show: the first BreakdownLimit of them.
IsBreakdown(shown, figure, bag) ==
    LET all == Identities(figure, bag)
    IN  /\ shown \subseteq all
        /\ Cardinality(shown) = Min({BreakdownLimit, Cardinality(all)})
        /\ \A k \in shown, h \in all \ shown :
              ~ RanksBefore(RowsOf(figure, bag, h), RowsOf(figure, bag, k))

Breakdown(figure, bag) ==
    CHOOSE shown \in SUBSET Identities(figure, bag) :
        IsBreakdown(shown, figure, bag)

\* countModelsWithIncompletePricing, over the models of the breakdown.
IncompleteModels(bag) ==
    LET models == GroupedBy(bag, LAMBDA r : r.e.k.model)
    IN  Cardinality({m \in DOMAIN models : models[m].status # "available"})

\* The rows the query of a figure keeps.
Selects(figure, e, f) ==
    /\ ProviderMatches(e, f)
    /\ figure \in {"keys", "apiKeys"} => Identity(figure, e) # NoValue
    /\ figure = "keyTrends" =>
          Identity(figure, e) \in Breakdown("keys", got["keys"])
    /\ figure = "apiKeyTrends" =>
          Identity(figure, e) \in Breakdown("apiKeys", got["apiKeys"])
    /\ figure = "models"    => e.k.model # NoValue
    /\ figure = "providers" => e.k.provider # NoValue

Table(seg) == IF seg.source = "rollups" THEN rolled ELSE events

Statement(figure, seg) ==
    SetToBag({Row(e, seg) : e \in {x \in Table(seg) :
                InSegment(x, seg) /\ Selects(figure, x, filter)}})

\* The same, attributing a rollup row to the time of its events: what the
\* raw events alone would show.
RawStatement(figure, w) ==
    SetToBag({Row(e, Raw(0, 0)) : e \in {x \in events :
                /\ InSegment(x, analyticsCoreRawWindowPlan(w)[1])
                /\ Selects(figure, x, filter)}})

-----------------------------------------------------------------------------
(* Building a report.                                                      *)

Jobs(figures, segments) ==
    [i \in 1 .. Len(figures) * Len(segments) |->
        [figure  |-> figures[((i - 1) \div Len(segments)) + 1],
         segment |-> segments[((i - 1) % Len(segments)) + 1]]]

NoReport == [figure \in Figures |-> EmptyBag]

ReportInit ==
    /\ filter = CHOOSE f \in Filters : TRUE
    /\ stage = "idle"
    /\ todo = <<>>
    /\ got = NoReport
    /\ base = {}
    /\ writes = 0

\* GET /analytics/summary: the plan of the current period.
BuildAnalyticsCoreWithFilter(f) ==
    /\ stage = "idle"
    /\ filter' = f
    /\ stage' = "core"
    /\ todo' = Jobs(CoreFigures, Plan(f))
    /\ got' = NoReport
    /\ base' = events
    /\ writes' = 0

ReadSegment ==
    /\ todo # <<>>
    /\ LET job == Head(todo)
       IN  got' = [got EXCEPT ![job.figure] =
                      @ (+) Statement(job.figure, job.segment)]
    /\ todo' = Tail(todo)
    /\ UNCHANGED <<filter, stage, base, writes>>

\* analyticsPreviousPeriodFilter: the window of equal length before this one.
HasPreviousPeriod(f) == f.bounded /\ f.end > f.start

PreviousPeriod(f) ==
    [f EXCEPT !.start = f.start - (f.end - f.start + 1), !.end = f.start - 1]

\* Of the previous period's figures only the summary is used.
buildAnalyticsSummaryComparison ==
    /\ stage = "core" /\ todo = <<>>
    /\ stage' = "previous"
    /\ todo' = IF HasPreviousPeriod(filter)
               THEN Jobs(<<"previous">>, Plan(PreviousPeriod(filter)))
               ELSE <<>>
    /\ UNCHANGED <<filter, got, base, writes>>

\* analyticsFixedHeatmapFilter
HeatmapWindow(f) ==
    [f EXCEPT !.bounded = TRUE, !.start = f.anchor - HeatmapTicks,
              !.end = f.anchor]

BuildAnalyticsHeatmapWithFilter ==
    /\ stage = "previous" /\ todo = <<>>
    /\ stage' = "heatmap"
    /\ todo' = Jobs(<<"heatmap">>, Plan(HeatmapWindow(filter)))
    /\ UNCHANGED <<filter, got, base, writes>>

Respond ==
    /\ stage = "heatmap" /\ todo = <<>>
    /\ stage' = "done"
    /\ UNCHANGED <<filter, todo, got, base, writes>>

\* A statement fails and with it the request; or the response is sent.
EndReport ==
    /\ stage = "done" \/ todo # <<>>
    /\ stage' = "idle"
    /\ todo' = <<>>
    /\ got' = NoReport
    /\ base' = {}
    /\ writes' = 0
    /\ UNCHANGED filter

ReportNext ==
    /\ \/ \E f \in Filters : BuildAnalyticsCoreWithFilter(f)
       \/ ReadSegment
       \/ buildAnalyticsSummaryComparison
       \/ BuildAnalyticsHeatmapWithFilter
       \/ Respond
       \/ EndReport
    /\ UNCHANGED dataVars

\* A writer commits between two statements.
WriterNext ==
    /\ stage # "done"
    /\ DataNext
    /\ stage # "idle" => writes < MaxWrites
    /\ writes' = IF stage = "idle" THEN 0 ELSE writes + 1
    /\ UNCHANGED <<filter, stage, todo, got, base>>

AnalyticsInit == DataInit /\ ReportInit
AnalyticsNext == ReportNext \/ WriterNext
AnalyticsSpec == AnalyticsInit /\ [][AnalyticsNext]_<<dataVars, reportVars>>

-----------------------------------------------------------------------------
(* Properties.                                                             *)

\* The window a figure reports on.
WindowOf(figure) ==
    CASE figure = "previous" -> PreviousPeriod(filter)
      [] figure = "heatmap"  -> HeatmapWindow(filter)
      [] OTHER               -> filter

Expected(figure) ==
    figure = "previous" => HasPreviousPeriod(filter)

InWindow(figure, e) ==
    /\ InSegment(e, analyticsCoreRawWindowPlan(WindowOf(figure))[1])
    /\ Selects(figure, e, filter)

RowsWith(figure, e) == {r \in Rows(got[figure]) : r.e = e}

CountedOnce(figure, e) ==
    \E r \in Rows(got[figure]) :
        RowsWith(figure, e) = {r} /\ got[figure][r] = 1

NotCounted(figure, e) == RowsWith(figure, e) = {}

\* Every figure of a finished report counts each usage event of its window
\* that was stored when the report started exactly once, an event stored
\* while it was being built at most once, and no other: whichever segments
\* the window was split into, whatever was stored and however far the
\* backfill got between the statements (BuildAnalyticsSummaryWithFilter).
ReportExactlyOnce ==
    stage = "done" =>
        \A figure \in Figures, e \in events :
            IF Expected(figure) /\ InWindow(figure, e)
            THEN CountedOnce(figure, e) \/ (e \notin base /\ NotCounted(figure, e))
            ELSE NotCounted(figure, e)

\* The day buckets of a report that mixes rollups and raw events are those
\* the raw events alone would give (analyticsBucketSQLExpression,
\* analyticsRollupBucketSQLExpression).
DayBucketsConsistent ==
    stage = "done" /\ writes = 0 /\ filter.byDay =>
        buildAnalyticsCoreTrend(got["trend"], filter)
            = buildAnalyticsCoreTrend(RawStatement("trend", filter), filter)

\* When nothing was stored while a report was built, all its figures are
\* the ones the raw events alone would give, with the same cost status, and
\* they agree with each other: reading rollups, raw events or both makes no
\* difference (buildAnalyticsCoreSnapshot, BuildAnalyticsHeatmapWithFilter).
SourcesAgree ==
    stage = "done" /\ writes = 0 =>
        /\ mapAnalyticsSummary(got["summary"])
              = mapAnalyticsSummary(RawStatement("summary", filter))
        /\ buildAnalyticsCoreTrend(got["trend"], filter)
              = buildAnalyticsCoreTrend(RawStatement("trend", filter), filter)
        /\ \A figure \in {"keys", "apiKeys"} :
              IsBreakdown(Breakdown(figure, got[figure]), figure,
                          RawStatement(figure, filter))
        /\ buildAnalyticsHeatmapFromAggregates(got["heatmap"])
              = buildAnalyticsHeatmapFromAggregates(
                    RawStatement("heatmap", HeatmapWindow(filter)))
        /\ IncompleteModels(got["models"])
              = IncompleteModels(RawStatement("models", filter))
=============================================================================
