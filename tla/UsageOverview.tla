---------------------------- MODULE UsageOverview ----------------------------
(***************************************************************************)
(* The dashboard's overview (usage_overview.go) and its request health     *)
(* grid (usage_health.go), asked for with one filter, one after the other. *)
(* The overview loads the events of the window, then the prices, and folds *)
(* them event by event into a summary, three series and a grid of health   *)
(* blocks.  Request health reads its totals and its blocks from SQL        *)
(* aggregates, in two statements.  None of the four statements shares a    *)
(* transaction, so writers may commit between any two of them.             *)
(***************************************************************************)
EXTENDS ReportData, Sequences, SequencesExt, TLC

CONSTANTS
    OverviewFilters,   \* the ranges asked for
    TicksPerSecond,    \* unixepoch's resolution
    TicksPerMinute,    \* the resolution of the length of a window
    DefaultGrid,       \* blocks and span of the grid of a long range
    DayGrid,           \* blocks and span of the grid of range "24h"
    PresetBlocks,      \* blocks of the grid of the other short ranges
    PresetWindow,      \* usageOverviewHealthPresetWindow, in ticks
    DailyThreshold,    \* usageOverviewDailyBucketThresholdMinutes
    Clocks,            \* bound: the times at which health grids are built
    MaxOverviewWrites  \* bound: commits during one dashboard load

Grid == [blocks : Nat \ {0}, span : Nat \ {0}]

ASSUME UsageOverviewAssumption ==
    /\ TicksPerSecond \in Nat \ {0} /\ TicksPerMinute \in Nat \ {0}
    /\ PresetBlocks \in Nat \ {0}
    /\ PresetWindow \in Nat \ {0} /\ DailyThreshold \in Nat
    /\ Clocks \subseteq Int /\ MaxOverviewWrites \in Nat
    /\ DefaultGrid \in Grid /\ DayGrid \in Grid
    /\ DefaultGrid.span % TicksPerSecond = 0
    /\ DayGrid.blocks * DayGrid.span = PresetWindow
    /\ OverviewFilters \subseteq
          [range : STRING, start : Int, end : Int, provider : STRING]
    /\ \A f \in OverviewFilters : f.range # "all" => f.start <= f.end

VARIABLES
    ask,        \* the filter of the load, and its stage
    loaded,     \* the overview's events, in the order they were read
    priced,     \* the priced models the overview read
    clock,      \* time.Now() when each health grid was built
    totals,     \* request health's totals: the events counted
    blocks,     \* request health's blocks: block -> the events counted
    commits     \* history: the commits since the load began

overviewVars == <<ask, loaded, priced, clock, totals, blocks, commits>>

\* The one range without a start and an end, and the default one; its start and
\* end are nil, so that no definition below looks at them.
Bounded(f) == f.range # "all"

InScope(f, e) ==
    /\ Bounded(f) => f.start <= e.t /\ e.t <= f.end
    /\ f.provider = NoValue \/ e.k.provider = f.provider

-----------------------------------------------------------------------------
(* The overview's fold.                                                    *)

\* How one event's cost status enters its bucket.
mergeUsageOverviewCostStatusLast(requests, existing, incoming) == incoming

mergeUsageOverviewCostStatus(requests, existing, incoming) ==
    CASE requests = 0         -> incoming
      [] existing = incoming  -> existing
      [] OTHER                -> "partial"

EmptyRow == [requests |-> 0, tokens |-> 0, cost |-> 0, status |-> NoValue]

AddToRow(row, e) ==
    LET known == KnownCost(e, e.k.model \in priced)
    IN  [requests |-> row.requests + 1,
         tokens   |-> row.tokens + Tokens(e),
         cost     |-> row.cost + CostOf(e, e.k.model \in priced),
         status   |-> mergeUsageOverviewCostStatus(row.requests, row.status,
                          IF known THEN "available" ELSE "unavailable")]

AddToKey(series, key, e) ==
    LET row == IF key \in DOMAIN series THEN series[key] ELSE EmptyRow
    IN  (key :> AddToRow(row, e)) @@ series

\* applyUsageEventToOverviewSeries: the bucket and the bucket of the model.
AddToSeries(series, bucket, e) ==
    AddToKey(AddToKey(series, <<bucket, "all">>, e), <<bucket, e.k.model>>, e)

usageOverviewBucket(e, byDay) == IF byDay THEN LocalDay(e.t) ELSE HourStart(e.t)

CeilDiv(a, b) == (a + b - 1) \div b

\* Whole minutes, rounded up, and at least one.
computeWindowMinutes(f) ==
    IF Bounded(f) THEN Max({1, CeilDiv(f.end - f.start, TicksPerMinute)}) ELSE 0

shouldBucketUsageOverviewByDay(f) ==
    f.range \in {"all", "7d"} \/ computeWindowMinutes(f) >= DailyThreshold

\* The hour of the window's end and the hours before it, a day in all.
latestHourlySeriesStart(f) ==
    HourStart(f.end) - (HoursPerDay - 1) * TicksPerHour

\* Without an end the hourly series has no start either.
InHourlySeries(f, e) == Bounded(f) => e.t >= latestHourlySeriesStart(f)

EmptyOverview == [series |-> <<>>, hourly |-> <<>>, daily |-> <<>>,
                  missing |-> 0, known |-> 0]

applyUsageEventToOverview(o, e) ==
    LET f == ask.filter
        known == KnownCost(e, e.k.model \in priced)
    IN  [series |-> AddToSeries(o.series, usageOverviewBucket(e,
                        shouldBucketUsageOverviewByDay(f)), e),
         hourly |-> IF InHourlySeries(f, e)
                    THEN AddToSeries(o.hourly, usageOverviewBucket(e, FALSE), e)
                    ELSE o.hourly,
         daily  |-> AddToSeries(o.daily, usageOverviewBucket(e, TRUE), e),
         missing |-> o.missing + IF known THEN 0 ELSE 1,
         known   |-> o.known + IF known THEN 1 ELSE 0]

buildUsageOverviewFromEvents ==
    FoldLeft(applyUsageEventToOverview, EmptyOverview, loaded)

-----------------------------------------------------------------------------
(* The health grid.                                                        *)

ShortRanges == {"4h", "8h", "12h", "24h", "today"}

usageOverviewHealthGrid(f) ==
    CASE f.range \notin ShortRanges -> DefaultGrid
      [] f.range = "24h"            -> DayGrid
      [] OTHER -> [blocks |-> PresetBlocks,
                   span   |-> CeilDiv(PresetWindow, PresetBlocks)]

\* The window of a grid that is built at the time now.
usageOverviewHealthWindow(f, now) ==
    LET grid == usageOverviewHealthGrid(f)
        end  == IF Bounded(f) THEN f.end ELSE now
        next == (end \div grid.span) * grid.span + grid.span
    IN  IF f.range \in ShortRanges
        THEN [start |-> end - PresetWindow, end |-> end]
        ELSE [start |-> next - grid.blocks * grid.span, end |-> next]

BlockIndexes(f) == 0 .. usageOverviewHealthGrid(f).blocks - 1

BlockStart(f, now, i) ==
    usageOverviewHealthWindow(f, now).start + i * usageOverviewHealthGrid(f).span

\* updateUsageOverviewHealthBlock: the first block the event lies in.
OverviewBlock(f, now, i) ==
    {e \in ToSet(loaded) :
        /\ BlockStart(f, now, i) <= e.t
        /\ e.t < BlockStart(f, now, i) + usageOverviewHealthGrid(f).span}

BucketSeconds(f) == CeilDiv(usageOverviewHealthGrid(f).span, TicksPerSecond)

\* The index SQL computes: whole seconds, divided by whole seconds.
SQLBucketIndex(f, now, e) ==
    (e.t \div TicksPerSecond
        - usageOverviewHealthWindow(f, now).start \div TicksPerSecond)
            \div BucketSeconds(f)

SQLBlock(f, now, i) ==
    {e \in events :
        /\ InScope(f, e)
        /\ usageOverviewHealthWindow(f, now).start <= e.t
        /\ e.t < usageOverviewHealthWindow(f, now).end
        /\ SQLBucketIndex(f, now, e) = i}

-----------------------------------------------------------------------------
(* One load of the dashboard.                                              *)

NoClock == [overview |-> 0, health |-> 0]

\* Only a grid whose range has no end depends on the clock.
Readings == IF Bounded(ask.filter) THEN {0} ELSE Clocks

OverviewInit ==
    /\ ask = [filter |-> CHOOSE f \in OverviewFilters : TRUE, stage |-> "idle"]
    /\ loaded = <<>> /\ priced = {} /\ clock = NoClock
    /\ totals = {} /\ blocks = <<>> /\ commits = 0

Stage(from, to) == ask.stage = from /\ ask' = [ask EXCEPT !.stage = to]

GetUsageOverview(f) ==
    /\ ask.stage = "idle"
    /\ ask' = [filter |-> f, stage |-> "events"]
    /\ commits' = 0
    /\ UNCHANGED <<loaded, priced, clock, totals, blocks>>

\* ORDER BY timestamp asc leaves events of one timestamp in any order.
loadUsageOverviewEventsWithFilter ==
    /\ Stage("events", "prices")
    /\ \E order \in SetToSeqs({e \in events : InScope(ask.filter, e)}) :
          /\ \A i, j \in DOMAIN order : i < j => order[i].t <= order[j].t
          /\ loaded' = order
    /\ UNCHANGED <<priced, clock, totals, blocks, commits>>

\* The prices, with which the overview and its grid are built at once.
loadPriceSettingsByModel ==
    /\ Stage("prices", "totals")
    /\ priced' = prices
    /\ \E now \in Readings : clock' = [clock EXCEPT !.overview = now]
    /\ UNCHANGED <<loaded, totals, blocks, commits>>

\* The grid is built before the totals are read, at a later time.
RequestHealthTotals ==
    /\ Stage("totals", "blocks")
    /\ \E now \in {t \in Readings : t >= clock.overview} :
          clock' = [clock EXCEPT !.health = now]
    /\ totals' = {e \in events : InScope(ask.filter, e)}
    /\ UNCHANGED <<loaded, priced, blocks, commits>>

RequestHealthBlocks ==
    /\ Stage("blocks", "done")
    /\ blocks' = [i \in BlockIndexes(ask.filter) |->
                     SQLBlock(ask.filter, clock.health, i)]
    /\ UNCHANGED <<loaded, priced, clock, totals, commits>>

EndLoad ==
    /\ Stage("done", "idle")
    /\ loaded' = <<>> /\ priced' = {} /\ clock' = NoClock
    /\ totals' = {} /\ blocks' = <<>> /\ commits' = 0

OverviewNext ==
    \/ /\ \/ \E f \in OverviewFilters : GetUsageOverview(f)
          \/ loadUsageOverviewEventsWithFilter
          \/ loadPriceSettingsByModel
          \/ RequestHealthTotals
          \/ RequestHealthBlocks
          \/ EndLoad
       /\ UNCHANGED dataVars
    \/ /\ DataNext
       /\ ask.stage # "idle" => commits < MaxOverviewWrites
       /\ commits' = IF ask.stage = "idle" THEN 0 ELSE commits + 1
       /\ UNCHANGED <<ask, loaded, priced, clock, totals, blocks>>

OverviewSpec ==
    DataInit /\ OverviewInit /\ [][OverviewNext]_<<dataVars, overviewVars>>

-----------------------------------------------------------------------------
(* Properties.                                                             *)

\* What a row must show, from the events it is about.
Expect(E) ==
    LET known == {e \in E : KnownCost(e, e.k.model \in priced)}
    IN  [requests |-> Cardinality(E),
         tokens   |-> MapThenSumSet(Tokens, E),
         cost     |-> MapThenSumSet(LAMBDA e : CostOf(e, e.k.model \in priced), E),
         status   |-> assessCostCompleteness(Cardinality(E \ known),
                                             Cardinality(known))]

ExpectSeries(E, bucket(_)) ==
    [key \in UNION {{<<bucket(e), "all">>, <<bucket(e), e.k.model>>} : e \in E} |->
        Expect({e \in E : bucket(e) = key[1] /\ key[2] \in {"all", e.k.model}})]

\* The overview's series, folded one event at a time in whatever order the
\* database returns events of one timestamp, show for every bucket and model
\* the same sums and the same cost status as counting its events would; the
\* hourly series shows exactly the last day of hours of a window that ends, and
\* every hour of range "all"; and an event is known or missing a price, never
\* both (buildUsageOverviewFromEvents).
OverviewAddsUp ==
    ask.stage \in {"totals", "blocks", "done"} =>
        LET E == ToSet(loaded)
            o == buildUsageOverviewFromEvents
            byDay == shouldBucketUsageOverviewByDay(ask.filter)
            recent == {e \in E :
                Bounded(ask.filter) =>
                    HourStart(ask.filter.end) - HourStart(e.t)
                        < HoursPerDay * TicksPerHour}
        IN  /\ o.series = ExpectSeries(E, LAMBDA e : usageOverviewBucket(e, byDay))
            /\ o.daily = ExpectSeries(E, LAMBDA e : LocalDay(e.t))
            /\ o.hourly = ExpectSeries(recent, LAMBDA e : HourStart(e.t))
            /\ assessCostCompleteness(o.missing, o.known) = Expect(E).status

\* Where the two health grids of one load have a block that begins at the same
\* time they show it the same, when nothing was stored in between.  The grids
\* of a range that ends have all blocks in common; those of range "all" end at
\* two readings of the clock
\* (buildUsageOverviewHealth, BuildUsageRequestHealthWithFilter).
HealthGridsAgree ==
    ask.stage = "done" /\ commits = 0 =>
        /\ totals = ToSet(loaded)
        /\ \A i, j \in BlockIndexes(ask.filter) :
              BlockStart(ask.filter, clock.overview, i)
                    = BlockStart(ask.filter, clock.health, j)
                => blocks[j] = OverviewBlock(ask.filter, clock.overview, i)
=============================================================================
