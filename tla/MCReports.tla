------------------------------ MODULE MCReports ------------------------------
(***************************************************************************)
(* The reports over the shared tables.  A behaviour is about one of them   *)
(* (its focus): the reports share nothing but the tables, and a report     *)
(* only reads, so two of them never disturb each other.                    *)
(***************************************************************************)
EXTENDS AnalyticsReport, UsageOverview, UsageListing, UsageDiagnostics

CONSTANT Foci      \* the reports this run is about

VARIABLE focus

-----------------------------------------------------------------------------
(* Values for the constants.                                               *)

K(provider, model, key, apiKey, failed, quality, tokens) ==
    [provider |-> provider, model |-> model, alias |-> NoValue, key |-> key,
     apiKey |-> apiKey, failed |-> failed, quality |-> quality,
     tokens |-> tokens, generate |-> "yes", stream |-> "yes",
     latency |-> 2, ttft |-> 1]

Billed   == K("p1", "m1", "k1", NoValue, FALSE, "complete", 2)
Unbilled == K("p2", "m2", "k2", "a1", TRUE, "unclassified", 1)

ReportKinds == {Billed, Unbilled}

Attempt(generate, stream, latency) ==
    [K("p1", "m1", "k1", "a1", FALSE, "complete", 1) EXCEPT
        !.generate = generate, !.stream = stream, !.latency = latency]

DiagnosticKinds ==
    {Attempt("yes", "yes", 3),
     [Attempt("no", "no", 1) EXCEPT !.model = "m2", !.alias = "l1"],
     [Attempt("null", "yes", 2) EXCEPT !.provider = "p2", !.key = NoValue, !.apiKey = NoValue],
     [Attempt("null", "no", 2) EXCEPT !.failed = TRUE, !.alias = "l1", !.apiKey = "unknown"]}

At(ticks, kinds) == [t : ticks, k : kinds]

\* What may arrive, by focus: everywhere, or at the ticks that differ in what
\* the report tells apart (for an analytics report a tick before the full
\* hours, in them and after them).
Arrivals(f) ==
    CASE f = "analytics"   -> At(Ticks, {Billed}) \cup At({1, 3, 4}, {Unbilled})
      [] f = "overview"    -> At({0, 1, 4}, ReportKinds)
      [] f = "listing"     -> At({1, 2, 5}, ReportKinds)
      [] f = "diagnostics" -> At({4, 5}, DiagnosticKinds)

ReportWorkloads ==
    {Arrivals(f) : f \in {"analytics", "overview", "listing", "diagnostics"}}

\* Bound: the events stored, by focus.
Bound(f) == CASE f = "analytics" -> 2 [] f = "listing" -> 4 [] OTHER -> 3

F(start, end, provider, byDay) ==
    [bounded |-> TRUE, start |-> start, end |-> end, provider |-> provider,
     byDay |-> byDay, anchor |-> 5]

ReportFilters ==
    {F(1, 5, NoValue, TRUE), F(2, 4, NoValue, FALSE),
     F(3, 3, "p1", FALSE),
     [F(0, 5, NoValue, TRUE) EXCEPT !.bounded = FALSE]}

O(range, start, end, provider) ==
    [range |-> range, start |-> start, end |-> end, provider |-> provider]

\* A window of seven days and one a tick shorter, which is as many minutes; a
\* day; and all, whose start and end mean nothing.
LongAndDayRanges ==
    {O("7d", -23, 5, NoValue), O("custom", -22, 5, "p1"),
     O("24h", 0, 4, NoValue), O("all", 0, 0, NoValue)}
PresetRanges  == {O("8h", 0, 4, NoValue)}

ThreeBlocks == [blocks |-> 3, span |-> 2]
TwoBlocks   == [blocks |-> 2, span |-> 2]
OneBlock    == [blocks |-> 1, span |-> 6]

S(start, end, model, result) ==
    [start |-> start, end |-> end, provider |-> NoValue, model |-> model,
     account |-> NoValue, minLatency |-> 1, result |-> result]

ReportSelections == {S(0, 4, NoValue, NoValue), S(1, 5, "m1", "success")}

ReportDiagnostics == {[start |-> 0, end |-> 4, provider |-> NoValue]}

-----------------------------------------------------------------------------

MCInit ==
    /\ focus \in Foci
    /\ DataInit /\ arrivals = Arrivals(focus)
    /\ ReportInit /\ OverviewInit /\ ListInit /\ DiagInit

MCNext ==
    /\ \/ /\ focus = "analytics" /\ AnalyticsNext
          /\ UNCHANGED <<overviewVars, listVars, diagVars>>
       \/ /\ focus = "overview" /\ OverviewNext
          /\ UNCHANGED <<reportVars, listVars, diagVars>>
       \/ /\ focus = "listing" /\ ListNext
          /\ UNCHANGED <<reportVars, overviewVars, diagVars>>
       \/ /\ focus = "diagnostics" /\ DiagNext
          /\ UNCHANGED <<reportVars, overviewVars, listVars>>
    /\ Cardinality(events') <= Bound(focus)
    /\ UNCHANGED focus

MCSpec ==
    MCInit /\ [][MCNext]_<<focus, dataVars, reportVars, overviewVars,
                           listVars, diagVars>>
=============================================================================
