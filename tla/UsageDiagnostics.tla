--------------------------- MODULE UsageDiagnostics ---------------------------
(***************************************************************************)
(* The diagnostic reports over a selection of raw attempts: performance    *)
(* (usage_performance.go), failures (usage_failures.go), model mappings    *)
(* (usage_model_mappings.go) and the analysis tab (usage_analysis.go).     *)
(* Each combines several statements: totals first, then the groups that    *)
(* are shown, the remainder computed by subtraction.  The first three run  *)
(* in one transaction, which holds the only database connection, so no     *)
(* writer commits before it ends; the analysis tab has no transaction.     *)
(***************************************************************************)
EXTENDS ReportData, Sequences

CONSTANTS
    DiagnosticFilters,   \* the windows and providers asked for
    GroupLimit,          \* UsagePerformanceBreakdownLimit and its siblings
    Bins,                \* UsagePerformanceHistogramBins
    MaxDiagnosticWrites  \* bound: commits during one report

ASSUME UsageDiagnosticsAssumption ==
    /\ GroupLimit \in Nat \ {0} /\ Bins \in Nat \ {0}
    /\ MaxDiagnosticWrites \in Nat
    /\ DiagnosticFilters \subseteq [start : Ticks, end : Ticks, provider : STRING]

\* The statements of each report, in the order the code issues them.  "samples"
\* stands for the statements of the distributions; the failure breakdowns by
\* status, category and endpoint are of the same form as the three kept.
PerformanceStatements == <<"totals", "execution", "samples",
                           "providers", "providerAttempts",
                           "models", "modelAttempts",
                           "accounts", "accountAttempts">>
FailureStatements  == <<"totals", "providers", "accounts", "models">>
MappingStatements  == <<"totals", "mappings">>
AnalysisStatements == <<"apis", "models", "apiModels">>

Statements == [performance |-> PerformanceStatements,
               failures    |-> FailureStatements,
               mappings    |-> MappingStatements,
               analysis    |-> AnalysisStatements]

Reports == DOMAIN Statements

VARIABLES
    diag,       \* the report, its filter and the number of statements run
    tx,         \* a transaction holds the connection
    read,       \* statement -> the attempts it selected
    changes     \* history: the commits since the report began

diagVars == <<diag, tx, read, changes>>

\* The attempts a report is about: failures counts failed ones, and model
\* mappings those with an alias, the others being its coverage gap.
Population(report, f) ==
    {e \in events :
        /\ f.start <= e.t /\ e.t <= f.end
        /\ f.provider \in {NoValue, e.k.provider}
        /\ report = "failures" => e.k.failed
        /\ report = "mappings" => e.k.alias # NoValue}

-----------------------------------------------------------------------------
(* Populations and groups.                                                 *)

Successful(E) == {e \in E : ~ e.k.failed}

\* The execution populations as SQL counts them ...
SQLGeneratingStreaming(E) ==
    {e \in Successful(E) : e.k.generate = "yes" /\ e.k.stream = "yes"}

SQLNonGenerating(E) == {e \in Successful(E) : e.k.generate = "no"}

SQLNonStreaming(E) ==
    {e \in Successful(E) : e.k.generate \in {"null", "yes"} /\ e.k.stream = "no"}

\* ... the remainder being unknown, and as Go classifies one attempt.
usageExecutionCohort(e) ==
    CASE e.k.generate = "no" -> "non_generating"
      [] e.k.generate # "no" /\ e.k.stream = "no" -> "non_streaming"
      [] e.k.generate = "yes" /\ e.k.stream = "yes" -> "generating_streaming"
      [] OTHER -> "unknown"

Cohort(E, cohort) == {e \in Successful(E) : usageExecutionCohort(e) = cohort}

UnknownExecution(totals, execution) ==
    Cardinality(Successful(totals))
        - Cardinality(SQLGeneratingStreaming(execution))
        - Cardinality(SQLNonGenerating(execution))
        - Cardinality(SQLNonStreaming(execution))

\* unknownExecutionSQL
SQLUnknown(E) ==
    {e \in Successful(E) :
        /\ "null" \in {e.k.generate, e.k.stream}
        /\ e.k.generate # "no" /\ e.k.stream # "no"}

validTTFT(e) == e.k.ttft > 0 /\ e.k.latency >= e.k.ttft

\* The latency samples of a population, the place of one of them in ascending
\* order, and their nearest-rank percentile.
Samples(E) == {e \in E : e.k.latency > 0}

Rank(samples, e) ==
    Cardinality({x \in samples :
        x.k.latency < e.k.latency \/ (x.k.latency = e.k.latency /\ x.id <= e.id)})

CeilOf(a, b) == (a + b - 1) \div b

nearestRankPercentile(samples, percent) ==
    LET index == Max({1, CeilOf(percent * Cardinality(samples), 100)})
    IN  (CHOOSE e \in samples : Rank(samples, e) = index).k.latency

UpperBound(E) == Max({0} \cup {e.k.latency : e \in E})

\* The histogram bin of one sample.
Bin(e, upper) == Min({(e.k.latency * Bins) \div upper, Bins - 1})

Dimension(statement, e) ==
    CASE statement \in {"providers", "providerAttempts"} -> e.k.provider
      [] statement \in {"models", "modelAttempts"}       -> e.k.model
      [] statement \in {"accounts", "accountAttempts"}   -> e.k.key
      [] statement = "apis"      -> e.k.apiKey
      [] statement = "apiModels" -> <<e.k.apiKey, e.k.model>>
      [] statement = "mappings"  -> <<e.k.alias, e.k.model, e.k.provider>>

\* Blank values form no group, but for the analysis tab.
Values(statement, E) ==
    {v \in {Dimension(statement, e) : e \in E} :
        statement \in {"providers", "models", "accounts"} => v # NoValue}

Group(statement, E, value) == {e \in E : Dimension(statement, e) = value}

\* normalize: the analysis tab shows a blank API key as "unknown", after the
\* statements have grouped by the keys as they are stored.
normalize(key) == IF key = NoValue THEN "unknown" ELSE key

\* modelsByAPI: the pairs listed with an API are those of its shown name, so a
\* blank key and one that reads "unknown" have one list between them.
modelsByAPI(api, E) == {v \in Values("apiModels", E) : normalize(v[1]) = normalize(api)}

\* The groups shown: the largest, at most GroupLimit of them.
IsTop(top, statement, E) ==
    /\ top \subseteq Values(statement, E)
    /\ Cardinality(top) = Min({GroupLimit, Cardinality(Values(statement, E))})
    /\ \A v \in top, w \in Values(statement, E) \ top :
          Cardinality(Group(statement, E, v)) >= Cardinality(Group(statement, E, w))

\* OtherCount of a breakdown that ranks the groups with one statement and
\* loads the attempts of the ranked groups with the next.
OtherCount(total, top, statement, E) ==
    Cardinality(total)
        - Cardinality({e \in E : Dimension(statement, e) \in top})

-----------------------------------------------------------------------------
(* Building a report.                                                      *)

NoFilter == [start |-> 0, end |-> 0, provider |-> NoValue]

DiagInit ==
    /\ diag = [report |-> "none", filter |-> NoFilter, done |-> 0]
    /\ tx = FALSE /\ read = <<>> /\ changes = 0

BeginDiagnosticUnlocked(report, f) ==
    /\ diag.report = "none"
    /\ diag' = [report |-> report, filter |-> f, done |-> 0]
    /\ tx' = FALSE /\ changes' = 0
    /\ UNCHANGED read

BeginDiagnostic(report, f) ==
    /\ diag.report = "none"
    /\ diag' = [report |-> report, filter |-> f, done |-> 0]
    /\ tx' = (report # "analysis")
    /\ changes' = 0
    /\ UNCHANGED read

RunStatement ==
    /\ diag.report # "none"
    /\ diag.done < Len(Statements[diag.report])
    /\ LET s == Statements[diag.report][diag.done + 1]
       IN  read' = [x \in DOMAIN read \cup {s} |->
                       IF x = s THEN Population(diag.report, diag.filter) ELSE read[x]]
    /\ diag' = [diag EXCEPT !.done = @ + 1]
    /\ tx' = (tx /\ diag.done + 1 < Len(Statements[diag.report]))
    /\ UNCHANGED changes

EndDiagnostic ==
    /\ diag.report # "none"
    /\ diag' = [report |-> "none", filter |-> NoFilter, done |-> 0]
    /\ tx' = FALSE /\ read' = <<>> /\ changes' = 0

DiagNext ==
    \/ /\ \/ \E r \in Reports, f \in DiagnosticFilters : BeginDiagnostic(r, f)
          \/ RunStatement
          \/ EndDiagnostic
       /\ UNCHANGED dataVars
    \/ /\ ~ tx
       /\ IntakeNext
       /\ diag.report # "none" => changes < MaxDiagnosticWrites
       /\ changes' = IF diag.report = "none" THEN 0 ELSE changes + 1
       /\ UNCHANGED <<diag, tx, read>>

DiagSpec == DataInit /\ DiagInit /\ [][DiagNext]_<<dataVars, diagVars>>

-----------------------------------------------------------------------------
(* Properties.                                                             *)

Complete(report) ==
    diag.report = report /\ diag.done = Len(Statements[report])

\* A population and the same population as a group's summary counts it.
PopulationsConsistent ==
    LET total == read["totals"]
    IN  /\ UnknownExecution(total, read["execution"])
              = Cardinality(Cohort(total, "unknown"))
        /\ SQLNonStreaming(read["execution"]) = Cohort(total, "non_streaming")
        /\ SQLUnknown(read["samples"]) = Cohort(total, "unknown")
        /\ \A e \in SQLUnknown(read["samples"]) :
              validTTFT(e) => e.k.ttft <= UpperBound(read["samples"])

\* The groups shown and the remainder are the whole of the total.
GroupsConsistent(ranked, attempts) ==
    LET total == read["totals"]
    IN  \A top \in SUBSET Values(ranked, read[ranked]) :
            IsTop(top, ranked, read[ranked]) =>
                OtherCount(total, top, attempts, read[attempts])
                    = Cardinality({e \in total : Dimension(ranked, e) \notin top})

\* Group samples fall inside the histogram of the whole population.
HistogramsConsistent(attempts) ==
    \A e \in Successful(read[attempts]) :
        /\ e.k.latency <= UpperBound(Successful(read["samples"]))
        /\ e.k.latency > 0 =>
              Bin(e, UpperBound(Successful(read["samples"]))) \in 0 .. Bins - 1

PercentilesConsistent(percent) ==
    LET samples == Samples(Successful(read["samples"]))
        value   == nearestRankPercentile(samples, percent)
        AtMost(v) == Cardinality({e \in samples : e.k.latency <= v})
    IN  samples # {} =>
            /\ 100 * AtMost(value) >= percent * Cardinality(samples)
            /\ \A e \in samples : e.k.latency < value =>
                  100 * AtMost(e.k.latency) < percent * Cardinality(samples)

\* The models listed under an API are a breakdown of the attempts of all APIs
\* that are shown by its name: of its own, unless it is blank or "unknown".
AnalysisConsistent ==
    \A api \in Values("apis", read["apis"]) :
        UNION {Group("apiModels", read["apiModels"], v) : v \in modelsByAPI(api, read["apiModels"])}
          = {e \in read["apis"] : normalize(e.k.apiKey) = normalize(api)}

\* However writers and the statements of a report interleave, the parts of a
\* finished diagnostic report describe one population: the execution
\* populations SQL counts are those each group's summary counts, with the
\* unknown ones, computed by subtraction, exactly the unclassifiable
\* attempts; every breakdown and its remainder make up the total; group
\* samples lie within the histogram of the total; the percentiles are the
\* smallest samples with enough of the population at or below them; and
\* the analysis tab, unless something commits meanwhile, splits the attempts
\* under each API's name among its models
\* (buildUsageAttemptPerformanceSnapshot, loadUsagePerformanceBreakdown,
\* BuildUsageFailureDistributionWithFilter, BuildUsageModelMappingsWithFilter,
\* buildUsageAnalysisStats).
DiagnosticsConsistent ==
    /\ Complete("performance") =>
          /\ PopulationsConsistent
          /\ GroupsConsistent("providers", "providerAttempts")
          /\ GroupsConsistent("models", "modelAttempts")
          /\ GroupsConsistent("accounts", "accountAttempts")
          /\ HistogramsConsistent("modelAttempts")
          /\ \A percent \in {50, 95} : PercentilesConsistent(percent)
    /\ Complete("failures") =>
          \A s \in {"providers", "accounts", "models"} : GroupsConsistent(s, s)
    /\ Complete("mappings") => GroupsConsistent("mappings", "mappings")
    /\ Complete("analysis") /\ changes = 0 => AnalysisConsistent
=============================================================================
