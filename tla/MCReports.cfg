SPECIFICATION MCSpec
CONSTANTS
    Foci = {"analytics", "overview", "listing", "diagnostics"}
    TicksPerHour = 2
    HoursPerDay = 2
    Offset = 2
    LastTick = 5
    Workloads <- ReportWorkloads
    MaxEvents = 4
    Filters <- ReportFilters
    HeatmapTicks = 4
    BreakdownLimit = 1
    MaxWrites = 1
    OverviewFilters <- LongAndDayRanges
    TicksPerSecond = 2
    TicksPerMinute = 2
    DefaultGrid <- ThreeBlocks
    DayGrid <- TwoBlocks
    PresetBlocks = 2
    PresetWindow = 4
    DailyThreshold = 14
    Clocks = {3, 5}
    MaxOverviewWrites = 1
    Selections <- ReportSelections
    PageSize = 1
    ExportLimit = 2
    MaxListWrites = 2
    DiagnosticFilters <- ReportDiagnostics
    GroupLimit = 1
    Bins = 4
    MaxDiagnosticWrites = 1
INVARIANTS
    ReportExactlyOnce
    SourcesAgree
    OverviewAddsUp
    PagesSkipNothing
    ExportComplete
    DiagnosticsConsistent
