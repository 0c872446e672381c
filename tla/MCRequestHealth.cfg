SPECIFICATION MCSpec
CONSTANTS
    Foci = {"overview"}
    TicksPerHour = 2
    HoursPerDay = 2
    Offset = 2
    LastTick = 5
    Workloads <- ReportWorkloads
    MaxEvents = 4
    Filters <- ReportFilters
    HeatmapTicks = 4
    BreakdownLimit = 1
    MaxWrites = 1
    OverviewFilters <- PresetRanges
    TicksPerSecond = 2
    TicksPerMinute = 2
    DefaultGrid <- ThreeBlocks
    DayGrid <- OneBlock
    PresetBlocks = 2
    PresetWindow = 6
    DailyThreshold = 14
    Clocks = {3, 5}
    MaxOverviewWrites = 1
    Selections <- ReportSelections
    PageSize = 1
    ExportLimit = 2
    MaxListWrites = 2
    DiagnosticFilters <- ReportDiagnostics
    GroupLimit = 1
    Bins = 4
    MaxDiagnosticWrites = 1
INVARIANTS
    HealthGridsAgree
