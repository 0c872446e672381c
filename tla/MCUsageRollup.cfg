SPECIFICATION FairSpec
CONSTANTS
    e1 = e1
    e2 = e2
    e3 = e3
    Events <- ThreeEvents
    MaxHour = 3
    UpgradeHour = 2
    LegacyHours <- PastHours
    BatchHours = 1
INVARIANTS
    RollupExactWhenReadable
PROPERTIES
    BackfillCompletes
