SPECIFICATION Spec
CONSTANTS
    e1 = e1
    e2 = e2
    e3 = e3
    Events <- TwoEvents
    MaxHour = 3
    UpgradeHour = 2
    LegacyHours <- CurrentHour
    BatchHours = 1
SYMMETRY EventSymmetry
INVARIANTS
    PastHoursExactWhenReadable
