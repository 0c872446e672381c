SPECIFICATION Spec
CONSTANTS
    a1 = a1
    m1 = m1
    Runner = Runner
    AuthFiles <- OneFile
    Keys <- NoKeys
    NumTypes = 1
    Manual <- OneManual
    Togglers <- NoTogglers
    MaxEvents = 3
    MaxSeen = 2
    MaxChanges = 2
INVARIANTS
    StatsExact
