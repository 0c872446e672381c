SPECIFICATION MirrorSpec
CONSTANTS
    a1 = a1
    k1 = k1
    m1 = m1
    t1 = t1
    t2 = t2
    Runner = Runner
    AuthFiles <- OneFile
    Keys <- OneKey
    NumTypes = 2
    Manual <- OneManual
    Togglers <- TwoTogglers
    MaxEvents = 0
    MaxSeen = 0
    MaxChanges = 2
PROPERTIES
    MirrorConverges
