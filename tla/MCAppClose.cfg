SPECIFICATION FairSpec
CONSTANTS
    r1 = r1
    r2 = r2
    w1 = w1
    b1 = b1
    k1 = k1
    Main = Main
    Requests <- TwoRequests
    Workers <- OneWorker
    Runners <- OneRunner
    Closers <- OneCloser
CHECK_DEADLOCK FALSE
INVARIANTS
    ResourcesOutliveUsers
PROPERTIES
    NoAdmissionAfterDrain
    SignalEndsRun
    CloseReturns
