SPECIFICATION MCSpec
CONSTANTS
    a1 = a1
    a2 = a2
    r1 = r1
    c1 = c1
    NoAuth = NoAuth
    Auths <- TwoAuths
    MaxTasks = 3
    WorkerLimit = 1
    Requests <- OneRequest
    Callers <- OneCaller
    MaxClock = 2
INVARIANTS
    OneActiveTaskPerAuth
    AcceptedTaskHasWorker
    CompletedIsPersisted
PROPERTIES
    ObservationAdvances
    TasksFinish
    StopEnds
