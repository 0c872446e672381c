SPECIFICATION MCSpec
CONSTANTS
    DayTicks = 3
    BackupTick = 1
    CleanupTick = 0
    Intervals = {2, 3}
    MaxInterval = 3
    RetentionDays = 1
    MaxCopy = 1
    MaxStops = 1
    Clients = {"c1"}
    Calls = {"r1", "r2"}
    TTL = 1
    MaxFailed = 2
    Window = 1
    MaxTokens = 1
    MaxTime = 2
    Accounts = {"a1", "a2", "a3"}
    Inactive = {"a3"}
    Models = {"m1", "m2"}
    Channels = {"x", "y"}
    NoChannel = "none"
    ChannelOf <- MCChannelOf
    MaxAccounts = 2
    MaxConcurrency = 1
    MaxMessages = 4
    PopBatch = 2
    Callers = {"c1", "c2"}
    MaxLate = 2
    CanFallback = TRUE
    Groups = {"g1"}
    MaxSignals = 4
INVARIANTS
    NoTornBackup
    RecentBackupKept
    FailuresBounded
    EndedSessionsRefused
    SingleClaimSound
    OneCommandPerCall
    NoSilentLoss
    PassiveRowsFaithful
PROPERTIES
    ImplementsDelivery
    BackupJobsGoOn
