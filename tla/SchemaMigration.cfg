SPECIFICATION FairSpec
CONSTANTS
    Keys = {"k1", "k2"}
    Auths = {"a1", "a2"}
    AuthFiles = {"a1"}
    PrefixName = "prefix"
    MaxEvent = 2
    MaxHour = 1
    MaxFailures = 1
INVARIANTS SchemaCurrent HandOver
PROPERTIES ScheduleNeverShrinks OpensEventually
