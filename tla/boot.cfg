SPECIFICATION FairSpec
CONSTANTS
    Procs = {p1, p2}
    Configs <- DevAndProduction
    Migrations = 2
    Torn = Torn
    Absent = Absent
    None = None
    MaxStarts = 3
    MaxInFlight = 1
INVARIANTS
    TypeOK
    ServesOnCurrentSchema
    MigrationsRunOnce
    OneKeyPair
    UndisturbedStartFindsKeys
PROPERTIES
    OnlyForward
    SignalledStops
CHECK_DEADLOCK FALSE
