SPECIFICATION Spec
CONSTANTS
    Procs = {p1}
    Configs <- DevOnly
    Migrations = 0
    Torn = Torn
    Absent = Absent
    None = None
    MaxStarts = 2
    MaxInFlight = 0
INVARIANTS
    DevStartFindsKeys
CHECK_DEADLOCK FALSE
