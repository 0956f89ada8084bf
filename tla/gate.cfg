SPECIFICATION GateSpec
CONSTANTS
    Requests = {r1, r2, r3}
    Ids = {u1, u2}
    Emails = {e1, e2}
    Jtis = {j1, j2}
    Slots = {s1}
    None = None
    MaxFaults = 0
    MaxSetRoles = 3
    MaxCalls = 2
    MaxEnds = 1
SYMMETRY Interchangeable
INVARIANTS
    GateTypeOK
    AdminsDescend
    AdminActsWithAuthority
PROPERTIES RefusalMeansNothingDone
CHECK_DEADLOCK FALSE
