SPECIFICATION Spec
CONSTANTS
    Requests = {r1, r2, r3}
    Ids = {u1}
    Emails = {e1}
    Jtis = {j1, j2, j3}
    None = None
    MaxFaults = 0
    MaxSetRoles = 0
INVARIANT ReplayRejected
CHECK_DEADLOCK FALSE
