SPECIFICATION Spec
CONSTANTS
    Requests = {r1, r2, r3}
    Ids = {u1, u2}
    Emails = {e1, e2}
    Jtis = {j1, j2, j3}
    None = None
    MaxFaults = 1
    MaxSetRoles = 1
SYMMETRY Interchangeable
INVARIANTS
    DeadTokenRejected
    RoleFresh
    SessionKept
    NoSessionWithoutAccount
    RotatedIsDead
PROPERTIES
    ImplementsSessionBook
CHECK_DEADLOCK FALSE
