SPECIFICATION Spec
CONSTANTS
    Ids = {i1, i2, i3, i4}
    Times <- FewTimes
    None = None
    Junk = Junk
    Raws <- Parameters
    DefaultLimit = 1
    MaxLimit = 2
    MaxInt = 5
    MaxChanges = 2
SYMMETRY Interchangeable
INVARIANTS
    TotalCoversPage
    WalkMissesNobody
PROPERTIES
    WalkRepeatsNobody
CHECK_DEADLOCK FALSE
