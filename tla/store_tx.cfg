SPECIFICATION Spec
CONSTANTS
    Calls = {d1, d2, d3, d4}
    Writes = {x1, x2}
    NoCall = NoCall
    MaxDepth = 3
SYMMETRY Interchangeable
INVARIANTS
    SuccessIsKept
    FailureIsUndone
    NoConnectionLeak
PROPERTIES
    ImplementsNestedTx
CHECK_DEADLOCK FALSE
