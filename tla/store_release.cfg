SPECIFICATION Spec
CONSTANTS
    Calls = {d1, d2}
    Writes = {x1}
    NoCall = NoCall
    MaxDepth = 2
INVARIANT InnerFailureUndone
CHECK_DEADLOCK FALSE
