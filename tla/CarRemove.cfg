SPECIFICATION Spec
CONSTANTS
    Keys = {k1, k2, k3, k4, k5}
    MaxSize = 2
    Removals <- Pairs
    NoKey = NoKey
SYMMETRY Symmetry
INVARIANT Bounds
CHECK_DEADLOCK FALSE
