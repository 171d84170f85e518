\* Room for three values; removal functions that pick a single key.
SPECIFICATION Spec
CONSTANTS
    Keys = {k1, k2, k3, k4, k5, k6, k7}
    MaxSize = 3
    Removals <- Singles
    NoKey = NoKey
SYMMETRY Symmetry
INVARIANTS Bounds Disjoint NeverPanics
PROPERTY ReplaceProgresses
