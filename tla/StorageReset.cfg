CONSTANTS
    Awards = {x, y}
    MaxStarts = 4
    MaxDamage = 2
SPECIFICATION Spec
SYMMETRY Symmetry
INVARIANT NeverReset
CHECK_DEADLOCK FALSE
