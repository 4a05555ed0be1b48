CONSTANTS
    Awards = {x, y}
    MaxStarts = 4
    MaxDamage = 2
SPECIFICATION Spec
SYMMETRY Symmetry
INVARIANTS
    AckedOnCard
    ServesSoundSchema
    
CHECK_DEADLOCK FALSE
