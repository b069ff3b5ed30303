SPECIFICATION Spec
CONSTANTS
    u1 = u1
    u2 = u2
    Units = {u1, u2}
    Slots = {0}
    Opts <- Options
    Remotes <- Frames
    Jitter <- Errors
    MaxFrame = 3
    MaxSends = 2
INVARIANTS
    TypeOK
    LearnsNecExactly
    NoDrift
SYMMETRY UnitSymmetry
CHECK_DEADLOCK FALSE
