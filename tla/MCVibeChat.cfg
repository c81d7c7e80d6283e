SPECIFICATION Spec
CONSTANTS
    Run = {r1, r2}
    r1 = r1
    r2 = r2
    NoRun = NoRun
    Limit = 2
    MaxEvents = 2
    MaxEmpty = 1
CHECK_DEADLOCK FALSE
SYMMETRY RunSymmetry
INVARIANTS
    SpinnerHasPoller
