SPECIFICATION FairSpec
CONSTANTS
    Run = {r1}
    r1 = r1
    NoRun = NoRun
    Limit = 2
    MaxEvents = 5
    MaxEmpty = 2
CHECK_DEADLOCK FALSE
INVARIANTS
    DeltasInOrder
PROPERTY PollersEnd
