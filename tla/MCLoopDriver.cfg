SPECIFICATION Spec
CONSTANTS
    a = a
    b = b
    q1 = q1
    q2 = q2
    sharpe = sharpe
    factor = factor
    Sha = {a, b}
    Objective = {sharpe, factor}
    Missing = Missing
    Default <- MCDefault
    Score <- MCScore
    Driver = {d1, d2}
    d1 = d1
    d2 = d2
    Quarter = {q1, q2}
    MakerChecker = TRUE
    MaxGens = 2
    MaxCrashes = 1
    MaxRecords = 3
    MaxLost = 1
SYMMETRY DriverSymmetry
CONSTRAINT ShortHistory
CHECK_DEADLOCK FALSE
INVARIANTS
    FrontIsAntichain
    FrontHasSnapshot
    JournalFirst
    ReplayRebuilds
PROPERTY FrontOnlyImproves
