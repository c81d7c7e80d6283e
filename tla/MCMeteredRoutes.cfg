SPECIFICATION Spec
CONSTANTS
    User = {u1, u2}
    ActiveUser = {u1}
    Id = {i1, i2, i3}
    Key = {k1}
    u1 = u1
    u2 = u2
    i1 = i1
    i2 = i2
    i3 = i3
    k1 = k1
    DailyQuota = 1
    MaxDay = 1
    NoRow = NoRow
    NoKey = NoKey
    NotCached = NotCached
    MaxInFlight = 2
    MaxFaults = 1
SYMMETRY IdSymmetry
CHECK_DEADLOCK FALSE
INVARIANTS
    OverrunBounded
    OneUnitPerKey
    FailureIsFree
    LeaksNeedFaults
