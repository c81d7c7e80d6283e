CONSTANTS
    Machines = {"walk"}
    Markets <- MCMarkets
    Candidates <- MCCandidates
    StopLevels = {"conservative", "standard"}
    Hatches = {0, NoHatch}
    NoHatch = NoHatch
    MaxCandidates = 2
    w1 = w1
    w2 = w2
    Grid <- MCGrid
    DefaultWeights = default
    WalkSignals <- MCWalkSignals
    WalkBars <- MCWalkBars
    EntryModes = {"market", "prz"}
    Windows = 2
    Horizon = 2
    RScale = 6
    Request = {r1, r2}
    Symbol = {s1}
    IdemKey = {k1}
    NoKey = nokey
    AnalysisTypes = {"forming", "formed"}
    Searches <- MCSearches
    Patterns <- MCPatterns
    Positions <- MCPositions
    KlineTTL = 1
    AnalysisTTL = 1
    MaxRun = 1
    OpenTimes = {2, 4, 6, 8, 10, 12}
    Counts = {1, 3, 4}
    Bounds = {3, 4, 9}
    NoBound = nobound
    MAX_CANDLES = 2
    max_retries = 3
    max_ttl = 2
    min_daily_bars = 2
    SlopeDays = 1
    HarnessBars <- MCHarnessBars
    FoundPatterns <- MCFoundPatterns
    Anchors = {2, 3}
    FrameLength = 5
    BarsPerDay = 2
    max_age_bars = 5
    max_hold_bars = 2
SPECIFICATION AnalysisSpec
INVARIANT CandidateInForce
CHECK_DEADLOCK FALSE
