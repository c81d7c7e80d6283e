CONSTANTS
    Symbols = {k1, k2, k3}
    Workers = {p1, p2}
    Modes = {"supabase", "redis"}
    Limit = 2
    MaxRequests = 4
    MaxFaults = 1
    Users = {u1}
    Tabs = {p1, p2}
    None = None
    Configs <- MCConfigs
    DefaultConfig <- Sound
    Trades <- MCTrades
    Writer = {p1, p2}
    RotateAt = 2
    MaxRecords = 6
    MaxCrashes = 1
    CacheThread = {p1, p2}
    CacheKey = {k1, k2, k3}
    max_size = 2
    ttl_seconds = 1
    MaxTime = 2
    Fetcher = {p1, p2}
    Opens = {2, 4, 6, 8, 10}
    FIXED_END_DATE = 10
    Days = {5, 8}
    batch_limit = 2
    max_retries = 2
    MaxCommands = 3
    MaxKills = 1
    Promoter = {p3}
    MemKey = {k1, k2, k3}
    Throwaway = {2}
    MinAge = 1
    Retention = 1
    MaxPuts = 4
    MaxDays = 3
    MaxDeaths = 1
    MaxFacts = 4
SPECIFICATION StoresSpec
INVARIANTS
    ListedAsWanted
    EmergencyWhole
    RecentSurvives
    FrameIsAWindow
    RememberedOnce
PROPERTY ImplementsLog
SYMMETRY Alike
CHECK_DEADLOCK FALSE
