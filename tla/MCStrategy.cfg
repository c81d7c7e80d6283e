CONSTANTS
    Setups <- MCSetups
    Bars <- MCBars
    Prices <- MCPrices
    Levels = {25, 50, 75}
    Zones <- MCZones
    RewardRisks = {1}
    Atr = 1
    RScale = 60
    MaxBars = 4
    PlanKeys = {k1, k2}
    Entries = {20}
    Risks = {2}
    Ages = {0, 12, 13}
    Qualities = {49, 50}
    Deviations = {1, 15}
    MaxPlanBars = 2
SPECIFICATION Spec
INVARIANTS
    BrokerAgrees
    ProfitLocked
    LossBounded
    PlanIsOrdered
PROPERTIES
    StopNeverRetreats
CHECK_DEADLOCK FALSE
