CONSTANTS
    ClusterFields <- MCClusterFields
    DictFields = {"atr_stop_buffer"}
    ForeignField = "rsi_window"
    Magnitudes = {10, 70}
    Ratios = {0, 5, 10}
    RawProposals <- MCRawProposals
    MaxBatch = 3
    MaxAnswer = 2
    CandidateMetrics <- MCCandidateMetrics
    CheckerAnswers <- MCAnswers
    Calibrations <- MCCalibrations
    LabelCounts = {0, 5}
    MinConfidences = {0, 4}
    ExtraKeys <- MCExtraKeys
    Searcher = {s1, s2}
    Steps <- MCSteps
    WeightSteps <- MCWeightSteps
    Requests <- MCRequests
    MaxGen = 2
    MaxDeaths = 1
    Fitness = {1, 2}
    Backoff = 2
    MaxAccepting = 3
    Sharpes <- MCSharpes
    TradeCounts = {14, 15, 16}
    Quarters = 3
SPECIFICATION Spec
INVARIANTS BatchUsable CheckerBlind GenerationSound NeverOversleeps ValidatorsAgree
CHECK_DEADLOCK FALSE
