SPECIFICATION VibeSpec
CONSTANTS
    MaxIterations = 2
    MaxToolCalls = 1
    MaxFaults = 2
    Web = {web}
    Horse = {p1, p2}
    Session = {x}
    NoSession = none
    MaxMessages = 3
    MaxStoreFaults = 1
    Worker = {p1, p2}
    MaxAdmin = 1
    MaxFailures = 1
    MaxWeeks = 1
CONSTRAINT TwiceBriefly
SYMMETRY Alike
CHECK_DEADLOCK FALSE
INVARIANTS
    TerminalEventIsLast
    ChargedAsReported
    CancelStopsWork
    AnsweredStays
    NonEmptyWithoutFailures
