SPECIFICATION SSESpec
CONSTANTS
    MaxIterations = 2
    MaxToolCalls = 1
    MaxFaults = 0
    PageSize = 2
    MaxEmptyPolls = 2
CHECK_DEADLOCK FALSE
PROPERTIES
    StreamEnds
    ReservationSettles
