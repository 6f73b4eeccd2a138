CONSTANTS
    Chars = {"a", "u", "lf", "cr"}
    MaxText = 2
    MaxBatch = 1
    MaxInFlight = 1
    MaxRequests = 1
SPECIFICATION LspSpec
INVARIANT PositionsAreOnTheirLine
CHECK_DEADLOCK FALSE
