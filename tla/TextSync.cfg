CONSTANTS
    Chars = {"a", "lf"}
    MaxText = 2
    MaxBatch = 2
    MaxInFlight = 1
    MaxRequests = 2
SPECIFICATION LspSpec
INVARIANT ServerTextIsClientText
CHECK_DEADLOCK FALSE
