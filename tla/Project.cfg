CONSTANTS
    Holders = {p1, p2, p3}
    Options = {o1, o2}
    InfoKind = ts
    FileKind = ts
    Entries = {e1, e2}
    MayOverlap = {}
    MaxVersion = 2
    Nil = nil
    helper = helper
    other = other
    c1 = c1
    c2 = c2
    blank = blank
    user = user
    inferred = inferred
    Askers = {g1, g2}
    Asked = {"fileExists", "realpath"}
    MaxChanges = 1
    MaxClears = 1
    a = a
    b = b
    d = d
    MaxRefs = 2
    FileNames <- MCFiles
    Inputs <- MCInputs
    LibPriority <- MCPriority
    Main = main
    NoTask = noTask
SPECIFICATION MCSpec
INVARIANTS
    RefCountExact
    ReturnsCurrentVersion
    NeverPanics
    OnlyStraddlersAreStale
    LoadedBeforeCollecting
    OrderIsSequential
PROPERTIES
    ParsedOnce
    LoadingEnds
CHECK_DEADLOCK FALSE
