CONSTANTS
    Operators = {",", "=", "??", "||", "&&", "|", "<", "+", "-", "*", "**"}
    Parts = {"caches"}
    Goroutines = {g1}
    Dirs <- Directories
    Cwd <- WorkingDirectory
    MaxCalls = 2
    PackageKinds = {"none", "js"}
    Unresolved = Unresolved
    Absent = Absent
    Graphs <- OverloadedTypes
    Asked = {"A", "B", "C"}
    DepthLimit = 4
SPECIFICATION MCSpec
INVARIANT CacheIsTransparent
CHECK_DEADLOCK FALSE
