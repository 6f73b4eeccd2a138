CONSTANTS
    Operators = {",", "=", "??", "||", "&&", "|", "<", "+", "-", "*", "**"}
    Parts = {"types"}
    Goroutines = {g1}
    Dirs <- Directories
    Cwd <- WorkingDirectory
    MaxCalls = 2
    PackageKinds = {"none"}
    Unresolved = Unresolved
    Absent = Absent
    Graphs <- OverloadedTypes
    Asked = {"A", "B"}
    DepthLimit = 100
SPECIFICATION MCSpec
INVARIANT RelationIsTrue
CHECK_DEADLOCK FALSE
