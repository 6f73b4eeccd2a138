CONSTANTS
    Operators = {",", "=", "??", "||", "&&", "|", "<", "+", "-", "*", "**"}
    Parts = {"syntax", "flow", "caches", "types", "exports"}
    Goroutines = {g1, g2}
    Dirs <- Directories
    Cwd <- WorkingDirectory
    MaxCalls = 2
    PackageKinds = {"none", "ts"}
    Unresolved = Unresolved
    Absent = Absent
    Graphs <- PlainTypes
    Asked = {"A", "B", "C"}
    DepthLimit = 4
SPECIFICATION MCSpec
INVARIANTS
    TypesOK
    SourceIsRead
    EmitKeepsMeaning
    ReachabilityIsTrue
    CacheIsTransparent
    RelationIsTrue
    ExportsAreTheLanguages
PROPERTY WalksEnd
CHECK_DEADLOCK FALSE
