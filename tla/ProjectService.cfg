CONSTANTS
    f = f
    g = g
    c1 = c1
    plain = plain
    user = user
    Nil = nil
    Inferred = inferred
    Blank = blank
    blank = blank
    Texts = {plain, user}
    FileOrder <- TwoFiles
    ConfigOf <- OneConfig
    Imports <- MCImports
    ConfigTexts <- SomeConfigs
    MaxVersion = 2
SPECIFICATION Spec
INVARIANTS
    ClientTextIsServed
    CleanProgramIsCurrent
    VersionIdentifiesText
    DocumentsAreCounted
    InferredRootsAreOpen
    OrphansAreNoticed
CHECK_DEADLOCK FALSE
