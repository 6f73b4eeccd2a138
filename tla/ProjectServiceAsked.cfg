CONSTANTS
    f = f
    g = g
    c1 = c1
    blank = blank
    plain = plain
    user = user
    Nil = nil
    Inferred = inferred
    Blank = blank
    Texts = {blank, user}
    FileOrder <- TwoFiles
    ConfigOf <- NoConfig
    Imports <- MCImports
    ConfigTexts <- OwnConfigs
    MaxVersion = 3
SPECIFICATION QuietSpec
INVARIANT AskedFileIsInProgram
CHECK_DEADLOCK FALSE
