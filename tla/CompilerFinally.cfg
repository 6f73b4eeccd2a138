CONSTANTS
    Kinds = {"fail", "if", "try"}
    Conditions = {"plain"}
    MaxStatements = 3
    MaxDepth = 2
    MaxClauses = 2
    AnyOrder = TRUE
SPECIFICATION Spec
INVARIANT ReachableIsNotReported
CHECK_DEADLOCK FALSE
