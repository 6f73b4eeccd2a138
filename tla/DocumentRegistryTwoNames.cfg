CONSTANTS
    Holders = {n1, n2}
    Options = {o1}
    InfoKind = ts
    FileKind = ts
    Entries = {e1, e2}
    MayOverlap <- AllPairs
    MaxVersion = 1
    Nil = nil
SPECIFICATION Spec
INVARIANT RefCountExact
