CONSTANTS
    p1 = p1
    f1 = f1
    Projects = {p1, p2}
    Files = {f1, f2, f3}
    FilesOf <- Loaded
    Symbols = {s1}
    Types = {type1}
    Runner = runner
    MaxLoads = 2
    SourceFiles = {f1, f2}
    MaxWrites = 2
    MaxConfigs = 2
    Chars = {"a", "u", "lf", "cr"}
    MaxText = 2
    MaxBatch = 1
    MaxInFlight = 1
    MaxRequests = 3
    Tasks = {t1, t2, t3, t4}
    Main = owner
    NoTask = noTask
SPECIFICATION MCSpec
INVARIANTS
    TypesOK
    AnswersReachTheirCaller
    QuietBetweenRequests
    LiveObjectsResolve
    
    ServerTextIsClientText
    ClientCannotCrash
    PositionsAgreeInsideLines
    JoinedMeansAllRan
    QueueNeverPanics
    AddNeverRacesWait
PROPERTIES
    EveryRequestIsAnswered
    OutputsNeverGoBack
    OutputsCatchUp
    ImplementsForkJoin
    SingleImplementsForkJoin
    BothReturn
CHECK_DEADLOCK FALSE
