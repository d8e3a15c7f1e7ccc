SPECIFICATION ServicesSpec
CHECK_DEADLOCK FALSE
SYMMETRY Interchangeable
CONSTANTS
    Callers = {c1, c2}
    BashSteps <- MCBashSteps
    PsSteps <- MCPsSteps
    Words <- MCWords
    Tokens <- MCTokens
    Redirecting = {"append"}
    Unparsable <- MCUnparsable
    Plans <- MCPlans
    Contexts <- MCContexts
    MaxTroubles = 1
    UserIds = {"u1"}
    AccountIds = {"sa1"}
    Entities = {"first", "second", "robot"}
    IdOf <- MCIdOf
    Requests = {q1}
    Granted = {"operator", "security_admin"}
    Guards <- MCGuards
    Processes = {p1, p2, p3}
    Values = {v1, v2}
    MaxCrashes = 2
    Coroutines = {o1, o2, o3}
    MaxFailures = 1
    Files = {f1, f2}
    Replays = {r1, r2}
    Cycles = {y1}
    Managers = {m1}
    MaxWrites = 4
    MaxStops = 1
INVARIANTS
    TypeOK
    CompiledIsScreened
    GivesUpForCause
    StoredIsRead
    DatabaseRaisesNeedCause
    SavedIsFound
    WorkspaceSurvives
PROPERTIES
    DecisionIsCurrent
    RestoreUndoes
