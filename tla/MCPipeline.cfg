CONSTANTS
    Tasks = {t1, t2}
    Ucers = {o1, o2}
    CommandIds = {u}
    IdOf <- MCIdOf
    Capabilities = {"exec", "network"}
    Exec = "exec"
    Plans <- MCPlans
    MaxAttempts = 2
    MaxFaults = 2
    NoHash = NoHash
    NoRecord = NoRecord
    NoUcer = NoUcer
SPECIFICATION FairSpec
CHECK_DEADLOCK FALSE
INVARIANTS
    TypeOK
    SignedPlanRuns
    RecordPrecedesEffects
    RecordTellsOutcome
PROPERTY ExecutionIsConcluded
