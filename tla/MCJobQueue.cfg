CONSTANTS
    Jobs = {j1, j2}
    Workers = {w1, w2}
    MaxFaults = 2
SPECIFICATION FairSpec
CHECK_DEADLOCK FALSE
INVARIANTS
    TypeOK
    AckedWasProcessed
    DuplicatesNeedFaults
    RaisesNeedCause
PROPERTY SubmittedJobRuns
