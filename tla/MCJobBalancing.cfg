CONSTANTS
    Jobs = {j1, j2}
    Workers = {w1, w2}
    MaxFaults = 1
SPECIFICATION Spec
CHECK_DEADLOCK FALSE
INVARIANT OneWorkerRunsJob
