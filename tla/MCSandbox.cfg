CONSTANTS
    p1 = p1
    p2 = p2
    b1 = b1
    Runs = {p1, p2, b1}
    Shells = {"bash", "powershell"}
    ShellOf <- MCShellOf
    Quiet = {b1}
    Statuses <- MCStatuses
    Environments <- MCEnvironments
    None = None
SPECIFICATION FairSpec
CHECK_DEADLOCK FALSE
INVARIANTS
    TypeOK
    CodeIsOwn
    OutputIsOwn
    RaisesNeedCause
    NoStrayContainers
    GivenUpIsOver
PROPERTIES
    WorkspaceOutlivesContainers
    RunEnds
