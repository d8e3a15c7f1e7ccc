CONSTANTS
    p1 = p1
    p2 = p2
    b1 = b1
    Runs = {p1, p2, b1}
    Shells = {"bash", "powershell"}
    ShellOf <- MCShellOf
    Quiet = {b1}
    Statuses <- MCStatuses
    Environments <- MCMortal
    None = None
SPECIFICATION Spec
CHECK_DEADLOCK FALSE
INVARIANT DeadShellIsNoSuccess
