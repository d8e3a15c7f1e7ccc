CONSTANTS
    Nodes = {1, 2}
    NodeIds <- MCNodeIds
    Ucers <- MCUcers
    NoUcer = NoUcer
    NoGraph = NoGraph
    MaxIncarnation = 2
    Steps = 1
    MaxEvents = 4
    Environments <- RecoveryEnvironments
    Shapes <- RecoveryShapes
SPECIFICATION FairSpec
CHECK_DEADLOCK FALSE
PROPERTY RecoveredGraphCompletes
