CONSTANTS
    Nodes = {1, 2, 3}
    NodeIds <- MCNodeIds
    Ucers <- MCUcers
    NoUcer = NoUcer
    NoGraph = NoGraph
    MaxIncarnation = 2
    Steps = 1
    MaxEvents = 5
    Environments <- ProgressEnvironments
    Shapes <- ProgressShapes
SPECIFICATION FairSpec
CHECK_DEADLOCK FALSE
PROPERTIES
    AcyclicGraphCompletes
    ExecutionEnds
    RecoveredSequenceCompletes
