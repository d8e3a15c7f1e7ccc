CONSTANTS
    Nodes = {1, 2, 3}
    NodeIds <- MCNodeIds
    Ucers <- MCUcers
    NoUcer = NoUcer
    NoGraph = NoGraph
    MaxIncarnation = 2
    Steps = 2
    MaxEvents = 4
    Environments <- SequencingEnvironments
    Shapes <- SafetyShapes
SPECIFICATION Spec
CHECK_DEADLOCK FALSE
INVARIANT PublishedAfterDependenciesFinished
