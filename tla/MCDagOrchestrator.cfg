CONSTANTS
    Nodes = {1, 2, 3}
    NodeIds <- MCNodeIds
    Ucers <- MCUcers
    NoUcer = NoUcer
    NoGraph = NoGraph
    MaxIncarnation = 2
    Steps = 1
    MaxEvents = 4
    Environments <- SafetyEnvironments
    Shapes <- SafetyShapes
SPECIFICATION Spec
CHECK_DEADLOCK FALSE
INVARIANTS
    TypeOK
    PublishedAfterDependencies
    CompletedWasConfirmed
    PublishedOnce
    CheckpointIsCurrent
PROPERTIES
    ImplementsTaskGraph
