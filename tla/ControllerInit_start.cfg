CONSTANTS
    PortFileTypes = {"Hcd"}
    PortSequences = {"TableDriven"}
    Boards <- MCBoards
SPECIFICATION Spec
INVARIANTS
    ReasonIsFirstObstacle
    OperationalNeedsEverything
PROPERTIES
    StartsAsLifecycle
    StartEnds
