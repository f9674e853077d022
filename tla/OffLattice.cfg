CONSTANTS
    DELTA = 2
    Id = {1, 2, 3}
    Starts <- SomeStarts
    Layouts <- AllLayouts
    Reach = 1
    Step = 1
    Moves <- TwoMoves
    StopSweeps = 1
    StopRuns = 2
SPECIFICATION Spec
INVARIANTS TypeOK CheckPasses SlotsAccounted OneOwner
PROPERTY SerialRelaxation
