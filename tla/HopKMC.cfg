CONSTANTS
    Warm = FALSE
    Layouts <- AllLayouts
    Starts <- SomeStarts
    Paths <- SomePaths
    CoordLo = 1
    CoordHi = 2
    StopEvents = 2
    StopBatch = 1
SPECIFICATION Spec
INVARIANTS TypeOK EventsTrue
PROPERTIES SerialHops ClosestDeposited
