CONSTANTS
    Warm = TRUE
    Layouts <- OneLayout
    Starts <- SomeStarts
    Paths <- SomePaths
    CoordLo = 1
    CoordHi = 2
    StopEvents = 1
    StopBatch = 2
SPECIFICATION Spec
PROPERTY AtomsKept
