CONSTANTS
    nspins = 2
    Layouts <- AllRuns
    Starts <- SomeLattices
    Streams <- SomeStreams
    StopSweeps = 2
SPECIFICATION Spec
INVARIANTS TypeOK MaskedAreFrozen SameAnswer
PROPERTY SerialSweep
