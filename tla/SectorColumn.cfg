CONSTANTS
    NX = 2
    NY = 6
    PX = 1
    PY = 3
    NSector = 4
    Site <- MCSite
    Proc <- MCProc
    Nbr <- MCNbr
    Owner <- MCOwner
    SectorOf <- MCSectorOf
    InitSpins <- SomeSpins
    ZeroTemperature = TRUE
    Adaptive = FALSE
    DtChoices = {1}
    StopTime = 2
    OutputTimes = {}
SPECIFICATION FairSpec
INVARIANTS
    GhostsCurrent
    SkewBounded
    ConcurrentSectorsApart
    NextMessageIsForThisSector
PROPERTIES
    EnergyNeverRises
    Termination
