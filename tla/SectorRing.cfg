CONSTANTS
    NX = 9
    PX = 2
    NSector = 2
    Site <- MCSite
    Proc <- MCProc
    Nbr <- MCNbr
    Owner <- MCOwner
    SectorOf <- MCSectorOf
    InitSpins <- SomeSpins
    ZeroTemperature = TRUE
    Adaptive = TRUE
    DtChoices = {1, 2}
    StopTime = 2
    OutputTimes = {1}
SPECIFICATION Spec
INVARIANTS
    TypeOK
    PropensitiesTrue
    InteriorPropensitiesTrue
    TimesAgree
PROPERTY
    SerialKMC
