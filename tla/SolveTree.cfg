CONSTANTS
    NEvents = 5
    Weight = {0, 1, 2}
    MaxBatch = 2
SPECIFICATION FairSpec
INVARIANTS TypeOK TreeIsExact
PROPERTIES SolverContract DrawHitsItsEvent CallsReturn
