CONSTANTS
    NEvents = 3
    Weight = {0, 1, 3, 9}
    Lo = 2
    Hi = 8
    MaxBatch = 2
    NGroups = 2
    GroupOf <- CascadeGroups
    Bound <- CascadeBounds
SPECIFICATION Spec
INVARIANTS TypeOK ListsAreInverse SumsAreExact
PROPERTY SolverContract
