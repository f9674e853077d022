CONSTANTS
    NEvents = 3
    Weight = {0, 2, 3, 8}
    Lo = 2
    Hi = 8
    MaxBatch = 1
    NGroups = 3
    GroupOf <- EqualGroups
    Bound <- EqualBounds
SPECIFICATION Spec
INVARIANT EventsByPropensity
