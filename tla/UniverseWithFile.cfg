CONSTANTS
    Absent = Absent
    NWorlds = 3
    NValues = 5
    FileAtStart = 3
SPECIFICATION FairSpec
CHECK_DEADLOCK FALSE
INVARIANTS TypeOK LockIsExclusive NoValueTwice
PROPERTY AllValuesConsumed
