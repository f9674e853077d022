CONSTANTS
    Absent = Absent
    NWorlds = 2
    NValues = 3
    FileAtStart = Absent
SPECIFICATION FairSpec
CHECK_DEADLOCK FALSE
PROPERTY AllValuesConsumed
