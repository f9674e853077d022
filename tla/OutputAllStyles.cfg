CONSTANTS
    Options <- AllStyles
    MaxTime = 9
    MaxPower = 5
    MaxStep = 3
SPECIFICATION Spec
CHECK_DEADLOCK FALSE
PROPERTIES OutputsOnTime OnlyOnTime NoSnapshotTwice
