SPECIFICATION FairSpec
CONSTANTS
    Activities = {a1}
    MaxGen = 2
    MaxProgress = 1
    MaxLosses = 2
    MaxReloads = 1
    MaxCrashes = 1
    a1 = a1
INVARIANTS TypeOK ReadyIsServable NoStrandedFile PageHearsInOrder
PROPERTIES ImplementsNewestSelection SelectionIsAnswered
CHECK_DEADLOCK FALSE
