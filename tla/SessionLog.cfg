SPECIFICATION Spec
CONSTANTS
    MaxMessages = 5
    MaxCrashes = 2
INVARIANTS
    Mirror
    RestoredInOrder
    RestoredAnswered
    AlignedWhenWhole
CHECK_DEADLOCK FALSE
