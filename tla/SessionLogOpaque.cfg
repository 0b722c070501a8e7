SPECIFICATION Spec
CONSTANTS
    MaxMessages = 5
    MaxCrashes = 2
INVARIANT
    OpaqueAligned
CHECK_DEADLOCK FALSE
