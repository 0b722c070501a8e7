SPECIFICATION Spec
CONSTANTS
    MaxPendingBlocks = 1
    MaxFailedBlocks = 2
    MaxTurns = 2
    MaxRequestRetries = 2
    MaxRecoveries = 1
    UnknownLimit = 2
    HasDeadline = TRUE
    HasBudget = FALSE
    CanCompact = FALSE
    CanCancel = TRUE
    CanAsk = TRUE
    MaxMessages = 2
    Responses <- ExclusiveResponses
INVARIANTS
    ExclusiveCalls
CHECK_DEADLOCK FALSE
