SPECIFICATION FairSpec
CONSTANTS
    MaxPendingBlocks = 1
    MaxFailedBlocks = 1
    MaxTurns = 4
    MaxRequestRetries = 3
    MaxRecoveries = 1
    UnknownLimit = 2
    HasDeadline = TRUE
    HasBudget = FALSE
    CanCompact = TRUE
    CanCancel = TRUE
    CanAsk = TRUE
    MaxMessages = 1
    Responses <- EndingResponses
PROPERTIES
    RunEndsUnlessAsked
CHECK_DEADLOCK FALSE
