SPECIFICATION Spec
CONSTANTS
    MaxPendingBlocks = 1
    MaxFailedBlocks = 1
    MaxTurns = 3
    MaxRequestRetries = 1
    MaxRecoveries = 0
    UnknownLimit = 3
    HasDeadline = FALSE
    HasBudget = FALSE
    CanCompact = FALSE
    CanCancel = FALSE
    CanAsk = FALSE
    MaxMessages = 2
    Responses <- GateResponses
INVARIANTS
    WarnedBeforeFinish
    PassedOnEvidence
CHECK_DEADLOCK FALSE
