SPECIFICATION Spec
CONSTANTS
    MaxPendingBlocks = 1
    MaxFailedBlocks = 2
    MaxTurns = 2
    MaxRequestRetries = 2
    MaxRecoveries = 1
    UnknownLimit = 2
    HasDeadline = TRUE
    HasBudget = TRUE
    CanCompact = TRUE
    CanCancel = TRUE
    CanAsk = TRUE
    MaxMessages = 2
    Responses <- TurnResponses
INVARIANTS
    TypeOK
    RequestPaired
    NoMessageLost
    CompletedAnswered
    OneAnswerShown
    SteeringMatchesQueue
    ExclusiveInRun
CHECK_DEADLOCK FALSE
