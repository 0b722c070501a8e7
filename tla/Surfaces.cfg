SPECIFICATION FairSpec
CONSTANTS
    MaxRuns = 2
    MaxTyped = 3
    MaxMessages = 3
    MaxClients = 2
    Tasks = {t1, t2}
    MaxRounds = 3
CONSTRAINT FewRaces
INVARIANTS
    SurfaceTracksRun
    PromptAnswerable
    TypedInOrder
    PromptHasReader
    StreamingIsRun
    NothingLeftBehind
PROPERTY HeadlessExits
\* A closed client, an exited process and a finished dialogue may stop.
CHECK_DEADLOCK FALSE
