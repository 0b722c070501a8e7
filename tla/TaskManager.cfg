SPECIFICATION FairSpec
CONSTANTS
    Tasks = {p, q}
    Teammates = {q}
    MaxPolls = 2
    MaxStarts = 3
    MaxRestarts = 1
INVARIANTS
    PlainRegistered
    RunningIsAlive
    ManifestCurrent
    DrainDropsNothing
PROPERTIES
    LifePromise
    Settles
CHECK_DEADLOCK FALSE
