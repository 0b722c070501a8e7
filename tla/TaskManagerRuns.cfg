SPECIFICATION Spec
CONSTANTS
    Tasks = {p, q}
    Teammates = {q}
    MaxPolls = 2
    MaxStarts = 3
    MaxRestarts = 0
INVARIANTS
    OneRunAtATime
CHECK_DEADLOCK FALSE
