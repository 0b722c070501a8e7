SPECIFICATION Spec
CONSTANTS
    Paths = {f1}
    MaxStamp = 4
    MaxWrites = 3
    MaxVersions = 3
    MaxTurns = 3
    MAX_SNAPSHOTS = 2
    Names = {a}
    Ephemeral = {a}
    Root = Root
    MaxCommits = 2
    Procs = {p1, p2}
    NoOne = NoOne
    MaxLocks = 3
    MaxSaid = 5
    Ids = {i1, i2}
    Roots = {project, worktree}
    Nowhere = Nowhere
    Calls = {"build; look", "edit", "config", "outside", "plug-in", "wipe"}
    MaxRules = 1
    MaxMade = 3
    MaxUpdates = 1
    MaxShown = 1
    MaxFailures = 1
    Memories = {m1}
    MaxAsked = 3
    Agents = {a1, a2}
    MaxServers = 4
    MaxHooks = 2
    MaxInstalls = 2
    Texts = {t1, t2}
    NoSkill = NoSkill
CONSTRAINT Alone
INVARIANTS
    OverwritesSeen
    CheckpointsIntact
    WorktreesSafe
    MemorySafe
    ProcessesKept
    AnswersKept
    ContextKept
\* A project all of whose processes are dead, and bounds reached, may stop.
CHECK_DEADLOCK FALSE
