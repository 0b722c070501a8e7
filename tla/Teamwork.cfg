SPECIFICATION Spec
CONSTANTS
    Procs = {p1, p2}
    Messages = {m1, m2}
    MAX_ATTEMPTS = 2
    MaxMade = 2
    NoFile = NoFile
    Torn = Torn
    NoOne = NoOne
    Slugs = {s1, s2}
    First = s1
    Alias = S1
    Agents = {a1, a2}
    Names = {n1, n2}
    NoTeam = NoTeam
    Lead = Lead
    MAX_POLLS = 2
    Main = Main
    MaxKids = 2
    UserModes = {"plan", "bypass"}
    MaxWasted = 1
CONSTRAINT FewMishaps
INVARIANTS
    LostOnlyToStale
    TeammatesReached
    FullToolsReturn
    DelegationBounded
    ChildContained
PROPERTY KeepsPromise
\* A team that is over and a mailbox that is gone may stop.
CHECK_DEADLOCK FALSE
