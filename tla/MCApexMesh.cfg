\* Two processes emit and check health over the same files.
CONSTANTS
    n1 = n1
    n2 = n2
    Procs = {p1, p2}
    Topology <- MCTopology
    Types = {alert}
    RunbookTriggered = RunbookTriggered
    AnyType = AnyType
    Listened = {alert, AnyType}
    Handlers = {h}
    Runbooks = {fire}
    MaxUses = 4
    MaxChecks = 2
    MaxDeaths = 1
CHECK_DEADLOCK FALSE
SYMMETRY MCSymmetry
SPECIFICATION Spec
INVARIANTS
    LossesAreTears
    FileKeepsProgramOrder
    StatusMatchesEntries
PROPERTIES
    HeardByThoseBefore
