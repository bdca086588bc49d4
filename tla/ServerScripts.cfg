SPECIFICATION Spec
CONSTANTS
    a = a
    b = b
    p1 = p1
    p2 = p2
    Shell = {a, b}
    Pid = {p1, p2}
    Port <- MCPort
    Job <- MCJob
    Polls = 1
    None = None
SYMMETRY Symmetry
INVARIANTS
    NoOrphan
    SingleServer
PROPERTIES
    VllmStopSparesOthers
    StoppedOrDying
