SPECIFICATION Spec
CONSTANTS
    a = a
    b = b
    p1 = p1
    p2 = p2
    Shell = {a, b}
    Pid = {p1, p2}
    Port <- MCPort
    Job <- SglangJob
    Polls = 1
    None = None
PROPERTY ReadyMeansOwn
