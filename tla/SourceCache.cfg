SPECIFICATION Spec
CONSTANTS
    r1 = r1
    r2 = r2
    s1 = s1
    s2 = s2
    g1 = g1
    g2 = g2
    g3 = g3
    e1 = e1
    b1 = b1
    p1 = p1
    p2 = p2
    z1 = z1
    z2 = z2
    Run = {r1, r2}
    Source = {s1, s2}
    Order <- MCOrder
    Seed = {z1, z2}
    Defaults <- MCDefaults
    Own <- MCOwn
    Row = {g1, g2, g3, e1, b1}
    Kind <- MCKind
    Stream <- MCStream
    Before <- MCBefore
    None = None
    Garbage = Garbage
INVARIANTS
    AnswersAreExtractions
    TempsAccounted
PROPERTY FinishedEntriesStay
