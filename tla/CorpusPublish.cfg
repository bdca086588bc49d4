SPECIFICATION FairSpec
CONSTANTS
    r1 = r1
    r2 = r2
    r3 = r3
    d1 = d1
    d2 = d2
    s1 = s1
    s2 = s2
    Run = {r1, r2}
    Domain = {d1, d2}
    Seed = {s1, s2}
    Job <- MCJob
    Manifest = manifest
    Release = release
    None = None
    Inherited <- MCInherited
INVARIANTS
    DestinationIsWhole
    NewestSurvives
    AbsentMeansHeld
    LoadsAreSnapshots
    LeavesNoLitter
PROPERTIES
    GapCloses
    ImplementsStore
