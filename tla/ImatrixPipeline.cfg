SPECIFICATION ImatrixSpec
CONSTANTS
    Domains <- MCDomains
    Weights <- MCWeights
    Text <- MCText
    Modules <- MCModules
    Context = 2
    Limit = 3
    MaxRuns = 4
    Absent = Absent
INVARIANTS
    MatricesAreOfOneText
    AtMostOneIsStale
    MergedIsTheBlend
CHECK_DEADLOCK FALSE
