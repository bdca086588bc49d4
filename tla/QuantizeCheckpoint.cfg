SPECIFICATION Spec
CONSTANTS
    l1 = l1
    l2 = l2
    m1 = m1
    m2 = m2
    e1 = e1
    e2 = e2
    e3 = e3
    e9 = e9
    t1 = t1
    t2 = t2
    pad = pad
    code = code
    chat = chat
    None = None
    Layer = {l1, l2}
    Expert = {e1, e2, e3}
    TopK = 2
    Recipes <- MCRecipes
    Models <- MCModels
    Rows <- MCRows
INVARIANTS
    SavedPassedItsGates
    MeasurementIsExact
    ReportExplains
CHECK_DEADLOCK FALSE
