SPECIFICATION Spec
CONSTANTS
    Boots = 2
    Phases <- MCPhases
    Sessions = 2
    Reports <- MCReports
    Reserves <- MCReserves
    None = None
INVARIANTS
    ServersAreStopped
    PhasesGetTheirRequests
    PlanIsLargest
CHECK_DEADLOCK FALSE
