SPECIFICATION ProbeSpec
CONSTANTS
    Expected <- MCExpected
    Responses <- MCResponses
    ColdLogs <- MCColdLogs
    WarmLogs <- MCWarmLogs
    Required = {"k", "v"}
    Absent = Absent
INVARIANTS
    VerdictIsEarned
    OmissionIsExcused
CHECK_DEADLOCK FALSE
