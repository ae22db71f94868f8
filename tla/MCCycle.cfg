CONSTANTS
    e1 = e1
    h1 = h1
    h2 = h2
    RsMeters <- MCRsMeters
    MbusMeters <- MCMbusMeters
    MaxRounds = 2
    MaxRequests = 1
SPECIFICATION CycleFairSpec
INVARIANTS
    CycleTypeOK
    WakeupForBits
    ReportedComplete
PROPERTIES
    RoundReportedUnlessRaced
CHECK_DEADLOCK FALSE
