CONSTANTS
    e1 = e1
    h1 = h1
    h2 = h2
    RsMeters <- MCRsMeters
    MbusMeters <- MCMbusMeters
    MaxRounds = 1
    MaxRequests = 1
SPECIFICATION CycleFairSpec
PROPERTIES
    RoundReported
CHECK_DEADLOCK FALSE
