SPECIFICATION TransferFairSpec
CONSTANTS
    Sizes <- MCSizes
    FileTypes <- MCFileTypes
    LackLimit = 1
    MaxNet = 3
    MaxTransfers = 2
    MaxFaults = 1
INVARIANTS
    TransferTypeOK
    
PROPERTIES
    ReportsResume
CHECK_DEADLOCK FALSE
