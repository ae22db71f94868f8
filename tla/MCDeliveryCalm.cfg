CONSTANTS
    Documents <- MCDocuments
    NoDocument = NoDocument
    Capacity = 2
    MaxTime = 2
    MaxReports = 3
    MaxOthers = 1
    MaxPackets = 1
    MaxAcks = 1
    MaxDowns = 1
    MaxReboots = 0
    MayFail = FALSE
    Calm = TRUE
SPECIFICATION DeliveryFairSpec
INVARIANTS
    NoReadingLost
PROPERTIES
    DeletedWasAcked
    DealComesBack
