CONSTANTS
    Documents <- MCDocuments
    NoDocument = NoDocument
    Capacity = 2
    MaxTime = 2
    MaxReports = 2
    MaxOthers = 0
    MaxPackets = 1
    MaxAcks = 2
    MaxDowns = 1
    MaxReboots = 0
    MayFail = FALSE
    Calm = FALSE
SPECIFICATION DeliverySpec
PROPERTIES
    DeletedWasAcked
