SPECIFICATION ReceptionFairSpec
CONSTANTS
    Bytes <- MCBytes
    XMLHead <- MCHead
    XMLEnd <- MCEnd
    Bodies <- MCBodies
    Garbage <- MCGarbage
    Broken <- MCBroken
    Pieces <- MCPieces
    Nul = "nul"
    MaxData = 8
    MaxRec = 5
    LongRead = 4
    IdleReads = 1
    RecSize = 5
    MaxTroubles = 1
INVARIANTS
    ReceptionTypeOK
    ReaderWoken
    MatchersExact
    DocumentsIntact
    DeafOnlyAfterError
PROPERTIES
    QueueIsFifo
    EveryDocumentHanded
CHECK_DEADLOCK FALSE
