CONSTANTS
    d1 = d1
    d2 = d2
    NoDocument = NoDocument
    Documents <- MCDocuments
    XML_BUF_FILE_NUM = 4
SPECIFICATION RingFairSpec
INVARIANTS
    RingTypeOK
    SlotsConserved
    WriterOffUnread
    ReadIsStable
PROPERTIES
    RingIsFifo
    EveryFileRead
