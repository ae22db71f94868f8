\* CHECK_DEADLOCK is off because the uplink really can come to a halt: when
\* every file of the ring has lost its wake-up (see HaltedOnlyByDrops).
CONSTANTS
    XML_BUF_FILE_NUM = 3
    ManaTypes <- MCManaTypes
    XmlTypes <- MCXmlTypes
    DealTypes <- MCDealTypes
    Bodies <- MCBodies
    NoBody = 0
    Documents <- MCDocuments
    NoDocument = NoDocument
SPECIFICATION UplinkFairSpec
INVARIANTS
    UplinkTypeOK
    TurnConserved
    
    WakeupsBalanced
    SenderNotStranded
    CheckHandshake
    HaltedOnlyByDrops
PROPERTIES
    
    
    TurnComesBack
CHECK_DEADLOCK FALSE
