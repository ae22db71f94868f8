SPECIFICATION LinkFairSpec
CONSTANTS
    Tries = 2
    SelfCheck = 1
    HeartCycles = 1
    DogCycles = 1
    IdleReads = 0
    MaxFiles = 1
    MaxInbox = 1
    MaxPosts = 1
    MaxFaults = 1
PROPERTIES
    LinkSupervised
CHECK_DEADLOCK FALSE
