SPECIFICATION FairSpec
CHECK_DEADLOCK FALSE
CONSTANTS
    o1 = o1
    o2 = o2
    NoOwner = NoOwner
    Owners <- MCOwners
    MaxTransfers = 2
    MaxPackets = 2
    MaxPlugs = 2
    Joined = TRUE
INVARIANTS
    NoDanglingTransfer
    OpenDeviceIsHeld
    DriverIsGivenBack
PROPERTIES
    ImplementsStream
    TransfersEnd
    PacketArrives
