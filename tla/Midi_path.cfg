SPECIFICATION Spec
CHECK_DEADLOCK FALSE
CONSTANTS
    Incoming <- MCBoth
    Outgoing <- MCOutgoing
    BufferSize = 36
    PacketSize = 16
    MaxMessages = 2
INVARIANTS
    ReceivedInOrder
    SentArrives
    BufferSuffices
    NumbersSurvive
