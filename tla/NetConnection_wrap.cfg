SPECIFICATION Spec
CONSTANTS
    MaxSequence = 6
    PacketSize = 1
    BufferSize = 2
    Window = 2
    MaxSent <- MCOneWay
    MaxPackets <- MCTwoToServer
    MaxReconnects = 1
    MaxReuses = 1
INVARIANTS AwaitedChunkIsKept CurrentAckIsValid
PROPERTIES ImplementsChannel
