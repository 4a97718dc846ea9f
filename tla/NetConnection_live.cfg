SPECIFICATION FairSpec
CONSTANTS
    MaxSequence = 6
    PacketSize = 1
    BufferSize = 2
    Window = 2
    MaxSent <- MCServerTalks
    MaxPackets <- MCThreeEach
    MaxReconnects = 0
    MaxReuses = 0
PROPERTIES EveryMessageArrives
