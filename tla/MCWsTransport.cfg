SPECIFICATION FairSpec
CONSTANTS
    Tasks = {reader, other}
    Reader = reader
    QueueCap = 1
    EventCap = 1
    MaxSends = 3
    MaxFrames = 3
INVARIANT EndIsTold
PROPERTIES IsAConnection SendsResolve DisconnectEnds
