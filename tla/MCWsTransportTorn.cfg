SPECIFICATION Spec
CONSTANTS
    Tasks = {reader, other}
    Reader = reader
    QueueCap = 1
    EventCap = 1
    MaxSends = 2
    MaxFrames = 2
PROPERTY NothingAfterTorn
