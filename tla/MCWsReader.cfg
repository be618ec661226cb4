SPECIFICATION Spec
CONSTANTS
    Responses <- ServerResponses
    MaxHandshake = 5
    Chunk = 5
    Frames <- ServerFrames
    MaxFrame = 2
    MaxMessage = 3
    MaxControl = 1
    MaxScript = 4
INVARIANTS MessagesAreExact RefusesExactlyIllegal MemoryIsBounded
