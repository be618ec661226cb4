SPECIFICATION HttpSpec
CONSTANTS
    Requests <- ClientRequests
    Heads <- ServerHeads
    Items <- ServerItems
    MaxHead = 3
    MaxTotal = 14
    MaxMeta = 6
    Piece = 3
    MaxItems = 4
INVARIANTS OutcomeIsExact MemoryIsBounded
PROPERTY RequestsEnd
