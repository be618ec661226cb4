SPECIFICATION FairSpec
CONSTANTS
    MaxRequests = 2
    MaxClients = 2
    NoOne = NoOne
    Other = Other
INVARIANTS ReplyIsTruthful GivenUpIsNotSent OneHeavyOperation
PROPERTY GivenUpTasksEnd
\* With PSRAM nothing is left to do once the requests and the clients are used up.
CHECK_DEADLOCK FALSE
