SPECIFICATION FairSpec
CONSTANTS
    MaxClients = 2
    MaxAttempts = 2
    MaxBatch = 2
    LogCap = 1
INVARIANTS StatusFollowsClient ShownCodeIsNewest
PROPERTY AttemptsSettle
