SPECIFICATION ExecutorSpec
CONSTANTS
    d = d
    r = r
    c = c
    f = f
    Tasks <- AllTasks
    Kind <- KindOf
    NoTask = NoTask
    MaxAborts = 1
    FeedInterval = 20
    MaxFailures = 12
    Timeout = 120
    SocketTimeout = 120
    Stalls = {10, 120}
INVARIANT RetryYields
\* All tasks are over, or the feeder is and time changes nothing more.
CHECK_DEADLOCK FALSE
