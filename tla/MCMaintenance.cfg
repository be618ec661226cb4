SPECIFICATION FairSpec
CONSTANTS
    Clients = {c1, c2, c3}
    NoClient = NoClient
    ExecutorMayExit = TRUE
INVARIANT PromiseKept
INVARIANT OneTask
INVARIANT RunningClientIsActive
INVARIANT NoClientDuringReset
PROPERTY RequestEndsInReboot
PROPERTY UnlinkedForgets
