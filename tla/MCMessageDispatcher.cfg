CONSTANTS
    plugin = plugin
    loop = loop
    m1 = m1
    m2 = m2
    u1 = u1
    None = None
    Threads <- MCThreads
    EventLoop = loop
    Msgs <- MCMsgs
    Urgent <- MCUrgent
    MaxRetries = 2

SPECIFICATION FairSpec

INVARIANTS
    NoLostWakeup
    StopIsSeen
    OneOwner
    NoLeakAfterClose

PROPERTIES
    QueueDrains
    CloseCompletes
    ImplementsQueue

CHECK_DEADLOCK FALSE
