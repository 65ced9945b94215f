CONSTANTS
    h1 = h1
    h2 = h2
    h3 = h3
    p1 = p1
    None = None
    Hosts <- MCHosts3
    Plugins <- MCPlugins
    MaxHeartbeats = 2

SPECIFICATION FairSpec

INVARIANTS
    NoSendIntoClosing
    NewFindsNoHandler
    SocketNotReplacedInUse
    ClosedEndsOwnConnection
    HeartbeatAnsweredToAsker

PROPERTIES
    ReportedIsClosed
    ImplementsSessions

CHECK_DEADLOCK FALSE
