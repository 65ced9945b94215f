CONSTANTS
    h1 = h1
    h2 = h2
    h3 = h3
    p1 = p1
    None = None
    Hosts <- MCHosts
    Plugins <- MCPlugins
    MaxHeartbeats = 0

SPECIFICATION FairSpec

PROPERTY
    ClientIsServed

CHECK_DEADLOCK FALSE
