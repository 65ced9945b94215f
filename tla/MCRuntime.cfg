CONSTANTS
    Plugins = {"p", "q"}
    MaxHosts = 2
    MaxMessages = 1
    None = "none"

SPECIFICATION Spec

INVARIANTS
    RunningPluginsHaveManager
    PluginsReadyWhenCalled

PROPERTY
    ShutdownEnds

CHECK_DEADLOCK FALSE
