CONSTANTS
    READ_SIZE = 3
    MSG_SIZE = 4
    MaxLines = 3
    MaxLength = 5
    MaxLog = 3
    MaxQueue = 2
    Numbers = 4
    None = None
    HEADER_LENGTH_SIZE = 2
    BUFFER_SIZE = 5
    LOW_BYTE = 4
    MessageTypes <- MCTypes
    TARGET_AGENT_MESSAGE = "agent"
    Payloads <- MCPayloads
    MaxFrames = 3
    BYTE = 4
    MAX_HEADER_LENGTH = 3
    MaxTurns = 1
    HostFrames <- MCHostFrames
    AgentFrames <- MCAgentFrames
    Pids <- MCPids
    Tids <- MCTids
    Configured <- MCConfigured
    Watched <- MCWatched
    MaxStarts = 2
    MaxSamples = 2

SPECIFICATION Spec

INVARIANTS
    FirstLinesWhole
    FramesWhole
    HostFramesInTurn
    AgentFramesInTurn
    SampleTrue
    LogLinesInTurn
    NoLostWakeup
    CapturedInOrder

PROPERTIES
    LogLinesDispatched
    DbusStopReturns

CHECK_DEADLOCK FALSE
