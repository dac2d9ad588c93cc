CONSTANTS
    Track <- MC_Track
    MAX_CONNECTION_ATTEMPTS <- MC_MaxAttempts
    BufferChunks <- MC_BufferChunks
    MaxFrames <- MC_MaxFrames
    MaxSockets = 1
    MaxConnErrors = 0
    MaxPeerCloses = 0
    MaxCheckpoints <- MC_MaxCheckpoints
    MaxTexts <- MC_MaxTexts
    MaxClears <- MC_MaxClears
    Bidirectional = FALSE
    ConnectMayReturnNull = FALSE
    ApiCommands = {"graceful"}
SPECIFICATION Spec
PROPERTY GracefulShutdownCompletes
CHECK_DEADLOCK FALSE
