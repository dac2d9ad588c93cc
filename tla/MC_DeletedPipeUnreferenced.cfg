CONSTANTS
    Track <- MC_Track
    MAX_CONNECTION_ATTEMPTS <- MC_MaxAttempts
    BufferChunks <- MC_BufferChunks
    MaxFrames <- MC_MaxFrames
    MaxSockets <- MC_MaxSockets
    MaxConnErrors <- MC_MaxConnErrors
    MaxPeerCloses <- MC_MaxPeerCloses
    MaxCheckpoints <- MC_MaxCheckpoints
    MaxTexts <- MC_MaxTexts
    MaxClears <- MC_MaxClears
    Bidirectional = FALSE
    ConnectMayReturnNull = FALSE
    ApiCommands = {"stop", "hangup", "graceful"}
SPECIFICATION Spec
INVARIANT DeletedPipeUnreferenced
CHECK_DEADLOCK FALSE
