\* connect_client returns NULL: the pipe stays on pendingConnects while
\* its reconnect timer runs, and processPendingConnects picks it again.
CONSTANTS
    Track <- MC_Track
    MAX_CONNECTION_ATTEMPTS <- MC_MaxAttempts
    BufferChunks <- MC_BufferChunks
    MaxFrames <- MC_MaxFrames
    MaxSockets <- MC_MaxSockets
    MaxConnErrors <- MC_MaxConnErrors
    MaxPeerCloses <- MC_MaxPeerCloses
    MaxCheckpoints <- MC_MaxCheckpoints
    MaxTexts <- MC_MaxTexts
    MaxClears <- MC_MaxClears
    Bidirectional = FALSE
    ConnectMayReturnNull = TRUE
    ApiCommands = {"stop"}
SPECIFICATION Spec
INVARIANT VhdAssertHolds
CHECK_DEADLOCK FALSE
