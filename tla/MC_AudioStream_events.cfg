CONSTANTS
    Track <- MC_Track
    MAX_CONNECTION_ATTEMPTS <- MC_MaxAttempts
    BufferChunks <- MC_BufferChunks
    MaxFrames = 0
    MaxSockets = 1
    MaxConnErrors = 0
    MaxPeerCloses = 0
    MaxCheckpoints = 1
    MaxTexts = 1
    MaxClears = 1
    Bidirectional = TRUE
    ConnectMayReturnNull = FALSE
    ApiCommands = {"send_text", "hangup"}
SPECIFICATION Spec
INVARIANT PlayedOnlyLiveCheckpoints
CHECK_DEADLOCK FALSE
