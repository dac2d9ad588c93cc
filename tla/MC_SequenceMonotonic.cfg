\* A bidirectional inbound stream with one checkpoint to report: the
\* write-replace thread numbers its playedStream while the lws thread
\* numbers start and media from the same counter.
CONSTANTS
    Track <- MC_Track
    MAX_CONNECTION_ATTEMPTS <- MC_MaxAttempts
    BufferChunks <- MC_BufferChunks
    MaxFrames = 1
    MaxSockets = 1
    MaxConnErrors = 0
    MaxPeerCloses = 0
    MaxCheckpoints = 1
    MaxTexts = 0
    MaxClears = 0
    Bidirectional = TRUE
    ConnectMayReturnNull = FALSE
    ApiCommands = {"stop"}
SPECIFICATION Spec
INVARIANT SequenceMonotonic
CHECK_DEADLOCK FALSE
