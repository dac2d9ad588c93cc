\* One stream over a network that fails handshakes and closes sockets.
\* MAX_CONNECTION_ATTEMPTS is 1 here (3 in stream_utils.hpp): the cap is
\* reached after two handshakes, so both the retry and the CONNECT_FAIL
\* branches happen with two connection errors.
CONSTANTS
    Track <- MC_Track
    MAX_CONNECTION_ATTEMPTS = 1
    BufferChunks <- MC_BufferChunks
    MaxFrames <- MC_MaxFrames
    MaxSockets = 4
    MaxConnErrors = 2
    MaxPeerCloses <- MC_MaxPeerCloses
    MaxCheckpoints <- MC_MaxCheckpoints
    MaxTexts <- MC_MaxTexts
    MaxClears <- MC_MaxClears
    Bidirectional = FALSE
    ConnectMayReturnNull = FALSE
    ApiCommands = {"stop", "hangup", "graceful", "pause"}
SPECIFICATION Spec
INVARIANT TypeOK StartStopAtMostOnce MediaInsideStream ConnectSuccessOnce SequenceMonotonic
PROPERTY DisconnectCompletes
CHECK_DEADLOCK FALSE
