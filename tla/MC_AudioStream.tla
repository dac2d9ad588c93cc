--------------------------- MODULE MC_AudioStream ---------------------------
(* Model-checking instance of AudioStream: one stream of one call.        *)
EXTENDS AudioStream

MC_Track == "inbound"
\* The code's value: stream_utils.hpp MAX_CONNECTION_ATTEMPTS.
MC_MaxAttempts == 3
\* One chunk of room makes the full-buffer write failure reachable.
MC_BufferChunks == 1
MC_MaxFrames == 2
MC_MaxConnErrors == 4
MC_MaxPeerCloses == 1
MC_MaxCheckpoints == 1
MC_MaxTexts == 1
MC_MaxClears == 1
\* Every socket the bounded network can make: the first, one per failed
\* handshake and one per far-end close.
MC_MaxSockets == 1 + MC_MaxConnErrors + MC_MaxPeerCloses
=============================================================================
