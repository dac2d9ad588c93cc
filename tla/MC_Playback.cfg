\* An 8 kHz call streaming inbound audio at 16 kHz: playback at 16 kHz is
\* resampled by the resampler storePayload creates.
CONSTANTS
    CallRate = 8000
    StreamRate = 16000
    Track = "inbound"
    Inbound <- MC_Inbound
    MaxMessages = 6
SPECIFICATION Spec
INVARIANT TypeOK PlaybackKeepsDuration
PROPERTY CheckpointFifo CheckpointReported
\* destroy_tech_pvt ends the session: nothing runs after it.
CHECK_DEADLOCK FALSE
