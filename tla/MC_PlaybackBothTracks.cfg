\* An 8 kHz call streaming both legs at 16 kHz: resampler_outbound is created
\* at start for the captured write leg, and storePayload uses it.
CONSTANTS
    CallRate = 8000
    StreamRate = 16000
    Track = "both"
    Inbound <- MC_Inbound
    MaxMessages = 6
SPECIFICATION Spec
INVARIANT PlaybackKeepsDuration
\* destroy_tech_pvt ends the session: nothing runs after it.
CHECK_DEADLOCK FALSE
