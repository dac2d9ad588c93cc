----------------------------- MODULE MC_Playback -----------------------------
EXTENDS Playback

\* A media.play message with every field present.
MC_Play(ct, rate, size) ==
    [media |-> TRUE, payload |-> TRUE, contentType |-> ct, sampleRate |-> rate, size |-> size]
MC_NoPlay == [media |-> FALSE, payload |-> FALSE, contentType |-> None,
              sampleRate |-> NoRate, size |-> 0]
MC_Msg(e, named, p) == [event |-> e, named |-> named, play |-> p]

\* At an 8 kHz call a frame is 320 bytes.  L16 at the call rate that is
\* a frame and a half; L16 at 16 kHz that resamples to one frame; mu-law
\* that decodes to half a frame; mu-law at 16 kHz and a play without its
\* media object, both refused; named and unnamed checkpoints, a clear, and
\* an event the code does not know.
MC_Inbound ==
    { MC_Msg("media.play", FALSE, MC_Play("audio/x-l16", 8000, 480)),
      MC_Msg("media.play", FALSE, MC_Play("audio/x-l16", 16000, 640)),
      MC_Msg("media.play", FALSE, MC_Play("audio/x-mulaw", 8000, 80)),
      MC_Msg("media.play", FALSE, MC_Play("audio/x-mulaw", 16000, 80)),
      MC_Msg("media.play", FALSE, MC_NoPlay),
      MC_Msg("media.checkpoint", TRUE, MC_NoPlay),
      MC_Msg("media.checkpoint", FALSE, MC_NoPlay),
      MC_Msg("media.clear", FALSE, MC_NoPlay),
      MC_Msg("other", FALSE, MC_NoPlay) }

=============================================================================
