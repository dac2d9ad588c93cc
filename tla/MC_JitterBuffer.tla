--------------------------- MODULE MC_JitterBuffer ---------------------------
(* JitterBuffer for TLC: how far a sender's timestamp is from the receiver *)
(* clock when the packet is added, in 20 ms ticks.                         *)
EXTENDS JitterBuffer

\* Timestamps up to 40 ms old: a sender whose clock is not ahead.
MC_PastOffsets == {-2, -1, 0}
=============================================================================
