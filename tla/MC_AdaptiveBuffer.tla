------------------------- MODULE MC_AdaptiveBuffer -------------------------
(* AdaptiveBuffer instantiated for TLC.  Sizes are BufferConfigurations::  *)
(* Balanced scaled down by 64, so that max_size_bytes holds two messages   *)
(* of the 1024 bytes the statistics count per message.                    *)
EXTENDS AdaptiveBuffer

CONSTANTS c1, c2, s1

MC_Clients    == {c1, c2}
MC_StreamIds  == {s1}
MC_Config     == [initial |-> 32768 \div 64, min |-> 16384 \div 64,
                  max |-> 131072 \div 64]
MC_Priorities == {0, 2}
MC_Latencies  == {100, 300}
MC_LossPct    == {0, 25}
=============================================================================
