------------------------ MODULE MC_PacketLossRecovery ------------------------
(* PacketLossRecovery for TLC: callers pass every pair of sequence numbers. *)
EXTENDS PacketLossRecovery

MC_SeqInputs == SeqNums \X SeqNums
=============================================================================
