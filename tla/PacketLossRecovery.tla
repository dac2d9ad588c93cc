------------------------- MODULE PacketLossRecovery -------------------------
(***************************************************************************)
(* PacketLossRecovery (adaptive_buffer.cpp): a recovery strategy and, per  *)
(* stream id, counters of packets lost, recovered, retransmissions         *)
(* requested and interpolations performed.  Each method updates the        *)
(* counters under stats_mutex_, so each is one atomic step; initialize     *)
(* writes strategy_ without a lock, and the other methods read it first,   *)
(* so a call sees the strategy before or after a concurrent initialize,    *)
(* which the interleaving of steps covers.                                 *)
(*                                                                         *)
(* Sequence numbers are uint32_t, modelled with Width bits: arithmetic on  *)
(* them is modulo 2^Width, as it is modulo 2^32 in the code.  Frames are   *)
(* not modelled: interpolation changes only the counters.                  *)
(***************************************************************************)
EXTENDS Integers, Sequences, FiniteSets

CONSTANTS
    StreamIds,     \* stream ids the callers name
    Strategies,    \* recovery_strategy_t values initialize is given
    Width,         \* bits of a sequence number (32 in the code)
    SeqInputs,     \* (last_sequence, current_sequence) pairs callers pass
    MaxCalls       \* bound: calls made in all

ASSUME /\ Strategies \subseteq {"NONE", "RETRANSMIT", "FEC", "INTERPOLATION", "SILENCE"}
       /\ Width \in Nat \ {0}

SeqMod == 2 ^ Width
SeqNums == 0..(SeqMod - 1)

VARIABLES
    strategy,  \* strategy_
    stats,     \* recovery_stats_: stream id -> RecoveryStats counters
    detected,  \* the last detect_missing_packets call: [last, cur, missing]
    calls      \* calls made so far

vars == <<strategy, stats, detected, calls>>

NoStats == [lost |-> 0, recovered |-> 0, retrans |-> 0, interp |-> 0]

-----------------------------------------------------------------------------
\* The loop of detect_missing_packets: for (seq = last + 1; seq < current;
\* seq++) push seq.  The increment of last wraps; the loop stops before seq
\* could.
RECURSIVE MissingFrom(_, _)
MissingFrom(seq, current) ==
    IF seq < current THEN <<seq>> \o MissingFrom(seq + 1, current) ELSE <<>>

MissingPackets(last, current) == MissingFrom((last + 1) % SeqMod, current)

\* The reference: in serial-number order (RFC 1982), current is ahead of
\* last when its distance forward from last is below half the space, and
\* the missing packets are those strictly between them; a packet that is
\* not ahead (late or repeated) shows no loss.
Distance(last, current) == (current - last) % SeqMod
Ahead(last, current) == Distance(last, current) \in 1..(SeqMod \div 2 - 1)
SerialGap(last, current) ==
    IF Ahead(last, current)
    THEN [i \in 1..(Distance(last, current) - 1) |-> (last + i) % SeqMod]
    ELSE <<>>

\* RFC 1982 leaves two numbers half the space apart unordered.
Comparable(last, current) == Distance(last, current) # SeqMod \div 2

-----------------------------------------------------------------------------
Init ==
    /\ strategy = "NONE"            \* the constructor's RECOVERY_NONE
    /\ stats = [s \in StreamIds |-> NoStats]
    /\ detected = [last |-> 0, cur |-> 0, missing |-> <<>>]
    /\ calls = 0

Call == calls < MaxCalls /\ calls' = calls + 1

Initialize ==
    /\ Call
    /\ \E st \in Strategies : strategy' = st
    /\ UNCHANGED <<stats, detected>>

\* recovery_stats_[stream_id] creates zeroed counters on first use; they are
\* zero here from the start, which is the same.
DetectMissingPackets ==
    /\ Call
    /\ \E s \in StreamIds, in \in SeqInputs :
         LET missing == MissingPackets(in[1], in[2])
         IN  /\ detected' = [last |-> in[1], cur |-> in[2], missing |-> missing]
             /\ stats' = [stats EXCEPT ![s].lost = @ + Len(missing)]
    /\ UNCHANGED strategy

\* The caller passes the vector the last detection returned; the result is
\* whether the strategy is RETRANSMIT.
RequestRetransmission ==
    /\ Call
    /\ \E s \in StreamIds :
         stats' = [stats EXCEPT ![s].retrans = @ + Len(detected.missing)]
    /\ UNCHANGED <<strategy, detected>>

InterpolateMissingAudio ==
    /\ Call
    /\ strategy = "INTERPOLATION"   \* otherwise it returns false at once
    /\ \E s \in StreamIds :
         stats' = [stats EXCEPT ![s].interp = @ + 1, ![s].recovered = @ + 1]
    /\ UNCHANGED <<strategy, detected>>

Next ==
    \/ Initialize \/ DetectMissingPackets
    \/ RequestRetransmission \/ InterpolateMissingAudio

Spec == Init /\ [][Next]_vars

-----------------------------------------------------------------------------
\* For any two sequence numbers serial-number order compares,
\* detect_missing_packets returns the numbers it puts strictly between them:
\* the gap across the wrap of the uint32_t counter, and nothing for a late
\* or repeated packet.
DetectsEveryGap ==
    Comparable(detected.last, detected.cur) =>
        detected.missing = SerialGap(detected.last, detected.cur)

=============================================================================
