\* 3-bit sequence numbers: every pair of them, both sides of the wrap.
CONSTANTS
    StreamIds = {s1}
    Strategies = {"RETRANSMIT", "INTERPOLATION"}
    Width = 3
    SeqInputs <- MC_SeqInputs
    MaxCalls = 3
SPECIFICATION Spec
CHECK_DEADLOCK FALSE
INVARIANT DetectsEveryGap
