\* JitterBuffer with the code's default delays (60 ms, 200 ms) in 20 ms
\* ticks; senders' timestamps are up to 40 ms old when the packet arrives.
CONSTANTS
    Priorities = {0, 2}
    InitialDelay = 3
    MaxDelay = 10
    Jitters = {1, 8}
    Offsets <- MC_PastOffsets
    MaxTime = 6
    MaxPackets = 3
SPECIFICATION Spec
INVARIANTS TypeOK PlayoutInOrder
