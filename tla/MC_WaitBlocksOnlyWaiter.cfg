\* A dequeue_message with timeout 0 (the default) on an empty buffer waits
\* on data_available while it holds buffers_mutex_: the enqueue of the
\* other client, and the monitor's tick, can never take the mutex.
CONSTANTS
    c1 = c1  c2 = c2  s1 = s1
    NoThread = NoThread  NoCtx = NoCtx
    Clients <- MC_Clients
    StreamIds <- MC_StreamIds
    Priorities <- MC_Priorities
    ExpiredInputs = {FALSE}
    Timeouts = {0}
    Config <- MC_Config
    NetLatencies <- MC_Latencies
    NetLossPct <- MC_LossPct
    Methods = {"create", "enqueue", "dequeue"}
    MaxCalls = 3
SPECIFICATION Spec
PROPERTY WaitBlocksOnlyWaiter
CHECK_DEADLOCK FALSE
