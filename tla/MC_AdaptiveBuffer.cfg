\* The manager refines PriorityBuffer and makes progress: two client threads,
\* one stream, every public method that changes a buffer, the monitor
\* running, positive dequeue timeouts, then the module unload.
CONSTANTS
    c1 = c1  c2 = c2  s1 = s1
    NoThread = NoThread  NoCtx = NoCtx
    Clients <- MC_Clients
    StreamIds <- MC_StreamIds
    Priorities <- MC_Priorities
    ExpiredInputs = {FALSE, TRUE}
    Timeouts = {100}
    Config <- MC_Config
    NetLatencies <- MC_Latencies
    NetLossPct <- MC_LossPct
    Methods = {"create", "destroy", "enqueue", "dequeue", "flush", "network", "adapt", "enable"}
    MaxCalls = 4
SPECIFICATION Spec
INVARIANT TypeOK
PROPERTIES AbstractBuffer CallsReturn UnloadCompletes
CHECK_DEADLOCK FALSE
