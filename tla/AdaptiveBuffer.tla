--------------------------- MODULE AdaptiveBuffer ---------------------------
(***************************************************************************)
(* AdaptiveBufferManager (adaptive_buffer.cpp) as mod_audio_stream runs   *)
(* it through adaptive_buffer_wrapper.cpp: one manager created at module   *)
(* load with its monitoring thread started, client threads calling its    *)
(* public methods (the wrapper's functions among them), and the module     *)
(* unload that stops the monitor and deletes the manager.                  *)
(*                                                                         *)
(* Every public method locks buffers_mutex_ for its whole body, so a body  *)
(* is one atomic step taken when the mutex is free.  The per-stream        *)
(* context_mutex is always taken after buffers_mutex_ and is therefore     *)
(* never contended: it is left out.  The one body that keeps               *)
(* buffers_mutex_ across steps is dequeue_message waiting on               *)
(* data_available, which releases only context_mutex.                      *)
(*                                                                         *)
(* Data is abstracted: a message is [prio, ts, expired] (its payload only  *)
(* sets its size, which the code estimates as 1024 bytes per message), a   *)
(* clock reading is a counter, a network condition is a latency and a      *)
(* loss rate in percent.                                                   *)
(***************************************************************************)
EXTENDS Integers, FiniteSets

CONSTANTS
    Clients,        \* threads calling the manager's public methods
    StreamIds,      \* stream ids they name
    Priorities,     \* message_priority_t values they use (0 = CRITICAL)
    ExpiredInputs,  \* whether a message's deadline may already have passed
    Timeouts,       \* dequeue_message timeouts in ms they pass
    Config,         \* the buffer_config_t sizes create_buffer is given
    NetLatencies,   \* network_condition_t.latency_ms values reported
    NetLossPct,     \* network_condition_t.packet_loss_rate values, percent
    Methods,        \* the methods they call
    MaxCalls,       \* bound: calls the clients make in all
    NoThread, NoCtx \* an unlocked mutex; a stream id with no buffer

ASSUME /\ Priorities \subseteq 0..4
       /\ ExpiredInputs \subseteq BOOLEAN
       /\ Timeouts \subseteq Int
       /\ Config \in [initial : Nat, min : Nat, max : Nat]
       /\ Methods \subseteq {"create", "destroy", "enqueue", "dequeue", "flush",
                             "network", "adapt", "enable"}
       /\ MaxCalls \in Nat

PRIORITY_HIGH == 1
BufferStates == {"NORMAL", "UNDERRUN", "OVERRUN", "ADAPTING", "RECOVERING",
                 "DRAINING"}
Ops == {"idle", "create", "destroy", "enqueue", "dequeue", "waiting", "flush",
        "network", "adapt", "enable"}
Messages == [prio : Priorities, ts : 0..MaxCalls, expired : BOOLEAN]

VARIABLES
    bufs,      \* buffers_: stream id -> BufferContext, or NoCtx
    mutex,     \* the thread holding buffers_mutex_ across steps, or NoThread
    op,        \* client -> the method it is in, "idle" between calls
    req,       \* client -> the arguments of that call
    active,    \* monitoring_active_
    mon,       \* the monitoring thread: "top" of its loop, "sleep", "tick", "done"
    unload,    \* adaptive_buffer_cleanup: "loaded", "joining", "deleting", "unloaded"
    clock,     \* system_clock::now(), as the count of stamps taken
    calls,     \* calls made so far (bounded by MaxCalls)
    rejected   \* history: every message enqueue_message refused

vars == <<bufs, mutex, op, req, active, mon, unload, clock, calls, rejected>>

-----------------------------------------------------------------------------
(* BufferContext, as create_buffer initialises it.                         *)
NewContext ==
    [queue |-> {}, state |-> "NORMAL", adaptive |-> TRUE,
     initial |-> Config.initial,
     count |-> 0, sizeB |-> 0, maxReached |-> 0, total |-> 0, dropped |-> 0,
     underruns |-> 0, overruns |-> 0, adaptations |-> 0, adapted |-> FALSE,
     latency |-> 100, lossPct |-> 0]

\* MessageComparator: a is below b in the heap, so b comes out first.
MessageComparatorNewestFirst(a, b) ==
    IF a.prio # b.prio THEN a.prio > b.prio ELSE a.ts < b.ts
MessageComparator(a, b) ==
    IF a.prio # b.prio THEN a.prio > b.prio ELSE a.ts > b.ts

\* std::priority_queue::top: an element no other element is above.
Top(q) == CHOOSE m \in q : \A o \in q : ~MessageComparator(m, o)

\* update_buffer_statistics: size is 1024 bytes per message.
UpdateBufferStatistics(x) ==
    LET size == Cardinality(x.queue) * 1024
    IN  [x EXCEPT !.sizeB = size,
                  !.maxReached = IF size > @ THEN size ELSE @]

CheckBufferConditionsRecount(x) ==
    CASE x.queue = {} -> [x EXCEPT !.state = "UNDERRUN", !.underruns = @ + 1]
      [] x.sizeB > Config.max -> [x EXCEPT !.state = "OVERRUN", !.overruns = @ + 1]
      [] OTHER -> [x EXCEPT !.state = "NORMAL"]

\* check_buffer_conditions (fire_buffer_event calls no callback: none is set).
CheckBufferConditions(x) ==
    CASE x.queue = {} ->
            [x EXCEPT !.state = "UNDERRUN",
                      !.underruns = IF x.state # "UNDERRUN" THEN @ + 1 ELSE @]
      [] x.sizeB > Config.max ->
            [x EXCEPT !.state = "OVERRUN",
                      !.overruns = IF x.state # "OVERRUN" THEN @ + 1 ELSE @]
      [] OTHER -> [x EXCEPT !.state = "NORMAL"]

\* calculate_optimal_buffer_size, in exact arithmetic then truncated.
CalculateOptimalBufferSize(x) ==
    LET num  == x.initial * (IF x.latency > 200 THEN 3 ELSE 2)
                          * (IF x.lossPct > 1 THEN 100 + 2 * x.lossPct ELSE 100)
        base == num \div 200
        low  == IF base < Config.min THEN Config.min ELSE base
    IN  IF low > Config.max THEN Config.max ELSE low

\* adapt_buffer_size, given whether adaptation_interval_ms has passed since
\* last_adaptation (always, before the first adaptation: it is the epoch).
AdaptBufferSize(x, elapsed) ==
    LET optimal == CalculateOptimalBufferSize(x)
    IN  IF (elapsed \/ ~x.adapted) /\ optimal # x.initial
        THEN [x EXCEPT !.initial = optimal, !.adaptations = @ + 1,
                       !.adapted = TRUE]
        ELSE x

\* should_drop_message, on the size the statistics last recorded.
ShouldDropMessage(x, m) ==
    IF x.sizeB >= Config.max THEN m.prio > PRIORITY_HIGH ELSE m.expired

\* dequeue_message waits with a timeout only for a positive one.
TimedNever(t) == FALSE
Timed(t) == t > 0

-----------------------------------------------------------------------------
NoReq == [s |-> CHOOSE s \in StreamIds : TRUE]   \* no call in progress

Init ==
    /\ bufs = [s \in StreamIds |-> NoCtx]
    /\ mutex = NoThread
    /\ op = [c \in Clients |-> "idle"]
    /\ req = [c \in Clients |-> NoReq]
    /\ active = TRUE        \* adaptive_buffer_init ran start_monitoring
    /\ mon = "top"
    /\ unload = "loaded"
    /\ clock = 0
    /\ calls = 0
    /\ rejected = {}

Invoke(c, o, r) ==
    /\ o \in Methods
    /\ op' = [op EXCEPT ![c] = o]
    /\ req' = [req EXCEPT ![c] = r]

\* A client enters a public method with its arguments.  A caller stamps a
\* message with system_clock::now() before enqueue_message locks.
Call(c) ==
    /\ op[c] = "idle"
    /\ unload = "loaded"
    /\ calls < MaxCalls
    /\ calls' = calls + 1
    /\ \E s \in StreamIds :
         \/ \E p \in Priorities, e \in ExpiredInputs :
              /\ Invoke(c, "enqueue", [s |-> s, m |-> [prio |-> p, ts |-> clock,
                                                     expired |-> e]])
              /\ clock' = clock + 1
         \/ /\ UNCHANGED clock
            /\ \/ \E o \in {"create", "destroy", "adapt"} : Invoke(c, o, [s |-> s])
               \/ \E t \in Timeouts : Invoke(c, "dequeue", [s |-> s, t |-> t])
               \/ \E p \in Priorities : Invoke(c, "flush", [s |-> s, min |-> p])
               \/ \E b \in BOOLEAN : Invoke(c, "enable", [s |-> s, b |-> b])
               \/ \E l \in NetLatencies, x \in NetLossPct :
                    Invoke(c, "network", [s |-> s, latency |-> l, lossPct |-> x])
    /\ UNCHANGED <<bufs, mutex, active, mon, unload, rejected>>

\* A method body runs when buffers_mutex_ is free and returns.
Return(c) == op' = [op EXCEPT ![c] = "idle"] /\ req' = [req EXCEPT ![c] = NoReq]
Body(c, o) == op[c] = o /\ mutex = NoThread /\ Return(c)
Ctx(c) == bufs[req[c].s]
Found(c) == Ctx(c) # NoCtx

CreateBuffer(c) ==
    /\ Body(c, "create")
    /\ bufs' = [bufs EXCEPT ![req[c].s] = NewContext]
    /\ UNCHANGED <<mutex, active, mon, unload, clock, calls, rejected>>

DestroyBuffer(c) ==
    /\ Body(c, "destroy")
    /\ bufs' = [bufs EXCEPT ![req[c].s] = NoCtx]
    /\ UNCHANGED <<mutex, active, mon, unload, clock, calls, rejected>>

EnqueueMessage(c) ==
    LET m == req[c].m
        x == Ctx(c)
    IN
    /\ Body(c, "enqueue")
    /\ IF ~Found(c) THEN UNCHANGED <<bufs, rejected>>
       ELSE IF ShouldDropMessage(x, m)
       THEN /\ bufs' = [bufs EXCEPT ![req[c].s].dropped = @ + 1]
            /\ rejected' = rejected \cup {m}
       ELSE LET pushed == [x EXCEPT !.queue = @ \cup {m},
                                    !.count = Cardinality(x.queue) + 1,
                                    !.total = @ + 1]
            IN  /\ bufs' = [bufs EXCEPT ![req[c].s] =
                              CheckBufferConditions(UpdateBufferStatistics(pushed))]
                /\ UNCHANGED rejected
    /\ UNCHANGED <<mutex, active, mon, unload, clock, calls>>
\* With a positive timeout, data_available.wait_for gives up and the method
\* returns false; a thread already waiting keeps buffers_mutex_ until then.
DequeueMessage(c) ==
    LET x == Ctx(c)
    IN
    /\ op[c] = "dequeue"
    /\ mutex = NoThread
    /\ IF ~Found(c)
       THEN Return(c) /\ UNCHANGED <<bufs, mutex>>
       ELSE IF x.queue # {}
       THEN /\ Return(c)
            /\ bufs' = [bufs EXCEPT ![req[c].s] = UpdateBufferStatistics(
                  [x EXCEPT !.queue = @ \ {Top(@)},
                            !.count = Cardinality(x.queue) - 1])]
            /\ UNCHANGED mutex
       \* wait / wait_for on data_available: releases context_mutex only
       ELSE /\ op' = [op EXCEPT ![c] = "waiting"]
            /\ mutex' = c
            /\ UNCHANGED <<bufs, req>>
    /\ UNCHANGED <<active, mon, unload, clock, calls, rejected>>

\* No other thread can take buffers_mutex_ to enqueue or destroy while the
\* waiter holds it, so its predicate stays false: only the timeout ends it,
\* and the method then finds the queue empty and returns false.
DequeueTimeout(c) ==
    /\ op[c] = "waiting"
    /\ Timed(req[c].t)
    /\ mutex' = NoThread
    /\ Return(c)
    /\ UNCHANGED <<bufs, active, mon, unload, clock, calls, rejected>>

FlushBuffer(c) ==
    LET x    == Ctx(c)
        kept == {m \in x.queue : m.prio <= req[c].min}
    IN
    /\ Body(c, "flush")
    /\ IF ~Found(c) THEN UNCHANGED bufs
       ELSE bufs' = [bufs EXCEPT ![req[c].s] =
                       [x EXCEPT !.queue = kept,
                                 !.dropped = @ + Cardinality(x.queue \ kept),
                                 !.count = Cardinality(kept),
                                 !.state = "DRAINING"]]
    /\ UNCHANGED <<mutex, active, mon, unload, clock, calls, rejected>>

UpdateNetworkCondition(c) ==
    LET x == [Ctx(c) EXCEPT !.latency = req[c].latency,
                            !.lossPct = req[c].lossPct]
    IN
    /\ Body(c, "network")
    /\ IF ~Found(c) THEN UNCHANGED bufs
       ELSE \E elapsed \in BOOLEAN :
              bufs' = [bufs EXCEPT ![req[c].s] =
                         IF x.adaptive THEN AdaptBufferSize(x, elapsed) ELSE x]
    /\ UNCHANGED <<mutex, active, mon, unload, clock, calls, rejected>>

AdaptBuffer(c) ==
    /\ Body(c, "adapt")
    /\ IF ~Found(c) THEN UNCHANGED bufs
       ELSE \E elapsed \in BOOLEAN :
              bufs' = [bufs EXCEPT ![req[c].s] = AdaptBufferSize(Ctx(c), elapsed)]
    /\ UNCHANGED <<mutex, active, mon, unload, clock, calls, rejected>>

SetAdaptiveEnabled(c) ==
    /\ Body(c, "enable")
    /\ IF ~Found(c) THEN UNCHANGED bufs
       ELSE bufs' = [bufs EXCEPT ![req[c].s].adaptive = req[c].b]
    /\ UNCHANGED <<mutex, active, mon, unload, clock, calls, rejected>>

-----------------------------------------------------------------------------
(* monitoring_worker: while (monitoring_active_) { sleep 1 s; lock; for    *)
(* every buffer: statistics, conditions, adaptation }.                     *)
KeepsRunningForever == TRUE
KeepsRunning == active

MonitorLoop ==
    /\ mon = "top"
    /\ mon' = IF KeepsRunning THEN "sleep" ELSE "done"
    /\ UNCHANGED <<bufs, mutex, op, req, active, unload, clock, calls, rejected>>

MonitorWake ==
    /\ mon = "sleep"
    /\ mon' = "tick"
    /\ UNCHANGED <<bufs, mutex, op, req, active, unload, clock, calls, rejected>>

MonitorTick ==
    /\ mon = "tick"
    /\ mutex = NoThread
    /\ \E elapsed \in [StreamIds -> BOOLEAN] :
         bufs' = [s \in StreamIds |->
                    IF bufs[s] = NoCtx THEN NoCtx
                    ELSE LET y == CheckBufferConditions(UpdateBufferStatistics(bufs[s]))
                         IN  IF y.adaptive THEN AdaptBufferSize(y, elapsed[s]) ELSE y]
    /\ mon' = "top"
    /\ UNCHANGED <<mutex, op, req, active, unload, clock, calls, rejected>>

(* adaptive_buffer_cleanup: stop_monitoring (clear the flag, join), then   *)
(* delete, whose destructor locks buffers_mutex_ and clears buffers_.      *)
(* Callers make no new calls once it starts, and the delete waits for the  *)
(* calls in flight (one still inside would use a freed manager).           *)
StopMonitoring ==
    /\ unload = "loaded"
    /\ active' = FALSE
    /\ unload' = "joining"
    /\ UNCHANGED <<bufs, mutex, op, req, mon, clock, calls, rejected>>

Joined ==
    /\ unload = "joining"
    /\ mon = "done"
    /\ unload' = "deleting"
    /\ UNCHANGED <<bufs, mutex, op, req, active, mon, clock, calls, rejected>>

DeleteManager ==
    /\ unload = "deleting"
    /\ mutex = NoThread
    /\ \A c \in Clients : op[c] = "idle"
    /\ bufs' = [s \in StreamIds |-> NoCtx]
    /\ unload' = "unloaded"
    /\ UNCHANGED <<mutex, op, req, active, mon, clock, calls, rejected>>

-----------------------------------------------------------------------------
Execute(c) ==
    \/ CreateBuffer(c) \/ DestroyBuffer(c) \/ EnqueueMessage(c)
    \/ DequeueMessage(c) \/ DequeueTimeout(c) \/ FlushBuffer(c)
    \/ UpdateNetworkCondition(c) \/ AdaptBuffer(c) \/ SetAdaptiveEnabled(c)

Next ==
    \/ \E c \in Clients : Call(c) \/ Execute(c)
    \/ MonitorLoop \/ MonitorWake \/ MonitorTick
    \/ StopMonitoring \/ Joined \/ DeleteManager

(* A thread whose method can run (buffers_mutex_ free) eventually runs it; *)
(* a timed wait eventually times out; the monitor and the unload keep      *)
(* running.  Calls and the unload itself are not forced to happen.         *)
Fairness ==
    /\ \A c \in Clients : WF_vars(Execute(c))
    /\ WF_vars(MonitorLoop) /\ WF_vars(MonitorWake) /\ WF_vars(MonitorTick)
    /\ WF_vars(Joined) /\ WF_vars(DeleteManager)

Spec == Init /\ [][Next]_vars /\ Fairness

-----------------------------------------------------------------------------
Contexts ==
    [queue : SUBSET Messages, state : BufferStates, adaptive : BOOLEAN,
     initial : Nat, count : 0..MaxCalls, sizeB : Nat, maxReached : Nat,
     total : 0..MaxCalls, dropped : 0..MaxCalls, underruns : 0..MaxCalls,
     overruns : 0..MaxCalls, adaptations : Nat, adapted : BOOLEAN,
     latency : Nat, lossPct : Nat]

TypeOK ==
    /\ \A s \in StreamIds : bufs[s] = NoCtx \/ bufs[s] \in Contexts
    /\ mutex \in Clients \cup {NoThread}
    /\ op \in [Clients -> Ops]
    /\ active \in BOOLEAN
    /\ mon \in {"top", "sleep", "tick", "done"}
    /\ unload \in {"loaded", "joining", "deleting", "unloaded"}
    /\ clock \in 0..MaxCalls /\ calls \in 0..MaxCalls
    /\ rejected \subseteq Messages

\* The manager keeps the promises of PriorityBuffer: only expired or
\* non-urgent messages are refused, dequeue_message hands out the most
\* urgent message by MessageComparator's order, flush_buffer keeps exactly
\* the messages at least as urgent as its bound, and no message is lost
\* otherwise.  The mapping is the queue of each live BufferContext.
Abs == INSTANCE PriorityBuffer
         WITH buffers <- [s \in StreamIds |->
                            IF bufs[s] = NoCtx THEN NoCtx ELSE bufs[s].queue],
              refused <- rejected,
              NoBuffer <- NoCtx
AbstractBuffer == Abs!Spec

\* Every call into the manager returns: no thread stays inside a method
\* (waiting for buffers_mutex_, or on data_available) forever.
CallsReturn == \A c \in Clients : op[c] # "idle" ~> op[c] = "idle"

\* A thread blocked in dequeue_message blocks only itself: while it waits
\* on data_available, every other call into the manager (enqueue_message,
\* whose notify_one would wake it, among them) and the monitoring thread's
\* tick still complete.  The code's wait releases context_mutex and keeps
\* buffers_mutex_, which each of them takes first.
WaitBlocksOnlyWaiter ==
    /\ \A c \in Clients :
          op[c] \in Ops \ {"idle", "dequeue", "waiting"} ~> op[c] = "idle"
    /\ mon = "tick" ~> mon = "top"

\* Module unload finishes: adaptive_buffer_cleanup's stop_monitoring joins
\* the monitoring thread and the manager is deleted.
UnloadCompletes == unload = "joining" ~> unload = "unloaded"

=============================================================================
