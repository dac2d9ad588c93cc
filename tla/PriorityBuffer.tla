--------------------------- MODULE PriorityBuffer ---------------------------
(***************************************************************************)
(* What AdaptiveBufferManager (adaptive_buffer.hpp) promises its callers,  *)
(* with no threads, locks, statistics or adaptation: one message store per *)
(* stream id, where                                                        *)
(*   - a message is refused only if it is expired or less urgent than      *)
(*     PRIORITY_HIGH ("PRIORITY_CRITICAL: Control messages, must be        *)
(*     delivered", "PRIORITY_HIGH: Real-time audio data");                 *)
(*   - a dequeue hands out the most urgent message held: the lowest        *)
(*     priority value, and among equal priorities the earliest timestamp   *)
(*     ("Higher priority first, then by timestamp for same priority");     *)
(*   - a flush keeps exactly the messages at least as urgent as its bound; *)
(*   - a message leaves the store only by a dequeue, a flush, or the store *)
(*     being destroyed or created anew.                                    *)
(* A message is a record [prio, ts, expired]: its priority, its timestamp *)
(* and whether its deadline had passed when it was offered.               *)
(***************************************************************************)
EXTENDS Integers, FiniteSets

CONSTANTS
    StreamIds,    \* the stream ids callers name
    Priorities,   \* the priority values callers use
    Messages,     \* every message callers can offer
    NoBuffer      \* the absence of a store

PRIORITY_HIGH == 1

VARIABLES
    buffers,   \* stream id -> the set of messages held, or NoBuffer
    refused    \* every message a store refused

\* m leaves before o: a lower priority value, or the same and an earlier stamp.
Before(m, o) == m.prio < o.prio \/ (m.prio = o.prio /\ m.ts < o.ts)

\* The most urgent message of a non-empty set of messages.
Urgent(q) == CHOOSE m \in q : \A o \in q \ {m} : Before(m, o)

Held(s) == buffers[s] # NoBuffer

Create(s) ==
    /\ buffers' = [buffers EXCEPT ![s] = {}]
    /\ UNCHANGED refused

Destroy(s) ==
    /\ Held(s)
    /\ buffers' = [buffers EXCEPT ![s] = NoBuffer]
    /\ UNCHANGED refused

DestroyAll ==
    /\ buffers' = [t \in StreamIds |-> NoBuffer]
    /\ UNCHANGED refused

Put(s, m) ==
    /\ Held(s)
    /\ buffers' = [buffers EXCEPT ![s] = @ \cup {m}]
    /\ UNCHANGED refused

Refuse(s, m) ==
    /\ Held(s)
    /\ m.prio > PRIORITY_HIGH \/ m.expired
    /\ refused' = refused \cup {m}
    /\ UNCHANGED buffers

Take(s) ==
    /\ Held(s)
    /\ buffers[s] # {}
    /\ buffers' = [buffers EXCEPT ![s] = @ \ {Urgent(@)}]
    /\ UNCHANGED refused

Flush(s, minPrio) ==
    /\ Held(s)
    /\ buffers' = [buffers EXCEPT ![s] = {m \in @ : m.prio <= minPrio}]
    /\ UNCHANGED refused

Init ==
    /\ buffers = [s \in StreamIds |-> NoBuffer]
    /\ refused = {}

Next ==
    \/ \E s \in StreamIds : Create(s) \/ Destroy(s) \/ Take(s)
    \/ \E s \in StreamIds, p \in Priorities : Flush(s, p)
    \/ \E s \in StreamIds, m \in Messages : Put(s, m) \/ Refuse(s, m)
    \/ DestroyAll

Spec == Init /\ [][Next]_<<buffers, refused>>

=============================================================================
